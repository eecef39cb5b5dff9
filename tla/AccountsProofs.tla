--------------------------- MODULE AccountsProofs ---------------------------
(***************************************************************************)
(* Proofs about Accounts, for any number of accounts, sessions, requests   *)
(* served at once, client addresses and links.                             *)
(***************************************************************************)
EXTENDS Accounts, FiniteSetTheorems, SequenceTheorems, TLAPS

-----------------------------------------------------------------------------
(* The inductive invariant                                                 *)

(* What a request under way has read, `exist' being the accounts there are. *)
RequestOK(q, exist) ==
  /\ q.step \in {"register", "signed", "check", "toggle", "redeem", "redeemed"} => q.user \in Users
  /\ q.step \in {"signed", "check", "toggle"} => q.sid \in Sessions /\ exist # {}
  /\ q.step = "toggle" => q.target \in exist
  /\ q.step = "login" => q.target \in Users /\ q.ip \in Addresses
  /\ q.step \in {"redeem", "redeemed"} => q.ip \in Addresses

RequestsOK == \A r \in Requests : RequestOK(request[r], Members)

(* The open registration made no account, or the only one.                 *)
FoundersExist == founders <= 1 /\ (founders = 1 => Members # {})

(* The type invariant by the tables and the maps it is about.              *)
AccountRows ==
  /\ role \in [Users -> Roles \cup {"none"}]
  /\ active \subseteq Users /\ temporary \subseteq Users /\ lapsed \subseteq temporary
  /\ hash \in [Users -> Hashes] /\ passwords \in Hashes /\ founders \in Nat
  /\ active \subseteq Members
SessionRows == session \in [Sessions -> SessionRow]
Counters ==
  /\ attempts \in [Addresses -> [Users -> Nat]]
  /\ checks \in [Users -> Nat] /\ resets \in [Addresses -> Nat]
LinkRows == links \in Seq(LinkRow) /\ Len(links) <= MaxLinks /\ spent \in [Users -> Nat]
RequestRows == request \in [Requests -> Request] /\ RequestsOK

AccountsInv == AccountRows /\ SessionRows /\ Counters /\ LinkRows /\ RequestRows

-----------------------------------------------------------------------------
(* Requests                                                                *)

\* Accounts are never deleted: what a request knows of them stays true.
LEMMA RequestStaysOK ==
  ASSUME NEW q, NEW exist, NEW later, exist \subseteq later, RequestOK(q, exist)
  PROVE  RequestOK(q, later)
BY DEF RequestOK

\* The requests after one of them has taken a step.
LEMMA OneRequest ==
  ASSUME RequestsOK, TypeOK, NEW r \in Requests, NEW q \in Request, RequestOK(q, Members'),
         Members \subseteq Members', request' = [request EXCEPT ![r] = q]
  PROVE  RequestsOK' /\ request' \in [Requests -> Request]
<1>1. request' \in [Requests -> Request]
  BY DEF TypeOK
<1>2. ASSUME NEW x \in Requests PROVE RequestOK(request'[x], Members')
  BY RequestStaysOK DEF RequestsOK, TypeOK
<1> QED BY <1>1, <1>2 DEF RequestsOK

LEMMA IdleIsOK == Idle \in Request /\ \A exist : RequestOK(Idle, exist)
BY AccountsAssumption DEF Idle, Request, Steps, NoSession, SessionRow, Hashes, RequestOK

LEMMA NoSessionIsARow == NoSession \in SessionRow
BY AccountsAssumption DEF NoSession, SessionRow, Hashes

\* The rows written by the operators on sessions.
LEMMA OpenedType ==
  ASSUME TypeOK, NEW s \in Sessions, NEW u \in Users, NEW stamp \in Hashes,
         NEW proved \in Hashes, NEW byLink \in BOOLEAN
  PROVE  Opened(s, u, stamp, proved, byLink) \in [Sessions -> SessionRow]
BY DEF Opened, TypeOK, SessionRow

LEMMA SavedType ==
  ASSUME TypeOK, NEW r \in Requests, request[r].sid \in Sessions
  PROVE  Saved(r) \in [Sessions -> SessionRow]
BY DEF Saved, TypeOK, Request

LEMMA ReopenedType ==
  ASSUME TypeOK, CanSetPassword, NEW s \in Sessions, NEW old \in Sessions, NEW u \in Users
  PROVE  Reopened(old, s, u) \in [Sessions -> SessionRow]
<1>1. passwords + 1 \in Hashes
  BY AccountsAssumption DEF CanSetPassword, TypeOK, Hashes
<1>2. Opened(s, u, passwords + 1, passwords + 1, FALSE) \in [Sessions -> SessionRow]
  BY <1>1, OpenedType
<1> QED BY <1>2, NoSessionIsARow DEF Reopened

\* The counts of the throttle.
LEMMA CountersType ==
  ASSUME NEW m \in [Addresses -> [Users -> Nat]], NEW a \in Addresses, NEW u \in Users
  PROVE  /\ Clear(m, a, u) \in [Addresses -> [Users -> Nat]]
         /\ RecordFailure(m, a, u) \in [Addresses -> [Users -> Nat]]
BY DEF Clear, RecordFailure

\* The links an account had go.
LEMMA GoneType ==
  ASSUME TypeOK, NEW ids
  PROVE  /\ Gone(ids) \in Seq(LinkRow)
         /\ Len(Gone(ids)) = Len(links)
         /\ DOMAIN Gone(ids) = DOMAIN links
<1>1. links \in [1..Len(links) -> LinkRow] /\ Len(links) \in Nat /\ DOMAIN links = 1..Len(links)
  BY DEF TypeOK
<1>2. \A l \in DOMAIN links : [links[l] EXCEPT !.state = "gone"] \in LinkRow
  BY <1>1 DEF LinkRow
<1>3. Gone(ids) \in [1..Len(links) -> LinkRow]
  BY <1>1, <1>2 DEF Gone
<1>4. Gone(ids) \in Seq(LinkRow)
  BY <1>1, <1>3, SeqDef
<1> QED BY <1>1, <1>3, <1>4, LenProperties

-----------------------------------------------------------------------------
(* Types                                                                   *)

LEMMA Typed == AccountsInv => TypeOK /\ RequestsOK
BY DEF AccountsInv, TypeOK, AccountRows, SessionRows, Counters, LinkRows, RequestRows

\* What a step leaves alone.
LEMMA SameParts ==
  ASSUME AccountsInv
  PROVE  /\ UNCHANGED accountVars => AccountRows' /\ Members' = Members
         /\ UNCHANGED session => SessionRows'
         /\ UNCHANGED throttleVars => Counters'
         /\ UNCHANGED <<links, spent>> => LinkRows'
         /\ UNCHANGED request /\ Members \subseteq Members' => RequestRows'
<1> USE DEF AccountsInv
<1>1. UNCHANGED accountVars => AccountRows' /\ Members' = Members
  BY DEF accountVars, AccountRows, Members
<1>2. ASSUME UNCHANGED request, Members \subseteq Members' PROVE RequestRows'
  BY <1>2, RequestStaysOK DEF RequestRows, RequestsOK
<1> QED BY <1>1, <1>2 DEF throttleVars, SessionRows, Counters, LinkRows

LEMMA NextRequest ==
  ASSUME AccountsInv, NEW r \in Requests, NEW q \in Request, RequestOK(q, Members'),
         Members \subseteq Members', request' = [request EXCEPT ![r] = q]
  PROVE  RequestRows'
BY OneRequest, Typed DEF RequestRows

LEMMA RequestEnds ==
  ASSUME AccountsInv, NEW r \in Requests, Members \subseteq Members',
         request' = [request EXCEPT ![r] = Idle]
  PROVE  RequestRows'
BY NextRequest, IdleIsOK

LEMMA SavedAtTheEnd ==
  ASSUME AccountsInv, NEW r \in Requests, Members \subseteq Members',
         request[r].sid \in Sessions, EndRequest(r)
  PROVE  SessionRows' /\ RequestRows'
BY RequestEnds, SavedType, Typed DEF EndRequest, SessionRows

\* A password set, by its owner or by someone else.
LEMMA PasswordSet ==
  ASSUME AccountsInv, CanSetPassword, NEW u \in Users,
         UpdatePassword(u) \/ SetTemporaryPassword(u)
  PROVE  AccountRows' /\ Members' = Members /\ passwords + 1 \in Hashes
<1>1. passwords + 1 \in Hashes
  BY AccountsAssumption DEF AccountsInv, CanSetPassword, AccountRows, Hashes
<1>2. Members' = Members
  BY DEF UpdatePassword, SetTemporaryPassword, Members
<1> QED BY <1>1, <1>2 DEF AccountsInv, UpdatePassword, SetTemporaryPassword, AccountRows

\* An account created.
LEMMA AccountCreated ==
  ASSUME AccountsInv, CanSetPassword, NEW u \in Users, NEW given \in Roles,
         role' = [role EXCEPT ![u] = given], active' = active \cup {u},
         hash' = [hash EXCEPT ![u] = passwords + 1], passwords' = passwords + 1,
         temporary' \in {temporary, temporary \cup {u}},
         lapsed' \in {lapsed, lapsed \ {u}}, founders' \in Nat
  PROVE  AccountRows' /\ Members' = Members \cup {u} /\ passwords + 1 \in Hashes
<1>1. passwords + 1 \in Hashes
  BY AccountsAssumption DEF AccountsInv, CanSetPassword, AccountRows, Hashes
<1>2. role' \in [Users -> Roles \cup {"none"}]
  BY DEF AccountsInv, AccountRows
<1>3. ASSUME NEW v \in Users PROVE v \in Members' <=> v \in Members \cup {u}
  BY DEF AccountsInv, AccountRows, Members, Roles
<1>4. Members' = Members \cup {u}
  BY <1>3 DEF Members
<1> QED BY <1>1, <1>2, <1>4 DEF AccountsInv, AccountRows

LEMMA InitialAccounts == Init => AccountsInv
<1> SUFFICES ASSUME Init PROVE AccountsInv
  OBVIOUS
<1>1. AccountRows
  BY AccountsAssumption DEF Init, AccountRows, Hashes
<1>2. SessionRows /\ RequestRows
  BY IdleIsOK, NoSessionIsARow DEF Init, SessionRows, RequestRows, RequestsOK
<1>3. Counters /\ LinkRows
  BY AccountsAssumption, EmptySeq DEF Init, Counters, LinkRows
<1> QED BY <1>1, <1>2, <1>3 DEF AccountsInv

\* The first account.
LEMMA FirstCreated ==
  ASSUME AccountsInv, NEW u \in Users, InsertFirst(u), CanSetPassword
  PROVE  AccountRows' /\ Members' = Members \cup {u} /\ passwords + 1 \in Hashes
<1>1. /\ "admin" \in Roles /\ founders' \in Nat
        /\ role' = [role EXCEPT ![u] = "admin"] /\ active' = active \cup {u}
        /\ hash' = [hash EXCEPT ![u] = passwords + 1] /\ passwords' = passwords + 1
        /\ temporary' = temporary /\ lapsed' = lapsed
  BY DEF AccountsInv, InsertFirst, Roles, AccountRows
<1> QED BY <1>1, AccountCreated

LEMMA BootstrapKeeps ==
  ASSUME AccountsInv, NEW u \in Users, BootstrapAdmin(u)
  PROVE  AccountsInv'
<1>1. InsertFirst(u) /\ CanSetPassword
      /\ UNCHANGED <<session, throttleVars, links, spent, request>>
  BY DEF BootstrapAdmin
<1>2. AccountRows' /\ Members \subseteq Members'
  BY <1>1, FirstCreated
<1> QED BY <1>1, <1>2, SameParts DEF AccountsInv

\* Registration.
LEMMA RegisterKeeps ==
  ASSUME AccountsInv, NEW r \in Requests,
         \/ \E u \in Users : RegisterStart(r, u)
         \/ \E s \in Sessions : RegisterFinish(r, s)
  PROVE  AccountsInv'
<1>1. ASSUME NEW u \in Users, RegisterStart(r, u) PROVE AccountsInv'
  <2> DEFINE q == [Idle EXCEPT !.step = "register", !.user = u]
  <2>0. q \in Request /\ q.step = "register" /\ q.user = u
    BY IdleIsOK DEF Request, Steps
  <2>1. RequestOK(q, Members')
    BY <2>0 DEF RequestOK
  <2>2. request' = [request EXCEPT ![r] = q]
    BY <1>1 DEF RegisterStart
  <2> HIDE DEF q
  <2>3. UNCHANGED <<accountVars, session, throttleVars, links, spent>>
    BY <1>1 DEF RegisterStart
  <2> QED BY <2>0, <2>1, <2>2, <2>3, NextRequest, SameParts DEF AccountsInv
<1>2. ASSUME NEW s \in Sessions, RegisterFinish(r, s) PROVE AccountsInv'
  <2>1. request[r].user \in Users /\ CanSetPassword
        /\ UNCHANGED <<throttleVars, links, spent>>
        /\ request' = [request EXCEPT ![r] = Idle]
    BY <1>2 DEF AccountsInv, RegisterFinish, RequestRows, RequestsOK, RequestOK
  <2>2. CASE StillEmpty
    <3>1. /\ InsertFirst(request[r].user)
          /\ session' = Opened(s, request[r].user, passwords + 1, passwords + 1, FALSE)
      BY <1>2, <2>2 DEF RegisterFinish
    <3>2. AccountRows' /\ Members \subseteq Members' /\ passwords + 1 \in Hashes
      BY <2>1, <3>1, FirstCreated
    <3>3. SessionRows'
      BY <2>1, <3>1, <3>2, OpenedType, Typed DEF SessionRows
    <3> QED BY <2>1, <3>2, <3>3, RequestEnds, SameParts DEF AccountsInv
  <2>3. CASE ~StillEmpty
    <3>1. UNCHANGED <<accountVars, session>>
      BY <1>2, <2>3 DEF RegisterFinish
    <3> QED BY <2>1, <3>1, RequestEnds, SameParts DEF AccountsInv
  <2> QED BY <2>2, <2>3
<1> QED BY <1>1, <1>2

\* Sign-in.
LEMMA LoginKeeps ==
  ASSUME AccountsInv, NEW r \in Requests,
         \/ \E a \in Addresses, u \in Users, right \in BOOLEAN : LoginStart(r, a, u, right)
         \/ \E s \in Sessions : LoginFinish(r, s)
  PROVE  AccountsInv'
<1>1. ASSUME NEW a \in Addresses, NEW u \in Users, NEW right \in BOOLEAN, LoginStart(r, a, u, right)
      PROVE  AccountsInv'
  <2> DEFINE q == [Idle EXCEPT !.step = "login", !.ip = a, !.target = u,
                               !.right = right, !.hash = IF right THEN hash[u] ELSE 0,
                               !.temporary = (right /\ u \in temporary)]
  <2>1. (IF right THEN hash[u] ELSE 0) \in Hashes /\ (right /\ u \in temporary) \in BOOLEAN
    BY AccountsAssumption DEF AccountsInv, AccountRows, Hashes
  <2>2. q \in Request /\ q.step = "login" /\ q.ip = a /\ q.target = u
    BY <2>1, IdleIsOK DEF Request, Steps
  <2>3. RequestOK(q, Members')
    BY <2>2 DEF RequestOK
  <2>4. request' = [request EXCEPT ![r] = q]
    BY <1>1 DEF LoginStart
  <2> HIDE DEF q
  <2>5. UNCHANGED <<accountVars, session, throttleVars, links, spent>>
    BY <1>1 DEF LoginStart
  <2> QED BY <2>2, <2>3, <2>4, <2>5, NextRequest, SameParts DEF AccountsInv
<1>2. ASSUME NEW s \in Sessions, LoginFinish(r, s) PROVE AccountsInv'
  <2> DEFINE q == request[r]
  <2>1. q \in Request /\ q.target \in Users /\ q.ip \in Addresses
    BY <1>2 DEF LoginFinish, AccountsInv, RequestRows, RequestsOK, RequestOK
  <2>2. SessionRows'
    <3>1. q.hash \in Hashes
      BY <2>1 DEF Request
    <3>2. session' \in {session, Opened(s, q.target, q.hash, q.hash, FALSE)}
      BY <1>2 DEF LoginFinish, Stamp
    <3>3. Opened(s, q.target, q.hash, q.hash, FALSE) \in [Sessions -> SessionRow]
      BY <2>1, <3>1, OpenedType, Typed
    <3> QED BY <3>2, <3>3 DEF AccountsInv, SessionRows
  <2>3. Counters'
    <3>1. /\ attempts' \in {Clear(attempts, q.ip, q.target), RecordFailure(attempts, q.ip, q.target)}
          /\ UNCHANGED <<checks, resets>>
      BY <1>2 DEF LoginFinish
    <3>2. attempts \in [Addresses -> [Users -> Nat]]
      BY DEF AccountsInv, Counters
    <3>3. attempts' \in [Addresses -> [Users -> Nat]]
      BY <2>1, <3>1, <3>2, CountersType
    <3> QED BY <3>1, <3>3 DEF AccountsInv, Counters
  <2>4. UNCHANGED accountVars /\ UNCHANGED <<links, spent>>
        /\ request' = [request EXCEPT ![r] = Idle]
    BY <1>2 DEF LoginFinish
  <2> QED BY <2>2, <2>3, <2>4, RequestEnds, SameParts DEF AccountsInv
<1> QED BY <1>1, <1>2

\* A session loaded.
LEMMA LoadKeeps ==
  ASSUME AccountsInv, NEW r \in Requests, NEW s \in Sessions, NEW dirty \in BOOLEAN,
         LoadSession(r, s, dirty)
  PROVE  AccountsInv'
<1> DEFINE row == session[s]
           u == row.user
           q == [Idle EXCEPT !.step = "signed", !.user = u, !.role = role[u],
                             !.hash = hash[u], !.temporary = (u \in temporary),
                             !.sid = s, !.dirty = dirty, !.row = IF dirty THEN row ELSE NoSession]
<1>1. UNCHANGED accountVars /\ UNCHANGED throttleVars /\ UNCHANGED <<links, spent>>
  BY DEF LoadSession
<1>2. CASE StillValid(row)
  <2>1. u \in Users /\ u \in Members /\ row \in SessionRow
    BY <1>2 DEF StillValid, AccountsInv, AccountRows, SessionRows
  <2>2. /\ role[u] \in Roles \cup {"none"} /\ hash[u] \in Hashes
        /\ (u \in temporary) \in BOOLEAN
        /\ (IF dirty THEN row ELSE NoSession) \in SessionRow
    BY <2>1, NoSessionIsARow DEF AccountsInv, AccountRows
  <2>3. q \in Request /\ q.step = "signed" /\ q.user = u /\ q.sid = s
    BY <2>1, <2>2, IdleIsOK DEF Request, Steps
  <2>4. request' = [request EXCEPT ![r] = q] /\ UNCHANGED session
    BY <1>2 DEF LoadSession
  <2> HIDE DEF q
  <2>5. Members' = Members
    BY <1>1, SameParts
  <2>6. RequestOK(q, Members')
    BY <2>1, <2>3, <2>5 DEF RequestOK
  <2> QED BY <1>1, <2>3, <2>4, <2>5, <2>6, NextRequest, SameParts DEF AccountsInv
<1>3. CASE ~StillValid(row)
  <2>1. SessionRows' /\ UNCHANGED request
    BY <1>3, NoSessionIsARow DEF LoadSession, AccountsInv, SessionRows
  <2> QED BY <1>1, <2>1, SameParts DEF AccountsInv
<1> QED BY <1>2, <1>3

\* What any request with a session knows.
LEMMA SignedKnows ==
  ASSUME AccountsInv, NEW r \in Requests,
         request[r].step \in {"signed", "check", "toggle"}
  PROVE  /\ request[r] \in Request /\ request[r].user \in Users
         /\ request[r].sid \in Sessions /\ Members # {}
BY DEF AccountsInv, RequestRows, RequestsOK, RequestOK

\* A page read, a sign-out, one's own password.
LEMMA OwnKeeps ==
  ASSUME AccountsInv, NEW r \in Requests,
         \/ ReadPage(r) \/ Logout(r) \/ RefuseOwnPassword(r)
         \/ \E right \in BOOLEAN : CheckOwnPassword(r, right)
         \/ \E s \in Sessions : ReplaceTemporary(r, s) \/ ChangeOwnPassword(r, s)
  PROVE  AccountsInv'
<1>1. CASE ReadPage(r)
  <2>1. request[r].sid \in Sessions /\ EndRequest(r)
        /\ UNCHANGED <<accountVars, throttleVars, links, spent>>
    BY <1>1, SignedKnows DEF ReadPage
  <2> QED BY <2>1, SavedAtTheEnd, SameParts DEF AccountsInv
<1>2. CASE Logout(r)
  <2>1. request[r].sid \in Sessions /\ request' = [request EXCEPT ![r] = Idle]
        /\ UNCHANGED <<accountVars, throttleVars, links, spent>>
    BY <1>2, SignedKnows DEF Logout
  <2>2. SessionRows'
    BY <1>2, <2>1, NoSessionIsARow DEF Logout, AccountsInv, SessionRows
  <2> QED BY <2>1, <2>2, RequestEnds, SameParts DEF AccountsInv
<1>3. CASE RefuseOwnPassword(r)
  <2>1. request[r].sid \in Sessions /\ request[r].user \in Users /\ EndRequest(r)
        /\ UNCHANGED <<accountVars, links, spent>>
    BY <1>3, SignedKnows DEF RefuseOwnPassword
  <2>2. Counters'
    BY <1>3, <2>1 DEF RefuseOwnPassword, RecordCheckFailure, AccountsInv, Counters
  <2> QED BY <2>1, <2>2, SavedAtTheEnd, SameParts DEF AccountsInv
<1>4. ASSUME NEW right \in BOOLEAN, CheckOwnPassword(r, right) PROVE AccountsInv'
  <2> DEFINE q == [request[r] EXCEPT !.step = "check", !.right = right]
  <2>1. /\ request[r] \in Request /\ request[r].user \in Users /\ request[r].sid \in Sessions
        /\ Members # {}
        /\ UNCHANGED <<accountVars, session, throttleVars, links, spent>>
    BY <1>4, SignedKnows DEF CheckOwnPassword, SignedIn
  <2>2. q \in Request /\ q.step = "check" /\ q.user = request[r].user /\ q.sid = request[r].sid
    BY <2>1 DEF Request, Steps
  <2>3. request' = [request EXCEPT ![r] = q]
    BY <1>4 DEF CheckOwnPassword, AccountsInv, RequestRows
  <2> HIDE DEF q
  <2>4. RequestOK(q, Members') /\ Members' = Members
    BY <2>1, <2>2, SameParts DEF RequestOK
  <2> QED BY <2>1, <2>2, <2>3, <2>4, NextRequest, SameParts DEF AccountsInv
<1>5. ASSUME NEW s \in Sessions, ReplaceTemporary(r, s) \/ ChangeOwnPassword(r, s)
      PROVE  AccountsInv'
  <2>1. request[r].sid \in Sessions /\ request[r].user \in Users
    BY <1>5, SignedKnows DEF ReplaceTemporary, ChangeOwnPassword
  <2>2. /\ CanSetPassword /\ UpdatePassword(request[r].user)
        /\ session' = Reopened(request[r].sid, s, request[r].user)
        /\ request' = [request EXCEPT ![r] = Idle] /\ UNCHANGED <<links, spent>>
    BY <1>5 DEF ReplaceTemporary, ChangeOwnPassword
  <2>3. AccountRows' /\ Members' = Members
    BY <2>1, <2>2, PasswordSet
  <2>4. SessionRows'
    BY <2>1, <2>2, ReopenedType, Typed DEF SessionRows
  <2>5. Counters'
    BY <1>5, <2>1 DEF ReplaceTemporary, ChangeOwnPassword, throttleVars, AccountsInv, Counters
  <2> QED BY <2>2, <2>3, <2>4, <2>5, RequestEnds, SameParts DEF AccountsInv
<1> QED BY <1>1, <1>2, <1>3, <1>4, <1>5

\* The team page.
LEMMA TeamKeeps ==
  ASSUME AccountsInv, NEW r \in Requests,
         \/ \E u \in Users : ToggleRead(r, u) \/ ResetMemberPassword(r, u)
         \/ \E u \in Users, g \in GivenRoles : AddMember(r, u, g) \/ UpdateRole(r, u, g)
         \/ ToggleActive(r)
  PROVE  AccountsInv'
<1>1. ASSUME NEW u \in Users, ToggleRead(r, u) PROVE AccountsInv'
  <2> DEFINE q == [request[r] EXCEPT !.step = "toggle", !.target = u, !.right = (u \notin active)]
  <2>1. /\ request[r] \in Request /\ request[r].user \in Users /\ request[r].sid \in Sessions
        /\ u \in Members
        /\ UNCHANGED <<accountVars, session, throttleVars, links, spent>>
    BY <1>1, SignedKnows DEF ToggleRead, ByAdmin, SignedIn
  <2>2. q \in Request /\ q.step = "toggle" /\ q.target = u /\ q.user = request[r].user
        /\ q.sid = request[r].sid
    BY <2>1 DEF Request, Steps
  <2>3. request' = [request EXCEPT ![r] = q]
    BY <1>1 DEF ToggleRead, AccountsInv, RequestRows
  <2> HIDE DEF q
  <2>4. RequestOK(q, Members') /\ Members' = Members
    BY <2>1, <2>2, SameParts DEF RequestOK
  <2> QED BY <2>1, <2>2, <2>3, <2>4, NextRequest, SameParts DEF AccountsInv
<1>2. ASSUME NEW u \in Users, ResetMemberPassword(r, u) PROVE AccountsInv'
  <2>1. /\ request[r].sid \in Sessions /\ CanSetPassword /\ SetTemporaryPassword(u) /\ EndRequest(r)
        /\ UNCHANGED <<throttleVars, links, spent>>
    BY <1>2, SignedKnows DEF ResetMemberPassword, ByAdmin, SignedIn
  <2>2. AccountRows' /\ Members' = Members
    BY <2>1, PasswordSet
  <2> QED BY <2>1, <2>2, SavedAtTheEnd, SameParts DEF AccountsInv
<1>3. ASSUME NEW u \in Users, NEW g \in GivenRoles, AddMember(r, u, g) PROVE AccountsInv'
  <2>1. /\ request[r].sid \in Sessions /\ CanSetPassword /\ Insert(u, g) /\ EndRequest(r)
        /\ UNCHANGED <<founders, throttleVars, links, spent>>
    BY <1>3, SignedKnows DEF AddMember, ByAdmin, SignedIn
  <2>2. /\ g \in Roles /\ founders' \in Nat
        /\ role' = [role EXCEPT ![u] = g] /\ active' = active \cup {u}
        /\ hash' = [hash EXCEPT ![u] = passwords + 1] /\ passwords' = passwords + 1
        /\ temporary' = temporary \cup {u} /\ lapsed' = lapsed \ {u}
    BY <2>1, AccountsAssumption DEF Insert, Roles, AccountsInv, AccountRows
  <2>3. AccountRows' /\ Members \subseteq Members'
    BY <2>1, <2>2, AccountCreated
  <2> QED BY <2>1, <2>3, SavedAtTheEnd, SameParts DEF AccountsInv
<1>4. ASSUME NEW u \in Users, NEW g \in GivenRoles, UpdateRole(r, u, g) PROVE AccountsInv'
  <2>1. /\ request[r].sid \in Sessions /\ EndRequest(r) /\ role[u] # "none"
        /\ role' \in {role, [role EXCEPT ![u] = g]}
        /\ UNCHANGED <<active, hash, temporary, lapsed, passwords, founders>>
        /\ UNCHANGED <<throttleVars, links, spent>>
    BY <1>4, SignedKnows DEF UpdateRole, ByAdmin, SignedIn
  <2>2. g \in Roles /\ g # "none"
    BY AccountsAssumption DEF Roles
  <2>3. role' \in [Users -> Roles \cup {"none"}]
    BY <2>1, <2>2 DEF AccountsInv, AccountRows
  <2>4. Members' = Members
    BY <2>1, <2>2 DEF AccountsInv, AccountRows, Members
  <2>5. AccountRows'
    BY <2>1, <2>3, <2>4 DEF AccountsInv, AccountRows
  <2> QED BY <2>1, <2>4, <2>5, SavedAtTheEnd, SameParts DEF AccountsInv
<1>5. CASE ToggleActive(r)
  <2>1. /\ request[r].sid \in Sessions /\ EndRequest(r)
        /\ request[r].target \in Members
        /\ UNCHANGED <<role, hash, temporary, lapsed, passwords, founders>>
        /\ UNCHANGED <<throttleVars, links, spent>>
    BY <1>5, SignedKnows DEF ToggleActive, AccountsInv, RequestRows, RequestsOK, RequestOK
  <2>2. Members' = Members
    BY <2>1 DEF Members
  <2>3. active' \subseteq active \cup {request[r].target}
    BY <1>5 DEF ToggleActive
  <2>4. AccountRows'
    BY <2>1, <2>2, <2>3 DEF AccountsInv, AccountRows, Members
  <2> QED BY <2>1, <2>2, <2>4, SavedAtTheEnd, SameParts DEF AccountsInv
<1> QED BY <1>1, <1>2, <1>3, <1>4, <1>5

\* The links for a forgotten password.
LEMMA LinkKeeps ==
  ASSUME AccountsInv,
         \/ \E r \in Requests : \/ UseUp(r)
                                \/ \E a \in Addresses, l \in DOMAIN links : RedeemStart(r, a, l)
                                \/ \E s \in Sessions : SignInByLink(r, s)
         \/ \E a \in Addresses, u \in Users, stale \in SUBSET DOMAIN links : Forgot(a, u, stale)
         \/ \E l \in DOMAIN links : LinkExpires(l)
  PROVE  AccountsInv'
<1>0. \A l \in DOMAIN links : links[l] \in LinkRow
  BY DEF AccountsInv, LinkRows
<1>1. ASSUME NEW r \in Requests, NEW a \in Addresses, NEW l \in DOMAIN links, RedeemStart(r, a, l)
      PROVE  AccountsInv'
  <2> DEFINE q == [Idle EXCEPT !.step = "redeem", !.ip = a, !.user = links[l].user]
  <2>1. links[l].user \in Users
    BY <1>0 DEF LinkRow
  <2>2. q \in Request /\ q.step = "redeem" /\ q.ip = a /\ q.user = links[l].user
    BY <2>1, IdleIsOK DEF Request, Steps
  <2>3. RequestOK(q, Members')
    BY <2>1, <2>2 DEF RequestOK
  <2>4. request' = [request EXCEPT ![r] = q]
    BY <1>1 DEF RedeemStart
  <2> HIDE DEF q
  <2>5. UNCHANGED <<accountVars, session, throttleVars, links, spent>>
    BY <1>1 DEF RedeemStart
  <2> QED BY <2>2, <2>3, <2>4, <2>5, NextRequest, SameParts DEF AccountsInv
<1>2. ASSUME NEW r \in Requests, UseUp(r) PROVE AccountsInv'
  <2> DEFINE u == request[r].user
             q == [request[r] EXCEPT !.step = "redeemed", !.hash = passwords + 1]
  <2>1. /\ u \in Users /\ request[r] \in Request /\ request[r].ip \in Addresses /\ CanSetPassword
        /\ UNCHANGED session /\ UNCHANGED throttleVars
    BY <1>2 DEF UseUp, AccountsInv, RequestRows, RequestsOK, RequestOK
  <2>2. CASE NothingToUseUp(u)
    BY <1>2, <2>1, <2>2, RequestEnds, SameParts DEF UseUp, AccountsInv
  <2>3. CASE ~NothingToUseUp(u)
    <3>1. /\ links' = Gone(RowsOf(u)) /\ UpdatePassword(u) /\ spent' = [spent EXCEPT ![u] = @ + 1]
          /\ request' = [request EXCEPT ![r].step = "redeemed", ![r].hash = passwords + 1]
      BY <1>2, <2>3 DEF UseUp
    <3>2. AccountRows' /\ Members' = Members /\ passwords + 1 \in Hashes
      BY <2>1, <3>1, PasswordSet
    <3>3. LinkRows'
      BY <2>1, <3>1, GoneType, Typed DEF AccountsInv, LinkRows
    <3>4. q \in Request /\ q.step = "redeemed" /\ q.ip = request[r].ip /\ q.user = u
      BY <2>1, <3>2 DEF Request, Steps
    <3>5. request' = [request EXCEPT ![r] = q]
      BY <3>1 DEF AccountsInv, RequestRows
    <3> HIDE DEF q
    <3>6. RequestOK(q, Members')
      BY <2>1, <3>4 DEF RequestOK
    <3> QED BY <2>1, <3>2, <3>3, <3>4, <3>5, <3>6, NextRequest, SameParts DEF AccountsInv
  <2> QED BY <2>2, <2>3
<1>3. ASSUME NEW r \in Requests, NEW s \in Sessions, SignInByLink(r, s) PROVE AccountsInv'
  <2> DEFINE q == request[r]
  <2>1. q.user \in Users /\ q \in Request /\ q.ip \in Addresses
    BY <1>3 DEF SignInByLink, AccountsInv, RequestRows, RequestsOK, RequestOK
  <2>2. q.hash \in Hashes /\ hash[q.user] \in Hashes
    BY <2>1 DEF Request, AccountsInv, AccountRows
  <2>3. /\ session' = Opened(s, q.user, hash[q.user], q.hash, TRUE)
        /\ attempts' = Clear(attempts, q.ip, q.user) /\ UNCHANGED <<checks, resets>>
        /\ request' = [request EXCEPT ![r] = Idle]
        /\ UNCHANGED <<accountVars, links, spent>>
    BY <1>3 DEF SignInByLink
  <2>4. SessionRows'
    BY <2>1, <2>2, <2>3, OpenedType, Typed DEF SessionRows
  <2>5. Counters'
    BY <2>1, <2>3, CountersType DEF AccountsInv, Counters
  <2> QED BY <2>3, <2>4, <2>5, RequestEnds, SameParts DEF AccountsInv
<1>4. ASSUME NEW a \in Addresses, NEW u \in Users, NEW stale \in SUBSET DOMAIN links,
             Forgot(a, u, stale)
      PROVE  AccountsInv'
  <2> DEFINE new == [user |-> u, state |-> "live"]
  <2>1. /\ Len(links) < MaxLinks /\ links' \in {Gone(stale), Append(Gone(stale), new)}
        /\ UNCHANGED <<accountVars, session, attempts, checks, spent, request>>
        /\ resets' = CountRequest(resets, a)
    BY <1>4 DEF Forgot
  <2>2. new \in LinkRow
    BY DEF LinkRow
  <2>3. Gone(stale) \in Seq(LinkRow) /\ Len(Gone(stale)) = Len(links)
    BY GoneType, Typed
  <2>4. Append(Gone(stale), new) \in Seq(LinkRow) /\ Len(Append(Gone(stale), new)) = Len(links) + 1
    BY <2>2, <2>3
  <2>5. LinkRows'
    <3>1. Len(links) \in Nat /\ MaxLinks \in Nat
      BY AccountsAssumption DEF AccountsInv, LinkRows
    <3>2. links' \in Seq(LinkRow) /\ Len(links') <= MaxLinks
      <4> HIDE DEF new
      <4>1. CASE links' = Gone(stale)
        BY <2>1, <2>3, <3>1, <4>1
      <4>2. CASE links' = Append(Gone(stale), new)
        BY <2>1, <2>4, <3>1, <4>2
      <4> QED BY <2>1, <4>1, <4>2
    <3> QED BY <2>1, <3>2 DEF AccountsInv, LinkRows
  <2>6. Counters'
    BY <2>1 DEF CountRequest, AccountsInv, Counters
  <2> QED BY <2>1, <2>5, <2>6, SameParts DEF AccountsInv
<1>5. ASSUME NEW l \in DOMAIN links, LinkExpires(l) PROVE AccountsInv'
  <2>1. /\ links' = [links EXCEPT ![l].state = "old"]
        /\ UNCHANGED <<accountVars, session, throttleVars, spent, request>>
    BY <1>5 DEF LinkExpires
  <2>2. [links[l] EXCEPT !.state = "old"] \in LinkRow
    BY <1>0 DEF LinkRow
  <2>3. links' \in Seq(LinkRow) /\ Len(links') = Len(links)
    BY <2>1, <2>2 DEF AccountsInv, LinkRows
  <2>4. LinkRows'
    BY <2>1, <2>3 DEF AccountsInv, LinkRows
  <2> QED BY <2>1, <2>4, SameParts DEF AccountsInv
<1> QED BY <1>1, <1>2, <1>3, <1>4, <1>5

\* The host and the passing of time.
LEMMA TimeKeeps ==
  ASSUME AccountsInv,
         \/ \E u \in Users : HostReset(u) \/ TemporaryLapses(u)
         \/ \E s \in Sessions : SessionExpires(s)
         \/ WindowPasses
  PROVE  AccountsInv'
<1>1. ASSUME NEW u \in Users, HostReset(u) PROVE AccountsInv'
  <2>1. /\ CanSetPassword /\ SetTemporaryPassword(u)
        /\ UNCHANGED <<session, throttleVars, links, spent, request>>
    BY <1>1 DEF HostReset
  <2>2. AccountRows' /\ Members' = Members
    BY <2>1, PasswordSet
  <2> QED BY <2>1, <2>2, SameParts DEF AccountsInv
<1>2. ASSUME NEW u \in Users, TemporaryLapses(u) PROVE AccountsInv'
  <2>1. AccountRows' /\ Members' = Members
    BY <1>2 DEF TemporaryLapses, AccountsInv, AccountRows, Members
  <2>2. UNCHANGED <<session, throttleVars, links, spent, request>>
    BY <1>2 DEF TemporaryLapses
  <2> QED BY <2>1, <2>2, SameParts DEF AccountsInv
<1>3. ASSUME NEW s \in Sessions, SessionExpires(s) PROVE AccountsInv'
  <2>1. SessionRows' /\ UNCHANGED <<accountVars, throttleVars, links, spent, request>>
    BY <1>3, NoSessionIsARow DEF SessionExpires, AccountsInv, SessionRows
  <2> QED BY <2>1, SameParts DEF AccountsInv
<1>4. CASE WindowPasses
  <2>1. UNCHANGED <<accountVars, session, links, spent, request>>
    BY <1>4 DEF WindowPasses
  <2>2. Counters'
    <3>1. /\ attempts \in [Addresses -> [Users -> Nat]]
          /\ checks \in [Users -> Nat] /\ resets \in [Addresses -> Nat]
      BY DEF AccountsInv, Counters
    <3>2. ASSUME NEW a \in Addresses, NEW u \in Users, attempts' = Forget(attempts, a, u)
          PROVE  attempts' \in [Addresses -> [Users -> Nat]]
      BY <3>1, <3>2, CountersType DEF Forget
    <3>3. ASSUME NEW u \in Users, checks' = [checks EXCEPT ![u] = 0] PROVE checks' \in [Users -> Nat]
      BY <3>1, <3>3
    <3>4. ASSUME NEW a \in Addresses, resets' = [resets EXCEPT ![a] = 0]
          PROVE  resets' \in [Addresses -> Nat]
      BY <3>1, <3>4
    <3> QED BY <1>4, <3>1, <3>2, <3>3, <3>4 DEF WindowPasses, Counters
  <2> QED BY <2>1, <2>2, SameParts DEF AccountsInv
<1> QED BY <1>1, <1>2, <1>3, <1>4

\* Every step keeps the invariant.
LEMMA AccountsStep == AccountsInv /\ [Next]_vars => AccountsInv'
<1> SUFFICES ASSUME AccountsInv, [Next]_vars PROVE AccountsInv'
  OBVIOUS
<1>1. CASE UNCHANGED vars
  BY <1>1, SameParts DEF vars, AccountsInv
<1>2. ASSUME NEW u \in Users, BootstrapAdmin(u) PROVE AccountsInv'
  BY <1>2, BootstrapKeeps
<1> QED BY <1>1, <1>2, RegisterKeeps, LoginKeeps, LoadKeeps, OwnKeeps, TeamKeeps, LinkKeeps,
           TimeKeeps DEF Next

LEMMA AccountsInvariant == Spec => []AccountsInv
BY InitialAccounts, AccountsStep, PTL DEF Spec

\* Types: every request, session and link under way names accounts that exist.
THEOREM TypeCorrect == Spec => []TypeOK
BY AccountsInvariant, Typed, PTL

-----------------------------------------------------------------------------
(* The administrators                                                      *)

\* One of several remains when one goes.
LEMMA AnotherRemains ==
  ASSUME NEW S, IsFiniteSet(S), Cardinality(S) > 1, NEW u
  PROVE  S \ {u} # {}
<1> SUFFICES ASSUME S \subseteq {u} PROVE FALSE
  OBVIOUS
<1>1. IsFiniteSet({u}) /\ Cardinality({u}) = 1
  BY FS_Singleton
<1>2. Cardinality(S) <= 1 /\ Cardinality(S) \in Nat
  BY <1>1, FS_Subset, FS_CardinalityType
<1> QED BY <1>2

LEMMA AdminsAreFinite == AccountsInv => IsFiniteSet(ActiveAdmins)
<1> SUFFICES ASSUME AccountsInv PROVE IsFiniteSet(ActiveAdmins)
  OBVIOUS
<1>1. ActiveAdmins \subseteq Users
  BY DEF AccountsInv, AccountRows, ActiveAdmins
<1> QED BY <1>1, FS_Subset, AccountsAssumption

\* A step that changes neither roles nor who is enabled.
LEMMA SameAdmins ==
  ASSUME AlwaysAnAdmin, UNCHANGED <<role, active>>
  PROVE  AlwaysAnAdmin'
BY DEF AlwaysAnAdmin, InstanceIsEmpty, Members, ActiveAdmins

\* The role of an administrator is taken only while another is enabled: the
\* condition is in the statement that writes (update_role).
LEMMA RoleTakenKeepsAnAdmin ==
  ASSUME AccountsInv, AlwaysAnAdmin, NEW r \in Requests, NEW u \in Users, NEW g \in GivenRoles,
         UpdateRole(r, u, g)
  PROVE  AlwaysAnAdmin'
<1>1. active' = active /\ u \in Members
  BY DEF UpdateRole, Members
<1>2. PICK v \in active : role[v] = "admin"
  BY <1>1 DEF AlwaysAnAdmin, InstanceIsEmpty, ActiveAdmins
<1>3. CASE ~MayTake(u, g)
  BY <1>1, <1>3, SameAdmins DEF UpdateRole
<1>4. CASE MayTake(u, g)
  <2>1. role' = [role EXCEPT ![u] = g] /\ role \in [Users -> Roles \cup {"none"}]
        /\ active \subseteq Users
    BY <1>4 DEF UpdateRole, AccountsInv, AccountRows
  <2>2. \E x \in active : role'[x] = "admin"
    <3>1. CASE g = "admin" \/ role[u] # "admin" \/ u \notin active
      BY <1>2, <2>1, <3>1
    <3>2. CASE Cardinality(ActiveAdmins) > 1
      <4>1. PICK x \in ActiveAdmins : x # u
        BY <3>2, AnotherRemains, AdminsAreFinite
      <4> QED BY <2>1, <4>1 DEF ActiveAdmins
    <3> QED BY <1>4, <3>1, <3>2 DEF MayTake
  <2> QED BY <1>1, <2>2 DEF AlwaysAnAdmin, ActiveAdmins
<1> QED BY <1>3, <1>4

\* So is an account disabled (set_active).
LEMMA ToggleKeepsAnAdmin ==
  ASSUME AccountsInv, AlwaysAnAdmin, NEW r \in Requests, ToggleActive(r)
  PROVE  AlwaysAnAdmin'
<1> DEFINE u == request[r].target
           enabled == request[r].right
<1>1. role' = role /\ Members # {}
  BY SignedKnows DEF ToggleActive
<1>2. PICK v \in active : role[v] = "admin"
  BY <1>1 DEF AlwaysAnAdmin, InstanceIsEmpty, ActiveAdmins
<1>3. CASE ~MaySet(u, enabled) \/ enabled
  BY <1>1, <1>2, <1>3 DEF ToggleActive, AlwaysAnAdmin, ActiveAdmins
<1>4. CASE MaySet(u, enabled) /\ ~enabled
  <2>1. active' = active \ {u}
    BY <1>4 DEF ToggleActive
  <2>2. \E x \in active \ {u} : role[x] = "admin"
    <3>1. CASE role[u] # "admin" \/ u \notin active
      BY <1>2, <3>1
    <3>2. CASE Cardinality(ActiveAdmins) > 1
      <4>1. PICK x \in ActiveAdmins : x # u
        BY <3>2, AnotherRemains, AdminsAreFinite
      <4> QED BY <4>1 DEF ActiveAdmins
    <3> QED BY <1>4, <3>1, <3>2 DEF MaySet
  <2> QED BY <1>1, <2>1, <2>2 DEF AlwaysAnAdmin, ActiveAdmins
<1> QED BY <1>3, <1>4

\* A member is added by a request of an account, so to an instance that has an
\* administrator.
LEMMA MemberKeepsAnAdmin ==
  ASSUME AccountsInv, AlwaysAnAdmin, NEW r \in Requests, NEW u \in Users, NEW g \in GivenRoles,
         AddMember(r, u, g)
  PROVE  AlwaysAnAdmin'
<1>1. Members # {} /\ role[u] = "none" /\ role' = [role EXCEPT ![u] = g] /\ active' = active \cup {u}
  BY SignedKnows DEF AddMember, ByAdmin, SignedIn, Insert
<1>2. PICK v \in active : role[v] = "admin"
  BY <1>1 DEF AlwaysAnAdmin, InstanceIsEmpty, ActiveAdmins
<1>3. role'[v] = "admin"
  BY <1>1, <1>2 DEF AccountsInv, AccountRows
<1> QED BY <1>1, <1>2, <1>3 DEF AlwaysAnAdmin, ActiveAdmins

\* The first account is an administrator.
LEMMA FirstIsAnAdmin ==
  ASSUME AccountsInv, NEW u \in Users, InsertFirst(u)
  PROVE  AlwaysAnAdmin'
<1>1. role' = [role EXCEPT ![u] = "admin"] /\ active' = active \cup {u}
  BY DEF InsertFirst
<1>2. role'[u] = "admin"
  BY <1>1 DEF AccountsInv, AccountRows
<1> QED BY <1>1, <1>2 DEF AlwaysAnAdmin, ActiveAdmins

\* Which steps change who administers.
LEMMA WhoAdministers ==
  ASSUME AccountsInv, Next
  PROVE  \/ UNCHANGED <<role, active, founders>>
         \/ \E u \in Users : InsertFirst(u) /\ Members = {}
         \/ \E r \in Requests : ToggleActive(r)
         \/ \E r \in Requests, u \in Users, g \in GivenRoles : AddMember(r, u, g) \/ UpdateRole(r, u, g)
<1>1. ASSUME NEW u \in Users, BootstrapAdmin(u) PROVE InsertFirst(u) /\ Members = {}
  BY <1>1 DEF BootstrapAdmin, InstanceIsEmpty
<1>2. ASSUME NEW r \in Requests, NEW s \in Sessions, RegisterFinish(r, s)
      PROVE  \/ UNCHANGED <<role, active, founders>>
             \/ \E u \in Users : InsertFirst(u) /\ Members = {}
  <2>1. request[r].user \in Users
    BY <1>2 DEF RegisterFinish, AccountsInv, RequestRows, RequestsOK, RequestOK
  <2> QED BY <1>2, <2>1 DEF RegisterFinish, StillEmpty, accountVars
<1>3. ASSUME NEW u \in Users, HostReset(u) \/ TemporaryLapses(u)
      PROVE  UNCHANGED <<role, active, founders>>
  BY <1>3 DEF HostReset, TemporaryLapses, SetTemporaryPassword
<1>4. ASSUME NEW r \in Requests,
             \/ \E u \in Users : RegisterStart(r, u) \/ ToggleRead(r, u) \/ ResetMemberPassword(r, u)
             \/ \E a \in Addresses, u \in Users, right \in BOOLEAN : LoginStart(r, a, u, right)
             \/ \E a \in Addresses, l \in DOMAIN links : RedeemStart(r, a, l)
             \/ \E s \in Sessions, dirty \in BOOLEAN : LoadSession(r, s, dirty)
             \/ \E s \in Sessions : \/ LoginFinish(r, s) \/ ReplaceTemporary(r, s)
                                    \/ ChangeOwnPassword(r, s) \/ SignInByLink(r, s)
             \/ \E right \in BOOLEAN : CheckOwnPassword(r, right)
             \/ ReadPage(r) \/ Logout(r) \/ RefuseOwnPassword(r) \/ UseUp(r)
      PROVE  UNCHANGED <<role, active, founders>>
  BY <1>4 DEF RegisterStart, ToggleRead, ResetMemberPassword, LoginStart, RedeemStart, LoadSession,
              LoginFinish, ReplaceTemporary, ChangeOwnPassword, SignInByLink, CheckOwnPassword,
              ReadPage, Logout, RefuseOwnPassword, UseUp, UpdatePassword, SetTemporaryPassword,
              accountVars
<1>5. ASSUME \/ \E a \in Addresses, u \in Users, stale \in SUBSET DOMAIN links : Forgot(a, u, stale)
             \/ \E s \in Sessions : SessionExpires(s)
             \/ \E l \in DOMAIN links : LinkExpires(l)
             \/ WindowPasses
      PROVE  UNCHANGED <<role, active, founders>>
  BY <1>5 DEF Forgot, SessionExpires, LinkExpires, WindowPasses, accountVars
<1> QED BY <1>1, <1>2, <1>3, <1>4, <1>5 DEF Next

\* Once an account exists, an enabled administrator does, for any number of
\* administrators who take each other's role or disable each other at once, on
\* rights they read before.
THEOREM AnAdminRemains == Spec => []AlwaysAnAdmin
<1>1. Init => AlwaysAnAdmin
  BY DEF Init, AlwaysAnAdmin, InstanceIsEmpty, Members
<1>2. AccountsInv /\ AlwaysAnAdmin /\ [Next]_vars => AlwaysAnAdmin'
  BY WhoAdministers, SameAdmins, FirstIsAnAdmin, ToggleKeepsAnAdmin, MemberKeepsAnAdmin,
     RoleTakenKeepsAnAdmin DEF vars, accountVars
<1> QED BY <1>1, <1>2, AccountsInvariant, PTL DEF Spec

\* However many people register on an empty instance at once, one account comes
\* out of it: the count is in the statement that inserts (insert_first).
THEOREM FoundedOnce == Spec => []OneFounder
<1>1. Init => FoundersExist
  BY DEF Init, FoundersExist
<1>2. AccountsInv /\ FoundersExist /\ [Next]_vars => FoundersExist'
  <2> SUFFICES ASSUME AccountsInv, FoundersExist, [Next]_vars PROVE FoundersExist'
    OBVIOUS
  <2>1. CASE UNCHANGED <<role, active, founders>>
    BY <2>1 DEF FoundersExist, Members
  <2>2. ASSUME NEW u \in Users, InsertFirst(u), Members = {} PROVE FoundersExist'
    <3>1. founders = 0 /\ founders' = 1
      BY <2>2 DEF FoundersExist, InsertFirst, AccountsInv, AccountRows
    <3>2. role'[u] = "admin"
      BY <2>2 DEF InsertFirst, AccountsInv, AccountRows
    <3> QED BY <3>1, <3>2 DEF FoundersExist, Members
  <2>3. ASSUME NEW r \in Requests,
               \/ ToggleActive(r)
               \/ \E u \in Users, g \in GivenRoles : AddMember(r, u, g) \/ UpdateRole(r, u, g)
        PROVE  FoundersExist'
    <3>1. founders' = founders /\ Members # {}
      BY <2>3, SignedKnows DEF ToggleActive, AddMember, UpdateRole, ByAdmin, SignedIn
    <3>2. \A x \in Users : role[x] # "none" => role'[x] # "none"
      BY <2>3, AccountsAssumption
         DEF ToggleActive, AddMember, UpdateRole, Insert, AccountsInv, AccountRows, Roles
    <3> QED BY <3>1, <3>2 DEF FoundersExist, Members
  <2>4. CASE UNCHANGED vars
    BY <2>1, <2>4 DEF vars, accountVars
  <2> QED BY <2>1, <2>2, <2>3, <2>4, WhoAdministers
<1>3. FoundersExist => OneFounder
  BY DEF FoundersExist, OneFounder
<1> QED BY <1>1, <1>2, <1>3, AccountsInvariant, PTL DEF Spec

-----------------------------------------------------------------------------
(* Sessions                                                                *)

(* A session that no link opened is tied to the password that opened it,   *)
(* and so is the copy a request saves at its end.                          *)
Tied(row) == row.byLink \/ row.stamp = row.proved
SessionsTied ==
  /\ \A s \in Sessions : Tied(session[s])
  /\ \A r \in Requests : Tied(request[r].row)

LEMMA NoneIsTied == Tied(NoSession) /\ Tied(Idle.row)
BY DEF Tied, NoSession, Idle

\* The session rows a step writes.
LEMMA OpenedIsTied ==
  ASSUME AccountsInv, SessionsTied, NEW s \in Sessions, NEW u, NEW stamp, NEW proved,
         NEW byLink, byLink \/ stamp = proved
  PROVE  \A x \in Sessions : Tied(Opened(s, u, stamp, proved, byLink)[x])
<1> DEFINE row == [user |-> u, stamp |-> stamp, proved |-> proved, byLink |-> byLink]
<1>1. Tied(row)
  BY DEF Tied
<1> HIDE DEF row
<1>2. Opened(s, u, stamp, proved, byLink) = [session EXCEPT ![s] = row]
  BY DEF Opened, row
<1> QED BY <1>1, <1>2 DEF SessionsTied, AccountsInv, SessionRows

LEMMA ReopenedIsTied ==
  ASSUME AccountsInv, SessionsTied, NEW s \in Sessions, NEW old \in Sessions, NEW u
  PROVE  \A x \in Sessions : Tied(Reopened(old, s, u)[x])
<1> DEFINE new == Opened(s, u, passwords + 1, passwords + 1, FALSE)
<1>1. \A x \in Sessions : Tied(new[x])
  BY OpenedIsTied
<1>2. DOMAIN new = Sessions
  BY DEF Opened, AccountsInv, SessionRows
<1> HIDE DEF new
<1>3. Reopened(old, s, u) = [new EXCEPT ![old] = NoSession]
  BY DEF Reopened, new
<1> QED BY <1>1, <1>2, <1>3, NoneIsTied

LEMMA SavedIsTied ==
  ASSUME AccountsInv, SessionsTied, NEW r \in Requests, request[r].sid \in Sessions
  PROVE  \A x \in Sessions : Tied(Saved(r)[x])
BY DEF Saved, SessionsTied, AccountsInv, SessionRows

LEMMA ClosedIsTied ==
  ASSUME AccountsInv, SessionsTied, NEW s \in Sessions
  PROVE  \A x \in Sessions : Tied([session EXCEPT ![s] = NoSession][x])
BY NoneIsTied DEF SessionsTied, AccountsInv, SessionRows

\* The copies requests hold: none is made but of a row.
LEMMA CopiesTied ==
  ASSUME AccountsInv, SessionsTied, NEW r \in Requests, NEW q, Tied(q.row),
         request' = [request EXCEPT ![r] = q]
  PROVE  \A x \in Requests : Tied(request'[x].row)
BY DEF SessionsTied, AccountsInv, RequestRows

LEMMA TiedStep == AccountsInv /\ SessionsTied /\ [Next]_vars => SessionsTied'
<1> SUFFICES ASSUME AccountsInv, SessionsTied, [Next]_vars PROVE SessionsTied'
  OBVIOUS
<1>1. ASSUME session' = session PROVE \A x \in Sessions : Tied(session'[x])
  BY <1>1 DEF SessionsTied
<1>2. ASSUME NEW r \in Requests, request' = [request EXCEPT ![r] = Idle]
      PROVE  \A x \in Requests : Tied(request'[x].row)
  BY <1>2, CopiesTied, NoneIsTied
<1>3. ASSUME NEW r \in Requests, request[r].sid \in Sessions, EndRequest(r) PROVE SessionsTied'
  BY <1>2, <1>3, SavedIsTied DEF EndRequest, SessionsTied
<1>4. ASSUME session' = session, request' = request PROVE SessionsTied'
  BY <1>4 DEF SessionsTied
<1>5. ASSUME NEW r \in Requests, NEW u \in Users, RegisterStart(r, u) PROVE SessionsTied'
  <2> DEFINE q == [Idle EXCEPT !.step = "register", !.user = u]
  <2>1. q.row = Idle.row
    BY DEF Idle
  <2> HIDE DEF q
  <2> QED BY <1>1, <1>5, <2>1, CopiesTied, NoneIsTied DEF RegisterStart, SessionsTied, q
<1>6. ASSUME NEW r \in Requests, NEW s \in Sessions, RegisterFinish(r, s) PROVE SessionsTied'
  BY <1>1, <1>2, <1>6, OpenedIsTied DEF RegisterFinish, SessionsTied
<1>7. ASSUME NEW r \in Requests, NEW a \in Addresses, NEW u \in Users, NEW right \in BOOLEAN,
             LoginStart(r, a, u, right)
      PROVE  SessionsTied'
  <2> DEFINE q == [Idle EXCEPT !.step = "login", !.ip = a, !.target = u,
                               !.right = right, !.hash = IF right THEN hash[u] ELSE 0,
                               !.temporary = (right /\ u \in temporary)]
  <2>1. q.row = Idle.row
    BY DEF Idle
  <2>2. request' = [request EXCEPT ![r] = q]
    BY <1>7 DEF LoginStart
  <2> HIDE DEF q
  <2> QED BY <1>1, <1>7, <2>1, <2>2, CopiesTied, NoneIsTied DEF LoginStart, SessionsTied
<1>8. ASSUME NEW r \in Requests, NEW s \in Sessions, LoginFinish(r, s) PROVE SessionsTied'
  BY <1>1, <1>2, <1>8, OpenedIsTied DEF LoginFinish, Stamp, SessionsTied
<1>9. ASSUME NEW r \in Requests, NEW s \in Sessions, NEW dirty \in BOOLEAN, LoadSession(r, s, dirty)
      PROVE  SessionsTied'
  <2>1. CASE StillValid(session[s])
    <3> DEFINE u == session[s].user
               q == [Idle EXCEPT !.step = "signed", !.user = u, !.role = role[u],
                                 !.hash = hash[u], !.temporary = (u \in temporary),
                                 !.sid = s, !.dirty = dirty,
                                 !.row = IF dirty THEN session[s] ELSE NoSession]
    <3>1. q.row = IF dirty THEN session[s] ELSE NoSession
      BY DEF Idle
    <3>2. request' = [request EXCEPT ![r] = q] /\ session' = session
      BY <1>9, <2>1 DEF LoadSession
    <3> HIDE DEF q
    <3>3. Tied(q.row)
      BY <3>1, NoneIsTied DEF SessionsTied
    <3> QED BY <1>1, <3>2, <3>3, CopiesTied DEF SessionsTied
  <2>2. CASE ~StillValid(session[s])
    BY <1>9, <2>2, ClosedIsTied DEF LoadSession, SessionsTied
  <2> QED BY <2>1, <2>2
<1>10. ASSUME NEW r \in Requests, ReadPage(r) \/ RefuseOwnPassword(r) PROVE SessionsTied'
  BY <1>3, <1>10, SignedKnows DEF ReadPage, RefuseOwnPassword
<1>11. ASSUME NEW r \in Requests, Logout(r) PROVE SessionsTied'
  BY <1>2, <1>11, SignedKnows, ClosedIsTied DEF Logout, SessionsTied
<1>12. ASSUME NEW r \in Requests, NEW s \in Sessions, ReplaceTemporary(r, s) \/ ChangeOwnPassword(r, s)
       PROVE  SessionsTied'
  BY <1>2, <1>12, SignedKnows, ReopenedIsTied DEF ReplaceTemporary, ChangeOwnPassword, SessionsTied
<1>13. ASSUME NEW r \in Requests, NEW right \in BOOLEAN, CheckOwnPassword(r, right) PROVE SessionsTied'
  BY <1>1, <1>13 DEF CheckOwnPassword, SessionsTied, AccountsInv, RequestRows, Request
<1>14. ASSUME NEW r \in Requests, NEW u \in Users, ToggleRead(r, u) PROVE SessionsTied'
  BY <1>1, <1>14 DEF ToggleRead, SessionsTied, AccountsInv, RequestRows, Request
<1>15. ASSUME NEW r \in Requests,
              \/ ToggleActive(r)
              \/ \E u \in Users : ResetMemberPassword(r, u)
              \/ \E u \in Users, g \in GivenRoles : AddMember(r, u, g) \/ UpdateRole(r, u, g)
       PROVE  SessionsTied'
  <2>1. request[r].sid \in Sessions /\ EndRequest(r)
    BY <1>15, SignedKnows DEF ToggleActive, ResetMemberPassword, AddMember, UpdateRole, ByAdmin, SignedIn
  <2> QED BY <1>3, <2>1
<1>16. ASSUME NEW r \in Requests, NEW a \in Addresses, NEW l \in DOMAIN links, RedeemStart(r, a, l)
       PROVE  SessionsTied'
  <2> DEFINE q == [Idle EXCEPT !.step = "redeem", !.ip = a, !.user = links[l].user]
  <2>1. q.row = Idle.row
    BY DEF Idle
  <2>2. request' = [request EXCEPT ![r] = q]
    BY <1>16 DEF RedeemStart
  <2> HIDE DEF q
  <2> QED BY <1>1, <1>16, <2>1, <2>2, CopiesTied, NoneIsTied DEF RedeemStart, SessionsTied
<1>17. ASSUME NEW r \in Requests, UseUp(r) PROVE SessionsTied'
  <2>1. session' = session
    BY <1>17 DEF UseUp
  <2>2. CASE NothingToUseUp(request[r].user)
    BY <1>1, <1>2, <1>17, <2>1, <2>2 DEF UseUp, SessionsTied
  <2>3. CASE ~NothingToUseUp(request[r].user)
    <3>1. request' = [request EXCEPT ![r].step = "redeemed", ![r].hash = passwords + 1]
      BY <1>17, <2>3 DEF UseUp
    <3> QED BY <1>1, <2>1, <3>1 DEF SessionsTied, AccountsInv, RequestRows, Request
  <2> QED BY <2>2, <2>3
<1>18. ASSUME NEW r \in Requests, NEW s \in Sessions, SignInByLink(r, s) PROVE SessionsTied'
  BY <1>2, <1>18, OpenedIsTied DEF SignInByLink, SessionsTied
<1>19. ASSUME NEW s \in Sessions, SessionExpires(s) PROVE SessionsTied'
  BY <1>19, ClosedIsTied DEF SessionExpires, SessionsTied
<1>20. ASSUME \/ \E u \in Users : BootstrapAdmin(u) \/ HostReset(u) \/ TemporaryLapses(u)
              \/ \E a \in Addresses, u \in Users, stale \in SUBSET DOMAIN links : Forgot(a, u, stale)
              \/ \E l \in DOMAIN links : LinkExpires(l)
              \/ WindowPasses \/ UNCHANGED vars
       PROVE  SessionsTied'
  BY <1>4, <1>20 DEF BootstrapAdmin, HostReset, TemporaryLapses, Forgot, LinkExpires, WindowPasses, vars
<1> QED BY <1>5, <1>6, <1>7, <1>8, <1>9, <1>10, <1>11, <1>12, <1>13, <1>14, <1>15, <1>16, <1>17,
           <1>18, <1>19, <1>20 DEF Next

\* A session let in was opened by typing the password its account has now,
\* whoever set one while it was being verified, and whatever copy of the session
\* a slower request saved back (stamp_credential, SqliteSessionStore::save).
THEOREM PasswordsLetIn == Spec => []LetInByItsPassword
<1>1. Init => SessionsTied
  BY NoneIsTied DEF Init, SessionsTied
<1>2. SessionsTied => LetInByItsPassword
  BY DEF SessionsTied, Tied, LetInByItsPassword, StillValid
<1> QED BY <1>1, <1>2, TiedStep, AccountsInvariant, PTL DEF Spec

-----------------------------------------------------------------------------
(* The passwords that may be tried                                         *)

(* The attempts let through and not yet counted.                           *)
Guessing(a, u) ==
  {r \in Requests : request[r].step = "login" /\ request[r].ip = a /\ request[r].target = u}
Checking(u) == {r \in Requests : request[r].step = "check" /\ request[r].user = u}

(* An attempt under way is paid for in advance.                            *)
GuessesPaid ==
  /\ \A a \in Addresses, u \in Users :
       attempts[a][u] + Cardinality(Guessing(a, u)) < MAX_ATTEMPTS + Cardinality(Requests)
  /\ \A u \in Users :
       checks[u] + Cardinality(Checking(u)) < MAX_ATTEMPTS + Cardinality(Requests)

(* What a step may do to a count and to the attempts not yet counted in it:*)
(* neither grows, one attempt is counted, or the count was under the limit.*)
Fair(count, pending, later, now) ==
  \/ later <= count /\ now \subseteq pending
  \/ later = count + 1 /\ \E r \in pending : now \subseteq pending \ {r}
  \/ later < MAX_ATTEMPTS

LEMMA FairKeepsTheBound ==
  ASSUME NEW count \in Nat, NEW later \in Nat,
         NEW pending \in SUBSET Requests, NEW now \in SUBSET Requests,
         Fair(count, pending, later, now),
         count + Cardinality(pending) < MAX_ATTEMPTS + Cardinality(Requests)
  PROVE  later + Cardinality(now) < MAX_ATTEMPTS + Cardinality(Requests)
<1>1. IsFiniteSet(pending) /\ IsFiniteSet(now) /\ Cardinality(now) <= Cardinality(Requests)
  BY AccountsAssumption, FS_Subset
<1>2. Cardinality(pending) \in Nat /\ Cardinality(now) \in Nat /\ Cardinality(Requests) \in Nat
  BY <1>1, AccountsAssumption, FS_CardinalityType
<1>3. MAX_ATTEMPTS \in Nat
  BY ThrottleAssumption
<1>4. CASE later <= count /\ now \subseteq pending
  <2>1. Cardinality(now) <= Cardinality(pending)
    BY <1>1, <1>4, FS_Subset
  <2> QED BY <1>2, <1>3, <1>4, <2>1
<1>5. ASSUME later = count + 1, NEW r \in pending, now \subseteq pending \ {r}
      PROVE  later + Cardinality(now) < MAX_ATTEMPTS + Cardinality(Requests)
  <2>1. IsFiniteSet(pending \ {r}) /\ Cardinality(pending \ {r}) = Cardinality(pending) - 1
    BY <1>1, FS_RemoveElement
  <2>2. Cardinality(now) <= Cardinality(pending) - 1
    BY <1>5, <2>1, FS_Subset
  <2> QED BY <1>2, <1>3, <1>5, <2>2
<1>6. CASE later < MAX_ATTEMPTS
  BY <1>1, <1>2, <1>3, <1>6
<1> QED BY <1>4, <1>5, <1>6 DEF Fair

\* A request whose step does not verify a password adds to no attempt.
LEMMA NoNewAttempt ==
  ASSUME AccountsInv, NEW r \in Requests, NEW q, request' = [request EXCEPT ![r] = q]
  PROVE  /\ q.step # "login" => \A a, u : Guessing(a, u)' \subseteq Guessing(a, u) \ {r}
         /\ q.step # "check" => \A u : Checking(u)' \subseteq Checking(u) \ {r}
BY DEF Guessing, Checking, AccountsInv, RequestRows

\* No count grows, and no attempt is let through.
LEMMA NothingTried ==
  ASSUME AccountsInv, NEW a, NEW u \in Users,
         attempts' = attempts /\ checks' = checks,
         Guessing(a, u)' \subseteq Guessing(a, u), Checking(u)' \subseteq Checking(u)
  PROVE  /\ a \in Addresses =>
              Fair(attempts[a][u], Guessing(a, u), attempts'[a][u], Guessing(a, u)')
         /\ Fair(checks[u], Checking(u), checks'[u], Checking(u)')
<1>1. (a \in Addresses => attempts[a][u] \in Nat) /\ checks[u] \in Nat
  BY DEF AccountsInv, Counters
<1> QED BY <1>1 DEF Fair

LEMMA TriesStep ==
  ASSUME AccountsInv, [Next]_vars, NEW a, NEW u \in Users
  PROVE  /\ a \in Addresses =>
              Fair(attempts[a][u], Guessing(a, u), attempts'[a][u], Guessing(a, u)')
         /\ Fair(checks[u], Checking(u), checks'[u], Checking(u)')
<1> DEFINE Goal == /\ a \in Addresses =>
                        Fair(attempts[a][u], Guessing(a, u), attempts'[a][u], Guessing(a, u)')
                   /\ Fair(checks[u], Checking(u), checks'[u], Checking(u)')
<1>a. /\ attempts \in [Addresses -> [Users -> Nat]] /\ checks \in [Users -> Nat]
      /\ request \in [Requests -> Request] /\ MAX_ATTEMPTS \in Nat
  BY ThrottleAssumption DEF AccountsInv, Counters, RequestRows
<1>b. Idle.step = "idle"
  BY DEF Idle
<1>1. ASSUME request' = request PROVE Guessing(a, u)' = Guessing(a, u) /\ Checking(u)' = Checking(u)
  BY <1>1 DEF Guessing, Checking
<1>2. ASSUME NEW r \in Requests, NEW q, request' = [request EXCEPT ![r] = q],
             q.step \notin {"login", "check"}, UNCHANGED throttleVars
      PROVE  Goal
  <2>1. Guessing(a, u)' \subseteq Guessing(a, u) /\ Checking(u)' \subseteq Checking(u)
    BY <1>2, NoNewAttempt
  <2> QED BY <1>2, <2>1, NothingTried DEF throttleVars
<1>3. ASSUME NEW r \in Requests, request' = [request EXCEPT ![r] = Idle], UNCHANGED throttleVars
      PROVE  Goal
  BY <1>2, <1>3, <1>b
<1>4. ASSUME request' = request, UNCHANGED throttleVars PROVE Goal
  BY <1>1, <1>4, NothingTried DEF throttleVars
<1>5. ASSUME NEW r \in Requests, NEW v \in Users, RegisterStart(r, v) PROVE Goal
  <2> DEFINE q == [Idle EXCEPT !.step = "register", !.user = v]
  <2>1. q.step = "register"
    BY DEF Idle
  <2>2. request' = [request EXCEPT ![r] = q] /\ UNCHANGED throttleVars
    BY <1>5 DEF RegisterStart
  <2> HIDE DEF q, Goal
  <2> QED BY <1>2, <2>1, <2>2
<1>6. ASSUME NEW r \in Requests, NEW b \in Addresses, NEW v \in Users, NEW right \in BOOLEAN,
             LoginStart(r, b, v, right)
      PROVE  Goal
  <2> DEFINE q == [Idle EXCEPT !.step = "login", !.ip = b, !.target = v,
                               !.right = right, !.hash = IF right THEN hash[v] ELSE 0,
                               !.temporary = (right /\ v \in temporary)]
  <2>1. q.step = "login" /\ q.ip = b /\ q.target = v
    BY DEF Idle
  <2>2. request' = [request EXCEPT ![r] = q] /\ attempts' = attempts /\ checks' = checks
        /\ attempts[b][v] < MAX_ATTEMPTS
    BY <1>6, <1>a DEF LoginStart, IsBlocked, throttleVars
  <2> HIDE DEF q
  <2>3. Checking(u)' \subseteq Checking(u)
    BY <2>1, <2>2, NoNewAttempt
  <2>4. CASE a = b /\ u = v
    BY <1>a, <2>2, <2>3, <2>4 DEF Fair
  <2>5. CASE ~(a = b /\ u = v)
    <3>1. Guessing(a, u)' \subseteq Guessing(a, u)
      BY <1>a, <2>1, <2>2, <2>5 DEF Guessing
    <3> QED BY <2>2, <2>3, <3>1, NothingTried
  <2> QED BY <2>4, <2>5
<1>7. ASSUME NEW r \in Requests, NEW s \in Sessions, LoginFinish(r, s) PROVE Goal
  <2> DEFINE b == request[r].ip
             v == request[r].target
  <2>1. r \in Guessing(b, v) /\ b \in Addresses /\ v \in Users
    BY <1>7 DEF LoginFinish, Guessing, AccountsInv, RequestRows, RequestsOK, RequestOK
  <2>2. /\ Guessing(a, u)' \subseteq Guessing(a, u) \ {r} /\ Checking(u)' \subseteq Checking(u)
        /\ checks' = checks
    BY <1>7, <1>b, NoNewAttempt DEF LoginFinish
  <2>3. attempts' = Clear(attempts, b, v) \/ attempts' = RecordFailure(attempts, b, v)
    BY <1>7 DEF LoginFinish
  <2> HIDE DEF b, v
  <2>4. Fair(checks[u], Checking(u), checks'[u], Checking(u)')
    BY <1>a, <2>2 DEF Fair
  <2>5. CASE a = b /\ u = v
    <3>1. attempts'[a][u] = 0 \/ attempts'[a][u] = attempts[a][u] + 1
      BY <1>a, <2>1, <2>3, <2>5 DEF Clear, RecordFailure
    <3> QED BY <1>a, <2>1, <2>2, <2>4, <2>5, <3>1, ThrottleAssumption DEF Fair
  <2>6. CASE ~(a = b /\ u = v)
    <3>1. a \in Addresses => attempts'[a][u] = attempts[a][u]
      BY <1>a, <2>1, <2>3, <2>6 DEF Clear, RecordFailure
    <3> QED BY <1>a, <2>2, <2>4, <3>1 DEF Fair
  <2> QED BY <2>5, <2>6
<1>8. ASSUME NEW r \in Requests, NEW s \in Sessions, NEW dirty \in BOOLEAN, LoadSession(r, s, dirty)
      PROVE  Goal
  <2> DEFINE w == session[s].user
             q == [Idle EXCEPT !.step = "signed", !.user = w, !.role = role[w],
                               !.hash = hash[w], !.temporary = (w \in temporary),
                               !.sid = s, !.dirty = dirty,
                               !.row = IF dirty THEN session[s] ELSE NoSession]
  <2>1. q.step = "signed"
    BY DEF Idle
  <2>2. request' = [request EXCEPT ![r] = q] \/ request' = request
    BY <1>8 DEF LoadSession
  <2>3. UNCHANGED throttleVars
    BY <1>8 DEF LoadSession
  <2> HIDE DEF q, Goal
  <2> QED BY <1>2, <1>4, <2>1, <2>2, <2>3
<1>9. ASSUME NEW r \in Requests, NEW right \in BOOLEAN, CheckOwnPassword(r, right) PROVE Goal
  <2>0. request[r].step = "signed" /\ request[r].user \in Users
    BY <1>9, SignedKnows DEF CheckOwnPassword, SignedIn
  <2>a. request' = [request EXCEPT ![r] = [[request[r] EXCEPT !.step = "check"] EXCEPT !.right = right]]
    BY <1>9, <1>a DEF CheckOwnPassword
  <2>b. checks[request[r].user] < MAX_ATTEMPTS
    BY <1>9, <1>a, <2>0 DEF CheckOwnPassword, IsCheckBlocked
  <2>c. attempts' = attempts /\ checks' = checks
    BY <1>9 DEF CheckOwnPassword, throttleVars
  <2>1. /\ request' = [request EXCEPT ![r] = [[request[r] EXCEPT !.step = "check"] EXCEPT !.right = right]]
        /\ attempts' = attempts /\ checks' = checks /\ request[r].user \in Users
        /\ checks[request[r].user] < MAX_ATTEMPTS
    BY <2>0, <2>a, <2>b, <2>c
  <2>2. request'[r].step = "check" /\ request'[r].user = request[r].user
    BY <1>a, <2>1 DEF Request
  <2>3. \A x \in Requests \ {r} : request'[x] = request[x]
    BY <1>a, <2>1
  <2>4. Guessing(a, u)' \subseteq Guessing(a, u)
    BY <2>2, <2>3 DEF Guessing
  <2>5. CASE u = request[r].user
    BY <1>a, <2>1, <2>4, <2>5 DEF Fair
  <2>6. CASE u # request[r].user
    <3>1. Checking(u)' \subseteq Checking(u)
      BY <2>2, <2>3, <2>6 DEF Checking
    <3> QED BY <2>1, <2>4, <3>1, NothingTried
  <2> QED BY <2>5, <2>6
<1>10. ASSUME NEW r \in Requests, RefuseOwnPassword(r) PROVE Goal
  <2> DEFINE v == request[r].user
  <2>1. r \in Checking(v) /\ v \in Users
    BY <1>10 DEF RefuseOwnPassword, Checking, AccountsInv, RequestRows, RequestsOK, RequestOK
  <2>2. /\ Guessing(a, u)' \subseteq Guessing(a, u) /\ Checking(u)' \subseteq Checking(u) \ {r}
        /\ attempts' = attempts /\ checks' = [checks EXCEPT ![v] = @ + 1]
    BY <1>10, <1>b, NoNewAttempt DEF RefuseOwnPassword, EndRequest, RecordCheckFailure
  <2> HIDE DEF v
  <2>3. a \in Addresses => Fair(attempts[a][u], Guessing(a, u), attempts'[a][u], Guessing(a, u)')
    BY <1>a, <2>2 DEF Fair
  <2>4. CASE u = v
    BY <1>a, <2>1, <2>2, <2>3, <2>4 DEF Fair
  <2>5. CASE u # v
    BY <1>a, <2>1, <2>2, <2>3, <2>5 DEF Fair
  <2> QED BY <2>4, <2>5
<1>11. ASSUME NEW r \in Requests, NEW s \in Sessions, ChangeOwnPassword(r, s) PROVE Goal
  <2>1. /\ Guessing(a, u)' \subseteq Guessing(a, u) /\ Checking(u)' \subseteq Checking(u)
        /\ attempts' = attempts /\ checks' = [checks EXCEPT ![request[r].user] = 0]
    BY <1>11, <1>b, NoNewAttempt DEF ChangeOwnPassword
  <2>2. (a \in Addresses => attempts'[a][u] <= attempts[a][u]) /\ checks'[u] <= checks[u]
    BY <1>a, <2>1
  <2> QED BY <2>1, <2>2 DEF Fair
<1>12. ASSUME NEW r \in Requests, NEW s \in Sessions, SignInByLink(r, s) PROVE Goal
  <2> DEFINE b == request[r].ip
             v == request[r].user
  <2>1. /\ Guessing(a, u)' \subseteq Guessing(a, u) /\ Checking(u)' \subseteq Checking(u)
        /\ checks' = checks /\ attempts' = Clear(attempts, b, v)
    BY <1>12, <1>b, NoNewAttempt DEF SignInByLink
  <2> HIDE DEF b, v
  <2>2. a \in Addresses => attempts'[a][u] <= attempts[a][u]
    BY <1>a, <2>1 DEF Clear
  <2>3. checks'[u] <= checks[u]
    BY <1>a, <2>1
  <2> QED BY <2>1, <2>2, <2>3 DEF Fair
<1>13. ASSUME NEW r \in Requests, NEW v \in Users, ToggleRead(r, v) PROVE Goal
  <2> DEFINE q == [[[request[r] EXCEPT !.step = "toggle"] EXCEPT !.target = v]
                     EXCEPT !.right = (v \notin active)]
  <2>1. q.step = "toggle"
    BY <1>a DEF Request
  <2>2. request' = [request EXCEPT ![r] = q] /\ UNCHANGED throttleVars
    BY <1>13, <1>a DEF ToggleRead
  <2> HIDE DEF q, Goal
  <2> QED BY <1>2, <2>1, <2>2
<1>14. ASSUME NEW r \in Requests, NEW b \in Addresses, NEW l \in DOMAIN links, RedeemStart(r, b, l)
       PROVE  Goal
  <2> DEFINE q == [Idle EXCEPT !.step = "redeem", !.ip = b, !.user = links[l].user]
  <2>1. q.step = "redeem"
    BY DEF Idle
  <2>2. request' = [request EXCEPT ![r] = q] /\ UNCHANGED throttleVars
    BY <1>14 DEF RedeemStart
  <2> HIDE DEF q, Goal
  <2> QED BY <1>2, <2>1, <2>2
<1>15. ASSUME NEW r \in Requests, UseUp(r) PROVE Goal
  <2> DEFINE q == [[request[r] EXCEPT !.step = "redeemed"] EXCEPT !.hash = passwords + 1]
  <2>1. q.step = "redeemed"
    BY <1>a DEF Request
  <2>2. request' = [request EXCEPT ![r] = q] \/ request' = [request EXCEPT ![r] = Idle]
    BY <1>15, <1>a DEF UseUp
  <2>3. UNCHANGED throttleVars
    BY <1>15 DEF UseUp
  <2> HIDE DEF q, Goal
  <2> QED BY <1>2, <1>3, <2>1, <2>2, <2>3
<1>16. ASSUME NEW r \in Requests,
              \/ ReadPage(r) \/ Logout(r) \/ ToggleActive(r)
              \/ \E s \in Sessions : RegisterFinish(r, s) \/ ReplaceTemporary(r, s)
              \/ \E v \in Users : ResetMemberPassword(r, v)
              \/ \E v \in Users, g \in GivenRoles : AddMember(r, v, g) \/ UpdateRole(r, v, g)
       PROVE  Goal
  <2>1. request' = [request EXCEPT ![r] = Idle] /\ UNCHANGED throttleVars
    BY <1>16 DEF ReadPage, Logout, ToggleActive, RegisterFinish, ReplaceTemporary,
       ResetMemberPassword, AddMember, UpdateRole, EndRequest
  <2> HIDE DEF Goal
  <2> QED BY <1>3, <2>1
<1>17. ASSUME \/ \E v \in Users : BootstrapAdmin(v) \/ HostReset(v) \/ TemporaryLapses(v)
              \/ \E s \in Sessions : SessionExpires(s)
              \/ \E l \in DOMAIN links : LinkExpires(l)
              \/ UNCHANGED vars
       PROVE  Goal
  <2>1. request' = request /\ UNCHANGED throttleVars
    BY <1>17 DEF BootstrapAdmin, HostReset, TemporaryLapses, SessionExpires, LinkExpires, vars
  <2> HIDE DEF Goal
  <2> QED BY <1>4, <2>1
<1>18. ASSUME NEW b \in Addresses, NEW v \in Users, NEW stale \in SUBSET DOMAIN links,
              Forgot(b, v, stale)
       PROVE  Goal
  <2>1. request' = request /\ attempts' = attempts /\ checks' = checks
    BY <1>18 DEF Forgot
  <2> QED BY <1>1, <2>1, NothingTried
<1>19. ASSUME WindowPasses PROVE Goal
  <2>1. /\ Guessing(a, u)' = Guessing(a, u) /\ Checking(u)' = Checking(u)
    BY <1>1, <1>19 DEF WindowPasses
  <2>2. (a \in Addresses => attempts'[a][u] <= attempts[a][u]) /\ checks'[u] <= checks[u]
    BY <1>19, <1>a DEF WindowPasses, Forget, Clear
  <2> QED BY <2>1, <2>2 DEF Fair
<1> HIDE DEF Goal
<1>20. ASSUME NEW r \in Requests,
              \/ \E v \in Users : RegisterStart(r, v) \/ ToggleRead(r, v)
              \/ \E b \in Addresses, v \in Users, right \in BOOLEAN : LoginStart(r, b, v, right)
              \/ \E b \in Addresses, l \in DOMAIN links : RedeemStart(r, b, l)
              \/ \E s \in Sessions, dirty \in BOOLEAN : LoadSession(r, s, dirty)
              \/ \E s \in Sessions : \/ LoginFinish(r, s) \/ ChangeOwnPassword(r, s)
                                     \/ SignInByLink(r, s)
              \/ \E right \in BOOLEAN : CheckOwnPassword(r, right)
              \/ RefuseOwnPassword(r) \/ UseUp(r)
       PROVE  Goal
  BY <1>5, <1>6, <1>7, <1>8, <1>9, <1>10, <1>11, <1>12, <1>13, <1>14, <1>15, <1>20
<1>21. Goal
  BY <1>16, <1>17, <1>18, <1>19, <1>20 DEF Next
<1> QED BY <1>21 DEF Goal

\* However many sign-ins are let through before the first of their failures is
\* counted, a client never has more failures on an account than the limit and
\* one for each request served at once (login, check_own_password).
THEOREM GuessesStayBounded == Spec => []GuessesBounded
<1>1. \A a, u : Guessing(a, u) \in SUBSET Requests /\ Checking(u) \in SUBSET Requests
  BY DEF Guessing, Checking
<1>2. \A a, u : Cardinality(Guessing(a, u)) \in Nat /\ Cardinality(Checking(u)) \in Nat
  BY <1>1, AccountsAssumption, FS_Subset, FS_CardinalityType
<1>3. Cardinality(Requests) \in Nat /\ MAX_ATTEMPTS \in Nat \ {0}
  BY AccountsAssumption, ThrottleAssumption, FS_CardinalityType
<1>4. Init => GuessesPaid
  <2> SUFFICES ASSUME Init PROVE GuessesPaid
    OBVIOUS
  <2>1. \A a, u : Guessing(a, u) = {} /\ Checking(u) = {}
    BY DEF Init, Idle, Guessing, Checking
  <2>2. \A a \in Addresses, u \in Users : attempts[a][u] = 0 /\ checks[u] = 0
    BY DEF Init
  <2>3. \A u \in Users : checks[u] = 0
    BY DEF Init
  <2> QED BY <1>3, <2>1, <2>2, <2>3, FS_EmptySet DEF GuessesPaid
<1>5. AccountsInv /\ AccountsInv' /\ GuessesPaid /\ [Next]_vars => GuessesPaid'
  <2> SUFFICES ASSUME AccountsInv, AccountsInv', GuessesPaid, [Next]_vars PROVE GuessesPaid'
    OBVIOUS
  <2>1. /\ attempts \in [Addresses -> [Users -> Nat]] /\ checks \in [Users -> Nat]
        /\ attempts' \in [Addresses -> [Users -> Nat]] /\ checks' \in [Users -> Nat]
    BY DEF AccountsInv, Counters
  <2>2. \A a, u : Guessing(a, u)' \in SUBSET Requests /\ Checking(u)' \in SUBSET Requests
    BY DEF Guessing, Checking
  <2>3. ASSUME NEW a \in Addresses, NEW u \in Users
        PROVE  attempts'[a][u] + Cardinality(Guessing(a, u)') < MAX_ATTEMPTS + Cardinality(Requests)
    <3>1. Fair(attempts[a][u], Guessing(a, u), attempts'[a][u], Guessing(a, u)')
      BY TriesStep
    <3>2. attempts[a][u] \in Nat /\ attempts'[a][u] \in Nat
      BY <2>1
    <3>3. attempts[a][u] + Cardinality(Guessing(a, u)) < MAX_ATTEMPTS + Cardinality(Requests)
      BY DEF GuessesPaid
    <3> QED BY <1>1, <2>2, <3>1, <3>2, <3>3, FairKeepsTheBound
  <2>4. ASSUME NEW u \in Users
        PROVE  checks'[u] + Cardinality(Checking(u)') < MAX_ATTEMPTS + Cardinality(Requests)
    <3>1. Fair(checks[u], Checking(u), checks'[u], Checking(u)')
      BY TriesStep
    <3>2. checks[u] \in Nat /\ checks'[u] \in Nat
      BY <2>1
    <3>3. checks[u] + Cardinality(Checking(u)) < MAX_ATTEMPTS + Cardinality(Requests)
      BY DEF GuessesPaid
    <3> QED BY <1>1, <2>2, <3>1, <3>2, <3>3, FairKeepsTheBound
  <2> QED BY <2>3, <2>4 DEF GuessesPaid
<1>6. AccountsInv /\ GuessesPaid => GuessesBounded
  <2> SUFFICES ASSUME AccountsInv, GuessesPaid PROVE GuessesBounded
    OBVIOUS
  <2>1. attempts \in [Addresses -> [Users -> Nat]] /\ checks \in [Users -> Nat]
    BY DEF AccountsInv, Counters
  <2>2. ASSUME NEW a \in Addresses, NEW u \in Users
        PROVE  attempts[a][u] < MAX_ATTEMPTS + Cardinality(Requests)
    BY <1>2, <1>3, <2>1 DEF GuessesPaid
  <2>3. ASSUME NEW u \in Users PROVE checks[u] < MAX_ATTEMPTS + Cardinality(Requests)
    BY <1>2, <1>3, <2>1 DEF GuessesPaid
  <2> QED BY <2>2, <2>3 DEF GuessesBounded
<1> QED BY <1>4, <1>5, <1>6, AccountsInvariant, PTL DEF Spec

-----------------------------------------------------------------------------
(* The links that were used up                                             *)

GoneOf(u) == {l \in DOMAIN links : links[l].user = u /\ links[l].state = "gone"}

\* A link that is gone stays gone.
LEMMA LinksMarked ==
  ASSUME AccountsInv, NEW ids \in SUBSET DOMAIN links, NEW u
  PROVE  {l \in DOMAIN Gone(ids) : Gone(ids)[l].user = u /\ Gone(ids)[l].state = "gone"}
           = GoneOf(u) \cup {l \in ids : links[l].user = u}
<1>1. \A l \in DOMAIN links : links[l] \in LinkRow
  BY DEF AccountsInv, LinkRows
<1>2. DOMAIN Gone(ids) = DOMAIN links
  BY DEF Gone
<1>3. \A l \in DOMAIN links : Gone(ids)[l].user = links[l].user
  BY <1>1 DEF Gone, LinkRow
<1>4. \A l \in DOMAIN links : Gone(ids)[l].state = IF l \in ids THEN "gone" ELSE links[l].state
  BY <1>1 DEF Gone, LinkRow
<1> QED BY <1>2, <1>3, <1>4 DEF GoneOf

\* A password is paid with a link that was not gone; no other step brings one
\* back.
LEMMA SpentStep ==
  ASSUME AccountsInv, [Next]_vars, NEW u \in Users
  PROVE  \/ spent'[u] = spent[u] /\ GoneOf(u) \subseteq GoneOf(u)'
         \/ spent'[u] = spent[u] + 1 /\ \E l \in GoneOf(u)' \ GoneOf(u) : GoneOf(u) \subseteq GoneOf(u)'
<1> DEFINE Goal ==
      \/ spent'[u] = spent[u] /\ GoneOf(u) \subseteq GoneOf(u)'
      \/ spent'[u] = spent[u] + 1 /\ \E l \in GoneOf(u)' \ GoneOf(u) : GoneOf(u) \subseteq GoneOf(u)'
<1>a. links \in Seq(LinkRow) /\ spent \in [Users -> Nat]
  BY DEF AccountsInv, LinkRows
<1>1. ASSUME UNCHANGED <<links, spent>> PROVE Goal
  BY <1>1 DEF GoneOf
<1>2. ASSUME NEW r \in Requests, UseUp(r), ~NothingToUseUp(request[r].user) PROVE Goal
  <2> DEFINE v == request[r].user
  <2>1. v \in Users
    BY <1>2 DEF UseUp, AccountsInv, RequestRows, RequestsOK, RequestOK
  <2>2. links' = Gone(RowsOf(v)) /\ spent' = [spent EXCEPT ![v] = @ + 1] /\ RowsOf(v) # {}
    BY <1>2 DEF UseUp, NothingToUseUp
  <2> HIDE DEF v
  <2>3. RowsOf(v) \in SUBSET DOMAIN links
    BY DEF RowsOf
  <2>4. GoneOf(u)' = {l \in DOMAIN Gone(RowsOf(v)) : Gone(RowsOf(v))[l].user = u
                                                  /\ Gone(RowsOf(v))[l].state = "gone"}
    BY <2>2 DEF GoneOf
  <2>5. GoneOf(u)' = GoneOf(u) \cup {l \in RowsOf(v) : links[l].user = u}
    BY <2>3, <2>4, LinksMarked
  <2>6. CASE u = v
    <3>1. PICK l \in RowsOf(v) : TRUE
      BY <2>2
    <3>2. l \in GoneOf(u)' \ GoneOf(u)
      BY <2>5, <2>6, <3>1 DEF RowsOf, GoneOf
    <3> QED BY <1>a, <2>2, <2>5, <2>6, <3>2
  <2>7. CASE u # v
    BY <1>a, <2>1, <2>2, <2>5, <2>7
  <2> QED BY <2>6, <2>7
<1>3. ASSUME NEW a \in Addresses, NEW v \in Users, NEW stale \in SUBSET DOMAIN links, Forgot(a, v, stale)
      PROVE  Goal
  <2> DEFINE kept == Gone(stale)
             added == [user |-> v, state |-> "live"]
  <2>1. spent' = spent /\ (links' = kept \/ links' = Append(kept, added))
    BY <1>3 DEF Forgot
  <2>2. kept \in Seq(LinkRow)
    BY GoneType, Typed
  <2>3. {l \in DOMAIN kept : kept[l].user = u /\ kept[l].state = "gone"}
          = GoneOf(u) \cup {l \in stale : links[l].user = u}
    BY LinksMarked
  <2> HIDE DEF kept, added
  <2>4. \A l \in DOMAIN kept : l \in DOMAIN links' /\ links'[l] = kept[l]
    BY <2>1, <2>2
  <2>5. {l \in DOMAIN kept : kept[l].user = u /\ kept[l].state = "gone"} \subseteq GoneOf(u)'
    BY <2>4 DEF GoneOf
  <2> QED BY <2>1, <2>3, <2>5
<1>4. ASSUME NEW l \in DOMAIN links, LinkExpires(l) PROVE Goal
  <2>1. links' = [links EXCEPT ![l].state = "old"] /\ spent' = spent /\ links[l].state = "live"
    BY <1>4 DEF LinkExpires
  <2>2. \A k \in DOMAIN links : k # l => links'[k] = links[k]
    BY <2>1
  <2>3. DOMAIN links' = DOMAIN links
    BY <2>1
  <2>4. GoneOf(u) \subseteq GoneOf(u)'
    BY <2>1, <2>2, <2>3 DEF GoneOf
  <2> QED BY <2>1, <2>4
<1>5. ASSUME NEW r \in Requests, UseUp(r), NothingToUseUp(request[r].user) PROVE Goal
  BY <1>1, <1>5 DEF UseUp
<1> HIDE DEF Goal
<1>6. ASSUME NEW r \in Requests,
             \/ \E v \in Users : RegisterStart(r, v) \/ ToggleRead(r, v) \/ ResetMemberPassword(r, v)
             \/ \E v \in Users, g \in GivenRoles : AddMember(r, v, g) \/ UpdateRole(r, v, g)
             \/ \E a \in Addresses, v \in Users, right \in BOOLEAN : LoginStart(r, a, v, right)
             \/ \E a \in Addresses, l \in DOMAIN links : RedeemStart(r, a, l)
             \/ \E s \in Sessions, dirty \in BOOLEAN : LoadSession(r, s, dirty)
      PROVE  Goal
  BY <1>1, <1>6 DEF RegisterStart, ToggleRead, ResetMemberPassword, AddMember, UpdateRole,
     LoginStart, RedeemStart, LoadSession
<1>7. ASSUME NEW r \in Requests,
             \/ \E s \in Sessions : \/ RegisterFinish(r, s) \/ LoginFinish(r, s)
                                    \/ ReplaceTemporary(r, s) \/ ChangeOwnPassword(r, s)
                                    \/ SignInByLink(r, s)
             \/ \E right \in BOOLEAN : CheckOwnPassword(r, right)
             \/ ReadPage(r) \/ Logout(r) \/ RefuseOwnPassword(r) \/ ToggleActive(r)
      PROVE  Goal
  BY <1>1, <1>7 DEF RegisterFinish, LoginFinish, ReplaceTemporary, ChangeOwnPassword,
     SignInByLink, CheckOwnPassword, ReadPage, Logout, RefuseOwnPassword, ToggleActive
<1>8. ASSUME \/ \E v \in Users : BootstrapAdmin(v) \/ HostReset(v) \/ TemporaryLapses(v)
             \/ \E s \in Sessions : SessionExpires(s)
             \/ WindowPasses \/ UNCHANGED vars
      PROVE  Goal
  BY <1>1, <1>8 DEF BootstrapAdmin, HostReset, TemporaryLapses, SessionExpires, WindowPasses, vars
<1>9. Goal
  BY <1>2, <1>3, <1>4, <1>5, <1>6, <1>7, <1>8 DEF Next
<1> QED BY <1>9 DEF Goal

\* An account sets no more passwords through links than links of it were used
\* up, whoever follows one link twice at once (use_up).
THEOREM ResetsArePaidFor == Spec => []EveryResetCostsALink
<1>1. ASSUME AccountsInv, NEW u PROVE IsFiniteSet(GoneOf(u))
  <2>1. DOMAIN links = 1..Len(links) /\ Len(links) \in Nat
    BY <1>1 DEF AccountsInv, LinkRows
  <2>2. IsFiniteSet(1..Len(links))
    BY <2>1, FS_Interval
  <2>3. GoneOf(u) \in SUBSET (1..Len(links))
    BY <2>1 DEF GoneOf
  <2> QED BY <2>2, <2>3, FS_Subset
<1>2. ASSUME AccountsInv', NEW u PROVE IsFiniteSet(GoneOf(u)')
  <2>1. DOMAIN links' = 1..Len(links') /\ Len(links') \in Nat
    BY <1>2 DEF AccountsInv, LinkRows
  <2>2. IsFiniteSet(1..Len(links'))
    BY <2>1, FS_Interval
  <2>3. GoneOf(u)' \in SUBSET (1..Len(links'))
    BY <2>1 DEF GoneOf
  <2> QED BY <2>2, <2>3, FS_Subset
<1>3. Init => EveryResetCostsALink
  <2> SUFFICES ASSUME Init, NEW u \in Users PROVE spent[u] <= Cardinality(GoneOf(u))
    BY DEF EveryResetCostsALink, GoneOf
  <2>1. GoneOf(u) = {} /\ spent[u] = 0
    BY DEF Init, GoneOf
  <2> QED BY <2>1, FS_EmptySet
<1>4. AccountsInv /\ AccountsInv' /\ EveryResetCostsALink /\ [Next]_vars => EveryResetCostsALink'
  <2> SUFFICES ASSUME AccountsInv, AccountsInv', EveryResetCostsALink, [Next]_vars, NEW u \in Users
               PROVE  spent'[u] <= Cardinality(GoneOf(u)')
    BY DEF EveryResetCostsALink, GoneOf
  <2>1. spent[u] <= Cardinality(GoneOf(u))
    BY DEF EveryResetCostsALink, GoneOf
  <2>2. IsFiniteSet(GoneOf(u)') /\ IsFiniteSet(GoneOf(u))
    BY <1>1, <1>2
  <2>3. spent[u] \in Nat /\ Cardinality(GoneOf(u)) \in Nat /\ Cardinality(GoneOf(u)') \in Nat
    BY <2>2, FS_CardinalityType DEF AccountsInv, LinkRows
  <2>4. CASE spent'[u] = spent[u] /\ GoneOf(u) \subseteq GoneOf(u)'
    <3>1. Cardinality(GoneOf(u)) <= Cardinality(GoneOf(u)')
      BY <2>2, <2>4, FS_Subset
    <3> QED BY <2>1, <2>3, <2>4, <3>1
  <2>5. ASSUME spent'[u] = spent[u] + 1, NEW l \in GoneOf(u)' \ GoneOf(u), GoneOf(u) \subseteq GoneOf(u)'
        PROVE  spent'[u] <= Cardinality(GoneOf(u)')
    <3>1. Cardinality(GoneOf(u) \cup {l}) = Cardinality(GoneOf(u)) + 1
      BY <2>2, FS_AddElement
    <3>2. Cardinality(GoneOf(u) \cup {l}) <= Cardinality(GoneOf(u)')
      BY <2>2, <2>5, FS_Subset
    <3> QED BY <2>1, <2>3, <2>5, <3>1, <3>2
  <2> QED BY <2>4, <2>5, SpentStep
<1> QED BY <1>3, <1>4, AccountsInvariant, PTL DEF Spec
=============================================================================
