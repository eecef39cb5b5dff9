------------------------------ MODULE Accounts ------------------------------
(***************************************************************************)
(* The accounts of an instance, their passwords, the sessions opened with  *)
(* them and the links that replace a forgotten password.                   *)
(*                                                                         *)
(* A request reads its account once, when the session is loaded, and acts  *)
(* on what it read: between that read and its writes it waits for the      *)
(* password hash, the database and the network, and other requests, the    *)
(* host's command line and the cleanup run meanwhile.  A step below is     *)
(* what a request does between two such waits that matter.                 *)
(*                                                                         *)
(* Passwords are numbered in the order they are set: the hash of one is    *)
(* its number, since a new hash never equals an older one (fresh salt).  An*)
(* account is known by its email, so Users stands for both.                *)
(***************************************************************************)
EXTENDS SignInThrottle, Sequences

CONSTANTS
  Users, Nobody,
  Sessions,         \* session ids, each used again only once it is forgotten
  Requests,         \* requests served at the same time
  GivenRoles,       \* the roles administrators give
  Mistyped,         \* bound: the accounts whose password is mistyped
  LINKS_PER_HOUR,
  MaxLinks,         \* bound on the links sent
  MaxPasswords      \* bound on the passwords set

ASSUME AccountsAssumption ==
  /\ IsFiniteSet(Users) /\ IsFiniteSet(Requests) /\ Nobody \notin Users
  /\ Mistyped \subseteq Users
  /\ GivenRoles \subseteq {"reader", "publisher", "admin"}
  /\ LINKS_PER_HOUR \in Nat /\ MaxLinks \in Nat /\ MaxPasswords \in Nat

VARIABLES
  role,       \* users.role, "none" where there is no account
  active,     \* users.is_active
  hash,       \* users.password_hash
  temporary,  \* users.must_change_password
  lapsed,     \* temporary_password_expires_at has passed
  passwords,  \* passwords set so far
  session,    \* tower_sessions
  attempts, checks, resets,   \* the throttle, in memory
  links,      \* password_resets, in the order of their ids
  request,    \* what each request under way has read
  founders,   \* history: accounts created through the open registration
  spent       \* history: passwords each account set through a link

accountVars  == <<role, active, hash, temporary, lapsed, passwords, founders>>
throttleVars == <<attempts, checks, resets>>
vars == <<accountVars, session, throttleVars, links, spent, request>>

Roles   == {"reader", "publisher", "admin"}
Hashes  == 0..MaxPasswords
Steps   == {"idle", "login", "signed", "check", "toggle", "register", "redeem", "redeemed"}

\* A row of tower_sessions.  `stamp` is the credential it is tied to, `proved`
\* the password that was typed to open it, and `byLink` whether a link was
\* followed instead.
SessionRow == [user : Users \cup {Nobody}, stamp : Hashes, proved : Hashes, byLink : BOOLEAN]
NoSession  == [user |-> Nobody, stamp |-> 0, proved |-> 0, byLink |-> FALSE]

LinkRow == [user : Users, state : {"live", "old", "gone"}]

Request == [step : Steps, user : Users \cup {Nobody}, role : Roles \cup {"none"},
            hash : Hashes, temporary : BOOLEAN, ip : Addresses \cup {Nobody},
            right : BOOLEAN, sid : Sessions \cup {Nobody}, row : SessionRow,
            dirty : BOOLEAN, target : Users \cup {Nobody}]

Idle == [step |-> "idle", user |-> Nobody, role |-> "none", hash |-> 0,
         temporary |-> FALSE, ip |-> Nobody, right |-> FALSE, sid |-> Nobody,
         row |-> NoSession, dirty |-> FALSE, target |-> Nobody]

TypeOK ==
  /\ role \in [Users -> Roles \cup {"none"}]
  /\ active \subseteq Users /\ temporary \subseteq Users /\ lapsed \subseteq temporary
  /\ hash \in [Users -> Hashes] /\ passwords \in Hashes
  /\ session \in [Sessions -> SessionRow]
  /\ attempts \in [Addresses -> [Users -> Nat]]
  /\ checks \in [Users -> Nat] /\ resets \in [Addresses -> Nat]
  /\ links \in Seq(LinkRow) /\ Len(links) <= MaxLinks
  /\ request \in [Requests -> Request]
  /\ founders \in Nat /\ spent \in [Users -> Nat]

Init ==
  /\ role = [u \in Users |-> "none"] /\ active = {} /\ hash = [u \in Users |-> 0]
  /\ temporary = {} /\ lapsed = {} /\ passwords = 0
  /\ session = [s \in Sessions |-> NoSession]
  /\ attempts = [a \in Addresses |-> [u \in Users |-> 0]]
  /\ checks = [u \in Users |-> 0] /\ resets = [a \in Addresses |-> 0]
  /\ links = <<>> /\ request = [r \in Requests |-> Idle]
  /\ founders = 0 /\ spent = [u \in Users |-> 0]

-----------------------------------------------------------------------------
(* The rows of users. *)

Members == {u \in Users : role[u] # "none"}

\* instance_is_empty, and the count of bootstrap_admin.
InstanceIsEmpty == Members = {}

\* find_by_email: a disabled account is not found.
Found(u) == u \in Members /\ u \in active

ActiveAdmins == {u \in active : role[u] = "admin"}

\* Mutant: disabled administrators count.
MayTakeCountingDisabled(u, given) ==
  \/ given = "admin" \/ role[u] # "admin" \/ u \notin active
  \/ Cardinality({v \in Users : role[v] = "admin"}) > 1

\* The condition of update_role, in the statement that writes.
MayTake(u, given) ==
  given = "admin" \/ role[u] # "admin" \/ u \notin active \/ Cardinality(ActiveAdmins) > 1

\* The condition of set_active.
MaySet(u, enabled) ==
  enabled \/ role[u] # "admin" \/ u \notin active \/ Cardinality(ActiveAdmins) > 1

\* insert: an account with a temporary password, for its administrator to
\* hand over.
Insert(u, given) ==
  /\ role' = [role EXCEPT ![u] = given] /\ active' = active \cup {u}
  /\ hash' = [hash EXCEPT ![u] = passwords + 1] /\ passwords' = passwords + 1
  /\ temporary' = temporary \cup {u} /\ lapsed' = lapsed \ {u}

\* Mutant: the check made before the form was read is trusted.
StillEmptyUnchecked == TRUE

\* The condition of insert_first, in the statement that writes.
StillEmpty == Members = {}

\* insert_first.
InsertFirst(u) ==
  /\ role' = [role EXCEPT ![u] = "admin"] /\ active' = active \cup {u}
  /\ hash' = [hash EXCEPT ![u] = passwords + 1] /\ passwords' = passwords + 1
  /\ founders' = founders + 1
  /\ UNCHANGED <<temporary, lapsed>>

\* update_password: its owner chose it.
UpdatePassword(u) ==
  /\ hash' = [hash EXCEPT ![u] = passwords + 1] /\ passwords' = passwords + 1
  /\ temporary' = temporary \ {u} /\ lapsed' = lapsed \ {u}
  /\ UNCHANGED <<role, active, founders>>

\* set_temporary_password: someone else chose it.
SetTemporaryPassword(u) ==
  /\ hash' = [hash EXCEPT ![u] = passwords + 1] /\ passwords' = passwords + 1
  /\ temporary' = temporary \cup {u} /\ lapsed' = lapsed \ {u}
  /\ UNCHANGED <<role, active, founders>>

CanSetPassword == passwords < MaxPasswords

-----------------------------------------------------------------------------
(* The rows of tower_sessions. *)

\* An id drawn at random: no row and no request under way has it.
FreshId(s) == session[s] = NoSession /\ \A r \in Requests : request[r].sid # s

\* open_session: a new id, tied to the password hash its account was read with.
Opened(s, u, stamp, proved, byLink) ==
  [session EXCEPT ![s] = [user |-> u, stamp |-> stamp, proved |-> proved, byLink |-> byLink]]

\* reopen_session, after a password its owner chose: the old id is deleted
\* and the new one is tied to the new password.
Reopened(old, s, u) ==
  [Opened(s, u, passwords + 1, passwords + 1, FALSE) EXCEPT ![old] = NoSession]

\* SqliteSessionStore::save, at the end of a request that changed its session
\* (the lifetime extended, a form token drawn): the row is written whether or
\* not it is still there.
Saved(r) ==
  IF request[r].dirty THEN [session EXCEPT ![request[r].sid] = request[r].row] ELSE session

\* credential_matches and the account still enabled.
StillValid(row) == row.user \in active /\ row.stamp = hash[row.user]

-----------------------------------------------------------------------------
(* The door: registration and sign-in. *)

\* register and register_form, while no account exists.
RegisterStart(r, u) ==
  /\ request[r].step = "idle" /\ InstanceIsEmpty
  /\ request' = [request EXCEPT ![r] = [Idle EXCEPT !.step = "register", !.user = u]]
  /\ UNCHANGED <<accountVars, session, throttleVars, links, spent>>

\* create_first_admin: another sign-up may have come first.
RegisterFinish(r, s) ==
  LET u == request[r].user IN
  /\ request[r].step = "register" /\ FreshId(s) /\ CanSetPassword
  /\ IF StillEmpty
     THEN /\ InsertFirst(u)
          /\ session' = Opened(s, u, passwords + 1, passwords + 1, FALSE)
     ELSE UNCHANGED <<accountVars, session>>
  /\ request' = [request EXCEPT ![r] = Idle]
  /\ UNCHANGED <<throttleVars, links, spent>>

\* bootstrap_admin, when the server starts on an empty instance with the
\* credentials of its first administrator.
BootstrapAdmin(u) ==
  /\ InstanceIsEmpty /\ CanSetPassword
  /\ \A r \in Requests : request[r].step = "idle"
  /\ InsertFirst(u)
  /\ UNCHANGED <<session, throttleVars, links, spent, request>>

\* login until the password is verified: the lock is looked at, the account
\* read, and the password compared with the hash that was read.
LoginStart(r, ip, u, right) ==
  /\ request[r].step = "idle" /\ ~InstanceIsEmpty /\ ~IsBlocked(attempts, ip, u)
  /\ IF right THEN Found(u) ELSE u \in Mistyped
  /\ request' = [request EXCEPT ![r] =
       [Idle EXCEPT !.step = "login", !.ip = ip, !.target = u,
                    !.right = right, !.hash = IF right THEN hash[u] ELSE 0,
                    !.temporary = (right /\ u \in temporary)]]
  /\ UNCHANGED <<accountVars, session, throttleVars, links, spent>>

\* A temporary password that lapsed is refused although it was the right one.
Accepted(q) == q.right /\ ~(q.temporary /\ q.target \in lapsed)

\* Mutant: the account is read again to tie the session to its password.
StampNow(q) == hash[q.target]

\* stamp_credential takes the hash the password was verified against.
Stamp(q) == q.hash

\* The rest of login.
LoginFinish(r, s) ==
  LET q == request[r] IN
  /\ q.step = "login" /\ FreshId(s)
  /\ IF Accepted(q)
     THEN /\ attempts' = Clear(attempts, q.ip, q.target)
          /\ session' = Opened(s, q.target, Stamp(q), q.hash, FALSE)
     ELSE /\ attempts' = RecordFailure(attempts, q.ip, q.target)
          /\ UNCHANGED session
  /\ request' = [request EXCEPT ![r] = Idle]
  /\ UNCHANGED <<accountVars, checks, resets, links, spent>>

-----------------------------------------------------------------------------
(* A request with a session. *)

\* load_session_user: the account as it is now, or the session deleted.
\* `dirty` is whether the lifetime is due to be extended.
LoadSession(r, s, dirty) ==
  LET row == session[s]
      u   == row.user
  IN
  /\ request[r].step = "idle" /\ row # NoSession
  /\ IF StillValid(row)
     THEN /\ request' = [request EXCEPT ![r] =
                [Idle EXCEPT !.step = "signed", !.user = u, !.role = role[u],
                             !.hash = hash[u], !.temporary = (u \in temporary),
                             !.sid = s, !.dirty = dirty,
                             !.row = IF dirty THEN row ELSE NoSession]]
          /\ UNCHANGED session
     ELSE /\ ~dirty
          /\ session' = [session EXCEPT ![s] = NoSession]
          /\ UNCHANGED request
  /\ UNCHANGED <<accountVars, throttleVars, links, spent>>

\* The request ends, and its session is saved if it changed.
EndRequest(r) ==
  /\ session' = Saved(r)
  /\ request' = [request EXCEPT ![r] = Idle]

\* AuthUser, on any page but those of a temporary password.
SignedIn(r) == request[r].step = "signed" /\ ~request[r].temporary

\* RequireAdmin.
ByAdmin(r) == SignedIn(r) /\ request[r].role = "admin"

\* A page that only reads.
ReadPage(r) ==
  /\ request[r].step = "signed" /\ EndRequest(r)
  /\ UNCHANGED <<accountVars, throttleVars, links, spent>>

\* logout: the session is flushed.
Logout(r) ==
  /\ request[r].step = "signed"
  /\ session' = [session EXCEPT ![request[r].sid] = NoSession]
  /\ request' = [request EXCEPT ![r] = Idle]
  /\ UNCHANGED <<accountVars, throttleVars, links, spent>>

\* password::update: the temporary password is replaced.
ReplaceTemporary(r, s) ==
  LET q == request[r] IN
  /\ q.step = "signed" /\ q.temporary /\ FreshId(s) /\ CanSetPassword
  /\ UpdatePassword(q.user)
  /\ session' = Reopened(q.sid, s, q.user)
  /\ request' = [request EXCEPT ![r] = Idle]
  /\ UNCHANGED <<throttleVars, links, spent>>

\* check_own_password until the current password is verified, for a new
\* password or a new email.
CheckOwnPassword(r, right) ==
  /\ SignedIn(r) /\ ~IsCheckBlocked(checks, request[r].user)
  /\ right \/ request[r].user \in Mistyped
  /\ request' = [request EXCEPT ![r].step = "check", ![r].right = right]
  /\ UNCHANGED <<accountVars, session, throttleVars, links, spent>>

\* The rest of update_password and of save_profile.
ChangeOwnPassword(r, s) ==
  LET q == request[r] IN
  /\ q.step = "check" /\ q.right /\ FreshId(s) /\ CanSetPassword
  /\ checks' = [checks EXCEPT ![q.user] = 0]
  /\ UpdatePassword(q.user)
  /\ session' = Reopened(q.sid, s, q.user)
  /\ request' = [request EXCEPT ![r] = Idle]
  /\ UNCHANGED <<attempts, resets, links, spent>>

RefuseOwnPassword(r) ==
  /\ request[r].step = "check" /\ ~request[r].right
  /\ checks' = RecordCheckFailure(checks, request[r].user)
  /\ EndRequest(r)
  /\ UNCHANGED <<accountVars, attempts, resets, links, spent>>

-----------------------------------------------------------------------------
(* The team page. *)

\* admin::add_member, with create_account: the email of any account is taken.
AddMember(r, u, given) ==
  /\ ByAdmin(r) /\ role[u] = "none" /\ CanSetPassword
  /\ Insert(u, given) /\ EndRequest(r)
  /\ UNCHANGED <<founders, throttleVars, links, spent>>

\* admin::reset_member_password, with issue_reset.
ResetMemberPassword(r, u) ==
  /\ ByAdmin(r) /\ u # request[r].user /\ Found(u) /\ CanSetPassword
  /\ SetTemporaryPassword(u) /\ EndRequest(r)
  /\ UNCHANGED <<throttleVars, links, spent>>

\* admin::update_role, with apply_role.
UpdateRole(r, u, given) ==
  /\ ByAdmin(r) /\ u # request[r].user /\ role[u] \notin {"none", given}
  /\ role' = IF MayTake(u, given) THEN [role EXCEPT ![u] = given] ELSE role
  /\ EndRequest(r)
  /\ UNCHANGED <<active, hash, temporary, lapsed, passwords, founders, throttleVars, links, spent>>

\* admin::toggle_active reads the account, and apply_toggle then writes the
\* opposite of what was read.
ToggleRead(r, u) ==
  /\ ByAdmin(r) /\ u # request[r].user /\ u \in Members
  /\ request' = [request EXCEPT ![r].step = "toggle", ![r].target = u,
                                ![r].right = (u \notin active)]
  /\ UNCHANGED <<accountVars, session, throttleVars, links, spent>>

ToggleActive(r) ==
  LET u == request[r].target
      enabled == request[r].right
  IN
  /\ request[r].step = "toggle"
  /\ active' = IF ~MaySet(u, enabled) THEN active
               ELSE IF enabled THEN active \cup {u} ELSE active \ {u}
  /\ EndRequest(r)
  /\ UNCHANGED <<role, hash, temporary, lapsed, passwords, founders, throttleVars, links, spent>>

-----------------------------------------------------------------------------
(* The link for a forgotten password. *)

RowsOf(u) == {l \in DOMAIN links : links[l].user = u /\ links[l].state # "gone"}

\* insert_within_limit counts the links of the last hour and stores the new
\* one in one statement.
WithinLimit(u) ==
  Cardinality({l \in RowsOf(u) : links[l].state = "live"}) < LINKS_PER_HOUR

\* find_live: a newer link of the account replaces it.
IsLive(l) ==
  /\ links[l].state = "live"
  /\ \A k \in RowsOf(links[l].user) : k <= l

Gone(ids) == [l \in DOMAIN links |-> IF l \in ids THEN [links[l] EXCEPT !.state = "gone"] ELSE links[l]]

\* forgot, and the task it leaves behind: delete_stale, then the new link.
\* `stale` are the rows older than a day.
Forgot(ip, u, stale) ==
  LET kept == Gone(stale)
      issue == RequestAllowed(resets, ip) /\ Found(u) /\ WithinLimit(u)
  IN
  /\ Len(links) < MaxLinks
  /\ stale \subseteq {l \in DOMAIN links : links[l].state = "old"}
  /\ RequestAllowed(resets, ip) \/ stale = {}
  /\ resets' = CountRequest(resets, ip)
  /\ links' = IF issue THEN Append(kept, [user |-> u, state |-> "live"]) ELSE kept
  /\ UNCHANGED <<accountVars, session, attempts, checks, spent, request>>

\* redeem until the new password is hashed: account_for finds the account the
\* link opens, and check_new_password passes.
RedeemStart(r, ip, l) ==
  /\ request[r].step = "idle" /\ IsLive(l) /\ links[l].user \in active
  /\ request' = [request EXCEPT ![r] = [Idle EXCEPT !.step = "redeem", !.ip = ip,
                                                    !.user = links[l].user]]
  /\ UNCHANGED <<accountVars, session, throttleVars, links, spent>>

\* Mutant: use_up does not look at how many rows it deleted.
NothingToUseUpUnchecked(u) == FALSE

NothingToUseUp(u) == RowsOf(u) = {}

\* use_up: every link of the account goes and its password is set, in one
\* transaction, or neither when no link is left.
UseUp(r) ==
  LET u == request[r].user IN
  /\ request[r].step = "redeem" /\ CanSetPassword
  /\ IF NothingToUseUp(u)
     THEN /\ request' = [request EXCEPT ![r] = Idle]
          /\ UNCHANGED <<accountVars, links, spent>>
     ELSE /\ links' = Gone(RowsOf(u))
          /\ UpdatePassword(u)
          /\ spent' = [spent EXCEPT ![u] = @ + 1]
          /\ request' = [request EXCEPT ![r].step = "redeemed", ![r].hash = passwords + 1]
  /\ UNCHANGED <<session, throttleVars>>

\* The end of redeem and of reset: the account is read again and the member
\* signed in on what it holds by then.
SignInByLink(r, s) ==
  LET q == request[r] IN
  /\ q.step = "redeemed" /\ FreshId(s)
  /\ attempts' = Clear(attempts, q.ip, q.user)
  /\ session' = Opened(s, q.user, hash[q.user], q.hash, TRUE)
  /\ request' = [request EXCEPT ![r] = Idle]
  /\ UNCHANGED <<accountVars, checks, resets, links, spent>>

-----------------------------------------------------------------------------
(* The host and the passing of time. *)

\* reset_password, from the command line.
HostReset(u) ==
  /\ Found(u) /\ CanSetPassword
  /\ SetTemporaryPassword(u)
  /\ UNCHANGED <<session, throttleVars, links, spent, request>>

TemporaryLapses(u) ==
  /\ u \in temporary \ lapsed
  /\ lapsed' = lapsed \cup {u}
  /\ UNCHANGED <<role, active, hash, temporary, passwords, founders, session,
                 throttleVars, links, spent, request>>

\* delete_expired.
SessionExpires(s) ==
  /\ session[s] # NoSession
  /\ session' = [session EXCEPT ![s] = NoSession]
  /\ UNCHANGED <<accountVars, throttleVars, links, spent, request>>

\* The hour of a link is over, the oldest first.
LinkExpires(l) ==
  /\ links[l].state = "live"
  /\ \A k \in DOMAIN links : k < l => links[k].state # "live"
  /\ links' = [links EXCEPT ![l].state = "old"]
  /\ UNCHANGED <<accountVars, session, throttleVars, spent, request>>

\* The fifteen minutes of a counter are over.
WindowPasses ==
  /\ \/ \E a \in Addresses, u \in Users :
          /\ attempts[a][u] > 0 /\ attempts' = Forget(attempts, a, u)
          /\ UNCHANGED <<checks, resets>>
     \/ \E u \in Users :
          /\ checks[u] > 0 /\ checks' = [checks EXCEPT ![u] = 0]
          /\ UNCHANGED <<attempts, resets>>
     \/ \E a \in Addresses :
          /\ resets[a] > 0 /\ resets' = [resets EXCEPT ![a] = 0]
          /\ UNCHANGED <<attempts, checks>>
  /\ UNCHANGED <<accountVars, session, links, spent, request>>

-----------------------------------------------------------------------------
Next ==
  \/ \E u \in Users : BootstrapAdmin(u) \/ HostReset(u) \/ TemporaryLapses(u)
  \/ \E r \in Requests :
       \/ \E u \in Users : RegisterStart(r, u) \/ ToggleRead(r, u) \/ ResetMemberPassword(r, u)
       \/ \E u \in Users, g \in GivenRoles : AddMember(r, u, g) \/ UpdateRole(r, u, g)
       \/ \E a \in Addresses, u \in Users, right \in BOOLEAN : LoginStart(r, a, u, right)
       \/ \E a \in Addresses, l \in DOMAIN links : RedeemStart(r, a, l)
       \/ \E s \in Sessions, dirty \in BOOLEAN : LoadSession(r, s, dirty)
       \/ \E s \in Sessions : \/ RegisterFinish(r, s) \/ LoginFinish(r, s)
                              \/ ReplaceTemporary(r, s) \/ ChangeOwnPassword(r, s)
                              \/ SignInByLink(r, s)
       \/ \E right \in BOOLEAN : CheckOwnPassword(r, right)
       \/ ReadPage(r) \/ Logout(r) \/ RefuseOwnPassword(r) \/ ToggleActive(r) \/ UseUp(r)
  \/ \E a \in Addresses, u \in Users, stale \in SUBSET DOMAIN links : Forgot(a, u, stale)
  \/ \E s \in Sessions : SessionExpires(s)
  \/ \E l \in DOMAIN links : LinkExpires(l)
  \/ WindowPasses

Spec == Init /\ [][Next]_vars

-----------------------------------------------------------------------------
\* Once an account exists, an active administrator does: whatever two of them
\* do to each other at once, with rights read before either wrote
\* (update_role, set_active).
AlwaysAnAdmin == InstanceIsEmpty \/ ActiveAdmins # {}

\* However many people open the registration of an empty instance together,
\* one account comes out of it (insert_first).
OneFounder == founders <= 1

\* A session that is let in was opened by typing the password the account has
\* now, whoever set one meanwhile (open_session, reopen_session).  Sessions
\* opened by a link are left out: redeem reads the account again after its
\* own write, and ties the session to whatever was set in between.
LetInByItsPassword ==
  \A s \in Sessions :
    LET row == session[s] IN
      row # NoSession /\ StillValid(row) /\ ~row.byLink => row.proved = hash[row.user]

\* The lock is looked at before a password is verified and the failure counted
\* after: requests made together pass it together, but never more of them than
\* are served at once (login, check_own_password).
GuessesBounded ==
  /\ \A a \in Addresses, u \in Users : attempts[a][u] < MAX_ATTEMPTS + Cardinality(Requests)
  /\ \A u \in Users : checks[u] < MAX_ATTEMPTS + Cardinality(Requests)

\* A password set through a link costs the account a link that was sent: the
\* same link followed twice at once sets no second password for free (use_up).
EveryResetCostsALink ==
  \A u \in Users :
    spent[u] <= Cardinality({l \in DOMAIN links : links[l].user = u /\ links[l].state = "gone"})

=============================================================================
