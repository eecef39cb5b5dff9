-------------------------- MODULE SubscribersProofs --------------------------
(***************************************************************************)
(* Proofs about Subscribers, for any number of visitors, members, events,  *)
(* clicks and emails: who is written to, who is brought back, and that     *)
(* what reaches a subscriber is what Inbox allows.                         *)
(***************************************************************************)
EXTENDS Subscribers, FiniteSetTheorems, SequenceTheorems, NaturalsInduction,
        WellFoundedInduction, TLAPS

-----------------------------------------------------------------------------
(* The inductive invariant                                                 *)

Statuses == {None, "pending", "sent", "failed", "skipped"}

Rows == [event : Events \cup {None}, status : Statuses, attempts : Nat,
         due : BOOLEAN, late : BOOLEAN]

Jobs == [step : {"none", "head", "write", "ready", "settle"}, head : Ids \cup {0},
         row : Rows, result : Result]

Rounds == [pc : {"idle", "expire", "close", "due", "batch"}, readers : [Readers -> Looked],
           notices : SUBSET (Events \X Scopes), previous : [Keys -> Ids \cup {0}],
           sent : Nat, serverDown : BOOLEAN]

Allowed == [welcome : BOOLEAN, active : SUBSET Members, known : SUBSET Events,
            shown : [Readers -> Scopes]]

(* A request has something ticked, and so has the click that read it; an   *)
(* address with a request has asked since it last confirmed one.           *)
PeopleOK ==
  /\ subscribers \in [Keys -> SUBSET Kinds]
  /\ requests \in [Addresses -> Seq(Request)]
  /\ click \in [Clicks -> [to : Addresses \cup {None}, kinds : SUBSET Kinds]]
  /\ \A p \in Clicks : click[p] # NoClick => click[p].to \in Addresses /\ click[p].kinds # {}
  /\ \A a \in Addresses : requests[a] # <<>> => a \in asked

(* An email that exists was queued for the subscription that is there.     *)
RowsOK ==
  /\ rows \in [Keys -> [Ids -> Rows]] /\ next \in [Keys -> 1..(MaxEmails + 1)]
  /\ born \in [Keys -> 1..(MaxEmails + 1)] /\ \A k \in Keys : born[k] <= next[k]
  /\ \A k \in Keys : \A i \in Ids : rows[k][i].status # None =>
       Subscribed(k) /\ born[k] <= i /\ i < next[k]

(* What the page allows now was allowed in the round under way.            *)
PageOK ==
  /\ page \in Page /\ since \in Allowed
  /\ round.pc # "idle" =>
       /\ VisitorsWelcome => since.welcome
       /\ page.active \subseteq since.active /\ page.known \subseteq since.known
       /\ \A r \in Readers : page.shown[r] \subseteq since.shown[r]

(* Whom the round takes for a reader was one, and saw what it thinks: no   *)
(* round begins with what another looked up.                               *)
ReaderOK(r, looked) ==
  /\ looked.found # "reader" => looked.scope = {}
  /\ looked.found = "reader" => IF r \in Members THEN r \in since.active ELSE since.welcome
  /\ looked.scope \subseteq since.shown[r]

RoundOK ==
  /\ round \in Rounds
  /\ round.pc = "idle" => round = IdleRound
  /\ \A r \in Readers : ReaderOK(r, round.readers[r])
  /\ \A n \in round.notices : n[1] \in since.known /\ n[1] \in n[2]

(* An email being dealt with is the oldest that waits, of the subscription *)
(* that was there, and its reader may know of its event once it is written.*)
May(k, e) ==
  /\ IF k \in Members THEN k \in since.active ELSE since.welcome
  /\ e \in since.known /\ e \in since.shown[Reader(k)]

JobOK(k, j) ==
  j.step # "none" =>
    /\ round.pc = "batch" /\ j.head \in Ids /\ j.head < next[k]
    /\ k \notin ended => Subscribed(k) /\ j.head >= born[k]
    /\ \A i \in Pending(k) : j.head <= i
    /\ j.step \in {"ready", "settle"} => May(k, j.row.event)

JobsOK ==
  /\ job \in [Keys -> Jobs]
  /\ \A k \in Keys : JobOK(k, job[k])

(* The last email that arrived is behind all that wait, unless its outcome *)
(* was lost, or is about to be written.                                    *)
MailOK ==
  /\ mail \in [Keys -> [last : Nat, unsure : BOOLEAN]]
  /\ \A k \in Keys :
       /\ mail[k].last < next[k]
       /\ IF job[k].step = "settle" /\ Taken(job[k].result)
          THEN mail[k].last = job[k].head
          ELSE /\ \A i \in Pending(k) : i > mail[k].last \/ (i = mail[k].last /\ mail[k].unsure)
               /\ job[k].step # "none" /\ job[k].step # "settle" =>
                    \/ job[k].head > mail[k].last
                    \/ job[k].head = mail[k].last /\ mail[k].unsure

SubscribersInv == PeopleOK /\ RowsOK /\ PageOK /\ RoundOK /\ JobsOK /\ MailOK

-----------------------------------------------------------------------------
(* The first of some emails                                                *)

LEMMA LeastNatural ==
  ASSUME NEW T \in SUBSET Nat, T # {}
  PROVE  \E m \in T : \A n \in T : m <= n
<1> DEFINE R == OpToRel(<, Nat)
<1>1. \A y, x \in Nat : y < x => <<y, x>> \in R
  BY DEF OpToRel
<1>2. IsWellFoundedOn(R, Nat)
  BY NatLessThanWellFounded
<1> HIDE DEF R
<1>3. PICK m \in T : \A n \in T : ~ (<<n, m>> \in R)
  BY <1>2, WFMin, Zenon
<1>4. \A n \in T : ~(n < m)
  BY <1>1, <1>3
<1> QED BY <1>4

LEMMA FirstOfSome ==
  ASSUME NEW ids \in SUBSET Ids, ids # {}
  PROVE  First(ids) \in ids /\ \A j \in ids : First(ids) <= j
<1>1. ids \in SUBSET Nat
  BY DEF Ids
<1>2. \E m \in ids : \A n \in ids : m <= n
  BY <1>1, LeastNatural
<1> QED BY <1>2 DEF First

\* The head of a queue is the oldest email that waits.
LEMMA DueIsFirst ==
  ASSUME NEW k \in Keys
  PROVE  /\ Due(k) \in Ids \cup {0}
         /\ Due(k) # 0 => Due(k) \in Pending(k) /\ \A j \in Pending(k) : Due(k) <= j
<1>1. Pending(k) \in SUBSET Ids
  BY DEF Pending
<1>2. CASE Pending(k) = {}
  BY <1>2 DEF Due
<1>3. CASE Pending(k) # {}
  <2>1. First(Pending(k)) \in Pending(k) /\ \A j \in Pending(k) : First(Pending(k)) <= j
    BY <1>1, <1>3, FirstOfSome
  <2> QED BY <1>1, <2>1 DEF Due
<1> QED BY <1>2, <1>3

-----------------------------------------------------------------------------
(* What a step does to the queues                                          *)

LEMMA NoRowIsARow == NoRow \in Rows
BY DEF NoRow, Rows, Statuses, None

(* No email begins to wait, or to exist.                                   *)
Dwindles(before, after) ==
  /\ after.status = "pending" => before.status = "pending"
  /\ after.status # None => before.status # None

RowsDwindle ==
  /\ rows' \in [Keys -> [Ids -> Rows]]
  /\ \A k \in Keys : \A i \in Ids : Dwindles(rows[k][i], rows'[k][i])

\* The statements that write an outcome.
LEMMA OutcomesDwindle ==
  ASSUME NEW row \in Rows
  PROVE  /\ MarkSent(row) \in Rows /\ Dwindles(row, MarkSent(row))
         /\ MarkSent(row).status # "pending"
         /\ RetryLater(row) \in Rows /\ Dwindles(row, RetryLater(row))
         /\ \A status \in {"failed", "skipped"} :
              Close(row, status) \in Rows /\ Dwindles(row, Close(row, status))
<1>1. \A status \in {"sent", "failed", "skipped"} :
        Finished(row, status) \in Rows /\ Finished(row, status).status = status
  BY DEF Finished, NoRow, Rows, Statuses, None
<1>2. MarkSent(row) \in Rows /\ Dwindles(row, MarkSent(row)) /\ MarkSent(row).status # "pending"
  <2>1. CASE row.status = None
    BY <2>1 DEF MarkSent, Dwindles, None
  <2>2. CASE row.status # None
    BY <1>1, <2>2 DEF MarkSent, Dwindles, None
  <2> QED BY <2>1, <2>2
<1>3. RetryLater(row) \in Rows /\ Dwindles(row, RetryLater(row))
  <2> DEFINE later == [row EXCEPT !.attempts = row.attempts + 1, !.due = FALSE]
  <2>1. later \in Rows
    <3>1. row.attempts + 1 \in Nat
      BY DEF Rows
    <3> DEFINE n == row.attempts + 1
    <3> HIDE DEF n
    <3>2. [row EXCEPT !.attempts = n, !.due = FALSE] \in Rows
      BY <3>1 DEF n, Rows
    <3> QED BY <3>2 DEF n
  <2>2. later.status = row.status
    BY DEF Rows
  <2>3. RetryLater(row) \in {row, later}
    BY DEF RetryLater
  <2> HIDE DEF later
  <2> QED BY <2>1, <2>2, <2>3 DEF Dwindles
<1>4. ASSUME NEW status \in {"failed", "skipped"}
      PROVE  Close(row, status) \in Rows /\ Dwindles(row, Close(row, status))
  BY <1>1 DEF Close, Dwindles, None
<1> QED BY <1>2, <1>3, <1>4

\* One email of one subscriber changes.
LEMMA OneRow ==
  ASSUME RowsOK, NEW k \in Keys, NEW i \in Ids, NEW row \in Rows, Dwindles(rows[k][i], row),
         rows' = [rows EXCEPT ![k][i] = row]
  PROVE  RowsDwindle
BY DEF RowsDwindle, RowsOK, Dwindles

LEMMA SameRows == RowsOK /\ rows' = rows => RowsDwindle
BY DEF RowsDwindle, RowsOK, Dwindles

-----------------------------------------------------------------------------
(* The parts of the invariant that a step leaves alone                     *)

LEMMA SamePeople == PeopleOK /\ UNCHANGED <<people, asked>> => PeopleOK'
BY DEF PeopleOK, people, NoClick, None

LEMMA RowsKept ==
  ASSUME RowsOK, RowsDwindle, UNCHANGED <<next, born, subscribers>>
  PROVE  RowsOK'
BY DEF RowsOK, RowsDwindle, Dwindles, Subscribed

LEMMA PageKept ==
  ASSUME PageOK, UNCHANGED <<page, since>>, round'.pc # "idle" => round.pc # "idle"
  PROVE  PageOK'
BY DEF PageOK, VisitorsWelcome

LEMMA RoundKept ==
  ASSUME RoundOK, UNCHANGED since, round' \in Rounds,
         round'.pc = "idle" => round' = round,
         round'.readers = round.readers, round'.notices = round.notices
  PROVE  RoundOK'
BY DEF RoundOK, ReaderOK

LEMMA JobKept ==
  ASSUME NEW k \in Keys, RowsOK, JobOK(k, job[k]),
         job'[k].step # "none" =>
           /\ job[k].step # "none" /\ round'.pc = "batch"
           /\ job'[k].head = job[k].head
           /\ job'[k].step \in {"ready", "settle"} => May(k, job[k].row.event)'
           /\ job'[k].row = job[k].row,
         next'[k] \in Nat, next'[k] >= next[k],
         \A i \in Pending(k)' : i \in Pending(k) \/ i >= next[k],
         k \notin ended' => k \notin ended,
         k \notin ended' /\ Subscribed(k) => Subscribed(k)' /\ born'[k] = born[k]
  PROVE  JobOK(k, job[k])'
<1> SUFFICES ASSUME job'[k].step # "none" PROVE JobOK(k, job[k])'
  BY DEF JobOK
<1>1. /\ job[k].step # "none" /\ round'.pc = "batch" /\ job'[k].head = job[k].head
      /\ job'[k].row = job[k].row
      /\ job'[k].step \in {"ready", "settle"} => May(k, job[k].row.event)'
  OBVIOUS
<1>2. job[k].head \in Ids /\ job[k].head < next[k] /\ next[k] \in Nat /\ job[k].head \in Nat
  BY <1>1 DEF JobOK, RowsOK, Ids
<1>3. job'[k].head \in Ids /\ job'[k].head < next'[k]
  BY <1>1, <1>2
<1>4. ASSUME NEW i \in Pending(k)' PROVE job'[k].head <= i
  <2>1. i \in Nat
    BY DEF Pending, Ids
  <2> QED BY <1>1, <1>2, <2>1 DEF JobOK
<1>5. k \notin ended' => Subscribed(k)' /\ job'[k].head >= born'[k]
  BY <1>1 DEF JobOK
<1>6. job'[k].step \in {"ready", "settle"} => May(k, job[k].row.event)'
  BY <1>1
<1> QED BY <1>1, <1>3, <1>4, <1>5, <1>6 DEF JobOK, May, Reader

\* Only the queue and the people changed, not the round.
LEMMA JobsKept ==
  ASSUME SubscribersInv, RowsDwindle, UNCHANGED <<next, job, since>>, round'.pc = round.pc,
         \A k \in Keys : k \notin ended' => k \notin ended,
         \A k \in Keys : k \notin ended' /\ job[k].step # "none" /\ Subscribed(k) =>
           Subscribed(k)' /\ born'[k] = born[k]
  PROVE  JobsOK'
<1>1. ASSUME NEW k \in Keys PROVE JobOK(k, job[k])'
  <2>1. JobOK(k, job[k]) /\ RowsOK
    BY DEF SubscribersInv, JobsOK
  <2>2. CASE job[k].step = "none"
    BY <2>2 DEF JobOK
  <2>3. CASE job[k].step # "none"
    <3>1. round'.pc = "batch"
      BY <2>1, <2>3 DEF JobOK
    <3>2. job[k].step \in {"ready", "settle"} => May(k, job[k].row.event)'
      BY <2>1, <2>3 DEF JobOK, May
    <3>3. \A i \in Pending(k)' : i \in Pending(k)
      BY DEF RowsDwindle, Dwindles, Pending
    <3>4. next'[k] \in Nat /\ next'[k] >= next[k]
      BY <2>1 DEF RowsOK
    <3> QED BY <2>1, <2>3, <3>1, <3>2, <3>3, <3>4, JobKept
  <2> QED BY <2>2, <2>3
<1> QED BY <1>1 DEF SubscribersInv, JobsOK

LEMMA MailKept ==
  ASSUME SubscribersInv, RowsDwindle, UNCHANGED <<next, job, mail>>
  PROVE  MailOK'
<1>1. \A k \in Keys : \A i \in Pending(k)' : i \in Pending(k)
  BY DEF RowsDwindle, Dwindles, Pending
<1> QED BY <1>1 DEF SubscribersInv, MailOK

-----------------------------------------------------------------------------
(* The people                                                              *)

\* The requests kept by a purge were there before.
LEMMA FreshType ==
  ASSUME NEW reqs \in Seq(Request)
  PROVE  Fresh(reqs) \in Seq(Request) /\ (reqs = <<>> => Fresh(reqs) = <<>>)
<1> DEFINE stale == {i \in DOMAIN reqs : reqs[i].age = "stale"}
           n == Cardinality(stale) + 1
<1>1. Len(reqs) \in Nat /\ DOMAIN reqs = 1..Len(reqs)
  BY LenProperties
<1>2. IsFiniteSet(1..Len(reqs)) /\ stale \in SUBSET (1..Len(reqs))
  BY <1>1, FS_Interval
<1>3. n \in Nat /\ n >= 1
  BY <1>2, FS_Subset, FS_CardinalityType
<1>4. Fresh(reqs) = SubSeq(reqs, n, Len(reqs))
  BY DEF Fresh
<1> HIDE DEF n, stale
<1>5. \A i \in n..Len(reqs) : reqs[i] \in Request
  BY <1>1, <1>3, ElementOfSeq
<1>6. Fresh(reqs) \in Seq(Request)
  BY <1>1, <1>3, <1>4, <1>5, SubSeqProperties
<1>7. ASSUME reqs = <<>> PROVE Fresh(reqs) = <<>>
  <2>1. Len(reqs) = 0
    BY <1>7
  <2> QED BY <1>3, <1>4, <2>1, SubSeqEmpty
<1> QED BY <1>6, <1>7

\* Nothing but requests and clicks changes.
LEMMA OnlyRequests ==
  ASSUME SubscribersInv, PeopleOK',
         UNCHANGED <<subscribers, page, queue, task, since, mail, ended, born>>
  PROVE  SubscribersInv'
<1>1. RowsDwindle
  BY SameRows DEF SubscribersInv, queue
<1>2. RowsOK' /\ PageOK'
  BY <1>1, RowsKept, PageKept DEF SubscribersInv, queue, task
<1>3. RoundOK'
  BY DEF SubscribersInv, RoundOK, ReaderOK, task
<1>4. JobsOK' /\ MailOK'
  BY <1>1, JobsKept, MailKept DEF queue, task, Subscribed
<1> QED BY <1>2, <1>3, <1>4 DEF SubscribersInv

LEMMA AskKeeps ==
  ASSUME SubscribersInv, NEW a \in Addresses, NEW kinds \in SUBSET Kinds, Ask(a, kinds)
  PROVE  SubscribersInv'
<1> DEFINE new == [kinds |-> kinds, age |-> "hour"]
<1>1. new \in Request
  BY DEF Ask, Request
<1>2. requests' = [requests EXCEPT ![a] = Append(requests[a], new)] /\ asked' = asked \cup {a}
      /\ UNCHANGED <<subscribers, click>>
  BY DEF Ask
<1> HIDE DEF new
<1>3. requests' \in [Addresses -> Seq(Request)]
  BY <1>1, <1>2 DEF SubscribersInv, PeopleOK
<1>4. PeopleOK'
  BY <1>2, <1>3 DEF SubscribersInv, PeopleOK, NoClick
<1> QED BY <1>4, OnlyRequests DEF Ask

LEMMA ConfirmStartKeeps ==
  ASSUME SubscribersInv, NEW p \in Clicks, NEW a \in Addresses, ConfirmStart(p, a)
  PROVE  SubscribersInv'
<1> DEFINE read == requests[a][Len(requests[a])]
           new == [to |-> a, kinds |-> read.kinds]
<1>1. read \in Request
  <2>1. requests[a] \in Seq(Request) /\ requests[a] # <<>>
    BY DEF ConfirmStart, FindLive, SubscribersInv, PeopleOK
  <2>2. Len(requests[a]) \in 1..Len(requests[a])
    BY <2>1, EmptySeq
  <2> QED BY <2>1, <2>2, ElementOfSeq
<1>2. read.kinds \in SUBSET Kinds /\ read.kinds # {}
  BY <1>1 DEF Request
<1>3. click' = [click EXCEPT ![p] = new] /\ UNCHANGED <<subscribers, requests, asked>>
  BY DEF ConfirmStart, history
<1> HIDE DEF read
<1>4. PeopleOK'
  <2>1. new \in [to : Addresses \cup {None}, kinds : SUBSET Kinds] /\ new.to = a /\ new.kinds # {}
    BY <1>2
  <2> HIDE DEF new
  <2> QED BY <1>3, <2>1 DEF SubscribersInv, PeopleOK, NoClick
<1> QED BY <1>4, OnlyRequests DEF ConfirmStart, history

LEMMA GrowKeeps ==
  ASSUME SubscribersInv, NEW a \in Addresses, NEW i \in 1..MaxInputs, Grow(a, i)
  PROVE  SubscribersInv'
<1> DEFINE age == IF requests[a][i].age = "hour" THEN "day" ELSE "stale"
           new == [requests[a][i] EXCEPT !.age = age]
           reqs == [requests[a] EXCEPT ![i] = new]
<1>1. requests \in [Addresses -> Seq(Request)] /\ i \in DOMAIN requests[a]
  BY DEF Grow, SubscribersInv, PeopleOK
<1>2. i \in 1..Len(requests[a]) /\ requests[a] \in Seq(Request) /\ requests[a] # <<>>
  BY <1>1
<1>3. requests[a][i] \in Request
  BY <1>2, ElementOfSeq
<1>4. new \in Request
  BY <1>3 DEF Request
<1>5. requests' = [requests EXCEPT ![a] = reqs] /\ UNCHANGED <<subscribers, click, asked>>
  BY <1>1 DEF Grow, history
<1>6. reqs \in Seq(Request)
  BY <1>2, <1>4, ExceptSeq
<1> HIDE DEF reqs
<1>7. PeopleOK'
  BY <1>1, <1>2, <1>5, <1>6 DEF SubscribersInv, PeopleOK, NoClick
<1> QED BY <1>7, OnlyRequests DEF Grow, history

\* A subscription begins, or receives other kinds.
LEMMA SubscribedKeeps ==
  ASSUME SubscribersInv, PeopleOK', NEW k \in Keys, NEW kinds \in SUBSET Kinds, kinds # {},
         subscribers' = [subscribers EXCEPT ![k] = kinds], born' = Born(k),
         UNCHANGED <<page, queue, task, since, mail, ended>>
  PROVE  SubscribersInv'
<1>1. RowsDwindle
  BY SameRows DEF SubscribersInv, queue
<1>2. PageOK'
  BY PageKept DEF SubscribersInv, task
<1>3. RoundOK'
  BY DEF SubscribersInv, RoundOK, ReaderOK, task
<1>4. MailOK'
  BY <1>1, MailKept DEF queue, task
<1>5. subscribers \in [Keys -> SUBSET Kinds] /\ RowsOK
  BY DEF SubscribersInv, PeopleOK
<1>6. \A x \in Keys : Subscribed(x) => Subscribed(x)'
  BY <1>5 DEF Subscribed
<1>7. \A x \in Keys : Subscribed(x) => born'[x] = born[x]
  BY <1>5 DEF Born, RowsOK
<1>8. JobsOK'
  BY <1>1, <1>6, <1>7, JobsKept DEF queue, task
<1>9. /\ born' \in [Keys -> 1..(MaxEmails + 1)]
      /\ \A x \in Keys : born'[x] <= next[x]
  BY <1>5, SubscribersAssumption DEF Born, RowsOK
<1>10. RowsOK'
  BY <1>5, <1>6, <1>7, <1>9 DEF RowsOK, queue
<1> QED BY <1>2, <1>3, <1>4, <1>8, <1>10 DEF SubscribersInv

LEMMA ConfirmFinishKeeps ==
  ASSUME SubscribersInv, NEW p \in Clicks, ConfirmFinish(p)
  PROVE  SubscribersInv'
<1> DEFINE a == click[p].to
<1>1. a \in Addresses /\ a \in Keys /\ click[p].kinds \in SUBSET Kinds /\ click[p].kinds # {}
  BY DEF ConfirmFinish, SubscribersInv, PeopleOK, Keys
<1>2. click' = [click EXCEPT ![p] = NoClick]
  BY DEF ConfirmFinish
<1>3. /\ click' \in [Clicks -> [to : Addresses \cup {None}, kinds : SUBSET Kinds]]
      /\ \A x \in Clicks : click'[x] # NoClick => click'[x].to \in Addresses /\ click'[x].kinds # {}
  BY <1>2 DEF SubscribersInv, PeopleOK, NoClick
<1>4. CASE UsesUp(a)
  <2>1. /\ requests' = [requests EXCEPT ![a] = <<>>] /\ asked' = asked \ {a} /\ born' = Born(a)
        /\ subscribers' = [subscribers EXCEPT ![a] = click[p].kinds]
        /\ UNCHANGED <<page, queue, task, since, mail, ended>>
    BY <1>4 DEF ConfirmFinish
  <2> HIDE DEF a
  <2>2. PeopleOK'
    BY <1>1, <1>3, <2>1 DEF SubscribersInv, PeopleOK
  <2> QED BY <1>1, <2>1, <2>2, SubscribedKeeps
<1>5. CASE ~UsesUp(a)
  <2>1. UNCHANGED <<subscribers, requests, asked, born, page, queue, task, since, mail, ended>>
    BY <1>5 DEF ConfirmFinish
  <2>2. PeopleOK'
    BY <1>3, <2>1 DEF SubscribersInv, PeopleOK
  <2> QED BY <2>1, <2>2, OnlyRequests
<1> QED BY <1>4, <1>5

LEMMA SaveMemberKeeps ==
  ASSUME SubscribersInv, NEW u \in Members, NEW kinds \in SUBSET Kinds, SaveMember(u, kinds)
  PROVE  SubscribersInv'
<1>1. u \in Keys /\ kinds # {} /\ subscribers' = [subscribers EXCEPT ![u] = kinds]
      /\ UNCHANGED <<requests, click, asked>>
  BY DEF SaveMember, Keys
<1>2. PeopleOK'
  BY <1>1 DEF SubscribersInv, PeopleOK
<1> QED BY <1>1, <1>2, SubscribedKeeps DEF SaveMember

\* A subscription ends, and with it the emails it still had to receive.
LEMMA DeleteKeeps ==
  ASSUME SubscribersInv, NEW k \in Keys, Delete(k)
  PROVE  SubscribersInv' /\ RowsDwindle
<1>1. /\ subscribers' = [subscribers EXCEPT ![k] = {}]
      /\ rows' = [rows EXCEPT ![k] = [i \in Ids |-> NoRow]]
      /\ ended' = IF round.pc = "idle" THEN ended ELSE ended \cup {k}
      /\ UNCHANGED <<requests, click, page, next, task, since, mail, asked, born>>
  BY DEF Delete
<1>2. NoRow.status = None
  BY DEF NoRow
<1>3. RowsDwindle
  BY <1>1, <1>2, NoRowIsARow DEF RowsDwindle, Dwindles, SubscribersInv, RowsOK, None
<1>4. PeopleOK'
  BY <1>1 DEF SubscribersInv, PeopleOK
<1>5. RowsOK'
  <2>1. \A x \in Keys : x # k => Subscribed(x)' = Subscribed(x) /\ rows'[x] = rows[x]
    BY <1>1 DEF Subscribed, SubscribersInv, PeopleOK, RowsOK
  <2>2. \A i \in Ids : rows'[k][i].status = None
    BY <1>1, <1>2 DEF SubscribersInv, RowsOK
  <2> QED BY <1>1, <1>3, <2>1, <2>2 DEF SubscribersInv, RowsOK, RowsDwindle
<1>6. PageOK'
  BY <1>1, PageKept DEF SubscribersInv, task
<1>7. RoundOK'
  BY <1>1 DEF SubscribersInv, RoundOK, ReaderOK, task
<1>8. MailOK'
  BY <1>1, <1>3, MailKept DEF task
<1>9. ASSUME NEW x \in Keys, x \notin ended', job[x].step # "none", Subscribed(x)
      PROVE  Subscribed(x)' /\ born'[x] = born[x]
  <2>1. round.pc = "batch"
    BY <1>9 DEF SubscribersInv, JobsOK, JobOK
  <2> QED BY <1>1, <1>9, <2>1 DEF Subscribed, SubscribersInv, PeopleOK
<1>10. JobsOK'
  BY <1>1, <1>3, <1>9, JobsKept DEF task
<1> QED BY <1>3, <1>4, <1>5, <1>6, <1>7, <1>8, <1>10 DEF SubscribersInv

-----------------------------------------------------------------------------
(* What the team changes                                                   *)

LEMMA FollowType ==
  ASSUME NEW now \in Allowed, NEW p \in Page
  PROVE  /\ Follow(now, p) \in Allowed
         /\ now.welcome \/ (p.public /\ p.open) => Follow(now, p).welcome
         /\ Follow(now, p).active = now.active \cup p.active
         /\ Follow(now, p).known = now.known \cup p.known
         /\ \A r \in Readers : Follow(now, p).shown[r] = now.shown[r] \cup p.shown[r]
<1> DEFINE shown == [r \in Readers |-> now.shown[r] \cup p.shown[r]]
           welcome == now.welcome \/ (p.public /\ p.open)
<1>1. shown \in [Readers -> Scopes]
  BY DEF Allowed, Page, Scopes
<1>2. welcome \in BOOLEAN
  OBVIOUS
<1>3. now.active \cup p.active \in SUBSET Members /\ now.known \cup p.known \in SUBSET Events
  BY DEF Allowed, Page
<1>4. Follow(now, p) = [welcome |-> welcome, active |-> now.active \cup p.active,
                        known |-> now.known \cup p.known, shown |-> shown]
  BY DEF Follow
<1>5. \A r \in Readers : shown[r] = now.shown[r] \cup p.shown[r]
  OBVIOUS
<1>6. welcome = (now.welcome \/ (p.public /\ p.open))
  OBVIOUS
<1> HIDE DEF shown, welcome
<1>7. Follow(now, p) \in Allowed
  BY <1>1, <1>2, <1>3, <1>4 DEF Allowed
<1>8. Follow(now, p).shown = shown /\ Follow(now, p).active = now.active \cup p.active
      /\ Follow(now, p).known = now.known \cup p.known
  BY <1>4
<1>9. Follow(now, p).welcome = welcome
  BY <1>4
<1>10. now.welcome \/ (p.public /\ p.open) => Follow(now, p).welcome
  BY <1>6, <1>9, Zenon
<1> QED BY <1>5, <1>7, <1>8, <1>10

(* What was allowed stays so while a round is under way.                   *)
Widens ==
  /\ since.welcome => since'.welcome
  /\ since.active \subseteq since'.active /\ since.known \subseteq since'.known
  /\ \A r \in Readers : since.shown[r] \subseteq since'.shown[r]

LEMMA SetKeeps ==
  ASSUME SubscribersInv, RowsDwindle, NEW p \in Page, Set(p),
         UNCHANGED <<people, next, task, mail, asked, ended, born>>
  PROVE  SubscribersInv'
<1>1. page' = p /\ since' = IF round.pc = "idle" THEN since ELSE Follow(since, p)
  BY DEF Set
<1>2. since \in Allowed
  BY DEF SubscribersInv, PageOK
<1>3. Widens /\ since' \in Allowed
  BY <1>1, <1>2, FollowType DEF Widens
<1>4. PageOK'
  BY <1>1, <1>2, <1>3, FollowType DEF PageOK, VisitorsWelcome, task
<1>5. PeopleOK' /\ RowsOK'
  BY SamePeople, RowsKept DEF SubscribersInv, people
<1>6. ASSUME NEW r \in Readers PROVE ReaderOK(r, round.readers[r])'
  <2>1. ReaderOK(r, round.readers[r])
    BY DEF SubscribersInv, RoundOK
  <2>2. round' = round
    BY DEF task
  <2> QED BY <1>3, <2>1, <2>2 DEF ReaderOK, Widens
<1>7. RoundOK'
  BY <1>3, <1>6 DEF SubscribersInv, RoundOK, Widens, task
<1>8. ASSUME NEW k \in Keys PROVE JobOK(k, job[k])'
  <2>1. JobOK(k, job[k]) /\ RowsOK /\ job' = job /\ round' = round
    BY DEF SubscribersInv, JobsOK, task
  <2>2. job[k].step \in {"ready", "settle"} => May(k, job[k].row.event)'
    <3>1. Reader(k) \in Readers
      BY DEF Reader, Readers
    <3> QED BY <1>3, <2>1, <3>1 DEF JobOK, May, Widens
  <2>3. \A i \in Pending(k)' : i \in Pending(k)
    BY DEF RowsDwindle, Dwindles, Pending
  <2>4. next'[k] \in Nat /\ next'[k] >= next[k]
    BY <2>1 DEF RowsOK
  <2>5. Subscribed(k)' = Subscribed(k)
    BY DEF Subscribed, people
  <2>6. job[k].step # "none" => round.pc = "batch"
    BY <2>1 DEF JobOK
  <2> QED BY <2>1, <2>2, <2>3, <2>4, <2>5, <2>6, JobKept
<1>9. JobsOK'
  BY <1>8 DEF SubscribersInv, JobsOK, task
<1>10. MailOK'
  BY MailKept DEF task
<1> QED BY <1>4, <1>5, <1>7, <1>9, <1>10 DEF SubscribersInv

LEMMA ChangeKeeps ==
  ASSUME SubscribersInv, Change
  PROVE  SubscribersInv' /\ RowsDwindle
<1>a. page \in Page /\ RowsOK
  BY DEF SubscribersInv, PageOK
<1>b. rows' = rows => RowsDwindle
  BY <1>a, SameRows
<1>1. ASSUME NEW on \in BOOLEAN, SetVisitors(on) \/ SetPublic(on) \/ SetLinked(on)
      PROVE  SubscribersInv' /\ RowsDwindle
  <2>1. /\ [page EXCEPT !.open = on] \in Page /\ [page EXCEPT !.public = on] \in Page
        /\ [page EXCEPT !.linked = on] \in Page
    BY <1>a DEF Page
  <2>2. PICK p \in Page : Set(p)
    BY <1>1, <2>1 DEF SetVisitors, SetPublic, SetLinked
  <2>3. UNCHANGED <<people, queue, task, mail, asked, ended, born>>
    BY <1>1 DEF SetVisitors, SetPublic, SetLinked
  <2> QED BY <1>b, <2>2, <2>3, SetKeeps DEF queue
<1>2. ASSUME NEW active \in SUBSET Members, SetActive(active) PROVE SubscribersInv' /\ RowsDwindle
  <2>1. [page EXCEPT !.active = active] \in Page
    BY <1>a DEF Page
  <2> QED BY <1>2, <1>b, <2>1, SetKeeps DEF SetActive, queue
<1>3. ASSUME NEW r \in Readers, NEW shown \in Scopes, SetShown(r, shown) PROVE SubscribersInv' /\ RowsDwindle
  <2> DEFINE f == [page.shown EXCEPT ![r] = shown]
  <2>1. f \in [Readers -> Scopes]
    BY <1>a DEF Page
  <2>2. [page EXCEPT !.shown[r] = shown] = [page EXCEPT !.shown = f]
    OBVIOUS
  <2> HIDE DEF f
  <2>3. [page EXCEPT !.shown = f] \in Page
    BY <1>a, <2>1 DEF Page
  <2> QED BY <1>3, <1>b, <2>2, <2>3, SetKeeps DEF SetShown, queue
<1>4. ASSUME NEW e \in Events, DeleteEvent(e) PROVE SubscribersInv' /\ RowsDwindle
  <2>1. [page EXCEPT !.known = page.known \ {e}] \in Page
    BY <1>a DEF Page
  <2>2. RowsDwindle
    <3>1. NoRow.status = None
      BY DEF NoRow
    <3> QED BY <1>4, <1>a, <3>1, NoRowIsARow DEF DeleteEvent, RowsDwindle, RowsOK, Dwindles, None
  <2> QED BY <1>4, <2>1, <2>2, SetKeeps DEF DeleteEvent
<1>5. ASSUME NEW k \in Keys, Unsubscribe(k) \/ Remove(k) \/ Delete(k) PROVE SubscribersInv' /\ RowsDwindle
  BY <1>5, DeleteKeeps DEF Unsubscribe, Remove
<1>6. ASSUME NEW u \in Members, StopMember(u) PROVE SubscribersInv' /\ RowsDwindle
  BY <1>6, DeleteKeeps DEF StopMember, Keys
<1>7. ASSUME NEW u \in Members, NEW kinds \in SUBSET Kinds, SaveMember(u, kinds)
      PROVE  SubscribersInv' /\ RowsDwindle
  BY <1>7, <1>b, SaveMemberKeeps DEF SaveMember, queue
<1> QED BY <1>1, <1>2, <1>3, <1>4, <1>5, <1>6, <1>7 DEF Change

-----------------------------------------------------------------------------
(* The queues                                                              *)

\* What enqueue does to each queue.
LEMMA QueuedOnce ==
  ASSUME SubscribersInv, NEW e \in Events, NEW due \in BOOLEAN, Enqueue(e, due)
  PROVE  \E to \in SUBSET Keys :
           /\ to # {}
           /\ \A k \in to : next[k] \in Ids /\ Subscribed(k)
           /\ rows' \in [Keys -> [Ids -> Rows]]
           /\ next' = [k \in Keys |-> IF k \in to THEN next[k] + 1 ELSE next[k]]
           /\ \A k \in Keys : \A i \in Ids : k \notin to \/ i # next[k] => rows'[k][i] = rows[k][i]
           /\ \A k \in to : rows'[k][next[k]].status = "pending"
<1> DEFINE to == {k \in Keys : Receives(k, KindOf[e])}
           row == [NoRow EXCEPT !.event = e, !.status = "pending", !.due = due]
<1>1. row \in Rows /\ row.status = "pending"
  BY DEF NoRow, Rows, Statuses, None
<1>2. /\ to # {} /\ \A k \in to : next[k] \in Ids
      /\ rows' = [k \in Keys |-> IF k \in to THEN [rows[k] EXCEPT ![next[k]] = row] ELSE rows[k]]
      /\ next' = [k \in Keys |-> IF k \in to THEN next[k] + 1 ELSE next[k]]
  BY DEF Enqueue
<1>3. \A k \in to : Subscribed(k)
  BY DEF Receives, Subscribed
<1>4. to \in SUBSET Keys /\ rows \in [Keys -> [Ids -> Rows]]
  BY DEF SubscribersInv, RowsOK
<1> HIDE DEF to, row
<1>5. rows' \in [Keys -> [Ids -> Rows]]
  BY <1>1, <1>2, <1>4
<1>6. \A k \in Keys : \A i \in Ids : k \notin to \/ i # next[k] => rows'[k][i] = rows[k][i]
  BY <1>2, <1>4
<1>7. \A k \in to : rows'[k][next[k]].status = "pending"
  BY <1>1, <1>2, <1>4
<1> QED BY <1>2, <1>3, <1>4, <1>5, <1>6, <1>7

LEMMA EnqueueKeeps ==
  ASSUME SubscribersInv, NEW e \in Events, NEW due \in BOOLEAN, Enqueue(e, due)
  PROVE  SubscribersInv'
<1>a. RowsOK /\ UNCHANGED <<people, page, task, history, used>>
  BY DEF Enqueue, SubscribersInv
<1>1. PICK to \in SUBSET Keys :
        /\ \A k \in to : next[k] \in Ids /\ Subscribed(k)
        /\ rows' \in [Keys -> [Ids -> Rows]]
        /\ next' = [k \in Keys |-> IF k \in to THEN next[k] + 1 ELSE next[k]]
        /\ \A k \in Keys : \A i \in Ids : k \notin to \/ i # next[k] => rows'[k][i] = rows[k][i]
        /\ \A k \in to : rows'[k][next[k]].status = "pending"
  BY QueuedOnce
<1>2. next' \in [Keys -> 1..(MaxEmails + 1)]
  BY <1>a, <1>1, SubscribersAssumption DEF RowsOK, Ids
<1>3. \A k \in Keys : next'[k] \in Nat /\ next[k] \in Nat /\ born[k] \in Nat /\ next'[k] >= next[k]
                      /\ (k \in to => next'[k] = next[k] + 1)
  BY <1>a, <1>1 DEF RowsOK
<1>4. RowsOK'
  <2>1. ASSUME NEW k \in Keys, NEW i \in Ids, rows'[k][i].status # None
        PROVE  Subscribed(k)' /\ born'[k] <= i /\ i < next'[k]
    <3>1. Subscribed(k)' = Subscribed(k) /\ born' = born /\ i \in Nat
      BY <1>a DEF Subscribed, people, history, Ids
    <3>2. CASE k \in to /\ i = next[k]
      BY <1>a, <1>1, <1>3, <3>1, <3>2 DEF RowsOK
    <3>3. CASE ~(k \in to /\ i = next[k])
      <4>1. rows[k][i].status # None
        BY <1>1, <2>1, <3>3
      <4>2. Subscribed(k) /\ born[k] <= i /\ i < next[k]
        BY <1>a, <4>1 DEF RowsOK
      <4> QED BY <1>3, <3>1, <4>2
    <3> QED BY <3>2, <3>3
  <2>2. born' \in [Keys -> 1..(MaxEmails + 1)] /\ \A k \in Keys : born'[k] <= next'[k]
    BY <1>a, <1>3 DEF RowsOK, history
  <2> QED BY <1>1, <1>2, <2>1, <2>2 DEF RowsOK
<1>5. \A k \in Keys : \A i \in Pending(k)' : i \in Pending(k) \/ i = next[k]
  BY <1>1 DEF Pending
<1>6. JobsOK'
  <2>1. ASSUME NEW k \in Keys PROVE JobOK(k, job[k])'
    <3>1. JobOK(k, job[k]) /\ job' = job /\ round' = round
      BY <1>a DEF SubscribersInv, JobsOK, task
    <3>2. job[k].step # "none" => round.pc = "batch"
      BY <3>1 DEF JobOK
    <3>3. job[k].step \in {"ready", "settle"} => May(k, job[k].row.event)'
      BY <1>a, <3>1 DEF JobOK, May, history
    <3>4. Subscribed(k)' = Subscribed(k) /\ born' = born /\ ended' = ended
      BY <1>a DEF Subscribed, people, history
    <3>5. \A i \in Pending(k)' : i \in Pending(k) \/ i >= next[k]
      BY <1>3, <1>5
    <3> QED BY <1>a, <1>3, <3>1, <3>2, <3>3, <3>4, <3>5, JobKept
  <2> QED BY <1>a, <2>1 DEF SubscribersInv, JobsOK, task
<1>7. MailOK'
  <2> SUFFICES ASSUME NEW k \in Keys
               PROVE  /\ mail[k].last < next'[k]
                      /\ IF job[k].step = "settle" /\ Taken(job[k].result)
                         THEN mail[k].last = job[k].head
                         ELSE /\ \A i \in Pending(k)' :
                                   i > mail[k].last \/ (i = mail[k].last /\ mail[k].unsure)
                              /\ job[k].step # "none" /\ job[k].step # "settle" =>
                                   \/ job[k].head > mail[k].last
                                   \/ job[k].head = mail[k].last /\ mail[k].unsure
    BY <1>a DEF SubscribersInv, MailOK, task, history
  <2>1. mail[k].last \in Nat /\ mail[k].last < next[k]
    BY DEF SubscribersInv, MailOK
  <2> QED BY <1>3, <1>5, <2>1 DEF SubscribersInv, MailOK
<1>8. PeopleOK'
  BY <1>a, SamePeople DEF SubscribersInv, people, history
<1>9. PageOK' /\ RoundOK'
  BY <1>a, PageKept, RoundKept DEF SubscribersInv, task, history, RoundOK
<1> QED BY <1>4, <1>6, <1>7, <1>8, <1>9 DEF SubscribersInv

\* Only the queues change, and at most where the round is.
LEMMA OnlyRows ==
  ASSUME SubscribersInv, RowsDwindle, PeopleOK',
         UNCHANGED <<subscribers, page, next, job, history>>,
         round' = [round EXCEPT !.pc = round'.pc], round'.pc \in {"idle", "expire", "close", "due", "batch"},
         round'.pc = "idle" <=> round.pc = "idle",
         \A k \in Keys : job[k].step # "none" => round'.pc = "batch"
  PROVE  SubscribersInv'
<1>1. RowsOK' /\ MailOK'
  BY RowsKept, MailKept DEF SubscribersInv, history
<1>2. round \in Rounds
  BY DEF SubscribersInv, RoundOK
<1>3. round' \in Rounds /\ round'.readers = round.readers /\ round'.notices = round.notices
  <2> DEFINE pc == round'.pc
  <2>1. round' = [round EXCEPT !.pc = pc] /\ pc \in {"idle", "expire", "close", "due", "batch"}
    OBVIOUS
  <2> HIDE DEF pc
  <2> QED BY <1>2, <2>1 DEF Rounds
<1>a. round'.pc = "idle" => round' = round
  BY <1>2 DEF Rounds
<1>4. PageOK' /\ RoundOK'
  BY <1>3, <1>a, PageKept, RoundKept DEF SubscribersInv, history
<1>5. ASSUME NEW k \in Keys PROVE JobOK(k, job[k])'
  <2>1. JobOK(k, job[k]) /\ RowsOK
    BY DEF SubscribersInv, JobsOK
  <2>2. job[k].step \in {"ready", "settle"} => May(k, job[k].row.event)'
    BY <2>1 DEF JobOK, May, history
  <2>3. \A i \in Pending(k)' : i \in Pending(k)
    BY DEF RowsDwindle, Dwindles, Pending
  <2>4. next'[k] \in Nat /\ next'[k] >= next[k]
    BY <2>1 DEF RowsOK
  <2>5. Subscribed(k)' = Subscribed(k)
    BY DEF Subscribed
  <2> QED BY <2>1, <2>2, <2>3, <2>4, <2>5, JobKept DEF history
<1>6. JobsOK'
  BY <1>5 DEF SubscribersInv, JobsOK
<1> QED BY <1>1, <1>4, <1>6 DEF SubscribersInv

LEMMA WaitingKeeps ==
  ASSUME SubscribersInv,
         \/ \E k \in Keys : Ripen(k) \/ GrowLate(k)
         \/ \E n \in Ids : Purge(n)
  PROVE  SubscribersInv' /\ RowsDwindle
<1>a. RowsOK /\ rows \in [Keys -> [Ids -> Rows]]
  BY DEF SubscribersInv, RowsOK
<1>b. \A k \in Keys : Pending(k) \in SUBSET Ids
  BY DEF Pending
<1>c. round' = round => round' = [round EXCEPT !.pc = round'.pc]
  BY DEF SubscribersInv, RoundOK, Rounds
<1>d. ASSUME RowsDwindle, PeopleOK', round.pc = "idle",
             UNCHANGED <<subscribers, page, next, task, history>>
      PROVE  SubscribersInv' /\ RowsDwindle
  <2>1. \A k \in Keys : job[k].step = "none"
    BY <1>d DEF SubscribersInv, JobsOK, JobOK
  <2> QED BY <1>c, <1>d, <2>1, OnlyRows DEF task
<1>1. ASSUME NEW k \in Keys, Ripen(k) PROVE SubscribersInv' /\ RowsDwindle
  <2> DEFINE i == First(Pending(k))
             row == [rows[k][i] EXCEPT !.due = TRUE]
  <2>1. i \in Ids
    BY <1>1, <1>b, FirstOfSome DEF Ripen
  <2>2. rows' = [rows EXCEPT ![k][i] = row]
    BY <1>1, <1>a, <2>1 DEF Ripen
  <2>3. rows[k][i] \in Rows
    BY <1>a, <2>1
  <2> HIDE DEF i
  <2>4. row \in Rows /\ row.status = rows[k][i].status
    BY <2>3 DEF Rows
  <2> HIDE DEF row
  <2>5. RowsDwindle
    BY <1>a, <2>1, <2>2, <2>4, OneRow DEF Dwindles
  <2>6. PeopleOK'
    BY <1>1, SamePeople DEF Ripen, SubscribersInv, people, history
  <2> QED BY <1>1, <1>d, <2>5, <2>6 DEF Ripen, people
<1>2. ASSUME NEW k \in Keys, GrowLate(k) PROVE SubscribersInv' /\ RowsDwindle
  <2> DEFINE young == {x \in Pending(k) : ~rows[k][x].late}
             i == First(young)
             row == [rows[k][i] EXCEPT !.late = TRUE]
  <2>1. i \in Ids
    <3>1. young \in SUBSET Ids /\ young # {}
      BY <1>2, <1>b DEF GrowLate
    <3> QED BY <3>1, FirstOfSome
  <2>2. rows' = [rows EXCEPT ![k][i] = row]
    BY <1>2, <1>a, <2>1 DEF GrowLate
  <2>3. rows[k][i] \in Rows
    BY <1>a, <2>1
  <2> HIDE DEF i
  <2>4. row \in Rows /\ row.status = rows[k][i].status
    BY <2>3 DEF Rows
  <2> HIDE DEF row, young
  <2>5. RowsDwindle
    BY <1>a, <2>1, <2>2, <2>4, OneRow DEF Dwindles
  <2>6. PeopleOK'
    BY <1>2, SamePeople DEF GrowLate, SubscribersInv, people, history
  <2> QED BY <1>2, <1>d, <2>5, <2>6 DEF GrowLate, people
<1>3. ASSUME NEW n \in Ids, Purge(n) PROVE SubscribersInv' /\ RowsDwindle
  <2>1. RowsDwindle
    <3> DEFINE gone(k) == {i \in 1..n : rows[k][i].status \notin {None, "pending"}} \ LatestOutcome(k)
    <3>1. rows' = [k \in Keys |-> [i \in Ids |-> IF i \in gone(k) THEN NoRow ELSE rows[k][i]]]
      BY <1>3 DEF Purge
    <3> HIDE DEF gone
    <3>2. NoRow.status = None
      BY DEF NoRow
    <3> QED BY <1>a, <3>1, <3>2, NoRowIsARow DEF RowsDwindle, Dwindles, None
  <2>2. requests' = [a \in Addresses |-> Fresh(requests[a])] /\ UNCHANGED <<subscribers, click, asked>>
    BY <1>3 DEF Purge, history
  <2>3. PeopleOK'
    BY <2>2, FreshType DEF SubscribersInv, PeopleOK
  <2> QED BY <1>3, <1>d, <2>1, <2>3 DEF Purge
<1> QED BY <1>1, <1>2, <1>3

-----------------------------------------------------------------------------
(* The rounds                                                              *)

LEMMA NoJobIsAJob == NoJob \in Jobs /\ NoJob.step = "none"
BY NoRowIsARow DEF NoJob, Jobs, Result

LEMMA IdleRoundType ==
  /\ IdleRound \in Rounds /\ IdleRound.pc = "idle" /\ IdleRound.notices = {}
  /\ \A r \in Readers : IdleRound.readers[r] = Unread
BY DEF IdleRound, Rounds, Looked, Unread, Scopes

LEMMA NoRoundType == NoRound \in Allowed
BY DEF NoRound, Allowed, Scopes

\* What is given up or left out.
LEMMA GivenUp ==
  ASSUME SubscribersInv,
         rows' = SkipVisitors \/ \E late \in BOOLEAN : rows' = GiveUpWaiting(late)
  PROVE  RowsDwindle
<1>1. rows \in [Keys -> [Ids -> Rows]]
  BY DEF SubscribersInv, RowsOK
<1>2. ASSUME NEW k \in Keys, NEW i \in Ids
      PROVE  /\ Dwindles(rows[k][i], rows[k][i])
             /\ Close(rows[k][i], "failed") \in Rows /\ Dwindles(rows[k][i], Close(rows[k][i], "failed"))
             /\ Close(rows[k][i], "skipped") \in Rows /\ Dwindles(rows[k][i], Close(rows[k][i], "skipped"))
  BY <1>1, OutcomesDwindle DEF Dwindles
<1>3. CASE rows' = SkipVisitors
  BY <1>1, <1>2, <1>3 DEF SkipVisitors, RowsDwindle
<1>4. ASSUME NEW late \in BOOLEAN, rows' = GiveUpWaiting(late) PROVE RowsDwindle
  BY <1>1, <1>2, <1>4 DEF GiveUpWaiting, RowsDwindle
<1> QED BY <1>3, <1>4

LEMMA StartKeeps ==
  ASSUME SubscribersInv, StartRound \/ Expire \/ CloseVisitors \/ BatchDone
  PROVE  SubscribersInv' /\ RowsDwindle
<1>a. RowsOK /\ round \in Rounds /\ page \in Page
  BY DEF SubscribersInv, RoundOK, PageOK
<1>b. PeopleOK'
  BY SamePeople DEF SubscribersInv, StartRound, Expire, CloseVisitors, BatchDone, people, history
<1>c. ASSUME Expire \/ CloseVisitors PROVE \A k \in Keys : job[k].step = "none"
  BY <1>c DEF Expire, CloseVisitors, SubscribersInv, JobsOK, JobOK
<1>1. CASE Expire \/ CloseVisitors
  <2>1. RowsDwindle
    BY <1>1, GivenUp DEF Expire, CloseVisitors
  <2>2. round' = [round EXCEPT !.pc = round'.pc] /\ round'.pc \in {"close", "due"} /\ round.pc # "idle"
    BY <1>1, <1>a DEF Expire, CloseVisitors, Turn, Rounds
  <2> QED BY <1>1, <1>b, <1>c, <2>1, <2>2, OnlyRows DEF Expire, CloseVisitors, people
<1>2. CASE BatchDone
  <2>1. RowsDwindle
    BY <1>2, <1>a, SameRows DEF BatchDone, queue
  <2>2. round' = [round EXCEPT !.pc = round'.pc] /\ round'.pc = "due" /\ round.pc # "idle"
    BY <1>2, <1>a DEF BatchDone, Turn, Rounds
  <2> QED BY <1>2, <1>b, <2>1, <2>2, OnlyRows DEF BatchDone, people, queue
<1>3. CASE StartRound /\ ~page.linked
  <2>1. RowsDwindle
    BY <1>3, GivenUp DEF StartRound
  <2>2. round' = round /\ round' = [round EXCEPT !.pc = round'.pc] /\ since' = since /\ round.pc = "idle"
    BY <1>3, <1>a DEF StartRound, Rounds
  <2>3. \A k \in Keys : job[k].step = "none"
    BY <2>2 DEF SubscribersInv, JobsOK, JobOK
  <2> QED BY <1>3, <1>b, <2>1, <2>2, <2>3, OnlyRows DEF StartRound, people, history
<1>4. CASE StartRound /\ page.linked
  <2>1. /\ round.pc = "idle" /\ round' = [round EXCEPT !.pc = "expire", !.readers = Ready(round.readers)]
        /\ since' = Follow(NoRound, page) /\ rows' = rows
        /\ UNCHANGED <<people, page, next, job, mail, asked, ended, born, used>>
    BY <1>4 DEF StartRound
  <2>2. \A k \in Keys : job[k].step = "none"
    BY <2>1 DEF SubscribersInv, JobsOK, JobOK
  <2>3. NoRound \in Allowed /\ since' \in Allowed
    BY <1>a, <2>1, NoRoundType, FollowType
  <2>4. /\ VisitorsWelcome => since'.welcome
        /\ page.active \subseteq since'.active /\ page.known \subseteq since'.known
        /\ \A r \in Readers : page.shown[r] \subseteq since'.shown[r]
    <3>1. page.public /\ page.open => since'.welcome
      BY <1>a, <2>1, NoRoundType, FollowType
    <3>2. page.active \subseteq since'.active /\ page.known \subseteq since'.known
      BY <1>a, <2>1, NoRoundType, FollowType
    <3>3. \A r \in Readers : page.shown[r] \subseteq since'.shown[r]
      BY <1>a, <2>1, NoRoundType, FollowType
    <3> QED BY <3>1, <3>2, <3>3 DEF VisitorsWelcome
  <2>5. PageOK'
    BY <1>a, <2>1, <2>3, <2>4 DEF PageOK, VisitorsWelcome
  <2>6. round = IdleRound
    BY <2>1 DEF SubscribersInv, RoundOK
  <2> DEFINE readers == Ready(round.readers)
  <2>7. "visitor" \in Readers /\ "visitor" \notin Members
    BY SubscribersAssumption DEF Readers
  <2>8. /\ readers \in [Readers -> Looked]
        /\ \A r \in Readers : r # "visitor" => readers[r] = Unread
        /\ readers["visitor"] = IF VisitorsWelcome THEN Sees(page.shown["visitor"]) ELSE Nobody
    <3>1. round.readers \in [Readers -> Looked] /\ \A r \in Readers : round.readers[r] = Unread
      BY <1>a, <2>6, IdleRoundType DEF Rounds
    <3>2. page.shown["visitor"] \in Scopes
      BY <1>a, <2>7 DEF Page
    <3>3. Nobody \in Looked /\ Sees(page.shown["visitor"]) \in Looked
      BY <3>2 DEF Nobody, Sees, Looked, Scopes
    <3> QED BY <2>7, <3>1, <3>3 DEF Ready
  <2> HIDE DEF readers
  <2>9. /\ round' \in Rounds /\ round'.pc = "expire" /\ round'.readers = readers /\ round'.notices = {}
    <3>1. round' = [IdleRound EXCEPT !.pc = "expire", !.readers = readers]
      BY <2>1, <2>6 DEF readers
    <3> QED BY <2>8, <3>1, IdleRoundType DEF Rounds
  <2>10. ASSUME NEW r \in Readers PROVE ReaderOK(r, round.readers[r])'
    <3>1. CASE r # "visitor"
      BY <2>8, <2>9, <3>1 DEF ReaderOK, Unread
    <3>2. CASE r = "visitor" /\ VisitorsWelcome
      BY <2>4, <2>7, <2>8, <2>9, <3>2 DEF ReaderOK, Sees
    <3>3. CASE r = "visitor" /\ ~VisitorsWelcome
      BY <2>7, <2>8, <2>9, <3>3 DEF ReaderOK, Nobody
    <3> QED BY <3>1, <3>2, <3>3
  <2>11. RoundOK'
    BY <2>9, <2>10 DEF RoundOK
  <2>12. RowsDwindle
    BY <1>a, <2>1, SameRows
  <2>13. RowsOK' /\ MailOK'
    BY <2>1, <2>12, RowsKept, MailKept DEF SubscribersInv, people
  <2>14. JobsOK'
    BY <2>1, <2>2 DEF SubscribersInv, JobsOK, JobOK
  <2> QED BY <1>b, <2>5, <2>11, <2>12, <2>13, <2>14 DEF SubscribersInv
<1> QED BY <1>1, <1>2, <1>3, <1>4

\* The round ends, where it is or with nothing left to send.
LEMMA RoundOver ==
  ASSUME round' = IdleRound, since' = NoRound, page' = page, PageOK
  PROVE  PageOK' /\ RoundOK'
<1>1. \A r \in Readers : ReaderOK(r, round.readers[r])'
  BY IdleRoundType DEF ReaderOK, Unread, NoRound
<1> QED BY <1>1, IdleRoundType, NoRoundType DEF PageOK, RoundOK, VisitorsWelcome

LEMMA ReadDueKeeps ==
  ASSUME SubscribersInv, ReadDue
  PROVE  SubscribersInv'
<1> DEFINE heads == [k \in Keys |-> Due(k)]
           stop  == \/ round.sent >= SENDS_PER_ROUND \/ round.serverDown
                    \/ heads = round.previous \/ \A k \in Keys : heads[k] = 0
<1>a. RowsOK /\ round \in Rounds /\ UNCHANGED <<people, page, queue, mail, asked, born, used>>
  BY DEF SubscribersInv, RoundOK, ReadDue
<1>b. \A k \in Keys : job[k].step = "none"
  BY DEF ReadDue, SubscribersInv, JobsOK, JobOK
<1>c. PeopleOK' /\ RowsOK'
  <2>1. RowsDwindle
    BY <1>a, SameRows DEF queue
  <2> QED BY <1>a, <2>1, SamePeople, RowsKept DEF SubscribersInv, people, queue
<1>1. CASE stop
  <2>1. round' = IdleRound /\ since' = NoRound /\ ended' = {} /\ job' = job
    BY <1>1 DEF ReadDue, RoundEnd
  <2>2. PageOK' /\ RoundOK'
    BY <1>a, <2>1, RoundOver DEF SubscribersInv
  <2>3. JobsOK'
    BY <1>b, <2>1 DEF SubscribersInv, JobsOK, JobOK
  <2>4. RowsDwindle
    BY <1>a, SameRows DEF queue
  <2>5. MailOK'
    BY <1>a, <2>1, <2>4, MailKept DEF queue
  <2> QED BY <1>c, <2>2, <2>3, <2>5 DEF SubscribersInv
<1>2. CASE ~stop
  <2> DEFINE picked(k) == [NoJob EXCEPT !.step = "head", !.head = heads[k], !.row = rows[k][heads[k]]]
  <2>1. /\ round' = [round EXCEPT !.pc = "batch", !.previous = heads]
        /\ job' = [k \in Keys |-> IF heads[k] = 0 THEN NoJob ELSE picked(k)]
        /\ ended' = {} /\ since' = since
    BY <1>2 DEF ReadDue
  <2>2. heads \in [Keys -> Ids \cup {0}]
    BY DueIsFirst
  <2>3. \A k \in Keys : heads[k] = Due(k)
    OBVIOUS
  <2> HIDE DEF heads
  <2>4. round' \in Rounds /\ round'.readers = round.readers /\ round'.notices = round.notices
        /\ round'.pc = "batch"
    BY <1>a, <2>1, <2>2 DEF Rounds
  <2>5. PageOK'
    BY <1>a, <2>1, PageKept DEF SubscribersInv, ReadDue
  <2>6. RoundOK'
    BY <2>1, <2>4, RoundKept DEF SubscribersInv
  <2>7. ASSUME NEW k \in Keys, heads[k] # 0
        PROVE  /\ heads[k] \in Ids /\ heads[k] \in Pending(k) /\ \A i \in Pending(k) : heads[k] <= i
               /\ Subscribed(k) /\ born[k] <= heads[k] /\ heads[k] < next[k]
    <3>1. heads[k] \in Pending(k) /\ \A i \in Pending(k) : heads[k] <= i
      BY <2>3, <2>7, DueIsFirst
    <3> QED BY <1>a, <3>1 DEF Pending, RowsOK, None
  <2>8. ASSUME NEW k \in Keys, heads[k] # 0
        PROVE  /\ picked(k) \in Jobs /\ picked(k).step = "head" /\ picked(k).head = heads[k]
    <3>1. rows[k][heads[k]] \in Rows /\ heads[k] \in Ids
      BY <1>a, <2>7, <2>8 DEF RowsOK
    <3> QED BY <3>1, NoRowIsARow DEF NoJob, Jobs, Result
  <2>9. \A k \in Keys : \/ job'[k] = NoJob
                        \/ heads[k] # 0 /\ job'[k] = picked(k)
    BY <2>1
  <2>10. job' \in [Keys -> Jobs]
    BY <2>1, <2>8, NoJobIsAJob
  <2> HIDE DEF picked
  <2>12. ASSUME NEW k \in Keys PROVE JobOK(k, job[k])'
    <3>1. CASE job'[k] = NoJob
      BY <3>1, NoJobIsAJob DEF JobOK
    <3>2. CASE heads[k] # 0 /\ job'[k] = picked(k)
      <4>1. Pending(k)' = Pending(k) /\ Subscribed(k)' = Subscribed(k) /\ next' = next /\ born' = born
        BY <1>a DEF Pending, Subscribed, queue, people
      <4>2. born[k] \in Nat /\ heads[k] \in Nat
        BY <1>a, <2>7, <3>2 DEF RowsOK, Ids
      <4> QED BY <2>4, <2>7, <2>8, <3>2, <4>1, <4>2 DEF JobOK
    <3> QED BY <2>9, <3>1, <3>2
  <2>13. JobsOK'
    BY <2>10, <2>12 DEF JobsOK
  <2>14. MailOK'
    <3> SUFFICES ASSUME NEW k \in Keys
                 PROVE  /\ mail[k].last < next[k]
                        /\ job'[k].step # "settle"
                        /\ \A i \in Pending(k)' :
                             i > mail[k].last \/ (i = mail[k].last /\ mail[k].unsure)
                        /\ job'[k].step # "none" =>
                             \/ job'[k].head > mail[k].last
                             \/ job'[k].head = mail[k].last /\ mail[k].unsure
      BY <1>a DEF SubscribersInv, MailOK, queue
    <3>1. /\ mail[k].last < next[k]
          /\ \A i \in Pending(k) : i > mail[k].last \/ (i = mail[k].last /\ mail[k].unsure)
      BY <1>b DEF SubscribersInv, MailOK
    <3>2. Pending(k)' = Pending(k)
      BY <1>a DEF Pending, queue
    <3>3. job'[k].step \in {"none", "head"}
      BY <2>8, <2>9, NoJobIsAJob
    <3>4. ASSUME job'[k].step # "none" PROVE job'[k].head \in Pending(k)
      BY <2>7, <2>8, <2>9, <3>4, NoJobIsAJob
    <3> QED BY <3>1, <3>2, <3>3, <3>4
  <2> QED BY <1>c, <2>5, <2>6, <2>13, <2>14 DEF SubscribersInv
<1> QED BY <1>1, <1>2

-----------------------------------------------------------------------------
(* The emails of a batch                                                   *)

\* One job of a batch goes on, or ends.
LEMMA JobGoesOn ==
  ASSUME SubscribersInv, NEW k \in Keys, NEW new \in Jobs, RowsDwindle,
         job' = [job EXCEPT ![k] = new],
         new.step # "none" =>
           /\ job[k].step # "none" /\ new.head = job[k].head /\ new.row = job[k].row
           /\ new.step \in {"ready", "settle"} => May(k, job[k].row.event),
         round'.pc = round.pc,
         UNCHANGED <<people, page, next, since, asked, ended, born>>
  PROVE  PeopleOK' /\ RowsOK' /\ PageOK' /\ JobsOK'
<1>1. PeopleOK' /\ RowsOK' /\ PageOK'
  BY SamePeople, RowsKept, PageKept DEF SubscribersInv, people
<1>2. job \in [Keys -> Jobs] /\ job' \in [Keys -> Jobs] /\ job'[k] = new
      /\ \A j \in Keys : j # k => job'[j] = job[j]
  BY DEF SubscribersInv, JobsOK
<1>3. ASSUME NEW j \in Keys PROVE JobOK(j, job[j])'
  <2>1. JobOK(j, job[j]) /\ RowsOK
    BY DEF SubscribersInv, JobsOK
  <2>2. \A i \in Pending(j)' : i \in Pending(j)
    BY DEF RowsDwindle, Dwindles, Pending
  <2>3. next'[j] \in Nat /\ next'[j] >= next[j]
    BY <2>1 DEF RowsOK
  <2>4. Subscribed(j)' = Subscribed(j)
    BY DEF Subscribed, people
  <2>5. May(j, job[j].row.event)' \/ ~May(j, job[j].row.event) \/ job'[j].row # job[j].row
    BY DEF May
  <2>6. ASSUME job'[j].step # "none"
        PROVE  /\ job[j].step # "none" /\ round'.pc = "batch"
               /\ job'[j].head = job[j].head /\ job'[j].row = job[j].row
               /\ job'[j].step \in {"ready", "settle"} => May(j, job[j].row.event)'
    BY <1>2, <2>1, <2>5, <2>6 DEF JobOK
  <2> QED BY <2>1, <2>2, <2>3, <2>4, <2>6, JobKept
<1> QED BY <1>1, <1>2, <1>3 DEF JobsOK

\* What reached the others is as it was.
LEMMA MailGoesOn ==
  ASSUME SubscribersInv, NEW k \in Keys, NEW new \in Jobs, RowsDwindle,
         job' = [job EXCEPT ![k] = new], next' = next,
         mail' \in [Keys -> [last : Nat, unsure : BOOLEAN]],
         \A j \in Keys : j # k => mail'[j] = mail[j],
         mail'[k].last < next[k],
         IF new.step = "settle" /\ Taken(new.result)
         THEN mail'[k].last = new.head
         ELSE /\ \A i \in Pending(k)' : i > mail'[k].last \/ (i = mail'[k].last /\ mail'[k].unsure)
              /\ new.step # "none" /\ new.step # "settle" =>
                   \/ new.head > mail'[k].last
                   \/ new.head = mail'[k].last /\ mail'[k].unsure
  PROVE  MailOK'
<1>1. job'[k] = new /\ \A j \in Keys : j # k => job'[j] = job[j]
  BY DEF SubscribersInv, JobsOK
<1>2. \A j \in Keys : \A i \in Pending(j)' : i \in Pending(j)
  BY DEF RowsDwindle, Dwindles, Pending
<1>3. ASSUME NEW j \in Keys, j # k
      PROVE  /\ mail'[j].last < next'[j]
             /\ IF job'[j].step = "settle" /\ Taken(job'[j].result)
                THEN mail'[j].last = job'[j].head
                ELSE /\ \A i \in Pending(j)' :
                          i > mail'[j].last \/ (i = mail'[j].last /\ mail'[j].unsure)
                     /\ job'[j].step # "none" /\ job'[j].step # "settle" =>
                          \/ job'[j].head > mail'[j].last
                          \/ job'[j].head = mail'[j].last /\ mail'[j].unsure
  BY <1>1, <1>2, <1>3 DEF SubscribersInv, MailOK
<1> QED BY <1>1, <1>3 DEF MailOK

LEMMA LookUpKeeps ==
  ASSUME SubscribersInv, NEW k \in Keys, LookUp(k)
  PROVE  SubscribersInv'
<1> DEFINE new == [job[k] EXCEPT !.step = "write"]
<1>a. RowsOK /\ round \in Rounds /\ job[k] \in Jobs /\ job \in [Keys -> Jobs]
  BY DEF SubscribersInv, RoundOK, JobsOK
<1>1. new \in Jobs /\ new.step = "write" /\ new.head = job[k].head /\ new.row = job[k].row
  BY <1>a DEF Jobs
<1>2. /\ job' = [job EXCEPT ![k] = new] /\ round.pc = "batch" /\ job[k].step = "head"
      /\ UNCHANGED <<people, page, queue, history>>
  BY <1>a DEF LookUp
<1> HIDE DEF new
<1>3. RowsDwindle
  BY <1>a, <1>2, SameRows DEF queue
<1>4. Member(k) \in Looked /\ (k \in Readers => ReaderOK(k, Member(k)))
  <2>1. page \in Page /\ page.active \subseteq Members /\ page.active \subseteq since.active
        /\ \A r \in Readers : page.shown[r] \subseteq since.shown[r]
    BY <1>2 DEF SubscribersInv, PageOK, Page
  <2>2. CASE k \in page.active
    <3>1. k \in Readers /\ k \in Members
      BY <2>1, <2>2 DEF Readers
    <3>2. page.shown[k] \in Scopes
      BY <2>1, <3>1 DEF Page
    <3>3. Member(k) = Sees(page.shown[k])
      BY <2>2 DEF Member
    <3> QED BY <2>1, <2>2, <3>1, <3>2, <3>3 DEF Sees, Looked, ReaderOK
  <2>3. CASE k \notin page.active
    BY <2>3 DEF Member, Nobody, Looked, Scopes, ReaderOK
  <2> QED BY <2>2, <2>3
<1>5. round' \in Rounds /\ round'.pc = round.pc /\ round'.notices = round.notices
      /\ \A r \in Readers : \/ round'.readers[r] = round.readers[r]
                            \/ r = k /\ round'.readers[r] = Member(k)
  <2>1. round' = round \/ round' = [round EXCEPT !.readers[k] = Member(k)]
    BY DEF LookUp
  <2> DEFINE m == Member(k)
             readers == [round.readers EXCEPT ![k] = m]
  <2>2. round.readers \in [Readers -> Looked]
    BY <1>a DEF Rounds
  <2>3. m \in Looked
    BY <1>4
  <2> HIDE DEF m
  <2>4. readers \in [Readers -> Looked]
        /\ \A r \in Readers : readers[r] = round.readers[r] \/ (r = k /\ readers[r] = m)
    BY <2>2, <2>3
  <2>5. round' = round \/ round' = [round EXCEPT !.readers = readers]
    BY <1>a, <2>1 DEF m, Rounds
  <2> HIDE DEF readers
  <2>6. round' \in Rounds /\ round'.pc = round.pc /\ round'.notices = round.notices
        /\ round'.readers \in {round.readers, readers}
    BY <1>a, <2>4, <2>5 DEF Rounds
  <2> QED BY <2>4, <2>6 DEF m
<1>6. RoundOK'
  <2>1. ASSUME NEW r \in Readers PROVE ReaderOK(r, round.readers[r])'
    BY <1>2, <1>4, <1>5 DEF SubscribersInv, RoundOK, ReaderOK, history
  <2> QED BY <1>2, <1>5, <2>1 DEF SubscribersInv, RoundOK, history
<1>7. PeopleOK' /\ RowsOK' /\ PageOK' /\ JobsOK'
  BY <1>1, <1>2, <1>3, <1>5, JobGoesOn DEF queue, history
<1>8. MailOK'
  <2>1. /\ mail \in [Keys -> [last : Nat, unsure : BOOLEAN]] /\ mail[k].last < next[k]
        /\ \A i \in Pending(k) : i > mail[k].last \/ (i = mail[k].last /\ mail[k].unsure)
        /\ job[k].head > mail[k].last \/ (job[k].head = mail[k].last /\ mail[k].unsure)
    BY <1>2 DEF SubscribersInv, MailOK
  <2>2. Pending(k)' = Pending(k) /\ mail' = mail /\ next' = next
    BY <1>2 DEF Pending, queue, history
  <2> QED BY <1>1, <1>2, <1>3, <2>1, <2>2, MailGoesOn
<1> QED BY <1>6, <1>7, <1>8 DEF SubscribersInv

LEMMA WriteKeeps ==
  ASSUME SubscribersInv, NEW k \in Keys, Write(k)
  PROVE  SubscribersInv' /\ RowsDwindle
<1> DEFINE reader == round.readers[Reader(k)]
           e == job[k].row.event
           i == job[k].head
           new == [job[k] EXCEPT !.step = "ready"]
<1>a. RowsOK /\ round \in Rounds /\ job[k] \in Jobs /\ job \in [Keys -> Jobs]
      /\ rows \in [Keys -> [Ids -> Rows]]
  BY DEF SubscribersInv, RoundOK, RowsOK, JobsOK
<1>b. round.pc = "batch" /\ job[k].step = "write" /\ UNCHANGED <<people, page, next, history>>
  BY DEF Write
<1>c. i \in Ids
  BY <1>b DEF SubscribersInv, JobsOK, JobOK
<1>d. Reader(k) \in Readers /\ (Reader(k) \in Members <=> k \in Members)
      /\ (k \in Members => Reader(k) = k)
  BY SubscribersAssumption DEF Reader, Readers
<1>e. /\ mail \in [Keys -> [last : Nat, unsure : BOOLEAN]] /\ mail[k].last < next[k]
      /\ \A x \in Pending(k) : x > mail[k].last \/ (x = mail[k].last /\ mail[k].unsure)
      /\ job[k].head > mail[k].last \/ (job[k].head = mail[k].last /\ mail[k].unsure)
  BY <1>b DEF SubscribersInv, MailOK
<1>f. ASSUME RowsDwindle PROVE \A x \in Pending(k)' : x \in Pending(k)
  BY <1>f DEF RowsDwindle, Dwindles, Pending
<1>1. CASE reader # Nobody /\ Notice(e, reader.scope)
  <2>1. /\ job' = [job EXCEPT ![k] = new] /\ rows' = rows
        /\ round' = [round EXCEPT !.notices = round.notices \cup {<<e, reader.scope>>}]
    BY <1>1, <1>a DEF Write
  <2>2. new \in Jobs /\ new.step = "ready" /\ new.head = job[k].head /\ new.row = job[k].row
    BY <1>a DEF Jobs
  <2>3. reader \in Looked /\ ReaderOK(Reader(k), reader)
    BY <1>a, <1>d DEF SubscribersInv, RoundOK, Rounds
  <2>4. e \in since.known /\ e \in reader.scope
    <3>1. CASE <<e, reader.scope>> \in round.notices
      BY <3>1 DEF SubscribersInv, RoundOK
    <3>2. CASE e \in page.known /\ e \in reader.scope
      BY <1>b, <3>2 DEF SubscribersInv, PageOK
    <3> QED BY <1>1, <3>1, <3>2 DEF Notice
  <2>5. reader.found = "reader"
    BY <2>3, <2>4 DEF ReaderOK
  <2>6. May(k, e)
    BY <1>d, <2>3, <2>4, <2>5 DEF ReaderOK, May
  <2>7. RowsDwindle
    BY <1>a, <2>1, SameRows
  <2>8. <<e, reader.scope>> \in Events \X Scopes
    <3>1. reader.scope \in SUBSET Events
      BY <2>3 DEF Looked, Scopes
    <3> QED BY <2>4, <3>1 DEF Scopes
  <2> DEFINE notice == <<e, reader.scope>>
  <2>9. notice[1] = e /\ notice[2] = reader.scope
    OBVIOUS
  <2> HIDE DEF new, reader, e, notice
  <2>10. round' = [round EXCEPT !.notices = round.notices \cup {notice}]
    BY <2>1 DEF notice
  <2>11. round' \in Rounds /\ round'.pc = round.pc /\ round'.readers = round.readers
         /\ round'.notices = round.notices \cup {notice}
    BY <1>a, <2>8, <2>10 DEF Rounds, notice
  <2>12. RoundOK'
    <3>1. \A r \in Readers : ReaderOK(r, round.readers[r])'
      BY <1>b, <2>11 DEF SubscribersInv, RoundOK, ReaderOK, history
    <3>2. \A n \in round'.notices : n[1] \in since'.known /\ n[1] \in n[2]
      BY <1>b, <2>4, <2>9, <2>11 DEF SubscribersInv, RoundOK, history
    <3> QED BY <1>b, <2>11, <3>1, <3>2 DEF RoundOK
  <2>13. PeopleOK' /\ RowsOK' /\ PageOK' /\ JobsOK'
    BY <1>b, <2>1, <2>2, <2>6, <2>7, <2>11, JobGoesOn DEF history, e
  <2>14. MailOK'
    BY <1>b, <1>e, <1>f, <2>1, <2>2, <2>7, MailGoesOn DEF history
  <2> QED BY <2>7, <2>12, <2>13, <2>14 DEF SubscribersInv
<1>2. CASE ~(reader # Nobody /\ Notice(e, reader.scope))
  <2> DEFINE row == Close(rows[k][i], "skipped")
  <2>1. /\ job' = [job EXCEPT ![k] = NoJob] /\ round' = round /\ rows' = [rows EXCEPT ![k][i] = row]
    BY <1>2, <1>a, <1>c DEF Write
  <2>2. row \in Rows /\ Dwindles(rows[k][i], row)
    BY <1>a, <1>c, OutcomesDwindle
  <2> HIDE DEF row
  <2>3. RowsDwindle
    BY <1>a, <1>c, <2>1, <2>2, OneRow
  <2>4. RoundOK'
    BY <1>b, <2>1, RoundKept DEF SubscribersInv, RoundOK, history
  <2>5. PeopleOK' /\ RowsOK' /\ PageOK' /\ JobsOK'
    BY <1>b, <2>1, <2>3, NoJobIsAJob, JobGoesOn DEF history
  <2>6. MailOK'
    BY <1>b, <1>e, <1>f, <2>1, <2>3, NoJobIsAJob, MailGoesOn DEF history
  <2> QED BY <2>3, <2>4, <2>5, <2>6 DEF SubscribersInv
<1> QED BY <1>1, <1>2

LEMMA SendKeeps ==
  ASSUME SubscribersInv, NEW k \in Keys, NEW result \in Result, Send(k, result)
  PROVE  SubscribersInv'
<1> DEFINE new == [job[k] EXCEPT !.step = "settle", !.result = result]
           box == [last |-> job[k].head, unsure |-> FALSE]
           down == round.serverDown \/ ServerWide(result)
<1>a. RowsOK /\ round \in Rounds /\ job[k] \in Jobs /\ job \in [Keys -> Jobs]
  BY DEF SubscribersInv, RoundOK, JobsOK
<1>1. new \in Jobs /\ new.step = "settle" /\ new.head = job[k].head /\ new.row = job[k].row
      /\ new.result = result
  BY <1>a DEF Jobs
<1>2. /\ job' = [job EXCEPT ![k] = new] /\ round.pc = "batch" /\ job[k].step = "ready"
      /\ UNCHANGED <<people, page, queue, since, asked, ended, born>>
      /\ mail' = IF ~Taken(result) THEN mail ELSE [mail EXCEPT ![k] = box]
      /\ round' = [round EXCEPT !.serverDown = down]
  BY <1>a DEF Send
<1> HIDE DEF new
<1>3. RowsDwindle
  BY <1>a, <1>2, SameRows DEF queue
<1>4. down \in BOOLEAN
  OBVIOUS
<1> HIDE DEF down
<1>5. round' \in Rounds /\ round'.pc = round.pc /\ round'.notices = round.notices
      /\ round'.readers = round.readers
  BY <1>a, <1>2, <1>4 DEF Rounds
<1>6. RoundOK'
  BY <1>2, <1>5, RoundKept DEF SubscribersInv
<1>b. JobOK(k, job[k])
  BY DEF SubscribersInv, JobsOK
<1>7. May(k, job[k].row.event) /\ job[k].head \in Nat /\ job[k].head < next[k]
  BY <1>2, <1>b DEF JobOK, Ids
<1>8. PeopleOK' /\ RowsOK' /\ PageOK' /\ JobsOK'
  BY <1>1, <1>2, <1>3, <1>5, <1>7, JobGoesOn DEF queue
<1>9. MailOK'
  <2>1. /\ mail \in [Keys -> [last : Nat, unsure : BOOLEAN]] /\ mail[k].last < next[k]
        /\ \A i \in Pending(k) : i > mail[k].last \/ (i = mail[k].last /\ mail[k].unsure)
    BY <1>2 DEF SubscribersInv, MailOK
  <2>2. Pending(k)' = Pending(k) /\ next' = next
    BY <1>2 DEF Pending, queue
  <2>3. box \in [last : Nat, unsure : BOOLEAN] /\ box.last = job[k].head
    BY <1>7
  <2> HIDE DEF box
  <2>4. CASE Taken(result)
    <3>1. mail' \in [Keys -> [last : Nat, unsure : BOOLEAN]] /\ mail'[k] = box
          /\ \A j \in Keys : j # k => mail'[j] = mail[j]
      BY <1>2, <2>1, <2>3, <2>4
    <3>2. mail'[k].last = new.head /\ mail'[k].last < next[k]
      BY <1>1, <1>7, <2>3, <3>1
    <3> QED BY <1>1, <1>2, <1>3, <2>2, <2>4, <3>1, <3>2, MailGoesOn
  <2>5. CASE ~Taken(result)
    <3>1. mail' = mail
      BY <1>2, <2>5
    <3> QED BY <1>1, <1>2, <1>3, <2>1, <2>2, <2>5, <3>1, MailGoesOn
  <2> QED BY <2>4, <2>5
<1> QED BY <1>6, <1>8, <1>9 DEF SubscribersInv

LEMMA WithholdKeeps ==
  ASSUME SubscribersInv, NEW k \in Keys, Withhold(k)
  PROVE  SubscribersInv'
<1>1. /\ job' = [job EXCEPT ![k] = NoJob] /\ job[k].step = "ready" /\ round' = round
      /\ round.pc = "batch" /\ UNCHANGED <<people, page, queue, history>>
  BY DEF Withhold
<1>2. RowsDwindle
  BY <1>1, SameRows DEF queue, SubscribersInv
<1>3. RoundOK'
  BY <1>1, RoundKept DEF SubscribersInv, RoundOK, history
<1>4. PeopleOK' /\ RowsOK' /\ PageOK' /\ JobsOK'
  BY <1>1, <1>2, NoJobIsAJob, JobGoesOn DEF history, queue
<1>5. MailOK'
  <2>1. /\ mail \in [Keys -> [last : Nat, unsure : BOOLEAN]] /\ mail[k].last < next[k]
        /\ \A i \in Pending(k) : i > mail[k].last \/ (i = mail[k].last /\ mail[k].unsure)
    BY <1>1 DEF SubscribersInv, MailOK
  <2>2. Pending(k)' = Pending(k) /\ next' = next /\ mail' = mail
    BY <1>1 DEF Pending, queue, history
  <2>3. NoJob \in Jobs /\ ~(NoJob.step = "settle" /\ Taken(NoJob.result)) /\ NoJob.step = "none"
    BY NoJobIsAJob
  <2>4. /\ mail' \in [Keys -> [last : Nat, unsure : BOOLEAN]] /\ mail'[k].last < next[k]
        /\ \A i \in Pending(k)' : i > mail'[k].last \/ (i = mail'[k].last /\ mail'[k].unsure)
        /\ \A j \in Keys : j # k => mail'[j] = mail[j]
    BY <2>1, <2>2
  <2> QED BY <1>1, <1>2, <2>2, <2>3, <2>4, MailGoesOn
<1> QED BY <1>3, <1>4, <1>5 DEF SubscribersInv

\* Doubt is cast on what left and is not recorded, and on nothing else.
LEMMA DoubtCovers ==
  ASSUME SubscribersInv, NEW ks \in SUBSET Keys
  PROVE  /\ Doubt(ks) \in [Keys -> [last : Nat, unsure : BOOLEAN]]
         /\ \A k \in Keys :
              /\ Doubt(ks)[k].last = mail[k].last
              /\ k \notin ks => Doubt(ks)[k] = mail[k]
              /\ mail[k].unsure => Doubt(ks)[k].unsure
              /\ k \in ks => \A i \in Pending(k) :
                   \/ i > Doubt(ks)[k].last
                   \/ i = Doubt(ks)[k].last /\ Doubt(ks)[k].unsure
<1>1. mail \in [Keys -> [last : Nat, unsure : BOOLEAN]]
  BY DEF SubscribersInv, MailOK
<1>2. ASSUME NEW k \in Keys
      PROVE  /\ Doubt(ks)[k] \in [last : Nat, unsure : BOOLEAN]
             /\ Doubt(ks)[k].last = mail[k].last
             /\ k \notin ks => Doubt(ks)[k] = mail[k]
             /\ mail[k].unsure => Doubt(ks)[k].unsure
             /\ k \in ks => \A i \in Pending(k) :
                   \/ i > Doubt(ks)[k].last
                   \/ i = Doubt(ks)[k].last /\ Doubt(ks)[k].unsure
  <2> DEFINE lost == k \in ks /\ job[k].step = "settle" /\ Taken(job[k].result)
             box == [mail[k] EXCEPT !.unsure = TRUE]
  <2>1. mail[k] \in [last : Nat, unsure : BOOLEAN]
    BY <1>1
  <2>2. box \in [last : Nat, unsure : BOOLEAN] /\ box.last = mail[k].last /\ box.unsure = TRUE
    BY <2>1
  <2>3. Doubt(ks)[k] = IF lost THEN box ELSE mail[k]
    BY DEF Doubt
  <2> HIDE DEF box
  <2>4. CASE lost
    <3>1. mail[k].last = job[k].head
      BY <2>4 DEF SubscribersInv, MailOK
    <3>2. \A i \in Pending(k) : job[k].head <= i
      BY <2>4 DEF SubscribersInv, JobsOK, JobOK
    <3>3. \A i \in Pending(k) : i \in Nat
      BY DEF Pending, Ids
    <3>4. mail[k].last \in Nat
      BY <2>1
    <3>5. \A i \in Pending(k) : i > box.last \/ i = box.last
      BY <2>2, <3>1, <3>2, <3>3, <3>4
    <3> QED BY <2>2, <2>3, <2>4, <3>5
  <2>5. CASE ~lost
    <3>1. k \in ks => \A i \in Pending(k) : i > mail[k].last \/ (i = mail[k].last /\ mail[k].unsure)
      BY <2>5 DEF SubscribersInv, MailOK
    <3> HIDE DEF lost
    <3> QED BY <2>1, <2>3, <2>5, <3>1
  <2> QED BY <2>4, <2>5
<1>3. Doubt(ks) = [k \in Keys |-> Doubt(ks)[k]]
  BY DEF Doubt
<1>4. Doubt(ks) \in [Keys -> [last : Nat, unsure : BOOLEAN]]
  BY <1>2, <1>3
<1> QED BY <1>2, <1>4

\* The answer that says the email was taken is written, any other is noted.
LEMMA SettleKeeps ==
  ASSUME SubscribersInv, NEW k \in Keys, Settle(k)
  PROVE  SubscribersInv' /\ RowsDwindle
<1> DEFINE i == job[k].head
           row == Settled(k, rows[k][i])
<1>a. RowsOK /\ round \in Rounds /\ job[k] \in Jobs /\ job \in [Keys -> Jobs]
      /\ rows \in [Keys -> [Ids -> Rows]] /\ JobOK(k, job[k])
  BY DEF SubscribersInv, RoundOK, RowsOK, JobsOK
<1>b. round.pc = "batch" /\ job[k].step = "settle"
      /\ UNCHANGED <<people, page, next, since, asked, ended, born>>
  BY DEF Settle
<1>c. i \in Ids /\ i \in Nat /\ \A x \in Pending(k) : i <= x /\ x \in Nat
  BY <1>a, <1>b DEF JobOK, Ids, Pending
<1>1. /\ rows' = [rows EXCEPT ![k][i] = row] /\ job' = [job EXCEPT ![k] = NoJob]
      /\ round' = IF job[k].result # "ok" THEN round ELSE [round EXCEPT !.sent = round.sent + 1]
      /\ mail' = IF job[k].result = "late" THEN Doubt({k}) ELSE mail
  BY <1>a, <1>c DEF Settle
<1>2. /\ row \in Rows /\ Dwindles(rows[k][i], row)
      /\ job[k].result = "ok" => row.status # "pending"
  <2>1. rows[k][i] \in Rows
    BY <1>a, <1>c
  <2>2. CASE job[k].result = "ok"
    <3>1. row = MarkSent(rows[k][i])
      BY <2>2 DEF Settled, ServerWide, MayRetry
    <3> QED BY <2>1, <3>1, OutcomesDwindle
  <2>3. CASE job[k].result # "ok"
    <3>1. row \in {rows[k][i], RetryLater(rows[k][i]), Close(rows[k][i], "failed")}
      BY <2>3 DEF Settled
    <3> QED BY <2>1, <2>3, <3>1, OutcomesDwindle DEF Dwindles
  <2> QED BY <2>2, <2>3
<1> HIDE DEF row
<1>3. RowsDwindle
  BY <1>a, <1>c, <1>1, <1>2, OneRow
<1>4. round' \in Rounds /\ round'.pc = round.pc /\ round'.readers = round.readers
      /\ round'.notices = round.notices
  <2> DEFINE n == round.sent + 1
  <2>1. n \in Nat
    BY <1>a DEF Rounds
  <2> HIDE DEF n
  <2>2. round' = round \/ round' = [round EXCEPT !.sent = n]
    BY <1>1 DEF n
  <2> QED BY <1>a, <2>1, <2>2 DEF Rounds
<1>5. RoundOK'
  BY <1>b, <1>4, RoundKept DEF SubscribersInv
<1>6. NoJob \in Jobs /\ ~(NoJob.step = "settle" /\ Taken(NoJob.result)) /\ NoJob.step = "none"
  BY NoJobIsAJob
<1>7. PeopleOK' /\ RowsOK' /\ PageOK' /\ JobsOK'
  BY <1>b, <1>1, <1>3, <1>4, <1>6, JobGoesOn
<1>8. \A x \in Pending(k)' : x \in Pending(k)
  BY <1>3 DEF RowsDwindle, Dwindles, Pending
<1>d. mail \in [Keys -> [last : Nat, unsure : BOOLEAN]] /\ mail[k].last < next[k]
  BY DEF SubscribersInv, MailOK
<1>9. MailOK'
  <2>1. CASE job[k].result = "ok"
    <3>1. mail' = mail /\ mail[k].last = i
      BY <1>b, <1>1, <2>1 DEF SubscribersInv, MailOK, Taken
    <3>2. i \notin Pending(k)'
      <4>1. rows'[k][i] = row
        BY <1>a, <1>c, <1>1
      <4> QED BY <1>2, <2>1, <4>1 DEF Pending
    <3>3. \A x \in Pending(k)' : x > mail'[k].last
      BY <1>8, <1>c, <3>1, <3>2
    <3> QED BY <1>b, <1>d, <1>1, <1>3, <1>6, <3>1, <3>3, MailGoesOn
  <2>2. CASE job[k].result = "late"
    <3>1. mail' = Doubt({k}) /\ {k} \in SUBSET Keys /\ k \in {k}
      BY <1>1, <2>2
    <3>2. /\ mail' \in [Keys -> [last : Nat, unsure : BOOLEAN]]
          /\ \A j \in Keys : j # k => mail'[j] = mail[j]
          /\ mail'[k].last = mail[k].last
          /\ \A x \in Pending(k) : x > mail'[k].last \/ (x = mail'[k].last /\ mail'[k].unsure)
      BY <3>1, DoubtCovers
    <3> QED BY <1>b, <1>d, <1>1, <1>3, <1>6, <1>8, <3>2, MailGoesOn
  <2>3. CASE job[k].result \notin {"ok", "late"}
    <3>1. mail' = mail
      BY <1>1, <2>3
    <3>2. \A x \in Pending(k) : x > mail[k].last \/ (x = mail[k].last /\ mail[k].unsure)
      BY <2>3 DEF SubscribersInv, MailOK, Taken
    <3> QED BY <1>b, <1>d, <1>1, <1>3, <1>6, <1>8, <3>1, <3>2, MailGoesOn
  <2> QED BY <2>1, <2>2, <2>3
<1> QED BY <1>3, <1>5, <1>7, <1>9 DEF SubscribersInv

LEMMA PanicKeeps ==
  ASSUME SubscribersInv, NEW k \in Keys, Panic(k)
  PROVE  SubscribersInv'
<1>1. /\ job' = [job EXCEPT ![k] = NoJob] /\ mail' = Doubt({k})
      /\ UNCHANGED <<people, page, queue, round, since, asked, ended, born>>
  BY DEF Panic
<1>2. RowsDwindle
  BY <1>1, SameRows DEF queue, SubscribersInv
<1>3. RoundOK'
  BY <1>1, RoundKept DEF SubscribersInv, RoundOK
<1>4. NoJob \in Jobs /\ ~(NoJob.step = "settle" /\ Taken(NoJob.result)) /\ NoJob.step = "none"
  BY NoJobIsAJob
<1>5. PeopleOK' /\ RowsOK' /\ PageOK' /\ JobsOK'
  BY <1>1, <1>2, <1>4, JobGoesOn DEF queue
<1>6. MailOK'
  <2>1. {k} \in SUBSET Keys /\ k \in {k}
    OBVIOUS
  <2>2. /\ mail' \in [Keys -> [last : Nat, unsure : BOOLEAN]]
        /\ \A j \in Keys : j # k => mail'[j] = mail[j]
        /\ mail'[k].last = mail[k].last
        /\ \A x \in Pending(k) : x > mail'[k].last \/ (x = mail'[k].last /\ mail'[k].unsure)
    BY <1>1, <2>1, DoubtCovers
  <2>3. Pending(k)' = Pending(k) /\ next' = next
    BY <1>1 DEF Pending, queue
  <2>4. mail'[k].last < next[k]
    BY <2>2 DEF SubscribersInv, MailOK
  <2> QED BY <1>1, <1>2, <1>4, <2>2, <2>3, <2>4, MailGoesOn
<1> QED BY <1>3, <1>5, <1>6 DEF SubscribersInv

LEMMA FailKeeps ==
  ASSUME SubscribersInv, Fail
  PROVE  SubscribersInv'
<1>1. /\ mail' = Doubt(Keys) /\ round' = IdleRound /\ since' = NoRound /\ ended' = {}
      /\ job' = [k \in Keys |-> NoJob]
      /\ click' \in {click, [p \in Clicks |-> NoClick]}
      /\ UNCHANGED <<subscribers, requests, page, queue, asked, born>>
  BY DEF Fail
<1>2. PeopleOK'
  <2>1. NoClick \in [to : Addresses \cup {None}, kinds : SUBSET Kinds]
    BY DEF NoClick
  <2> QED BY <1>1, <2>1 DEF SubscribersInv, PeopleOK, NoClick
<1>3. RowsDwindle
  BY <1>1, SameRows DEF queue, SubscribersInv
<1>4. RowsOK'
  BY <1>1, <1>3, RowsKept DEF SubscribersInv, queue
<1>5. PageOK' /\ RoundOK'
  BY <1>1, RoundOver DEF SubscribersInv
<1>6. \A k \in Keys : job'[k] = NoJob /\ job'[k].step = "none"
  BY <1>1, NoJobIsAJob
<1>7. JobsOK'
  BY <1>1, <1>6, NoJobIsAJob DEF JobsOK, JobOK
<1>8. MailOK'
  <2>1. /\ mail' \in [Keys -> [last : Nat, unsure : BOOLEAN]]
        /\ \A k \in Keys :
             /\ mail'[k].last = mail[k].last
             /\ \A x \in Pending(k) : x > mail'[k].last \/ (x = mail'[k].last /\ mail'[k].unsure)
    BY <1>1, DoubtCovers
  <2>2. \A k \in Keys : Pending(k)' = Pending(k) /\ mail[k].last < next[k] /\ next' = next
    BY <1>1 DEF Pending, queue, SubscribersInv, MailOK
  <2> QED BY <1>6, <2>1, <2>2 DEF MailOK
<1> QED BY <1>2, <1>4, <1>5, <1>7, <1>8 DEF SubscribersInv

-----------------------------------------------------------------------------
(* The theorems                                                            *)

LEMMA InitialSubscribers == Init => SubscribersInv
<1> SUFFICES ASSUME Init PROVE SubscribersInv
  OBVIOUS
<1>1. PeopleOK
  <2>1. subscribers \in [Keys -> SUBSET Kinds]
    BY DEF Init
  <2>2. requests \in [Addresses -> Seq(Request)] /\ \A a \in Addresses : requests[a] = <<>>
    BY DEF Init
  <2>3. /\ click \in [Clicks -> [to : Addresses \cup {None}, kinds : SUBSET Kinds]]
        /\ \A p \in Clicks : click[p] = NoClick
    BY DEF Init, NoClick
  <2> QED BY <2>1, <2>2, <2>3 DEF PeopleOK
<1>2. RowsOK
  <2>1. 1 \in 1..(MaxEmails + 1)
    BY SubscribersAssumption
  <2>2. NoRow.status = None
    BY DEF NoRow
  <2> QED BY <2>1, <2>2, NoRowIsARow DEF Init, RowsOK
<1>3. round.pc = "idle" /\ round = IdleRound /\ since = NoRound
  BY IdleRoundType DEF Init
<1>4. PageOK
  <2>1. page \in Page
    BY DEF Init, Page, Scopes
  <2> QED BY <1>3, <2>1, NoRoundType DEF PageOK
<1>5. RoundOK
  BY <1>3, IdleRoundType DEF RoundOK, ReaderOK, Unread, NoRound
<1>6. JobsOK
  BY NoJobIsAJob DEF Init, JobsOK, JobOK
<1>7. MailOK
  <2>1. \A k \in Keys : Pending(k) = {}
    BY DEF Init, Pending, NoRow, None
  <2>2. \A k \in Keys : job[k].step = "none" /\ next[k] = 1 /\ mail[k] = [last |-> 0, unsure |-> FALSE]
    BY NoJobIsAJob DEF Init
  <2>3. mail \in [Keys -> [last : Nat, unsure : BOOLEAN]]
    BY DEF Init
  <2> QED BY <2>1, <2>2, <2>3 DEF MailOK
<1> QED BY <1>1, <1>2, <1>4, <1>5, <1>6, <1>7 DEF SubscribersInv

LEMMA NothingMoves ==
  ASSUME SubscribersInv, UNCHANGED vars
  PROVE  SubscribersInv'
<1>1. PeopleOK'
  BY SamePeople DEF vars, history, SubscribersInv
<1> QED BY <1>1, OnlyRequests DEF vars, history, people

LEMMA SubscribersStep ==
  ASSUME SubscribersInv, [Next]_vars
  PROVE  SubscribersInv'
<1>1. CASE Deliver
  BY <1>1, StartKeeps, ReadDueKeeps, LookUpKeeps, WriteKeeps, WithholdKeeps, SettleKeeps, SendKeeps
     DEF Deliver
<1>2. CASE Subscribe
  BY <1>2, AskKeeps, ConfirmStartKeeps, ConfirmFinishKeeps, GrowKeeps DEF Subscribe
<1>3. CASE Change
  BY <1>3, ChangeKeeps
<1>4. ASSUME NEW e \in Events, NEW due \in BOOLEAN, Enqueue(e, due) PROVE SubscribersInv'
  BY <1>4, EnqueueKeeps
<1>5. CASE \E k \in Keys : Ripen(k) \/ GrowLate(k)
  BY <1>5, WaitingKeeps
<1>6. CASE \E n \in Ids : Purge(n)
  BY <1>6, WaitingKeeps
<1>7. ASSUME NEW k \in Keys, Panic(k) PROVE SubscribersInv'
  BY <1>7, PanicKeeps
<1>8. CASE Fail
  BY <1>8, FailKeeps
<1>9. CASE UNCHANGED vars
  BY <1>9, NothingMoves
<1> QED BY <1>1, <1>2, <1>3, <1>4, <1>5, <1>6, <1>7, <1>8, <1>9 DEF Next

THEOREM SubscribersSafe == Spec => []SubscribersInv
<1>1. SubscribersInv /\ [Next]_vars => SubscribersInv'
  BY SubscribersStep
<1> QED BY InitialSubscribers, <1>1, PTL DEF Spec

\* An email being sent goes to a reader who was one at some moment of the round
\* and could see its event then, and to a subscription that was there when the
\* batch was read: for any number of subscribers, emails and changes of the page.
THEOREM SentAsSubscribed == Spec => []SentOnlyAsSubscribed
<1>1. SubscribersInv => SentOnlyAsSubscribed
  BY DEF SubscribersInv, JobsOK, JobOK, May, SentOnlyAsSubscribed, OnlyToThoseWhoMay,
         NothingForTheOneWhoLeft
<1> QED BY <1>1, SubscribersSafe, PTL

\* A visitor's subscription changes only by a request made since the last
\* confirmation: a second click on a link brings back no one who has left.
THEOREM BackOnlyOnRequest == Spec => NeverBackUnasked
<1> DEFINE Asked == \A a \in Addresses : subscribers'[a] \notin {{}, subscribers[a]} => a \in asked
<1>1. ASSUME SubscribersInv, [Next]_vars PROVE Asked
  <2>a. subscribers \in [Keys -> SUBSET Kinds] /\ Addresses \subseteq Keys
    BY <1>1 DEF SubscribersInv, PeopleOK, Keys
  <2>b. subscribers' = subscribers => Asked
    BY <2>a
  <2>1. ASSUME NEW p \in Clicks, ConfirmFinish(p) PROVE Asked
    <3>1. click[p].to \in Addresses
      BY <1>1, <2>1 DEF ConfirmFinish, SubscribersInv, PeopleOK
    <3>2. CASE UsesUp(click[p].to)
      <4>1. click[p].to \in asked
        BY <1>1, <3>1, <3>2 DEF SubscribersInv, PeopleOK, UsesUp
      <4>2. subscribers' = [subscribers EXCEPT ![click[p].to] = click[p].kinds]
        BY <2>1, <3>2 DEF ConfirmFinish
      <4> QED BY <2>a, <4>1, <4>2
    <3>3. CASE ~UsesUp(click[p].to)
      BY <2>1, <2>b, <3>3 DEF ConfirmFinish
    <3> QED BY <3>2, <3>3
  <2>2. ASSUME NEW u \in Members, NEW kinds \in SUBSET Kinds, SaveMember(u, kinds) PROVE Asked
    BY <2>2, <2>a, SubscribersAssumption DEF SaveMember
  <2>3. ASSUME NEW k \in Keys, Delete(k) PROVE Asked
    BY <2>3, <2>a DEF Delete
  <2>4. ASSUME Change PROVE Asked
    <3>1. ASSUME NEW u \in Members, StopMember(u) PROVE Asked
      BY <2>3, <3>1 DEF StopMember, Keys
    <3>2. ASSUME NEW k \in Keys, Unsubscribe(k) \/ Remove(k) PROVE Asked
      BY <2>3, <3>2 DEF Unsubscribe, Remove
    <3>3. CASE subscribers' = subscribers
      BY <2>b, <3>3
    <3> QED BY <2>2, <2>4, <3>1, <3>2, <3>3
            DEF Change, SetVisitors, SetPublic, SetLinked, SetActive, SetShown, DeleteEvent, people
  <2>5. CASE Deliver
    <3>1. subscribers' = subscribers
      BY <2>5 DEF Deliver, StartRound, Expire, CloseVisitors, ReadDue, BatchDone, LookUp, Write,
                  Withhold, Settle, Send, people
    <3> QED BY <2>b, <3>1
  <2>6. CASE Subscribe
    <3>1. CASE subscribers' = subscribers
      BY <2>b, <3>1
    <3> QED BY <2>1, <2>6, <3>1 DEF Subscribe, Ask, ConfirmStart, Grow
  <2>7. CASE \/ \E e \in Events, due \in BOOLEAN : Enqueue(e, due)
             \/ \E k \in Keys : Ripen(k) \/ GrowLate(k) \/ Panic(k)
             \/ \E n \in Ids : Purge(n)
             \/ Fail \/ UNCHANGED vars
    <3>1. subscribers' = subscribers
      BY <2>7 DEF Enqueue, Ripen, GrowLate, Panic, Purge, Fail, people, vars
    <3> QED BY <2>b, <3>1
  <2> QED BY <1>1, <2>4, <2>5, <2>6, <2>7 DEF Next
<1>2. SubscribersInv /\ [Next]_vars => [Asked]_vars
  BY <1>1
<1> HIDE DEF Asked
<1>3. Spec => [][Asked]_vars
  BY <1>2, SubscribersSafe, PTL DEF Spec
<1> QED BY <1>3 DEF NeverBackUnasked, Asked

-----------------------------------------------------------------------------
(* What reaches a subscriber is what an inbox allows                       *)

LEMMA BoxStutters ==
  ASSUME UNCHANGED <<rows, next, mail>>
  PROVE  UNCHANGED Box!vars
BY DEF Box!vars, Pending

LEMMA BoxDrops ==
  ASSUME RowsDwindle, UNCHANGED <<next, mail>>
  PROVE  Box!Next
<1>1. \A k \in Keys : Pending(k)' \subseteq Pending(k)
  BY DEF RowsDwindle, Dwindles, Pending
<1>2. Box!Drop
  BY <1>1 DEF Box!Drop
<1> QED BY <1>2 DEF Box!Next

LEMMA BoxDoubts ==
  ASSUME SubscribersInv, NEW ks \in SUBSET Keys, mail' = Doubt(ks), UNCHANGED <<rows, next>>
  PROVE  Box!Next
<1>1. \A k \in Keys : mail'[k].last = mail[k].last /\ (mail[k].unsure => mail'[k].unsure)
  BY DoubtCovers
<1>2. PICK bs \in SUBSET Keys :
        {k \in Keys : mail'[k].unsure} = {k \in Keys : mail[k].unsure} \cup bs
  <2>1. {k \in Keys : mail'[k].unsure}
          = {k \in Keys : mail[k].unsure} \cup {k \in Keys : mail'[k].unsure}
    BY <1>1
  <2> QED BY <2>1
<1>4. [k \in Keys |-> mail[k].last]' = [k \in Keys |-> mail[k].last]
  BY <1>1
<1>5. [k \in Keys |-> Pending(k)]' = [k \in Keys |-> Pending(k)]
  BY DEF Pending
<1>6. Box!Doubt(bs)
  BY <1>2, <1>4, <1>5 DEF Box!Doubt
<1> QED BY <1>6 DEF Box!Next

LEMMA BoxQueues ==
  ASSUME SubscribersInv, NEW e \in Events, NEW due \in BOOLEAN, Enqueue(e, due)
  PROVE  Box!Next
<1>1. PICK to \in SUBSET Keys :
        /\ to # {}
        /\ \A k \in to : next[k] \in Ids /\ Subscribed(k)
        /\ next' = [k \in Keys |-> IF k \in to THEN next[k] + 1 ELSE next[k]]
        /\ \A k \in Keys : \A i \in Ids : k \notin to \/ i # next[k] => rows'[k][i] = rows[k][i]
        /\ \A k \in to : rows'[k][next[k]].status = "pending"
  BY QueuedOnce
<1>2. ASSUME NEW k \in Keys
      PROVE  Pending(k)' = Pending(k) \cup (IF k \in to THEN {next[k]} ELSE {})
  BY <1>1 DEF Pending
<1>3. [k \in Keys |-> Pending(k)]'
        = [k \in Keys |-> [b \in Keys |-> Pending(b)][k] \cup (IF k \in to THEN {next[k]} ELSE {})]
  BY <1>2
<1>4. mail' = mail
  BY DEF Enqueue, history
<1>5. Box!Queue(to)
  BY <1>1, <1>3, <1>4 DEF Box!Queue
<1> QED BY <1>5 DEF Box!Next

LEMMA BoxReceives ==
  ASSUME SubscribersInv, NEW k \in Keys, NEW result \in Result, Send(k, result)
  PROVE  [Box!Next]_(Box!vars)
<1>a. rows' = rows /\ next' = next
  BY DEF Send, queue
<1>1. CASE ~Taken(result)
  <2>1. mail' = mail
    BY <1>1 DEF Send
  <2> QED BY <1>a, <2>1, BoxStutters
<1>2. CASE Taken(result)
  <2> DEFINE i == job[k].head
             box == [last |-> i, unsure |-> FALSE]
  <2>1. mail' = [mail EXCEPT ![k] = box] /\ job[k].step = "ready"
    BY <1>2 DEF Send
  <2>2. mail \in [Keys -> [last : Nat, unsure : BOOLEAN]]
        /\ (i > mail[k].last \/ (i = mail[k].last /\ mail[k].unsure))
    BY <2>1 DEF SubscribersInv, MailOK
  <2>3. i < next[k] /\ \A j \in Pending(k) : i <= j
    BY <2>1 DEF SubscribersInv, JobsOK, JobOK
  <2>4. box.last = i /\ box.unsure = FALSE
    OBVIOUS
  <2> HIDE DEF i, box
  <2>5. mail'[k] = box /\ \A j \in Keys : j # k => mail'[j] = mail[j]
    BY <2>1, <2>2
  <2>6. [j \in Keys |-> mail[j].last]' = [[j \in Keys |-> mail[j].last] EXCEPT ![k] = i]
    BY <2>4, <2>5
  <2>7. {j \in Keys : mail[j].unsure}' = {j \in Keys : mail[j].unsure} \ {k}
    BY <2>4, <2>5
  <2>8. [j \in Keys |-> Pending(j)]' = [j \in Keys |-> Pending(j)]
    BY <1>a DEF Pending
  <2>9. [j \in Keys |-> mail[j].last]'[k] = i
    BY <2>4, <2>5
  <2> QED BY <1>a, <2>2, <2>3, <2>6, <2>7, <2>8, <2>9 DEF Box!Next, Box!Arrive
<1> QED BY <1>1, <1>2

LEMMA BoxSettles ==
  ASSUME SubscribersInv, NEW k \in Keys, Settle(k)
  PROVE  Box!Next
<1>1. next' = next /\ mail' = IF job[k].result = "late" THEN Doubt({k}) ELSE mail
  BY DEF Settle
<1>2. CASE job[k].result = "late"
  <2>1. Settled(k, rows[k][job[k].head]) = rows[k][job[k].head]
    BY <1>2 DEF Settled, ServerWide, MayRetry
  <2>2. rows \in [Keys -> [Ids -> Rows]]
    BY DEF SubscribersInv, RowsOK
  <2>3. rows' = rows
    BY <2>1, <2>2 DEF Settle
  <2> QED BY <1>1, <1>2, <2>3, BoxDoubts
<1>3. CASE job[k].result # "late"
  BY <1>1, <1>3, SettleKeeps, BoxDrops
<1> QED BY <1>2, <1>3

LEMMA BoxStep ==
  ASSUME SubscribersInv, [Next]_vars
  PROVE  [Box!Next]_(Box!vars)
<1>1. CASE StartRound \/ Expire \/ CloseVisitors \/ BatchDone
  <2>1. RowsDwindle
    BY <1>1, StartKeeps
  <2>2. UNCHANGED <<next, mail>>
    BY <1>1 DEF StartRound, Expire, CloseVisitors, BatchDone, queue, history
  <2> QED BY <2>1, <2>2, BoxDrops
<1>2. ASSUME NEW k \in Keys, Write(k) PROVE Box!Next
  <2>1. RowsDwindle
    BY <1>2, WriteKeeps
  <2>2. UNCHANGED <<next, mail>>
    BY <1>2 DEF Write, history
  <2> QED BY <2>1, <2>2, BoxDrops
<1>3. ASSUME NEW k \in Keys, LookUp(k) \/ Withhold(k) PROVE UNCHANGED Box!vars
  <2>1. UNCHANGED <<rows, next, mail>>
    BY <1>3 DEF LookUp, Withhold, queue, history
  <2> QED BY <2>1, BoxStutters
<1>4. ASSUME ReadDue PROVE UNCHANGED Box!vars
  <2>1. UNCHANGED <<rows, next, mail>>
    BY <1>4 DEF ReadDue, queue
  <2> QED BY <2>1, BoxStutters
<1>5. CASE Deliver
  BY <1>1, <1>2, <1>3, <1>4, <1>5, BoxSettles, BoxReceives DEF Deliver
<1>6. CASE Subscribe \/ UNCHANGED vars
  <2>1. UNCHANGED <<rows, next, mail>>
    BY <1>6 DEF Subscribe, Ask, ConfirmStart, ConfirmFinish, Grow, queue, history, vars
  <2> QED BY <2>1, BoxStutters
<1>7. CASE Change
  <2>1. RowsDwindle
    BY <1>7, ChangeKeeps
  <2>2. ASSUME NEW k \in Keys, Delete(k) PROVE UNCHANGED <<next, mail>>
    BY <2>2 DEF Delete
  <2>3. UNCHANGED <<next, mail>>
    BY <1>7, <2>2 DEF Change, SetVisitors, SetPublic, SetLinked, SetActive, SetShown, DeleteEvent,
                      Unsubscribe, Remove, StopMember, SaveMember, queue, Keys
  <2> QED BY <2>1, <2>3, BoxDrops
<1>8. CASE \/ \E k \in Keys : Ripen(k) \/ GrowLate(k)
           \/ \E n \in Ids : Purge(n)
  <2>1. RowsDwindle
    BY <1>8, WaitingKeeps
  <2>2. UNCHANGED <<next, mail>>
    BY <1>8 DEF Ripen, GrowLate, Purge, history
  <2> QED BY <2>1, <2>2, BoxDrops
<1>9. ASSUME NEW k \in Keys, Panic(k) PROVE Box!Next
  <2>1. mail' = Doubt({k}) /\ UNCHANGED <<rows, next>>
    BY <1>9 DEF Panic, queue
  <2> QED BY <2>1, BoxDoubts
<1>10. CASE Fail
  <2>1. mail' = Doubt(Keys) /\ UNCHANGED <<rows, next>>
    BY <1>10 DEF Fail, queue
  <2> QED BY <2>1, BoxDoubts
<1> QED BY <1>5, <1>6, <1>7, <1>8, <1>9, <1>10, BoxQueues DEF Next

\* The queue, the rounds, the mail server and the restarts implement the
\* inbox: what reaches a subscriber comes in the order it was queued, nothing
\* overtakes older news that still waits, and an email comes twice only where
\* its outcome was lost.
THEOREM InboxImplemented == Spec => ReceivesLikeAnInbox
<1>1. ASSUME Init PROVE Box!Init
  <2>1. \A k \in Keys : Pending(k) = {} /\ mail[k].last = 0 /\ mail[k].unsure = FALSE
    BY <1>1 DEF Init, Pending, NoRow, None
  <2> QED BY <1>1, <2>1 DEF Init, Box!Init
<1>2. SubscribersInv /\ [Next]_vars => [Box!Next]_(Box!vars)
  BY BoxStep
<1> QED BY <1>1, <1>2, SubscribersSafe, PTL DEF Spec, ReceivesLikeAnInbox, Box!Spec
=============================================================================
