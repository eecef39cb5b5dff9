------------------------ MODULE EventLifecycleProofs ------------------------
(***************************************************************************)
(* Proofs about EventLifecycle for any events, requests and instants, then *)
(* about EventForms for any authors, tools and templates.                  *)
(*                                                                         *)
(* The argument is about rows: RowOK says of one row what DatesFitState,   *)
(* UndoIsLegal and UndoKeepsDates say of all of them, every statement of   *)
(* the repository is shown to keep it, and the actions only choose which   *)
(* statement runs on which row.                                            *)
(***************************************************************************)
EXTENDS EventLifecycle, EventForms, FiniteSetTheorems, TLAPS

RowOK(row) ==
  /\ row \in Row
  /\ row.ended # NoTime <=> row.lifecycle \in {"resolved", "completed"}
  /\ row.lifecycle = "in_progress" => row.started # NoTime
  /\ row.lifecycle = "scheduled" => row.started = NoTime
  /\ row.restored # NoTime => row.lifecycle \in {"monitoring", "resolved"}
  /\ row.previous # None =>
       /\ CanTransition(row.kind, row.previous, row.lifecycle)
       /\ row.previous = "in_progress" => row.started # NoTime
       /\ row.restored # NoTime /\ row.lifecycle # "monitoring"
            => row.previous = "monitoring"

LEMMA Times == NoTime \in Time /\ \A t \in 1..MaxClock : t \in Time /\ t # NoTime
BY LifecycleAssumption DEF Time, NoTime

\* A row that is not there satisfies everything.
LEMMA NoRowOK == RowOK(NoRow)
BY Times DEF RowOK, NoRow, Row, Kind, None, Lifecycle

\* The rows announce inserts.
LEMMA NewRowOK ==
  ASSUME NEW now \in 1..MaxClock, NEW row \in NewRows(now)
  PROVE  RowOK(row) /\ row.lifecycle # None /\ ~IsTerminal(row.lifecycle)
<1>1. now \in Time /\ 1..now \subseteq Time \ {NoTime} /\ Promises \subseteq Time
  BY LifecycleAssumption DEF Time, NoTime, Promises
<1>2. CASE row \in NewIncidents(now)
  <2>1. PICK step \in {"investigating", "in_progress", "monitoring"},
             began \in 1..now, promise \in Promises :
          row = [NoRow EXCEPT !.lifecycle = step, !.started = began,
                              !.nextUpdate = promise]
    <3>1. PICK x \in InitialLifecycles("incident", FALSE) \X (1..now) \X Promises :
            row = NewIncident(x[1], x[2], x[3])
      BY <1>2 DEF NewIncidents
    <3>2. x[1] \in {"investigating", "in_progress", "monitoring"}
      BY DEF InitialLifecycles, OpensIncident
    <3> QED BY <3>1, <3>2 DEF NewIncident
  <2> QED BY <2>1, <1>1, Times DEF RowOK, NoRow, Row, Kind, None, Lifecycle, IsTerminal
<1>3. CASE row \in NewMaintenances(now)
  <2>1. PICK window \in Time \X Time \X BOOLEAN :
          row = NewMaintenance(window[1], window[2], window[3], now)
    BY <1>3 DEF NewMaintenances
  <2>2. PICK start \in Time, end \in Time, repeats \in BOOLEAN :
          row = NewMaintenance(start, end, repeats, now)
    BY <2>1
  <2>3. (CHOOSE l \in InitialLifecycles("maintenance", start # NoTime) : TRUE)
          = IF start # NoTime THEN "scheduled" ELSE "in_progress"
    BY DEF InitialLifecycles
  <2>4. row = [kind |-> "maintenance", planned |-> start # NoTime,
               repeats |-> repeats,
               lifecycle |-> IF start # NoTime THEN "scheduled" ELSE "in_progress",
               previous |-> None, plannedStart |-> start, plannedEnd |-> end,
               started |-> IF start # NoTime THEN NoTime ELSE now,
               ended |-> NoTime, restored |-> NoTime, nextUpdate |-> NoTime]
    BY <2>2, <2>3 DEF NewMaintenance, NoRow
  <2>5. (start # NoTime) \in BOOLEAN
    OBVIOUS
  <2>6. row \in Row
    BY <2>4, <2>5, <1>1, Times DEF Row, Kind, None, Lifecycle
  <2> QED BY <2>4, <2>6, <1>1, Times DEF RowOK, None, IsTerminal
<1> QED BY <1>2, <1>3 DEF NewRows

\* transition, when the move is one the event can make
LEMMA MovedOK ==
  ASSUME NEW row, RowOK(row), NEW next \in Lifecycle, NEW now \in 1..MaxClock,
         CanTransition(row.kind, row.lifecycle, next)
  PROVE  /\ RowOK(Moved(row, next, now))
         /\ Moved(row, next, now).kind = row.kind
         /\ Moved(row, next, now).lifecycle # None
<1>1. now \in Time /\ now # NoTime
  BY Times
<1>2. Moved(row, next, now) \in Row
  BY <1>1, Times DEF RowOK, Moved, Row
<1> QED BY <1>1, <1>2, Times
        DEF RowOK, Moved, Row, CanTransition, AllowedTransitions, Lifecycle, None, Kind

\* revert_transition, when there is a state to go back to
LEMMA RevertedOK ==
  ASSUME NEW row, RowOK(row), row.previous # None
  PROVE  /\ RowOK(Reverted(row))
         /\ Reverted(row).kind = row.kind
         /\ Reverted(row).lifecycle # None
<1>1. Reverted(row) \in Row
  BY Times DEF RowOK, Reverted, Row
<1> QED BY <1>1, Times
        DEF RowOK, Reverted, Row, CanTransition, AllowedTransitions, Lifecycle, None, Kind

\* The schedule's two statements
LEMMA StartedOK ==
  ASSUME NEW row, RowOK(row), row.lifecycle = "scheduled", row.plannedStart # NoTime
  PROVE  RowOK(Started(row)) /\ Started(row).kind = row.kind
           /\ Started(row).lifecycle # None
BY DEF RowOK, Started, Row, Lifecycle, None

LEMMA CompletedOK ==
  ASSUME NEW row, RowOK(row), row.lifecycle = "in_progress", row.plannedEnd # NoTime
  PROVE  RowOK(Completed(row)) /\ Completed(row).kind = row.kind
           /\ Completed(row).lifecycle # None
BY DEF RowOK, Completed, Row, Lifecycle, None

\* update and set_next_update touch no date of the past
LEMMA RescheduledOK ==
  ASSUME NEW row, RowOK(row), NEW r \in Request
  PROVE  RowOK(Rescheduled(row, r)) /\ Rescheduled(row, r).kind = row.kind
           /\ Rescheduled(row, r).lifecycle = row.lifecycle
BY DEF RowOK, Rescheduled, Row, Request

LEMMA PromisedOK ==
  ASSUME NEW row, RowOK(row), NEW t \in Time
  PROVE  RowOK([row EXCEPT !.nextUpdate = t])
BY DEF RowOK, Row
----------------------------------------------------------------------------

\* The invariant is a statement about each row, the types of the rest, and the
\* moves under way.
RestOK ==
  /\ clock \in 1..MaxClock
  /\ stored \in [Events -> Nat] /\ sent \in [Events -> Nat]
  /\ tells \in [Events -> SUBSET Happening]
  /\ request \in [Workers -> Request]
  /\ schedule \in Schedule
  /\ reopened \in SUBSET Events

RowsOK == event \in [Events -> Row] /\ \A e \in Events : RowOK(event[e])

LEMMA InvParts == LifecycleInv => RowsOK /\ RestOK /\ MoveIsLegal
BY DEF LifecycleInv, RowsOK, RestOK, TypeOK, DatesFitState, UndoIsLegal,
       UndoKeepsDates, RowOK

LEMMA PartsInv == RowsOK /\ RestOK /\ MoveIsLegal => LifecycleInv
BY DEF LifecycleInv, RowsOK, RestOK, TypeOK, DatesFitState, UndoIsLegal,
       UndoKeepsDates, RowOK

LEMMA PartsInvNext == (RowsOK /\ RestOK /\ MoveIsLegal)' => LifecycleInv'
BY DEF LifecycleInv, RowsOK, RestOK, TypeOK, DatesFitState, UndoIsLegal,
       UndoKeepsDates, RowOK

\* A step that writes one row
LEMMA RowsUpdate ==
  ASSUME RowsOK, NEW e \in Events, NEW row, RowOK(row),
         event' = [event EXCEPT ![e] = row]
  PROVE  RowsOK'
BY DEF RowsOK, RowOK

\* An event some request is at work on keeps its kind and does not come back
\* once deleted.
KeepsBusy ==
  \A w \in Workers :
    request[w].e \in Events /\ event'[request[w].e].lifecycle # None =>
      /\ event[request[w].e].lifecycle # None
      /\ event'[request[w].e].kind = event[request[w].e].kind

LegalFor(r) ==
  /\ r.pc # "idle" => r.e \in Events
  /\ r.pc = "move" \/ (r.pc = "message" /\ r.next # None) =>
       /\ r.next # None /\ r.seen # None
       /\ event[r.e].lifecycle # None => CanTransition(event[r.e].kind, r.seen, r.next)

LegalNext(r) ==
  /\ r.pc # "idle" => r.e \in Events
  /\ r.pc = "move" \/ (r.pc = "message" /\ r.next # None) =>
       /\ r.next # None /\ r.seen # None
       /\ event'[r.e].lifecycle # None => CanTransition(event'[r.e].kind, r.seen, r.next)

\* A request that goes on, or another that begins, leaves the moves under way
\* legal as long as the rows keep their kinds.
LEMMA MoveStep ==
  ASSUME RestOK, MoveIsLegal, KeepsBusy, NEW w \in Workers, NEW x,
         request' = [request EXCEPT ![w] = x], LegalNext(x)
  PROVE  MoveIsLegal'
<1> SUFFICES ASSUME NEW v \in Workers PROVE LegalNext(request'[v])
  BY DEF MoveIsLegal, LegalNext, Exists
<1>1. CASE v = w
  <2>1. request'[v] = x
    BY <1>1 DEF RestOK
  <2> QED BY <2>1
<1>2. CASE v # w
  <2>1. request'[v] = request[v]
    BY <1>2 DEF RestOK
  <2>2. LegalFor(request[v])
    BY DEF MoveIsLegal, LegalFor, Exists
  <2> QED BY <2>1, <2>2 DEF LegalFor, LegalNext, KeepsBusy
<1> QED BY <1>1, <1>2

LEMMA MoveStays ==
  ASSUME RestOK, MoveIsLegal, KeepsBusy, UNCHANGED request
  PROVE  MoveIsLegal'
BY DEF MoveIsLegal, KeepsBusy, Exists

\* A step that leaves the rows alone, or writes one of them without giving it
\* another kind or bringing it back, keeps them for every request.
LEMMA SameRows ==
  ASSUME UNCHANGED event PROVE KeepsBusy
BY DEF KeepsBusy

LEMMA OneRow ==
  ASSUME RowsOK, NEW e \in Events, NEW row, event' = [event EXCEPT ![e] = row],
         row.lifecycle # None => event[e].lifecycle # None /\ row.kind = event[e].kind
  PROVE  KeepsBusy
BY DEF KeepsBusy, RowsOK

LEMMA Idleness == Idle \in Request /\ IdleSchedule \in Schedule
BY Times DEF Idle, Request, IdleSchedule, Schedule, Operations, None
\* Where a request goes next
LEMMA GoesOn ==
  ASSUME RestOK, NEW w \in Workers, NEW pc \in {"promise", "tell", "move"}, GoTo(w, pc)
  PROVE  /\ request' = [request EXCEPT ![w] = [request[w] EXCEPT !.pc = pc]]
         /\ [request[w] EXCEPT !.pc = pc] \in Request
         /\ request' \in [Workers -> Request]
<1>1. request[w] \in Request
  BY DEF RestOK
<1>2. [request[w] EXCEPT !.pc = pc] \in Request
  BY <1>1 DEF Request
<1> QED BY <1>2 DEF GoTo, RestOK

LEMMA Ends ==
  ASSUME RestOK, NEW w \in Workers, Done(w)
  PROVE  /\ request' = [request EXCEPT ![w] = Idle]
         /\ request' \in [Workers -> Request]
         /\ LegalNext(Idle)
BY Idleness DEF Done, RestOK, LegalNext, Idle

\* find: whatever a member asks
LEMMA FindStep ==
  ASSUME LifecycleInv, NEW w \in Workers, NEW r \in Request, r.e \in Events, Find(w, r),
         r.op = "post" => r.next # None \/ r.message
  PROVE  LifecycleInv'
<1> USE InvParts
<1> DEFINE x == [r EXCEPT !.pc = FirstStep(r), !.seen = event[r.e].lifecycle,
                          !.moves = MovesItsWindow(event[r.e], r)]
<1>1. FirstStep(r) \in {"write", "message", "move"}
  BY DEF FirstStep
<1>2. event[r.e].lifecycle \in Lifecycle \cup {None}
  BY DEF RowsOK, Row
<1>3. MovesItsWindow(event[r.e], r) \in BOOLEAN
  BY DEF MovesItsWindow
<1>4. x \in Request
  BY <1>1, <1>2, <1>3 DEF Request
<1>5. request' = [request EXCEPT ![w] = x] /\ event' = event
  BY DEF Find
<1>6. x.e = r.e /\ x.next = r.next /\ x.seen = event[r.e].lifecycle /\ x.pc = FirstStep(r)
  BY DEF Request
<1>7. LegalNext(x)
  <2> SUFFICES ASSUME FirstStep(r) = "move" \/ (FirstStep(r) = "message" /\ r.next # None)
               PROVE  r.next # None /\ event[r.e].lifecycle # None
                        /\ CanTransition(event[r.e].kind, event[r.e].lifecycle, r.next)
    BY <1>5, <1>6 DEF LegalNext
  <2>1. r.op = "post"
    BY DEF FirstStep
  <2>2. r.next # None
    BY <2>1 DEF FirstStep
  <2> QED BY <2>1, <2>2 DEF Find, Accepted, Exists
<1>8. MoveIsLegal'
  BY <1>5, <1>7, MoveStep, SameRows
<1>9. RestOK' /\ RowsOK'
  BY <1>4, <1>5 DEF Find, RestOK, RowsOK, RowOK
<1> QED BY <1>8, <1>9, PartsInvNext
\* announce
LEMMA CreateStep ==
  ASSUME LifecycleInv, NEW w \in Workers, NEW e \in Events, NEW row \in NewRows(clock),
         Create(w, e, row)
  PROVE  LifecycleInv'
<1> USE InvParts
<1>1. RowOK(row) /\ event' = [event EXCEPT ![e] = row]
  BY NewRowOK DEF RestOK, Create
<1>2. RowsOK'
  BY <1>1, RowsUpdate
<1>3. KeepsBusy
  BY <1>1 DEF KeepsBusy, Create, Busy, RowsOK
<1>4. MoveIsLegal'
  BY <1>3, MoveStays DEF Create
<1>5. RestOK'
  BY DEF Create, RestOK, Tell, OfNew, Happening
<1> QED BY <1>2, <1>4, <1>5, PartsInvNext

\* post_update
LEMMA AddUpdateStep ==
  ASSUME LifecycleInv, NEW w \in Workers, AddUpdate(w)
  PROVE  LifecycleInv'
<1> USE InvParts
<1> DEFINE pc == IF request[w].next = None THEN "promise" ELSE "move"
           x == [request[w] EXCEPT !.pc = pc]
<1>1. request' = [request EXCEPT ![w] = x] /\ request' \in [Workers -> Request]
  BY GoesOn DEF AddUpdate
<1>2. UNCHANGED event /\ request[w].pc = "message" /\ request[w] \in Request
  BY DEF AddUpdate, At, RestOK
<1>3. LegalNext(x)
  <2>1. x.pc = pc /\ x.e = request[w].e /\ x.next = request[w].next
          /\ x.seen = request[w].seen
    BY <1>2 DEF Request
  <2>2. LegalFor(request[w])
    BY DEF MoveIsLegal, LegalFor, Exists
  <2> QED BY <1>2, <2>1, <2>2 DEF LegalFor, LegalNext
<1>4. MoveIsLegal'
  BY <1>1, <1>2, <1>3, MoveStep, SameRows
<1>5. request[w].e \in Events
  BY <1>2 DEF MoveIsLegal
<1>6. stored' \in [Events -> Nat]
  BY <1>5 DEF AddUpdate, RestOK
<1>7. RestOK' /\ RowsOK'
  BY <1>1, <1>2, <1>6 DEF AddUpdate, RestOK, RowsOK, RowOK
<1> QED BY <1>4, <1>7, PartsInvNext

LEMMA TransitionStep ==
  ASSUME LifecycleInv, NEW w \in Workers, Transition(w)
  PROVE  LifecycleInv'
<1> USE InvParts
<1> DEFINE r == request[w]
           x == [r EXCEPT !.pc = "promise"]
           row == Moved(event[r.e], r.next, clock)
<1>1. r \in Request /\ r.pc = "move" /\ event[r.e].lifecycle = r.seen
  BY DEF Transition, StillAsRead, At, RestOK
<1>2. r.e \in Events /\ r.next \in Lifecycle /\ clock \in 1..MaxClock
  BY <1>1 DEF MoveIsLegal, Request, RestOK
<1>3. event[r.e].lifecycle # None /\ CanTransition(event[r.e].kind, r.seen, r.next)
  BY <1>1 DEF MoveIsLegal, Exists
<1>4. RowOK(row) /\ row.kind = event[r.e].kind
  BY <1>1, <1>2, <1>3, MovedOK DEF RowsOK
<1>5. event' = [event EXCEPT ![r.e] = row]
  BY DEF Transition
<1>6. request' = [request EXCEPT ![w] = x] /\ request' \in [Workers -> Request]
  BY GoesOn DEF Transition
<1>7. LegalNext(x)
  BY <1>1, <1>2 DEF LegalNext, Request
<1>8. KeepsBusy
  BY <1>2, <1>3, <1>4, <1>5, OneRow
<1>9. MoveIsLegal'
  BY <1>6, <1>7, <1>8, MoveStep
<1>10. RowsOK'
  BY <1>2, <1>4, <1>5, RowsUpdate
<1>11. RestOK'
  BY <1>6 DEF Transition, RestOK
<1> QED BY <1>9, <1>10, <1>11, PartsInvNext

LEMMA SetNextUpdateStep ==
  ASSUME LifecycleInv, NEW w \in Workers, SetNextUpdate(w)
  PROVE  LifecycleInv'
<1> USE InvParts
<1> DEFINE r == request[w]
           x == [r EXCEPT !.pc = "tell"]
<1>1. r \in Request /\ request' = [request EXCEPT ![w] = x]
        /\ request' \in [Workers -> Request]
  BY GoesOn DEF SetNextUpdate, RestOK
<1>2. r.e \in Events /\ LegalNext(x)
  BY <1>1 DEF LegalNext, Request, MoveIsLegal, SetNextUpdate, At
<1>3. RestOK'
  BY <1>1 DEF SetNextUpdate, RestOK
<1>4. RowsOK' /\ KeepsBusy
  <2>1. CASE UNCHANGED event
    BY <2>1, SameRows DEF RowsOK, RowOK
  <2>2. ASSUME NEW t \in Time, event' = [event EXCEPT ![r.e].nextUpdate = t],
               event[r.e].lifecycle # None
        PROVE  RowsOK' /\ KeepsBusy
    <3> DEFINE row == [event[r.e] EXCEPT !.nextUpdate = t]
    <3>1. event[r.e] \in Row /\ RowOK(row)
      BY <1>2, PromisedOK DEF RowsOK
    <3>2. event' = [event EXCEPT ![r.e] = row]
      BY <2>2
    <3>3. row.kind = event[r.e].kind
      BY <3>1 DEF Row
    <3> QED BY <1>2, <2>2, <3>1, <3>2, <3>3, RowsUpdate, OneRow
  <2>3. r.promise \in Time /\ NoTime \in Time
    BY <1>1, Times DEF Request
  <2> QED BY <2>1, <2>2, <2>3 DEF SetNextUpdate, Exists
<1>5. MoveIsLegal'
  BY <1>1, <1>2, <1>4, MoveStep
<1> QED BY <1>3, <1>4, <1>5, PartsInvNext

\* A step that ends a request and leaves the rows alone
LEMMA EndStep ==
  ASSUME LifecycleInv, NEW w \in Workers, Done(w), UNCHANGED <<clock, event, schedule>>,
         reopened' \in SUBSET Events, stored' \in [Events -> Nat],
         sent' \in [Events -> Nat], tells' \in [Events -> SUBSET Happening]
  PROVE  LifecycleInv'
<1> USE InvParts
<1>1. MoveIsLegal'
  BY Ends, MoveStep, SameRows
<1>2. RestOK' /\ RowsOK'
  BY Ends DEF RestOK, RowsOK, RowOK
<1> QED BY <1>1, <1>2, PartsInvNext

\* A message told is a message of the kinds there are
LEMMA TellType ==
  ASSUME RestOK, NEW e, NEW h \in Happening, Tell(e, h)
  PROVE  tells' \in [Events -> SUBSET Happening]
BY DEF RestOK, Tell
\* revert
LEMMA RevertStep ==
  ASSUME LifecycleInv, NEW w \in Workers, Revert(w)
  PROVE  LifecycleInv'
<1> USE InvParts
<1> DEFINE r == request[w]
           x == [r EXCEPT !.pc = "tell"]
<1>1. r \in Request /\ request' = [request EXCEPT ![w] = x]
        /\ request' \in [Workers -> Request]
  BY GoesOn DEF Revert, RestOK
<1>2. r.e \in Events /\ LegalNext(x)
  BY <1>1 DEF LegalNext, Request, MoveIsLegal, Revert, At
<1>3. RestOK'
  BY <1>1, <1>2 DEF Revert, RestOK
<1>4. RowsOK' /\ KeepsBusy
  <2>1. CASE event[r.e].previous = None
    BY <2>1, SameRows DEF RowsOK, RowOK, Revert
  <2>2. CASE event[r.e].previous # None
    <3> DEFINE row == Reverted(event[r.e])
    <3>1. event' = [event EXCEPT ![r.e] = row]
      BY <2>2 DEF Revert
    <3>2. RowOK(row) /\ row.kind = event[r.e].kind
      BY <1>2, <2>2, RevertedOK DEF RowsOK
    <3>3. event[r.e].lifecycle # None
      BY <1>2, <2>2 DEF RowsOK, RowOK, CanTransition, AllowedTransitions, None
    <3> QED BY <1>2, <3>1, <3>2, <3>3, RowsUpdate, OneRow
  <2> QED BY <2>1, <2>2
<1>5. MoveIsLegal'
  BY <1>1, <1>2, <1>4, MoveStep
<1> QED BY <1>3, <1>4, <1>5, PartsInvNext

\* update and delete
LEMMA EditStep ==
  ASSUME LifecycleInv, NEW w \in Workers, Edit(w)
  PROVE  LifecycleInv'
<1> USE InvParts
<1> DEFINE r == request[w]
           row == Rescheduled(event[r.e], r)
<1>1. r.e \in Events /\ r \in Request
  BY DEF MoveIsLegal, Edit, At, RestOK
<1>2. RowOK(row) /\ row.kind = event[r.e].kind /\ row.lifecycle = event[r.e].lifecycle
  BY <1>1, RescheduledOK DEF RowsOK
<1>3. event' = [event EXCEPT ![r.e] = row]
  BY DEF Edit
<1>4. RowsOK' /\ KeepsBusy
  BY <1>1, <1>2, <1>3, RowsUpdate, OneRow
<1>5. MoveIsLegal'
  BY <1>4, Ends, MoveStep DEF Edit
<1>6. tells' \in [Events -> SUBSET Happening]
  BY TellType DEF Edit, Happening, RestOK
<1>7. RestOK'
  BY <1>6, Ends DEF Edit, RestOK
<1> QED BY <1>4, <1>5, <1>7, PartsInvNext

LEMMA DeleteStep ==
  ASSUME LifecycleInv, NEW w \in Workers, Delete(w)
  PROVE  LifecycleInv'
<1> USE InvParts
<1>1. request[w].e \in Events /\ event' = [event EXCEPT ![request[w].e] = NoRow]
  BY DEF MoveIsLegal, Delete, At
<1>2. RowsOK' /\ KeepsBusy
  BY <1>1, NoRowOK, RowsUpdate, OneRow DEF NoRow
<1>3. MoveIsLegal'
  BY <1>2, Ends, MoveStep DEF Delete
<1>4. RestOK'
  BY Ends DEF Delete, RestOK
<1> QED BY <1>2, <1>3, <1>4, PartsInvNext

\* The schedule moves several rows at once.
LEMMA ScheduleStep ==
  ASSUME LifecycleInv, StartDue \/ CompleteDue
  PROVE  LifecycleInv'
<1> USE InvParts
<1>1. ASSUME StartDue PROVE RowsOK' /\ KeepsBusy /\ RestOK'
  <2>1. \A e \in DueToStart(clock) :
          /\ RowOK(Started(event[e])) /\ Started(event[e]).kind = event[e].kind
          /\ event[e].lifecycle # None
    BY StartedOK DEF DueToStart, RowsOK, None
  <2>2. event' = [e \in Events |-> IF e \in DueToStart(clock) THEN Started(event[e])
                                    ELSE event[e]]
    BY <1>1 DEF StartDue
  <2>3. RowsOK' /\ KeepsBusy
    BY <2>1, <2>2 DEF RowsOK, KeepsBusy, RowOK
  <2>4. ToTell(DueToStart(clock)) \subseteq Events
    BY DEF ToTell, DueToStart
  <2>5. schedule' \in Schedule
    BY <1>1, <2>4, Times DEF StartDue, Schedule, RestOK
  <2>6. tells' \in [Events -> SUBSET Happening]
    BY <1>1 DEF StartDue, RestOK
  <2> QED BY <1>1, <2>3, <2>5, <2>6 DEF StartDue, RestOK
<1>2. ASSUME CompleteDue PROVE RowsOK' /\ KeepsBusy /\ RestOK'
  <2>1. \A e \in DueToComplete(schedule.now) :
          /\ RowOK(Completed(event[e])) /\ Completed(event[e]).kind = event[e].kind
          /\ event[e].lifecycle # None
    BY CompletedOK DEF DueToComplete, RowsOK, None
  <2>2. event' = [e \in Events |-> IF e \in DueToComplete(schedule.now)
                                    THEN Completed(event[e]) ELSE event[e]]
    BY <1>2 DEF CompleteDue
  <2>3. RowsOK' /\ KeepsBusy
    BY <2>1, <2>2 DEF RowsOK, KeepsBusy, RowOK
  <2>4. ToTell(DueToComplete(schedule.now)) \subseteq Events
    BY DEF ToTell, DueToComplete
  <2>5. schedule' \in Schedule
    BY <1>2, <2>4 DEF CompleteDue, Schedule, RestOK
  <2>6. tells' \in [Events -> SUBSET Happening]
    BY <1>2 DEF CompleteDue, RestOK
  <2> QED BY <1>2, <2>3, <2>5, <2>6 DEF CompleteDue, RestOK
<1>3. UNCHANGED request
  BY DEF StartDue, CompleteDue
<1>4. MoveIsLegal'
  BY <1>1, <1>2, <1>3, MoveStays
<1> QED BY <1>1, <1>2, <1>4, PartsInvNext
\* What only tells, or only waits
LEMMA QuietStep ==
  ASSUME LifecycleInv, UNCHANGED <<event, stored, sent, request, reopened>>,
         clock' \in 1..MaxClock, tells' \in [Events -> SUBSET Happening],
         schedule' \in Schedule
  PROVE  LifecycleInv'
<1> USE InvParts
<1>1. MoveIsLegal'
  BY MoveStays, SameRows
<1>2. RestOK' /\ RowsOK'
  BY DEF RestOK, RowsOK, RowOK
<1> QED BY <1>1, <1>2, PartsInvNext

LEMMA TellScheduleStep ==
  ASSUME LifecycleInv, NEW e \in Events, TellStarted(e) \/ TellCompleted(e)
  PROVE  LifecycleInv'
<1> USE InvParts
<1>1. tells' \in [Events -> SUBSET Happening]
  BY TellType DEF TellStarted, TellCompleted, Happening, RestOK
<1>2. schedule' \in Schedule
  BY DEF TellStarted, TellCompleted, Schedule, RestOK
<1>3. UNCHANGED <<clock, event, stored, sent, request, reopened>>
  BY DEF TellStarted, TellCompleted
<1>4. clock' \in 1..MaxClock
  BY <1>3 DEF RestOK
<1> QED BY <1>1, <1>2, <1>3, <1>4, QuietStep

LEMMA EndScheduleStep ==
  ASSUME LifecycleInv, EndSchedule \/ Tick
  PROVE  LifecycleInv'
<1> USE InvParts
<1>1. CASE EndSchedule
  <2>1. tells' \in [Events -> SUBSET Happening]
    BY <1>1 DEF EndSchedule, RestOK, Happening
  <2> QED BY <1>1, <2>1, Idleness, QuietStep DEF EndSchedule, RestOK
<1>2. CASE Tick
  <2>1. clock' \in 1..MaxClock
    BY <1>2, LifecycleAssumption DEF Tick, RestOK
  <2> QED BY <1>2, <2>1, QuietStep DEF Tick, RestOK
<1> QED BY <1>1, <1>2

\* The steps that end a request without touching a row
LEMMA ReplyStep ==
  ASSUME LifecycleInv, NEW w \in Workers,
         TransitionRefused(w) \/ TellUpdate(w) \/ TellRevert(w) \/ Abandon(w)
  PROVE  LifecycleInv'
<1> USE InvParts
<1>1. CASE TransitionRefused(w)
  BY <1>1, EndStep DEF TransitionRefused, RestOK
<1>2. CASE Abandon(w)
  <2>1. tells' \in [Events -> SUBSET Happening]
    BY <1>2, TellType DEF Abandon, Happening, RestOK
  <2> QED BY <1>2, <2>1, EndStep DEF Abandon, RestOK
<1>3. CASE TellUpdate(w)
  <2>1. request[w].e \in Events
    BY <1>3 DEF TellUpdate, At, MoveIsLegal
  <2>2. tells' \in [Events -> SUBSET Happening]
    BY <1>3, TellType DEF TellUpdate, OfMove, Happening, RestOK
  <2>3. sent' \in [Events -> Nat]
    BY <1>3, <2>1 DEF TellUpdate, RestOK
  <2> QED BY <1>3, <2>2, <2>3, EndStep DEF TellUpdate, RestOK
<1>4. CASE TellRevert(w)
  <2>1. tells' \in [Events -> SUBSET Happening]
    BY <1>4, TellType DEF TellRevert, Happening, RestOK
  <2> QED BY <1>4, <2>1, EndStep DEF TellRevert, RestOK
<1> QED BY <1>1, <1>2, <1>3, <1>4

\* What a member may ask
LEMMA AskStep ==
  ASSUME LifecycleInv, NEW w \in Workers, NEW e \in Events, NEW role \in Roles,
         AskPost(w, e, role) \/ AskRevert(w, e, role) \/ AskEdit(w, e, role)
           \/ AskDelete(w, e, role)
  PROVE  LifecycleInv'
<1>1. role \in {"publisher", "admin"} /\ Promises \subseteq Time
  BY LifecycleAssumption DEF Promises, Time, NoTime
<1>2. CASE AskPost(w, e, role)
  <2>1. PICK message \in BOOLEAN, next \in Lifecycle \cup {None}, promise \in Promises :
          Find(w, [Idle EXCEPT !.op = "post", !.e = e, !.role = role,
                     !.message = message, !.next = next, !.promise = promise])
    BY <1>2 DEF AskPost
  <2> DEFINE r == [Idle EXCEPT !.op = "post", !.e = e, !.role = role,
                     !.message = message, !.next = next, !.promise = promise]
  <2>2. r \in Request /\ r.e = e
    BY <1>1, Idleness DEF Request, Idle, Operations
  <2>3. r.next # None \/ r.message
    BY <2>1 DEF Find, Accepted, Idle
  <2> HIDE DEF r
  <2> QED BY <2>1, <2>2, <2>3, FindStep DEF r
<1>3. CASE AskRevert(w, e, role)
  <2> DEFINE r == [Idle EXCEPT !.op = "revert", !.e = e, !.role = role]
  <2>1. r \in Request /\ r.e = e /\ r.op = "revert"
    BY <1>1, Idleness DEF Request, Idle, Operations
  <2>2. Find(w, r)
    BY <1>3 DEF AskRevert
  <2> HIDE DEF r
  <2> QED BY <2>1, <2>2, FindStep
<1>4. CASE AskEdit(w, e, role)
  <2>1. PICK start \in Time, end \in Time :
          Find(w, [Idle EXCEPT !.op = "edit", !.e = e, !.role = role,
                     !.start = start, !.end = end])
    BY <1>4 DEF AskEdit
  <2> DEFINE r == [Idle EXCEPT !.op = "edit", !.e = e, !.role = role,
                     !.start = start, !.end = end]
  <2>2. r \in Request /\ r.e = e /\ r.op = "edit"
    BY <1>1, Idleness DEF Request, Idle, Operations
  <2>3. Find(w, r)
    BY <2>1
  <2> HIDE DEF r
  <2> QED BY <2>2, <2>3, FindStep
<1>5. CASE AskDelete(w, e, role)
  <2> DEFINE r == [Idle EXCEPT !.op = "delete", !.e = e, !.role = role]
  <2>1. r \in Request /\ r.e = e /\ r.op = "delete"
    BY <1>1, Idleness DEF Request, Idle, Operations
  <2>2. Find(w, r)
    BY <1>5 DEF AskDelete
  <2> HIDE DEF r
  <2> QED BY <2>1, <2>2, FindStep
<1> QED BY <1>2, <1>3, <1>4, <1>5
----------------------------------------------------------------------------

LEMMA InvInit == Init => LifecycleInv
<1> SUFFICES ASSUME Init PROVE LifecycleInv
  OBVIOUS
<1>1. RowsOK
  BY NoRowOK DEF Init, RowsOK, RowOK
<1>2. RestOK
  BY Idleness, LifecycleAssumption DEF Init, RestOK
<1>3. MoveIsLegal
  BY DEF Init, MoveIsLegal, Idle
<1> QED BY <1>1, <1>2, <1>3, PartsInv

LEMMA InvStep == LifecycleInv /\ [Next]_vars => LifecycleInv'
<1> SUFFICES ASSUME LifecycleInv, [Next]_vars PROVE LifecycleInv'
  OBVIOUS
<1>1. ASSUME NEW w \in Workers, Serve(w) PROVE LifecycleInv'
  BY <1>1, CreateStep, AskStep, AddUpdateStep, TransitionStep, SetNextUpdateStep,
     RevertStep, EditStep, DeleteStep, ReplyStep DEF Serve
<1>2. CASE ApplySchedule
  BY <1>2, ScheduleStep, TellScheduleStep, EndScheduleStep DEF ApplySchedule
<1>3. CASE Tick
  BY <1>3, EndScheduleStep
<1>4. CASE UNCHANGED vars
  BY <1>4 DEF vars, LifecycleInv, TypeOK, DatesFitState, UndoIsLegal, UndoKeepsDates,
              MoveIsLegal, Exists
<1> QED BY <1>1, <1>2, <1>3, <1>4 DEF Next

LEMMA Invariance == Spec => []LifecycleInv
BY InvInit, InvStep, PTL DEF Spec

\* Rows, requests and the schedule keep their types.
THEOREM TypeCorrect == Spec => []TypeOK
<1>1. LifecycleInv => TypeOK
  BY DEF LifecycleInv
<1> QED BY <1>1, Invariance, PTL

\* However many members and however the schedule runs between their reads and
\* their writes, the dates of an event fit the state it shows.
THEOREM DatesAlwaysFit == Spec => []DatesFitState
<1>1. LifecycleInv => DatesFitState
  BY DEF LifecycleInv
<1> QED BY <1>1, Invariance, PTL

\* The undo on offer always goes back along a legal move, even though
\* revert_transition does not look at the state it is applied to.
THEOREM UndoAlwaysLegal == Spec => []UndoIsLegal
<1>1. LifecycleInv => UndoIsLegal
  BY DEF LifecycleInv
<1> QED BY <1>1, Invariance, PTL

----------------------------------------------------------------------------
(* The end of an event is told.                                            *)

\* An event whose end the destinations must hear of
Over(row) == row.lifecycle # None /\ IsTerminal(row.lifecycle) /\ ~row.repeats

\* A request that has ended its event and has yet to say so
Ending(r, e) ==
  /\ r.e = e /\ r.op = "post" /\ r.pc \in {"promise", "tell"}
  /\ r.next # None /\ IsTerminal(r.next)

\* The end of an event was told or lost, or someone has yet to tell it: the
\* request that wrote it or the schedule.
Owed(e) ==
  Over(event[e]) =>
    \/ tells[e] \cap {"closed", "lost"} # {}
    \/ \E w \in Workers : Ending(request[w], e)
    \/ e \in schedule.completed

EndOwed ==
  /\ \A e \in Events : Owed(e)
  /\ schedule.pc # "tell" => schedule.completed = {}
  /\ \A w \in Workers :
       request[w].pc \in {"message", "move", "promise"} => request[w].op = "post"

EndInv == LifecycleInv /\ EndOwed

\* What is owed stays owed while the row is not ended anew, what was told is
\* kept and whoever has yet to tell is still there.
LEMMA OwedStays ==
  ASSUME NEW e \in Events, Owed(e),
         Over(event'[e]) => Over(event[e]) /\ tells[e] \subseteq tells'[e],
         \A w \in Workers : Ending(request[w], e) /\ Over(event'[e]) =>
           Ending(request'[w], e) \/ tells'[e] \cap {"closed", "lost"} # {},
         e \in schedule.completed /\ Over(event'[e]) =>
           e \in schedule'.completed \/ tells'[e] \cap {"closed", "lost"} # {}
  PROVE  Owed(e)'
<1> SUFFICES ASSUME Over(event'[e])
             PROVE  \/ tells'[e] \cap {"closed", "lost"} # {}
                    \/ \E w \in Workers : Ending(request'[w], e)
                    \/ e \in schedule'.completed
  BY DEF Owed, Over, Ending
<1>1. CASE tells[e] \cap {"closed", "lost"} # {}
  BY <1>1, Zenon
<1>2. CASE \E w \in Workers : Ending(request[w], e)
  BY <1>2, Zenon
<1>3. CASE e \in schedule.completed
  BY <1>3, Zenon
<1> QED BY <1>1, <1>2, <1>3 DEF Owed

\* A message told is kept with the others.
LEMMA TellKeeps ==
  ASSUME RestOK, NEW e \in Events, NEW h, Tell(e, h)
  PROVE  /\ h \in tells'[e]
         /\ \A x \in Events : tells[x] \subseteq tells'[x]
BY DEF RestOK, Tell

\* The requests of the others stay where they are.
LEMMA OtherRequests ==
  ASSUME RestOK, NEW w \in Workers, NEW x, request' = [request EXCEPT ![w] = x]
  PROVE  /\ request'[w] = x
         /\ \A v \in Workers \ {w} : request'[v] = request[v]
BY DEF RestOK

\* A request that begins, stores a message, is refused or gives up before it
\* moved its event owes nothing.
LEMMA OwedBefore ==
  ASSUME LifecycleInv, EndOwed, NEW w \in Workers, NEW x,
         request[w].pc \notin {"promise", "tell"},
         request' = [request EXCEPT ![w] = x],
         x.pc \in {"message", "move", "promise"} => x.op = "post",
         UNCHANGED <<event, tells, schedule>>
  PROVE  EndOwed'
<1> USE InvParts
<1>1. /\ request'[w] = x
      /\ \A v \in Workers \ {w} : request'[v] = request[v]
  BY OtherRequests
<1>2. ASSUME NEW e \in Events PROVE Owed(e)'
  <2>1. ASSUME NEW v \in Workers, Ending(request[v], e) PROVE Ending(request'[v], e)
    <3>1. v # w
      BY <2>1 DEF Ending
    <3> QED BY <1>1, <2>1, <3>1
  <2>2. Owed(e)
    BY DEF EndOwed
  <2> QED BY <2>1, <2>2, OwedStays
<1> QED BY <1>1, <1>2 DEF EndOwed

\* find
LEMMA FindOwed ==
  ASSUME LifecycleInv, EndOwed, NEW w \in Workers, NEW r \in Request, Find(w, r)
  PROVE  EndOwed'
<1> DEFINE x == [r EXCEPT !.pc = FirstStep(r), !.seen = event[r.e].lifecycle,
                          !.moves = MovesItsWindow(event[r.e], r)]
<1>1. x.pc = FirstStep(r) /\ x.op = r.op
  BY DEF Request
<1>2. x.pc \in {"message", "move", "promise"} => x.op = "post"
  BY <1>1 DEF FirstStep
<1>3. request' = [request EXCEPT ![w] = x]
  BY DEF Find
<1>4. request[w].pc = "idle" /\ UNCHANGED <<event, tells, schedule>>
  BY DEF Find
<1> HIDE DEF x
<1> QED BY <1>2, <1>3, <1>4, OwedBefore

\* What a member asks
LEMMA AskOwed ==
  ASSUME LifecycleInv, EndOwed, NEW w \in Workers, NEW e \in Events, NEW role \in Roles,
         AskPost(w, e, role) \/ AskRevert(w, e, role) \/ AskEdit(w, e, role)
           \/ AskDelete(w, e, role)
  PROVE  EndOwed'
<1>1. role \in {"publisher", "admin"} /\ Promises \subseteq Time
  BY LifecycleAssumption DEF Promises, Time, NoTime
<1>2. CASE AskPost(w, e, role)
  <2>1. PICK message \in BOOLEAN, next \in Lifecycle \cup {None}, promise \in Promises :
          Find(w, [Idle EXCEPT !.op = "post", !.e = e, !.role = role,
                     !.message = message, !.next = next, !.promise = promise])
    BY <1>2 DEF AskPost
  <2>2. [Idle EXCEPT !.op = "post", !.e = e, !.role = role, !.message = message,
                     !.next = next, !.promise = promise] \in Request
    BY <1>1, Idleness DEF Request, Idle, Operations
  <2> QED BY <2>1, <2>2, FindOwed
<1>3. CASE AskRevert(w, e, role)
  <2>1. [Idle EXCEPT !.op = "revert", !.e = e, !.role = role] \in Request
    BY <1>1, Idleness DEF Request, Idle, Operations
  <2> QED BY <1>3, <2>1, FindOwed DEF AskRevert
<1>4. CASE AskEdit(w, e, role)
  <2>1. PICK start \in Time, end \in Time :
          Find(w, [Idle EXCEPT !.op = "edit", !.e = e, !.role = role,
                     !.start = start, !.end = end])
    BY <1>4 DEF AskEdit
  <2>2. [Idle EXCEPT !.op = "edit", !.e = e, !.role = role, !.start = start,
                     !.end = end] \in Request
    BY <1>1, Idleness DEF Request, Idle, Operations
  <2> QED BY <2>1, <2>2, FindOwed
<1>5. CASE AskDelete(w, e, role)
  <2>1. [Idle EXCEPT !.op = "delete", !.e = e, !.role = role] \in Request
    BY <1>1, Idleness DEF Request, Idle, Operations
  <2> QED BY <1>5, <2>1, FindOwed DEF AskDelete
<1> QED BY <1>2, <1>3, <1>4, <1>5

\* A request under way goes on, or ends, and writes at most one row, that of
\* its event: it suffices that what it makes of that row is not owed or that
\* it still has to tell.
LEMMA OwedAfter ==
  ASSUME LifecycleInv, EndOwed, NEW w \in Workers, NEW x, NEW d \in Events,
         request[w].e = d,
         request' = [request EXCEPT ![w] = x], UNCHANGED schedule,
         x.pc \in {"message", "move", "promise"} => x.op = "post",
         \A e \in Events \ {d} : event'[e] = event[e] /\ tells'[e] = tells[e],
         Owed(d)'
  PROVE  EndOwed'
<1> USE InvParts
<1>1. /\ request'[w] = x
      /\ \A v \in Workers \ {w} : request'[v] = request[v]
  BY OtherRequests
<1>2. ASSUME NEW e \in Events, e # d PROVE Owed(e)'
  <2>1. ASSUME NEW v \in Workers, Ending(request[v], e) PROVE Ending(request'[v], e)
    <3>1. v # w
      BY <1>2, <2>1 DEF Ending
    <3> QED BY <1>1, <2>1, <3>1
  <2>2. Owed(e) /\ event'[e] = event[e] /\ tells'[e] = tells[e]
    BY <1>2 DEF EndOwed
  <2> QED BY <2>1, <2>2, OwedStays
<1>3. \A v \in Workers : request'[v].pc \in {"message", "move", "promise"}
                          => request'[v].op = "post"
  BY <1>1 DEF EndOwed
<1> QED BY <1>2, <1>3 DEF EndOwed

\* transition: the request that ends an event has yet to tell
LEMMA TransitionOwed ==
  ASSUME LifecycleInv, EndOwed, NEW w \in Workers, Transition(w)
  PROVE  EndOwed'
<1> USE InvParts
<1> DEFINE r == request[w]
           x == [r EXCEPT !.pc = "promise"]
           row == Moved(event[r.e], r.next, clock)
<1>1. r \in Request /\ r.pc = "move" /\ r.op = "post"
  BY DEF Transition, At, RestOK, EndOwed
<1>2. r.e \in Events /\ r.next # None
  BY <1>1 DEF MoveIsLegal
<1>d. PICK d \in Events : r.e = d
  BY <1>2
<1>3. request' = [request EXCEPT ![w] = x]
  BY GoesOn DEF Transition
<1>4. x.pc = "promise" /\ x.op = "post" /\ x.e = d /\ x.next = r.next
  BY <1>1, <1>d DEF Request
<1>5. event' = [event EXCEPT ![d] = row] /\ tells' = [tells EXCEPT ![d] = {}]
      /\ UNCHANGED schedule
  BY <1>d DEF Transition
<1>6. row.lifecycle = r.next
  BY <1>2 DEF Moved, RowsOK, Row
<1>7. Owed(d)'
  <2>1. event'[d] = row /\ request'[w] = x
    BY <1>3, <1>5, OtherRequests DEF RowsOK
  <2>2. CASE IsTerminal(r.next)
    <3>1. Ending(request'[w], d)
      BY <1>2, <1>4, <2>1, <2>2 DEF Ending
    <3> QED BY <3>1 DEF Owed, Ending
  <2>3. CASE ~IsTerminal(r.next)
    <3>1. ~Over(event'[d])
      BY <1>6, <2>1, <2>3 DEF Over
    <3> QED BY <3>1 DEF Owed, Over
  <2> QED BY <2>2, <2>3
<1>8. \A e \in Events \ {d} : event'[e] = event[e] /\ tells'[e] = tells[e]
  BY <1>5 DEF RowsOK, RestOK
<1> HIDE DEF x
<1> QED BY <1>d, <1>3, <1>4, <1>5, <1>7, <1>8, OwedAfter

\* set_next_update
LEMMA SetNextUpdateOwed ==
  ASSUME LifecycleInv, EndOwed, NEW w \in Workers, SetNextUpdate(w)
  PROVE  EndOwed'
<1> USE InvParts
<1> DEFINE r == request[w]
           x == [r EXCEPT !.pc = "tell"]
<1>1. r \in Request /\ r.pc = "promise" /\ r.e \in Events
  BY DEF SetNextUpdate, At, RestOK, MoveIsLegal
<1>d. PICK d \in Events : r.e = d
  BY <1>1
<1>2. request' = [request EXCEPT ![w] = x]
  BY GoesOn DEF SetNextUpdate
<1>3. x.pc = "tell" /\ x.op = r.op /\ x.e = r.e /\ x.next = r.next
  BY <1>1 DEF Request
<1>4. UNCHANGED <<schedule, tells>>
  BY DEF SetNextUpdate
<1>5. /\ \A e \in Events \ {r.e} : event'[e] = event[e]
      /\ event'[r.e].lifecycle = event[r.e].lifecycle
      /\ event'[r.e].repeats = event[r.e].repeats
  <2>1. CASE UNCHANGED event
    BY <2>1
  <2>2. ASSUME NEW t, event' = [event EXCEPT ![r.e].nextUpdate = t]
        PROVE  /\ \A e \in Events \ {r.e} : event'[e] = event[e]
               /\ event'[r.e].lifecycle = event[r.e].lifecycle
               /\ event'[r.e].repeats = event[r.e].repeats
    <3>1. event'[r.e] = [event[r.e] EXCEPT !.nextUpdate = t]
      BY <1>1, <2>2 DEF RowsOK
    <3>2. event[r.e] \in Row
      BY <1>1 DEF RowsOK
    <3> QED BY <1>1, <2>2, <3>1, <3>2 DEF RowsOK, Row
  <2> QED BY <2>1, <2>2 DEF SetNextUpdate
<1>e. /\ \A e \in Events \ {d} : event'[e] = event[e]
      /\ event'[d].lifecycle = event[d].lifecycle
      /\ event'[d].repeats = event[d].repeats
  BY <1>5, <1>d
<1> HIDE DEF x
<1>6. /\ request'[w] = x
      /\ \A v \in Workers \ {w} : request'[v] = request[v]
  BY <1>2, OtherRequests
<1>7. Owed(d)'
  <2>1. \A v \in Workers : Ending(request[v], d) => Ending(request'[v], d)
    BY <1>d, <1>3, <1>6 DEF Ending
  <2>2. Owed(d) /\ (Over(event'[d]) => Over(event[d]))
    BY <1>e DEF EndOwed, Over
  <2> QED BY <1>4, <2>1, <2>2, OwedStays
<1> QED BY <1>d, <1>2, <1>3, <1>4, <1>e, <1>7, OwedAfter

\* A request that ends: its last message tells the end it wrote, or is lost
LEMMA DoneOwed ==
  ASSUME LifecycleInv, EndOwed, NEW w \in Workers, request[w].e \in Events, Done(w),
         UNCHANGED schedule,
         \A e \in Events \ {request[w].e} :
           event'[e] = event[e] /\ tells'[e] = tells[e],
         Over(event'[request[w].e]) => /\ Over(event[request[w].e])
                                       /\ tells[request[w].e] \subseteq tells'[request[w].e],
         Ending(request[w], request[w].e) /\ Over(event'[request[w].e]) =>
           tells'[request[w].e] \cap {"closed", "lost"} # {}
  PROVE  EndOwed'
<1> USE InvParts
<1>e. PICK e \in Events : request[w].e = e
  OBVIOUS
<1>1. request' = [request EXCEPT ![w] = Idle] /\ Idle.pc = "idle"
  BY DEF Done, Idle
<1>2. \A v \in Workers \ {w} : request'[v] = request[v]
  BY <1>1, OtherRequests
<1>3. Owed(e)'
  <2>1. \A v \in Workers : Ending(request[v], e) /\ Over(event'[e]) =>
          Ending(request'[v], e) \/ tells'[e] \cap {"closed", "lost"} # {}
    BY <1>e, <1>2
  <2>2. Owed(e)
    BY DEF EndOwed
  <2>3. Over(event'[e]) => Over(event[e]) /\ tells[e] \subseteq tells'[e]
    BY <1>e
  <2> QED BY <2>1, <2>2, <2>3, OwedStays
<1> QED BY <1>e, <1>1, <1>3, OwedAfter

\* tell_update, the message of a revert, a refusal and an error
LEMMA ReplyOwed ==
  ASSUME LifecycleInv, EndOwed, NEW w \in Workers,
         TransitionRefused(w) \/ TellUpdate(w) \/ TellRevert(w) \/ Abandon(w)
  PROVE  EndOwed'
<1> USE InvParts
<1> DEFINE e == request[w].e
<1>0. e \in Events /\ Done(w) /\ UNCHANGED <<schedule, event>>
  BY DEF TransitionRefused, TellUpdate, TellRevert, Abandon, At, MoveIsLegal
<1>1. CASE TransitionRefused(w)
  <2>1. UNCHANGED tells /\ ~Ending(request[w], e)
    BY <1>1 DEF TransitionRefused, At, Ending
  <2> QED BY <1>0, <2>1, DoneOwed
<1>2. CASE TellUpdate(w)
  <2>1. CASE ~Exists(e)
    <3>1. UNCHANGED tells /\ ~Over(event'[e])
      BY <1>0, <1>2, <2>1 DEF TellUpdate, Exists, Over
    <3> QED BY <1>0, <3>1, DoneOwed
  <2>2. CASE Exists(e)
    <3>1. PICK h : /\ Tell(e, h)
                   /\ h = IF request[w].next = None THEN "updated"
                          ELSE OfMove(event[e].kind, request[w].seen, request[w].next)
      BY <1>2, <2>2 DEF TellUpdate
    <3>2. Ending(request[w], e) => h = "closed"
      BY <3>1 DEF Ending, OfMove
    <3>3. h \in tells'[e] /\ tells[e] \subseteq tells'[e]
      BY <1>0, <3>1, TellKeeps
    <3>4. \A x \in Events \ {e} : tells'[x] = tells[x]
      BY <3>1 DEF Tell, RestOK
    <3> QED BY <1>0, <3>2, <3>3, <3>4, DoneOwed
  <2> QED BY <2>1, <2>2
<1>3. CASE TellRevert(w)
  <2>1. ~Ending(request[w], e)
    BY <1>3 DEF TellRevert, Ending
  <2>2. /\ tells[e] \subseteq tells'[e]
        /\ \A x \in Events \ {e} : tells'[x] = tells[x]
    BY <1>0, <1>3 DEF TellRevert, Tell, RestOK
  <2> QED BY <1>0, <2>1, <2>2, DoneOwed
<1>4. CASE Abandon(w)
  <2>1. CASE request[w].pc \in {"promise", "tell"}
    <3>1. Tell(e, "lost")
      BY <1>4, <2>1 DEF Abandon
    <3>2. "lost" \in tells'[e] /\ tells[e] \subseteq tells'[e]
      BY <1>0, <3>1, TellKeeps
    <3>3. \A x \in Events \ {e} : tells'[x] = tells[x]
      BY <3>1 DEF Tell, RestOK
    <3> QED BY <1>0, <3>2, <3>3, DoneOwed
  <2>2. CASE request[w].pc \notin {"promise", "tell"}
    <3>1. UNCHANGED tells /\ ~Ending(request[w], e)
      BY <1>4, <2>2 DEF Abandon, Ending
    <3> QED BY <1>0, <3>1, DoneOwed
  <2> QED BY <2>1, <2>2
<1> QED BY <1>1, <1>2, <1>3, <1>4

\* revert, update and delete: none leaves an event at an end it had not reached
LEMMA WriteOwed ==
  ASSUME LifecycleInv, EndOwed, NEW w \in Workers, Revert(w) \/ Edit(w) \/ Delete(w)
  PROVE  EndOwed'
<1> USE InvParts
<1> DEFINE r == request[w]
<1>1. r \in Request /\ r.e \in Events /\ r.pc = "write" /\ UNCHANGED schedule
  BY DEF Revert, Edit, Delete, At, RestOK, MoveIsLegal
<1>2. ~Ending(r, r.e) /\ event[r.e] \in Row
  BY <1>1 DEF Ending, RowsOK
<1>3. CASE Revert(w)
  <2>d. PICK d \in Events : r.e = d
    BY <1>1
  <2> DEFINE x == [r EXCEPT !.pc = "tell"]
  <2>1. request' = [request EXCEPT ![w] = x]
    BY <1>3, GoesOn DEF Revert
  <2>2. x.pc = "tell"
    BY <1>1 DEF Request
  <2> HIDE DEF x
  <2>3. \A v \in Workers \ {w} : request'[v] = request[v]
    BY <2>1, OtherRequests
  <2>4. CASE event[r.e].previous = None
    <3>1. UNCHANGED <<event, tells>>
      BY <1>3, <2>4 DEF Revert
    <3>2. Owed(d)
      BY DEF EndOwed
    <3>3. \A v \in Workers : Ending(request[v], d) => Ending(request'[v], d)
      BY <1>2, <2>d, <2>3
    <3>4. Owed(d)'
      BY <1>1, <3>1, <3>2, <3>3, OwedStays
    <3> QED BY <1>1, <2>d, <2>1, <2>2, <3>1, <3>4, OwedAfter
  <2>5. CASE event[r.e].previous # None
    <3>1. event' = [event EXCEPT ![r.e] = Reverted(event[r.e])]
          /\ tells' = [tells EXCEPT ![r.e] = {}]
      BY <1>3, <2>5 DEF Revert
    <3>2. \A e \in Events \ {r.e} : event'[e] = event[e] /\ tells'[e] = tells[e]
      BY <3>1 DEF RowsOK, RestOK
    <3>3. event'[r.e] = Reverted(event[r.e])
      BY <1>1, <3>1 DEF RowsOK
    <3>4. Reverted(event[r.e]).lifecycle = event[r.e].previous
      BY <1>2 DEF Reverted, Row
    <3>5. ~IsTerminal(event[r.e].previous)
      BY <1>1, <2>5 DEF RowsOK, RowOK, CanTransition, AllowedTransitions, IsTerminal
    <3>6. ~Over(event'[d])
      BY <2>d, <3>3, <3>4, <3>5 DEF Over
    <3>7. Owed(d)'
      BY <3>6 DEF Owed, Over
    <3> QED BY <1>1, <2>d, <2>1, <2>2, <3>2, <3>7, OwedAfter
  <2> QED BY <2>4, <2>5
<1>4. CASE Edit(w)
  <2>1. event' = [event EXCEPT ![r.e] = Rescheduled(event[r.e], r)] /\ Done(w)
    BY <1>4 DEF Edit
  <2>2. event'[r.e] = Rescheduled(event[r.e], r)
        /\ \A e \in Events \ {r.e} : event'[e] = event[e]
    BY <1>1, <2>1 DEF RowsOK
  <2>3. /\ Rescheduled(event[r.e], r).lifecycle = event[r.e].lifecycle
        /\ Rescheduled(event[r.e], r).repeats = event[r.e].repeats
    BY <1>2 DEF Rescheduled, Row
  <2>4. Over(event'[r.e]) => Over(event[r.e])
    BY <2>2, <2>3 DEF Over
  <2>5. /\ tells[r.e] \subseteq tells'[r.e]
        /\ \A x \in Events \ {r.e} : tells'[x] = tells[x]
    BY <1>1, <1>4 DEF Edit, Tell, RestOK
  <2> QED BY <1>1, <1>2, <2>1, <2>2, <2>4, <2>5, DoneOwed
<1>5. CASE Delete(w)
  <2>1. /\ event' = [event EXCEPT ![r.e] = NoRow] /\ Done(w)
        /\ tells' = [tells EXCEPT ![r.e] = {}]
    BY <1>5 DEF Delete
  <2>2. /\ event'[r.e] = NoRow
        /\ \A e \in Events \ {r.e} : event'[e] = event[e] /\ tells'[e] = tells[e]
    BY <1>1, <2>1 DEF RowsOK, RestOK
  <2>3. ~Over(event'[r.e])
    BY <2>2 DEF Over, NoRow
  <2> QED BY <1>1, <2>1, <2>2, <2>3, DoneOwed
<1> QED BY <1>3, <1>4, <1>5

\* announce: a new event is not over
LEMMA CreateOwed ==
  ASSUME LifecycleInv, EndOwed, NEW w \in Workers, NEW e \in Events,
         NEW row \in NewRows(clock), Create(w, e, row)
  PROVE  EndOwed'
<1> USE InvParts
<1>1. UNCHANGED <<request, schedule>> /\ event' = [event EXCEPT ![e] = row]
  BY DEF Create
<1>2. ~Over(row)
  BY NewRowOK DEF RestOK, Over
<1>3. ASSUME NEW x \in Events PROVE Owed(x)'
  <2>1. \A y \in Events : tells[y] \subseteq tells'[y]
    BY TellKeeps DEF Create
  <2>2. Over(event'[x]) => Over(event[x])
    BY <1>1, <1>2 DEF RowsOK
  <2>3. Owed(x)
    BY DEF EndOwed
  <2> QED BY <1>1, <2>1, <2>2, <2>3, OwedStays
<1> QED BY <1>1, <1>3 DEF EndOwed

\* The schedule tells every end it writes, repeating sessions apart.
LEMMA ScheduleOwed ==
  ASSUME LifecycleInv, EndOwed, ApplySchedule
  PROVE  EndOwed'
<1> USE InvParts
<1>0. UNCHANGED request
  BY DEF ApplySchedule, StartDue, CompleteDue, EndSchedule, TellStarted, TellCompleted
<1>00. \A e \in Events : Owed(e)
  BY DEF EndOwed
<1>1. CASE StartDue
  <2>1. schedule.completed = {} /\ schedule'.completed = {}
    BY <1>1 DEF StartDue, EndOwed
  <2>2. ASSUME NEW e \in Events PROVE Owed(e)'
    <3>1. CASE e \in DueToStart(clock)
      <4>1. event'[e] = Started(event[e])
        BY <1>1, <3>1 DEF StartDue
      <4>2. Started(event[e]).lifecycle = "in_progress"
        BY DEF Started, RowsOK, Row
      <4>3. ~Over(event'[e])
        BY <4>1, <4>2 DEF Over, IsTerminal
      <4> QED BY <4>3 DEF Owed, Over
    <3>2. CASE e \notin DueToStart(clock)
      <4>1. event'[e] = event[e] /\ tells'[e] = tells[e]
        BY <1>1, <3>2 DEF StartDue
      <4> QED BY <1>0, <1>00, <2>1, <4>1, OwedStays
    <3> QED BY <3>1, <3>2
  <2> QED BY <1>0, <2>1, <2>2 DEF EndOwed
<1>2. CASE CompleteDue
  <2>1. schedule.completed = {} /\ schedule'.pc = "tell"
        /\ schedule'.completed = ToTell(DueToComplete(schedule.now))
    BY <1>2 DEF CompleteDue, EndOwed, RestOK, Schedule
  <2>2. ASSUME NEW e \in Events PROVE Owed(e)'
    <3>1. CASE e \in DueToComplete(schedule.now)
      <4>1. event'[e] = Completed(event[e])
        BY <1>2, <3>1 DEF CompleteDue
      <4>2. Completed(event[e]).repeats = event[e].repeats
        BY DEF Completed, RowsOK, Row
      <4>3. Over(event'[e]) => e \in schedule'.completed
        BY <2>1, <3>1, <4>1, <4>2 DEF Over, ToTell
      <4> QED BY <4>3 DEF Owed, Over
    <3>2. CASE e \notin DueToComplete(schedule.now)
      <4>1. event'[e] = event[e] /\ tells'[e] = tells[e]
        BY <1>2, <3>2 DEF CompleteDue
      <4> QED BY <1>0, <1>00, <2>1, <4>1, OwedStays
    <3> QED BY <3>1, <3>2
  <2> QED BY <1>0, <2>1, <2>2 DEF EndOwed
<1>3. CASE EndSchedule
  <2>1. schedule'.completed = {} /\ UNCHANGED event
    BY <1>3 DEF EndSchedule, IdleSchedule
  <2>2. \A e \in Events : /\ tells[e] \subseteq tells'[e]
                          /\ e \in schedule.completed => "lost" \in tells'[e]
    BY <1>3 DEF EndSchedule
  <2>3. ASSUME NEW e \in Events PROVE Owed(e)'
    BY <1>0, <1>00, <2>1, <2>2, OwedStays
  <2> QED BY <1>0, <2>1, <2>3 DEF EndOwed
<1>4. ASSUME NEW d \in Events, TellStarted(d) PROVE EndOwed'
  <2>1. schedule'.completed = schedule.completed /\ schedule'.pc = schedule.pc
        /\ UNCHANGED event
    BY <1>4 DEF TellStarted, RestOK, Schedule
  <2>2. \A e \in Events : tells[e] \subseteq tells'[e]
    BY <1>4, TellKeeps DEF TellStarted
  <2>3. ASSUME NEW e \in Events PROVE Owed(e)'
    BY <1>0, <1>00, <2>1, <2>2, OwedStays
  <2> QED BY <1>0, <2>1, <2>3 DEF EndOwed
<1>5. ASSUME NEW d \in Events, TellCompleted(d) PROVE EndOwed'
  <2>1. schedule'.completed = schedule.completed \ {d} /\ schedule'.pc = schedule.pc
        /\ UNCHANGED event /\ schedule.pc = "tell"
    BY <1>5 DEF TellCompleted, RestOK, Schedule
  <2>2. \A e \in Events : tells[e] \subseteq tells'[e]
    BY <1>5, TellKeeps DEF TellCompleted
  <2>3. Over(event'[d]) => "closed" \in tells'[d]
    BY <1>5, <2>1, TellKeeps DEF TellCompleted, Over, Exists
  <2>4. ASSUME NEW e \in Events PROVE Owed(e)'
    <3>1. e \in schedule.completed /\ Over(event'[e]) =>
            e \in schedule'.completed \/ tells'[e] \cap {"closed", "lost"} # {}
      BY <2>1, <2>3
    <3> QED BY <1>0, <1>00, <2>1, <2>2, <3>1, OwedStays
  <2> QED BY <1>0, <2>1, <2>4 DEF EndOwed
<1> QED BY <1>1, <1>2, <1>3, <1>4, <1>5 DEF ApplySchedule

\* Every step keeps what is owed.
LEMMA EndStepOwed == LifecycleInv /\ EndOwed /\ [Next]_vars => EndOwed'
<1> SUFFICES ASSUME LifecycleInv, EndOwed, [Next]_vars PROVE EndOwed'
  OBVIOUS
<1>1. ASSUME NEW w \in Workers, AddUpdate(w) PROVE EndOwed'
  <2> DEFINE pc == IF request[w].next = None THEN "promise" ELSE "move"
             x == [request[w] EXCEPT !.pc = pc]
  <2>1. RestOK /\ request[w] \in Request /\ request[w].pc = "message"
    BY <1>1, InvParts DEF AddUpdate, At, RestOK
  <2>2. request' = [request EXCEPT ![w] = x]
    BY <1>1, <2>1, GoesOn DEF AddUpdate
  <2>3. x.op = "post"
    BY <2>1 DEF Request, EndOwed
  <2>4. UNCHANGED <<event, tells, schedule>>
    BY <1>1 DEF AddUpdate
  <2> HIDE DEF x
  <2> QED BY <2>1, <2>2, <2>3, <2>4, OwedBefore
<1>2. ASSUME NEW w \in Workers, Serve(w) PROVE EndOwed'
  BY <1>1, <1>2, CreateOwed, AskOwed, TransitionOwed, SetNextUpdateOwed, ReplyOwed,
     WriteOwed DEF Serve
<1>3. CASE ApplySchedule
  BY <1>3, ScheduleOwed
<1>4. CASE Tick \/ UNCHANGED vars
  <2>1. UNCHANGED <<event, tells, request, schedule>>
    BY <1>4 DEF Tick, vars
  <2> QED BY <2>1 DEF EndOwed, Owed, Over, Ending
<1> QED BY <1>2, <1>3, <1>4 DEF Next

\* However requests and the schedule interleave: once nobody is at work on an
\* event that is over, its end was told, or an error or a restart lost it.
THEOREM EndsAreTold == Spec => []EndIsTold
<1>1. Init => EndInv
  <2> SUFFICES ASSUME Init PROVE EndOwed
    BY InvInit DEF EndInv
  <2> QED BY DEF Init, EndOwed, Owed, Over, NoRow, IdleSchedule, Idle
<1>2. EndInv /\ [Next]_vars => EndInv'
  BY InvStep, EndStepOwed DEF EndInv
<1>3. EndInv => EndIsTold
  <2> SUFFICES ASSUME EndOwed, NEW e \in Events, Quiet(e), Over(event[e])
               PROVE  tells[e] \cap {"closed", "lost"} # {}
    BY DEF EndInv, EndIsTold, Over, Exists
  <2>1. ~\E w \in Workers : Ending(request[w], e)
    BY DEF Quiet, Busy, Ending
  <2>2. e \notin schedule.completed
    BY DEF Quiet, Busy
  <2> QED BY <2>1, <2>2 DEF EndOwed, Owed
<1> QED BY <1>1, <1>2, <1>3, PTL DEF Spec
-----------------------------------------------------------------------------
(* The forms                                                               *)

RowFields == {"kind", "severity", "category", "planned", "start", "end", "started", "step",
              "keeps", "services", "follows", "next", "repeats", "closed", "from", "body"}
FormFields == TypedFields \cup {"edit", "locked", "following", "template", "touched", "sent", "seen"}
TemplateFields == {"kind", "severity", "category", "there", "uses"}

Listed(s) == \E S : s \in Seq(S)
Timed(f) == f.start \in Nat /\ f.end \in Nat /\ f.began \in Nat

(* A row that fits its kind, whatever it follows.                          *)
RowFits(e) ==
  /\ DOMAIN e = RowFields /\ e.start \in Nat /\ e.end \in Nat /\ e.started \in Nat
  /\ e.severity # Missing <=> e.kind = "incident"
  /\ e.category # Missing <=> e.kind = "publication"
  /\ IF e.planned THEN e.kind = "maintenance" /\ e.start # Blank ELSE e.start = Blank
  /\ e.keeps \/ e.end # Blank \/ e.repeats => e.kind = "maintenance"
  /\ e.step # Missing \/ e.next # "" => e.kind = "incident"
  /\ e.follows # Blank => e.kind = "publication"
  /\ e.kind = "maintenance" /\ e.start # Blank /\ e.end # Blank => e.start < e.end

FollowsOne(e) == e.follows # Blank => e.follows \in DOMAIN events /\ events[e.follows].kind = "maintenance"

EventsFit ==
  /\ Listed(events)
  /\ \A id \in DOMAIN events :
       /\ RowFits(events[id]) /\ FollowsOne(events[id])
       /\ events[id].from \in DOMAIN templates \cup {Blank}
       /\ events[id].body \in Bodies \cup {NoBody}

Published(t) == {id \in DOMAIN events : events[id].from = t}
TemplatesFit ==
  /\ Listed(templates)
  /\ \A t \in DOMAIN templates :
       /\ DOMAIN templates[t] = TemplateFields
       /\ templates[t].uses = Cardinality(Published(t))

(* A form that edits, beside the row it was opened on: still what it       *)
(* showed unless something was typed, and its start kept once under way.   *)
EditFits(f) ==
  /\ f.edit \in DOMAIN events /\ RowFits(f.seen)
  /\ events[f.edit].kind = f.seen.kind /\ events[f.edit].planned = f.seen.planned
  /\ UnderWay(f.seen) =>
       UnderWay(events[f.edit]) /\ f.locked /\ f.start = FormatInput(ShownStart(f.seen))
  /\ f.touched = FALSE =>
       /\ f.severity = f.seen.severity /\ f.category = f.seen.category
       /\ f.services = f.seen.services /\ f.follows = f.seen.follows
       /\ f.start = FormatInput(ShownStart(f.seen)) /\ f.end = FormatInput(f.seen.end)
SentAgain(f) == f.touched = FALSE /\ f.sent # Unsent => CreateInput(f) = f.sent
FormFits(f) ==
  /\ DOMAIN f = FormFields /\ Timed(f) /\ f.touched \in BOOLEAN
  /\ f.template \in DOMAIN templates \cup {Blank}
  /\ IF f.edit = Blank THEN SentAgain(f) ELSE EditFits(f)
FormsFit ==
  /\ DOMAIN form = Editors
  /\ \A ed \in Editors : Open(ed) => FormFits(form[ed])

SavedFits == UntouchedEditChangesNothing /\ StartedKeepsItsStart

FormsInv == EventsFit /\ TemplatesFit /\ FormsFit /\ SavedFits
(* Lists, as events and templates are kept.                                *)
LEMMA ListFacts ==
  ASSUME NEW s, Listed(s)
  PROVE  Len(s) \in Nat /\ DOMAIN s = 1..Len(s)
  BY DEF Listed

LEMMA ListAppended ==
  ASSUME NEW s, Listed(s), NEW e
  PROVE  /\ Listed(Append(s, e)) /\ Len(Append(s, e)) = Len(s) + 1
         /\ DOMAIN Append(s, e) = DOMAIN s \cup {Len(s) + 1}
         /\ Len(s) + 1 \notin DOMAIN s /\ Len(s) + 1 # Blank /\ Blank \notin DOMAIN s
         /\ Append(s, e)[Len(s) + 1] = e
         /\ \A i \in DOMAIN s : Append(s, e)[i] = s[i]
<1>1. PICK S : s \in Seq(S)
  BY DEF Listed
<1>2. s \in Seq(S \cup {e})
  BY <1>1
<1>3. Append(s, e) \in Seq(S \cup {e})
  BY <1>2
<1>4. Len(s) \in Nat /\ DOMAIN s = 1..Len(s)
  BY <1>1
<1>5. Len(Append(s, e)) = Len(s) + 1 /\ DOMAIN Append(s, e) = 1..(Len(s) + 1)
  BY <1>2, <1>3
<1>6. Append(s, e)[Len(s) + 1] = e /\ \A i \in 1..Len(s) : Append(s, e)[i] = s[i]
  BY <1>2
<1> QED
  BY <1>3, <1>4, <1>5, <1>6 DEF Listed, Blank

LEMMA ListRewritten ==
  ASSUME NEW s, Listed(s), NEW i \in DOMAIN s, NEW e
  PROVE  /\ Listed([s EXCEPT ![i] = e]) /\ DOMAIN [s EXCEPT ![i] = e] = DOMAIN s
         /\ [s EXCEPT ![i] = e][i] = e
         /\ \A j \in DOMAIN s : j # i => [s EXCEPT ![i] = e][j] = s[j]
<1>1. PICK S : s \in Seq(S)
  BY DEF Listed
<1>2. s \in Seq(S \cup {e})
  BY <1>1
<1>3. [s EXCEPT ![i] = e] \in Seq(S \cup {e})
  BY <1>2
<1> QED
  BY <1>3 DEF Listed

LEMMA NothingListed == Listed(<<>>) /\ DOMAIN <<>> = {}
  BY DEF Listed

(* A function over the places of a list is a list.                         *)
LEMMA ListMapped ==
  ASSUME NEW s, Listed(s), NEW g, DOMAIN g = DOMAIN s, g = [i \in DOMAIN s |-> g[i]]
  PROVE  Listed(g) /\ Len(g) = Len(s)
<1>1. Len(s) \in Nat /\ DOMAIN s = 1..Len(s)
  BY ListFacts
<1> DEFINE S == {g[i] : i \in DOMAIN s}
<1>2. g \in Seq(S)
  BY <1>1
<1>3. Len(g) = Len(s)
  BY <1>1, <1>2
<1> QED
  BY <1>2, <1>3 DEF Listed

(* TimeFields, read to the minute.                                              *)
LEMMA ToTheMinute ==
  ASSUME NEW t \in Nat
  PROVE  /\ FormatInput(t) \in Nat /\ FormatInput(t) # Junk
         /\ FormatInput(FormatInput(t)) = FormatInput(t)
         /\ ParseInput(FormatInput(t)) = FormatInput(t)
<1>1. t % 2 \in {0, 1}
  OBVIOUS
<1>2. (t - (t % 2)) % 2 = 0 /\ t - (t % 2) \in Nat
  OBVIOUS
<1>3. FormatInput(t) \in Nat /\ FormatInput(t) % 2 = 0
  BY <1>2 DEF FormatInput
<1>4. FormatInput(t) # Junk
  BY <1>3 DEF Junk
<1> QED
  BY <1>3, <1>4 DEF FormatInput, ParseInput

LEMMA Parsed ==
  ASSUME NEW t \in Nat
  PROVE  ParseInput(t) \in Nat /\ (t # Junk => ParseInput(t) = t)
  BY DEF ParseInput, Blank, Junk

(* What a form that fits asks for, if nothing refuses it, fits its kind.   *)
LEMMA CreatedFits ==
  ASSUME NEW f, Timed(f), NEW in, in = CreateInput(f), ~Refused(in), NEW from, NEW body
  PROVE  /\ RowFits(Insert(in, from, body)) /\ FollowsOne(Insert(in, from, body))
         /\ Insert(in, from, body).from = from /\ Insert(in, from, body).body = body
<1> DEFINE row == Insert(in, from, body)
<1>1. /\ in.severity = SeverityOf(f, in.kind) /\ in.category = CategoryOf(f, in.kind)
      /\ in.planned = Planned(f, in.kind)
      /\ in.start = (IF Planned(f, in.kind) THEN ParseInput(f.start) ELSE Blank)
      /\ in.end = (IF in.kind = "maintenance" THEN ParseInput(f.end) ELSE Blank)
      /\ in.step = OpeningStep(f, in.kind) /\ in.keeps = KeepsServicesUp(f, in.kind)
      /\ in.next = NextUpdate(f, in.kind) /\ in.repeats = Rhythm(f, in.kind)
  BY DEF CreateInput
<1>2. /\ row.kind = in.kind /\ row.severity = in.severity /\ row.category = in.category
      /\ row.planned = in.planned /\ row.start = in.start /\ row.end = in.end
      /\ row.step = in.step /\ row.keeps = in.keeps /\ row.next = in.next
      /\ row.repeats = in.repeats /\ row.follows = FollowedMaintenance(in.kind, in.follows)
      /\ row.from = from /\ row.body = body
  BY DEF Insert
<1>3. DOMAIN row = RowFields
  BY DEF Insert, RowFields
<1> HIDE DEF row
<1>4. in.start \in Nat /\ in.end \in Nat /\ row.started \in Nat
  <2>1. in.start \in Nat /\ in.end \in Nat
    BY <1>1, Parsed DEF Timed, Blank
  <2>2. in.began \in Nat
    BY Parsed DEF CreateInput, Began, Timed, Blank
  <2>3. row.started = InitialStarted(in)
    BY DEF row, Insert
  <2> QED
    BY <2>1, <2>2, <2>3 DEF InitialStarted, Blank, Now
<1>5. in.severity # Missing <=> in.kind = "incident"
  BY <1>1 DEF SeverityOf, Refused, CreationError
<1>6. in.category # Missing <=> in.kind = "publication"
  BY <1>1 DEF CategoryOf, Missing
<1>7. /\ ~ScheduleError(in.kind, in.planned, IF in.planned THEN in.start ELSE Now, in.end)
      /\ ~FollowsRefused(in.kind, in.follows)
  BY DEF Refused, CreationError
<1>8. IF in.planned THEN in.kind = "maintenance" /\ in.start # Blank ELSE in.start = Blank
  BY <1>1, <1>7 DEF Planned, ScheduleError
<1>9. /\ in.keeps \/ in.end # Blank \/ in.repeats => in.kind = "maintenance"
      /\ in.step # Missing \/ in.next # "" => in.kind = "incident"
  BY <1>1 DEF KeepsServicesUp, Rhythm, Planned, OpeningStep, NextUpdate
<1>10. in.kind = "maintenance" /\ in.start # Blank /\ in.end # Blank => in.start < in.end
  BY <1>4, <1>7, <1>8 DEF ScheduleError
<1>11. /\ row.follows # Blank => row.kind = "publication"
       /\ FollowsOne(row)
  BY <1>2, <1>7 DEF FollowedMaintenance, FollowsRefused, FollowsOne
<1>12. RowFits(row)
  BY <1>2, <1>3, <1>4, <1>5, <1>6, <1>8, <1>9, <1>10, <1>11 DEF RowFits
<1> QED
  BY <1>2, <1>11, <1>12 DEF row

(* A tool's fields ask for what the form would.                            *)
LEMMA BodyAsForm ==
  ASSUME NEW body \in Bodies
  PROVE  Timed(body) /\ CreateInput(body) = IntoInput(body)
<1>1. /\ body.kind \in FormKinds /\ body.follows = Blank /\ body.repeats = FALSE
      /\ body.start \in Nat /\ body.end \in Nat /\ body.began \in Nat
      /\ body.start # Junk /\ body.end # Junk /\ body.began # Junk
  BY FormsAssumption
<1>2. ParseInput(body.start) = body.start /\ ParseInput(body.end) = body.end
      /\ ParseInput(body.began) = body.began
  BY <1>1, Parsed
<1>3. body.kind # Missing
  BY <1>1 DEF FormKinds, Missing
<1>4. Planned(body, body.kind) <=> body.kind = "maintenance" /\ body.start # Blank
  BY DEF Planned
<1>5. Rhythm(body, body.kind) = FALSE
  BY <1>1 DEF Rhythm
<1> QED
  BY <1>1, <1>2, <1>3, <1>5
  DEF CreateInput, IntoInput, Timed, SeverityOf, CategoryOf, Planned, Began, OpeningStep,
      KeepsServicesUp, NextUpdate

(* A refused form keeps what it asked for.                                 *)
LEMMA Redisplayed ==
  ASSUME NEW f, DOMAIN f = FormFields, NEW g, g = FromInput(f)
  PROVE  /\ DOMAIN g = FormFields /\ CreateInput(g) = CreateInput(f)
         /\ g.sent = CreateInput(f) /\ g.touched = FALSE /\ g.template = Blank
         /\ g.edit = f.edit /\ g.start = f.start /\ g.end = f.end /\ g.began = f.began
         /\ g.locked = f.locked /\ g.seen = f.seen
<1> DEFINE kind == IF f.kind = Missing THEN "incident" ELSE f.kind
<1>1. kind # Missing
  BY DEF Missing
<1>2. DOMAIN g = FormFields
  BY DEF FromInput
<1>3. /\ g.title = f.title /\ g.services = f.services /\ g.follows = f.follows
      /\ g.next = f.next /\ g.start = f.start /\ g.end = f.end /\ g.began = f.began
      /\ g.edit = f.edit /\ g.locked = f.locked /\ g.seen = f.seen
  BY DEF FromInput, FormFields, TypedFields, TimeFields
<1>4. /\ g.kind = kind /\ g.severity = SeverityOf(f, kind) /\ g.category = CategoryOf(f, kind)
      /\ g.step = OpeningStep(f, kind) /\ g.keeps = KeepsServicesUp(f, kind)
      /\ g.repeats = Rhythm(f, kind)
  BY DEF FromInput, FormFields, TypedFields, TimeFields
<1>5. g.sent = CreateInput(f) /\ g.touched = FALSE /\ g.template = Blank
  BY DEF FromInput, FormFields, TypedFields, TimeFields
<1>6. /\ SeverityOf(g, kind) = SeverityOf(f, kind) /\ CategoryOf(g, kind) = CategoryOf(f, kind)
      /\ OpeningStep(g, kind) = OpeningStep(f, kind) /\ Began(g, kind) = Began(f, kind)
      /\ NextUpdate(g, kind) = NextUpdate(f, kind)
  BY <1>3, <1>4 DEF SeverityOf, CategoryOf, OpeningStep, Began, NextUpdate, Missing
<1>7. /\ Planned(g, kind) = Planned(f, kind)
      /\ KeepsServicesUp(g, kind) = KeepsServicesUp(f, kind)
      /\ Rhythm(g, kind) = Rhythm(f, kind)
  BY <1>3, <1>4 DEF Planned, KeepsServicesUp, Rhythm
<1>8. (IF g.kind = Missing THEN "incident" ELSE g.kind) = kind
  BY <1>1, <1>4
<1> HIDE DEF kind
<1>9. CreateInput(g) = CreateInput(f)
  BY <1>3, <1>6, <1>7, <1>8 DEF CreateInput, kind
<1> QED
  BY <1>2, <1>3, <1>5, <1>9

(* A saved edit leaves a row that fits, of the same kind and state.        *)
LEMMA EditedFits ==
  ASSUME NEW f, Timed(f), NEW e, RowFits(e), NEW in, in = UpdateInput(f, e), ~UpdateError(in, e),
         NEW row, row = UpdatedRow(in, e)
  PROVE  /\ RowFits(row) /\ FollowsOne(row) /\ row.kind = e.kind /\ row.planned = e.planned
         /\ row.started = e.started /\ row.from = e.from /\ row.body = e.body
<1>1. /\ in.severity = SeverityOf(f, e.kind) /\ in.category = CategoryOf(f, e.kind)
      /\ in.start = (IF e.planned THEN ParseInput(f.start) ELSE Blank)
      /\ in.end = (IF e.kind = "maintenance" THEN ParseInput(f.end) ELSE Blank)
      /\ in.follows = f.follows
  BY DEF UpdateInput
<1>2. /\ DOMAIN row = RowFields
      /\ row.severity = in.severity /\ row.category = in.category /\ row.start = in.start
      /\ row.end = in.end /\ row.follows = FollowedMaintenance(e.kind, in.follows)
  BY DEF UpdatedRow, RowFits, RowFields
<1>3. /\ row.kind = e.kind /\ row.planned = e.planned /\ row.started = e.started
      /\ row.from = e.from /\ row.body = e.body /\ row.keeps = e.keeps /\ row.next = e.next
      /\ row.repeats = e.repeats /\ row.step = e.step
  BY DEF UpdatedRow, RowFits, RowFields
<1>4. in.start \in Nat /\ in.end \in Nat
  BY <1>1, Parsed DEF Timed, Blank
<1>5. in.severity # Missing <=> e.kind = "incident"
  BY <1>1 DEF SeverityOf, UpdateError
<1>6. in.category # Missing <=> e.kind = "publication"
  BY <1>1 DEF CategoryOf, Missing
<1>7. /\ ~ScheduleError(e.kind, e.planned, IF e.planned THEN in.start ELSE e.started, in.end)
      /\ ~FollowsRefused(e.kind, in.follows)
  BY DEF UpdateError
<1>8. IF e.planned THEN e.kind = "maintenance" /\ in.start # Blank ELSE in.start = Blank
  BY <1>1, <1>7 DEF RowFits, ScheduleError
<1>9. /\ e.keeps \/ in.end # Blank \/ e.repeats => e.kind = "maintenance"
      /\ e.step # Missing \/ e.next # "" => e.kind = "incident"
  BY <1>1 DEF RowFits
<1>10. e.kind = "maintenance" /\ in.start # Blank /\ in.end # Blank => in.start < in.end
  BY <1>4, <1>7, <1>8 DEF ScheduleError
<1>11. /\ row.follows # Blank => row.kind = "publication"
       /\ FollowsOne(row)
  BY <1>2, <1>3, <1>7 DEF FollowedMaintenance, FollowsRefused, FollowsOne
<1>12. RowFits(row)
  BY <1>2, <1>3, <1>4, <1>5, <1>6, <1>8, <1>9, <1>10, <1>11 DEF RowFits
<1> QED
  BY <1>3, <1>11, <1>12

(* What an edit saved writes: the start of one under way as it was shown;  *)
(* of a form nobody touched, the row it was opened on, to the minute.      *)
LEMMA WritesBackTheStart ==
  ASSUME NEW f, NEW e, RowFits(e), RowFits(f.seen), NEW in, in = UpdateInput(f, e),
         e.planned = f.seen.planned, f.start = FormatInput(ShownStart(f.seen))
  PROVE  /\ UpdatedRow(in, e).start = FormatInput(f.seen.start)
         /\ FormatInput(UpdatedRow(in, e).start) = FormatInput(f.seen.start)
<1>1. UpdatedRow(in, e).start = in.start
  BY DEF UpdatedRow, RowFits, RowFields
<1>2. in.start = IF e.planned THEN ParseInput(f.start) ELSE Blank
  BY DEF UpdateInput
<1>3. f.seen.start \in Nat
  BY DEF RowFits
<1>4. CASE e.planned
  <2>1. ShownStart(f.seen) = f.seen.start
    BY <1>4 DEF RowFits, ShownStart
  <2>2. in.start = FormatInput(f.seen.start)
    BY <1>2, <1>3, <1>4, <2>1, ToTheMinute
  <2> QED
    BY <1>1, <1>3, <2>2, ToTheMinute
<1>5. CASE ~e.planned
  <2>1. f.seen.start = Blank /\ in.start = Blank
    BY <1>2, <1>5 DEF RowFits
  <2>2. FormatInput(Blank) = Blank
    BY DEF FormatInput, Blank
  <2> QED
    BY <1>1, <2>1, <2>2
<1> QED
  BY <1>4, <1>5

LEMMA WritesBackTheRow ==
  ASSUME NEW f, NEW e, RowFits(e), RowFits(f.seen), NEW in, in = UpdateInput(f, e),
         e.planned = f.seen.planned, e.start = f.seen.start,
         f.severity = e.severity, f.category = e.category, f.services = e.services,
         f.follows = e.follows, f.start = FormatInput(ShownStart(f.seen)),
         f.end = FormatInput(e.end)
  PROVE  /\ Minutes(UpdatedRow(in, e)) = Minutes(e)
         /\ MovesItsTimes(in, e) => e # Minutes(e)
<1> DEFINE row == UpdatedRow(in, e)
<1>1. row.start = FormatInput(e.start) /\ FormatInput(row.start) = FormatInput(e.start)
  BY WritesBackTheStart
<1>2. in.end = FormatInput(e.end)
  <2>1. e.end \in Nat /\ (e.kind # "maintenance" => e.end = Blank)
    BY DEF RowFits
  <2>2. in.end = IF e.kind = "maintenance" THEN ParseInput(f.end) ELSE Blank
    BY DEF UpdateInput
  <2>3. FormatInput(Blank) = Blank
    BY DEF FormatInput, Blank
  <2> QED
    BY <2>1, <2>2, <2>3, ToTheMinute
<1>3. row.end = in.end /\ FormatInput(row.end) = FormatInput(e.end)
  <2>1. row.end = in.end
    BY DEF UpdatedRow, RowFits, RowFields
  <2>2. e.end \in Nat
    BY DEF RowFits
  <2> QED
    BY <1>2, <2>1, <2>2, ToTheMinute
<1>4. in.severity = e.severity
  BY DEF UpdateInput, SeverityOf, RowFits
<1>5. in.category = e.category
  BY DEF UpdateInput, CategoryOf, RowFits
<1>6. in.services = e.services /\ FollowedMaintenance(e.kind, in.follows) = e.follows
  BY DEF UpdateInput, FollowedMaintenance, RowFits
<1>7. \A x \in RowFields : x \notin {"start", "end"} => row[x] = e[x]
  BY <1>4, <1>5, <1>6 DEF UpdatedRow, RowFits, RowFields
<1>8. DOMAIN row = RowFields /\ DOMAIN e = RowFields
  BY DEF UpdatedRow, RowFits
<1> HIDE DEF row
<1>9. \A x \in RowFields : Minutes(row)[x] = Minutes(e)[x]
  BY <1>1, <1>3, <1>7, <1>8 DEF Minutes, RowFields
<1>10. Minutes(row) = Minutes(e)
  BY <1>8, <1>9 DEF Minutes
<1>11. ASSUME MovesItsTimes(in, e), e = Minutes(e) PROVE FALSE
  <2>1. e.start = FormatInput(e.start) /\ e.end = FormatInput(e.end)
    <3>1. Minutes(e).start = FormatInput(e.start) /\ Minutes(e).end = FormatInput(e.end)
      BY <1>8 DEF Minutes, RowFields
    <3> QED
      BY <1>11, <3>1
  <2>2. in.start = row.start
    BY <1>8 DEF row, UpdatedRow, RowFields
  <2> QED
    BY <1>1, <1>2, <1>11, <2>1, <2>2 DEF MovesItsTimes
<1> QED
  BY <1>10, <1>11 DEF row

(* What no step undoes: events and templates stay listed, and an event     *)
(* keeps its kind, how it was planned, and being under way.                *)
NothingUndone ==
  /\ DOMAIN events \subseteq DOMAIN events' /\ DOMAIN templates \subseteq DOMAIN templates'
  /\ \A id \in DOMAIN events :
       /\ events'[id].kind = events[id].kind /\ events'[id].planned = events[id].planned
       /\ UnderWay(events[id]) => UnderWay(events'[id])

LEMMA FormStillFits ==
  ASSUME NEW f, FormFits(f), NothingUndone
  PROVE  FormFits(f)'
<1>1. f.template \in DOMAIN templates' \cup {Blank}
  BY DEF FormFits, NothingUndone
<1>2. f.edit # Blank => EditFits(f)'
  BY DEF FormFits, EditFits, NothingUndone
<1> QED
  BY <1>1, <1>2 DEF FormFits

LEMMA FollowsStill ==
  ASSUME NEW e, FollowsOne(e), NothingUndone
  PROVE  FollowsOne(e)'
  BY DEF FollowsOne, NothingUndone

LEMMA FormsStillFit ==
  ASSUME FormsFit, NothingUndone, form' = form
  PROVE  FormsFit'
<1>1. ASSUME NEW ed \in Editors, Open(ed)' PROVE FormFits(form[ed])'
  <2>1. FormFits(form[ed])
    BY <1>1 DEF FormsFit, Open
  <2> QED
    BY <2>1, FormStillFits
<1> QED
  BY <1>1 DEF FormsFit

LEMMA OneFormChanged ==
  ASSUME FormsFit, NothingUndone, NEW ed \in Editors, NEW g, form' = [form EXCEPT ![ed] = g],
         g = NoForm \/ FormFits(g)'
  PROVE  FormsFit'
<1>1. DOMAIN form' = Editors /\ form'[ed] = g
  BY DEF FormsFit
<1>2. ASSUME NEW other \in Editors, form'[other] # NoForm PROVE FormFits(form[other])'
  <2>1. CASE other = ed
    BY <1>1, <1>2, <2>1
  <2>2. CASE other # ed
    <3>1. form'[other] = form[other]
      BY <2>2 DEF FormsFit
    <3>2. FormFits(form[other])
      BY <1>2, <3>1 DEF FormsFit, Open
    <3> QED
      BY <3>1, <3>2, FormStillFits
  <2> QED
    BY <2>1, <2>2
<1> QED
  BY <1>1, <1>2 DEF FormsFit, Open

LEMMA OneFormSet ==
  ASSUME FormsFit, NothingUndone, NEW ed \in Editors, NEW g, form' = [form EXCEPT ![ed] = g],
         g = NoForm \/ FormFits(g)
  PROVE  FormsFit'
  BY OneFormChanged, FormStillFits

LEMMA NothingMoved ==
  ASSUME events' = events, DOMAIN templates' = DOMAIN templates
  PROVE  NothingUndone
  BY DEF NothingUndone

LEMMA SavedStill ==
  ASSUME SavedFits, saved' = saved
  PROVE  SavedFits'
  BY DEF SavedFits, UntouchedEditChangesNothing, StartedKeepsItsStart

(* Events rewritten one at a time, and added at the end.                   *)
LEMMA RowsStillFit ==
  ASSUME EventsFit, NothingUndone, events' = events
  PROVE  EventsFit'
<1>2. \A id \in DOMAIN events' : FollowsOne(events[id])'
  BY FollowsStill DEF EventsFit
<1>3. \A id \in DOMAIN events' : events'[id].from \in DOMAIN templates' \cup {Blank}
  BY DEF EventsFit, NothingUndone
<1> QED
  BY <1>2, <1>3 DEF EventsFit

LEMMA RowAdded ==
  ASSUME EventsFit, DOMAIN templates \subseteq DOMAIN templates', NEW row,
         RowFits(row), FollowsOne(row), row.from \in DOMAIN templates' \cup {Blank},
         row.body \in Bodies \cup {NoBody}, events' = Append(events, row)
  PROVE  /\ NothingUndone /\ EventsFit'
         /\ \A t : Published(t)' = IF row.from = t THEN Published(t) \cup {Len(events) + 1}
                                   ELSE Published(t)
         /\ \A t : Len(events) + 1 \notin Published(t)
<1>1. /\ Listed(events') /\ DOMAIN events' = DOMAIN events \cup {Len(events) + 1}
      /\ Len(events) + 1 \notin DOMAIN events /\ events'[Len(events) + 1] = row
      /\ \A id \in DOMAIN events : events'[id] = events[id]
  BY ListAppended DEF EventsFit
<1>2. NothingUndone
  BY <1>1 DEF NothingUndone
<1>3. FollowsOne(row)'
  BY <1>2, FollowsStill
<1>4. \A id \in DOMAIN events : FollowsOne(events[id])'
  BY <1>1, <1>2, FollowsStill DEF EventsFit
<1>5. ASSUME NEW id \in DOMAIN events'
      PROVE  /\ RowFits(events'[id]) /\ FollowsOne(events[id])'
             /\ events'[id].from \in DOMAIN templates' \cup {Blank}
             /\ events'[id].body \in Bodies \cup {NoBody}
  <2>1. CASE id \in DOMAIN events
    BY <1>1, <1>4, <2>1 DEF EventsFit
  <2>2. CASE id = Len(events) + 1
    BY <1>1, <1>3, <2>2
  <2> QED
    BY <1>1, <2>1, <2>2
<1>6. EventsFit'
  BY <1>1, <1>5 DEF EventsFit
<1>7. \A t : Published(t)' = IF row.from = t THEN Published(t) \cup {Len(events) + 1}
                             ELSE Published(t)
  BY <1>1 DEF Published
<1>8. \A t : Len(events) + 1 \notin Published(t)
  BY <1>1 DEF Published
<1> QED
  BY <1>2, <1>6, <1>7, <1>8

LEMMA RowRewritten ==
  ASSUME EventsFit, templates' = templates, NEW id \in DOMAIN events, NEW row,
         RowFits(row), FollowsOne(row), row.from = events[id].from, row.body = events[id].body,
         row.kind = events[id].kind, row.planned = events[id].planned,
         UnderWay(events[id]) => UnderWay(row), events' = [events EXCEPT ![id] = row]
  PROVE  NothingUndone /\ EventsFit' /\ \A t : Published(t)' = Published(t)
<1>1. /\ Listed(events') /\ DOMAIN events' = DOMAIN events /\ events'[id] = row
      /\ \A other \in DOMAIN events : other # id => events'[other] = events[other]
  BY ListRewritten DEF EventsFit
<1>2. NothingUndone
  BY <1>1 DEF NothingUndone
<1>3. FollowsOne(row)'
  BY <1>2, FollowsStill
<1>4. \A other \in DOMAIN events : other # id => FollowsOne(events[other])'
  BY <1>1, <1>2, FollowsStill DEF EventsFit
<1>5. ASSUME NEW other \in DOMAIN events'
      PROVE  /\ RowFits(events'[other]) /\ FollowsOne(events[other])'
             /\ events'[other].from \in DOMAIN templates' \cup {Blank}
             /\ events'[other].body \in Bodies \cup {NoBody}
  <2>1. CASE other = id
    BY <1>1, <1>3, <2>1 DEF EventsFit
  <2>2. CASE other # id
    BY <1>1, <1>4, <2>2 DEF EventsFit
  <2> QED
    BY <2>1, <2>2
<1>6. EventsFit'
  BY <1>1, <1>5 DEF EventsFit
<1>7. \A other \in DOMAIN events : events'[other].from = events[other].from
  BY <1>1
<1>8. \A t : Published(t)' = Published(t)
  BY <1>1, <1>7 DEF Published
<1> QED
  BY <1>2, <1>6, <1>8

LEMMA CountsStill ==
  ASSUME TemplatesFit, templates' = templates, \A t : Published(t)' = Published(t)
  PROVE  TemplatesFit'
  BY DEF TemplatesFit

-----------------------------------------------------------------------------
(* Each step keeps the forms                                               *)

LEMMA NewFormKeeps ==
  ASSUME FormsInv, NEW ed \in Editors, NewForm(ed)
  PROVE  FormsInv'
<1>1. NothingUndone /\ EventsFit' /\ TemplatesFit' /\ SavedFits'
  <2>1. events' = events /\ templates' = templates /\ saved' = saved
    BY DEF NewForm
  <2>2. NothingUndone
    BY <2>1, NothingMoved
  <2>3. \A t : Published(t)' = Published(t)
    BY <2>1 DEF Published
  <2> QED
    BY <2>1, <2>2, <2>3, RowsStillFit, CountsStill, SavedStill DEF FormsInv
<1>2. PICK g : form' = [form EXCEPT ![ed] = g] /\ FormFits(g)'
  <2>1. ASSUME NEW g, form' = [form EXCEPT ![ed] = g], DOMAIN g = FormFields,
               g.edit = Blank, g.touched = FALSE, g.sent = Unsent, g.template = Blank, Timed(g)
        PROVE  \E h : form' = [form EXCEPT ![ed] = h] /\ FormFits(h)'
    <3>1. FormFits(g)'
      BY <2>1 DEF FormFits, SentAgain
    <3> QED
      BY <2>1, <3>1
  <2>2. ASSUME NEW k PROVE LET g == BlankForm(k) IN
          /\ DOMAIN g = FormFields /\ g.edit = Blank /\ g.touched = FALSE /\ g.sent = Unsent
          /\ g.template = Blank /\ Timed(g)
    BY DEF BlankForm, FormFields, TypedFields, TimeFields, Timed, Blank
  <2>3. CASE \E k \in FormKinds : form' = [form EXCEPT ![ed] = BlankForm(k)]
    BY <2>1, <2>2, <2>3
  <2>4. CASE \E id \in DOMAIN events : form' = [form EXCEPT ![ed] = ChangelogAfter(id)]
    <3>1. PICK id \in DOMAIN events : form' = [form EXCEPT ![ed] = ChangelogAfter(id)]
      BY <2>4
    <3> DEFINE b == BlankForm("publication")
               g == ChangelogAfter(id)
    <3>2. /\ DOMAIN b = FormFields /\ b.edit = Blank /\ b.touched = FALSE /\ b.sent = Unsent
          /\ b.template = Blank /\ Timed(b)
      BY <2>2
    <3>3. g = [b EXCEPT !.title = "what is new", !.category = "changelog",
                        !.services = events[id].services, !.follows = id]
      BY DEF ChangelogAfter
    <3> HIDE DEF b, g
    <3>4. /\ DOMAIN g = FormFields /\ g.edit = Blank /\ g.touched = FALSE /\ g.sent = Unsent
          /\ g.template = Blank /\ Timed(g)
      BY <3>2, <3>3 DEF Timed, FormFields, TypedFields, TimeFields
    <3> QED
      BY <2>1, <3>1, <3>4 DEF g
  <2>5. CASE \E began \in {Blank, 3} : form' = [form EXCEPT ![ed] = OutageOn("s", began)]
    <3>1. PICK began \in {Blank, 3} : form' = [form EXCEPT ![ed] = OutageOn("s", began)]
      BY <2>5
    <3> DEFINE b == BlankForm("incident")
               g == OutageOn("s", began)
    <3>2. /\ DOMAIN b = FormFields /\ b.edit = Blank /\ b.touched = FALSE /\ b.sent = Unsent
          /\ b.template = Blank /\ Timed(b)
      BY <2>2
    <3>3. g = [b EXCEPT !.severity = "critical", !.services = {"s"},
                        !.began = FormatInput(began)]
      BY DEF OutageOn
    <3>4. FormatInput(began) \in Nat
      BY ToTheMinute DEF Blank
    <3> HIDE DEF b, g
    <3>5. /\ DOMAIN g = FormFields /\ g.edit = Blank /\ g.touched = FALSE /\ g.sent = Unsent
          /\ g.template = Blank /\ Timed(g)
      BY <3>2, <3>3, <3>4 DEF Timed, FormFields, TypedFields, TimeFields
    <3> QED
      BY <2>1, <3>1, <3>5 DEF g
  <2> QED
    BY <2>3, <2>4, <2>5 DEF NewForm
<1>3. FormsFit'
  BY <1>1, <1>2, OneFormChanged DEF FormsInv
<1> QED
  BY <1>1, <1>3 DEF FormsInv

(* A step that changes one form alone.                                     *)
LEMMA OnlyAForm ==
  ASSUME FormsInv, NEW ed \in Editors, NEW g, form' = [form EXCEPT ![ed] = g],
         g = NoForm \/ FormFits(g), UNCHANGED <<events, templates, saved>>
  PROVE  FormsInv'
<1>1. events' = events /\ templates' = templates /\ saved' = saved
  OBVIOUS
<1>2. NothingUndone
  BY <1>1, NothingMoved
<1>3. \A t : Published(t)' = Published(t)
  BY <1>1 DEF Published
<1>5. FormsFit'
  BY <1>2, OneFormSet DEF FormsInv
<1> QED
  BY <1>1, <1>2, <1>3, <1>5, RowsStillFit, CountsStill, SavedStill DEF FormsInv

LEMMA UseTemplateKeeps ==
  ASSUME FormsInv, NEW ed \in Editors, NEW t \in DOMAIN templates, UseTemplate(ed, t)
  PROVE  FormsInv'
<1> DEFINE f == form[ed]
           g == [f EXCEPT !.title = "from a template", !.kind = templates[t].kind,
                          !.severity = templates[t].severity, !.category = templates[t].category,
                          !.template = t, !.touched = TRUE]
<1>1. FormFits(f) /\ f.edit = Blank /\ ed \in DOMAIN form
  BY DEF UseTemplate, FormsInv, FormsFit
<1>2. form' = [form EXCEPT ![ed] = g]
  BY <1>1 DEF UseTemplate
<1>3. UNCHANGED <<events, templates, saved>>
  BY DEF UseTemplate
<1>4. FormFits(g)
  <2>1. DOMAIN f = FormFields /\ Timed(f)
    BY <1>1 DEF FormFits
  <2> HIDE DEF f
  <2>2. /\ DOMAIN g = FormFields /\ Timed(g) /\ g.touched = TRUE /\ g.template = t
        /\ g.edit = f.edit
    BY <2>1 DEF Timed, FormFields, TypedFields, TimeFields
  <2> HIDE DEF g
  <2> QED
    BY <1>1, <2>2 DEF FormFits, SentAgain, f
<1> HIDE DEF f, g
<1> QED
  BY <1>2, <1>3, <1>4, OnlyAForm

LEMMA TypeKeeps ==
  ASSUME FormsInv, NEW ed \in Editors, NEW change \in Typed, Type(ed, change)
  PROVE  FormsInv'
<1> DEFINE f == form[ed]
           g == [f EXCEPT ![change.field] = change.value, !.touched = TRUE]
<1>1. FormFits(f) /\ ed \in DOMAIN form
  BY DEF Type, FormsInv, FormsFit
<1>2. form' = [form EXCEPT ![ed] = g]
  BY <1>1 DEF Type
<1>3. UNCHANGED <<events, templates, saved>>
  BY DEF Type
<1>4. /\ change.field \in TypedFields
      /\ change.field \in TimeFields => change.value \in Nat
      /\ f.locked => change.field # "start"
  <2>1. f.locked => change.field # "start"
    BY DEF Type
  <2>2. change.field \in TypedFields /\ (change.field \in TimeFields => change.value \in Nat)
    BY FormsAssumption
  <2> QED
    BY <2>1, <2>2
<1>5. DOMAIN f = FormFields /\ Timed(f)
  BY <1>1 DEF FormFits
<1>6. FormFits(g)
  <2> HIDE DEF f
  <2>1. DOMAIN g = FormFields
    BY <1>5
  <2>2. \A x \in FormFields : x \notin {change.field, "touched"} => g[x] = f[x]
    BY <1>5
  <2>3. g.touched = TRUE
    BY <1>5 DEF FormFields
  <2>4. change.field # "touched" => g[change.field] = change.value
    BY <1>4, <1>5 DEF FormFields
  <2> HIDE DEF g
  <2>5. g.template = f.template /\ g.edit = f.edit /\ g.seen = f.seen /\ g.locked = f.locked
    BY <1>4, <2>2 DEF FormFields, TypedFields, TimeFields
  <2>6. \A x \in TimeFields : g[x] \in Nat
    <3> TAKE x \in TimeFields
    <3>1. f[x] \in Nat
      BY <1>5 DEF Timed, TimeFields
    <3>2. x # "touched" /\ x \in FormFields
      BY DEF TimeFields, FormFields, TypedFields
    <3> QED
      BY <1>4, <2>2, <2>4, <3>1, <3>2
  <2>7. Timed(g)
    BY <2>6 DEF Timed, TimeFields
  <2>8. f.locked => g.start = f.start
    BY <1>4, <2>2 DEF FormFields, TypedFields, TimeFields
  <2> QED
    BY <1>1, <2>1, <2>3, <2>5, <2>7, <2>8 DEF FormFits, EditFits, SentAgain, f
<1> HIDE DEF f, g
<1> QED
  BY <1>2, <1>3, <1>6, OnlyAForm

LEMMA EditFormKeeps ==
  ASSUME FormsInv, NEW ed \in Editors, NEW id \in DOMAIN events, EditForm(ed, id)
  PROVE  FormsInv'
<1> DEFINE e == events[id]
           b == BlankForm(e.kind)
           g == FromEvent(id)
<1>1. /\ form' = [form EXCEPT ![ed] = g]
      /\ UNCHANGED <<events, templates, saved>>
  BY DEF EditForm
<1>2. RowFits(e)
  BY DEF FormsInv, EventsFit
<1>3. /\ DOMAIN b = FormFields /\ b.began = Blank /\ b.touched = FALSE /\ b.template = Blank
  BY DEF BlankForm, FormFields, TypedFields, TimeFields
<1>4. g = [b EXCEPT !.edit = id, !.title = "kept", !.severity = e.severity,
             !.category = e.category, !.services = e.services, !.follows = e.follows,
             !.start = FormatInput(ShownStart(e)), !.end = FormatInput(e.end),
             !.locked = UnderWay(e), !.seen = e]
  BY DEF FromEvent
<1>5. id # Blank
  BY ListFacts DEF FormsInv, EventsFit, Blank
<1> HIDE DEF b, g
<1>6. /\ DOMAIN g = FormFields /\ g.edit = id /\ g.severity = e.severity
      /\ g.category = e.category /\ g.services = e.services /\ g.follows = e.follows
      /\ g.start = FormatInput(ShownStart(e)) /\ g.end = FormatInput(e.end)
      /\ g.locked = UnderWay(e) /\ g.seen = e /\ g.began = Blank /\ g.touched = FALSE
      /\ g.template = Blank
  BY <1>3, <1>4 DEF FormFields, TypedFields, TimeFields
<1>7. EditFits(g)
  BY <1>2, <1>6 DEF EditFits
<1>8. Timed(g)
  <2>1. ShownStart(e) \in Nat /\ e.end \in Nat
    BY <1>2 DEF RowFits, ShownStart
  <2> QED
    BY <1>6, <2>1, ToTheMinute DEF Timed, Blank
<1>9. FormFits(g)
  BY <1>5, <1>6, <1>7, <1>8 DEF FormFits
<1> QED
  BY <1>1, <1>9, OnlyAForm

LEMMA LeaveKeeps ==
  ASSUME FormsInv, NEW ed \in Editors, Leave(ed)
  PROVE  FormsInv'
  BY OnlyAForm DEF Leave

(* Events published from a template are finitely many.                     *)
LEMMA PublishedFinite ==
  ASSUME EventsFit, NEW t
  PROVE  IsFiniteSet(Published(t))
<1>1. Len(events) \in Nat /\ DOMAIN events = 1..Len(events)
  BY ListFacts DEF EventsFit
<1>2. IsFiniteSet(1..Len(events))
  BY <1>1, FS_Interval
<1> QED
  BY <1>1, <1>2, FS_Subset DEF Published

(* What a form published, or refused, does to the templates.               *)
LEMMA TemplatesAfter ==
  ASSUME TemplatesFit, NEW f, NEW in, NEW after, after = AfterCreate(f, in)
  PROVE  /\ Listed(after) /\ DOMAIN templates \subseteq DOMAIN after
         /\ \A t \in DOMAIN after : DOMAIN after[t] = TemplateFields
         /\ \A t \in DOMAIN templates :
              after[t].uses = IF t = f.template /\ templates[t].there /\ ~Refused(in)
                              THEN templates[t].uses + 1 ELSE templates[t].uses
         /\ \A t \in DOMAIN after : t \notin DOMAIN templates => after[t].uses = 0
<1> DEFINE used == [t \in DOMAIN templates |->
                      IF t = f.template /\ templates[t].there /\ Counted(in, t)
                      THEN [templates[t] EXCEPT !.uses = @ + 1] ELSE templates[t]]
           fresh == NewTemplate(in)
           saving == f.save /\ Len(templates) < MaxTemplates /\ ~Refused(in)
<1>1. after = IF saving THEN Append(used, fresh) ELSE used
  BY DEF AfterCreate
<1>2. Listed(templates) /\ DOMAIN used = DOMAIN templates /\ used = [t \in DOMAIN used |-> used[t]]
  BY DEF TemplatesFit
<1>3. Listed(used) /\ Len(used) = Len(templates)
  BY <1>2, ListMapped
<1>4. \A t \in DOMAIN templates :
        /\ DOMAIN used[t] = TemplateFields
        /\ used[t].uses = IF t = f.template /\ templates[t].there /\ ~Refused(in)
                          THEN templates[t].uses + 1 ELSE templates[t].uses
  BY DEF TemplatesFit, TemplateFields, Counted
<1>5. DOMAIN fresh = TemplateFields /\ fresh.uses = 0
  BY DEF NewTemplate, TemplateFields
<1> HIDE DEF used, fresh, saving
<1>6. CASE saving
  <2>1. /\ Listed(Append(used, fresh))
        /\ DOMAIN Append(used, fresh) = DOMAIN used \cup {Len(used) + 1}
        /\ Append(used, fresh)[Len(used) + 1] = fresh
        /\ \A t \in DOMAIN used : Append(used, fresh)[t] = used[t]
    BY <1>3, ListAppended
  <2> QED
    BY <1>1, <1>2, <1>4, <1>5, <1>6, <2>1
<1>7. CASE ~saving
  BY <1>1, <1>2, <1>3, <1>4, <1>7
<1> QED
  BY <1>6, <1>7

(* The events and the templates after one published event.                 *)
LEMMA OneMorePublished ==
  ASSUME EventsFit, TemplatesFit, NEW row, row.from \in DOMAIN templates \cup {Blank},
         \A t : Published(t)' = IF row.from = t THEN Published(t) \cup {Len(events) + 1}
                                ELSE Published(t),
         \A t : Len(events) + 1 \notin Published(t),
         Listed(templates'), DOMAIN templates \subseteq DOMAIN templates',
         \A t \in DOMAIN templates' : DOMAIN templates'[t] = TemplateFields,
         \A t \in DOMAIN templates :
           templates'[t].uses = IF t = row.from THEN templates[t].uses + 1 ELSE templates[t].uses,
         \A t \in DOMAIN templates' : t \notin DOMAIN templates => templates'[t].uses = 0
  PROVE  TemplatesFit'
<1>1. Blank \notin DOMAIN templates'
  BY ListFacts DEF Blank
<1>2. ASSUME NEW t \in DOMAIN templates'
      PROVE  templates'[t].uses = Cardinality(Published(t)')
  <2>1. CASE t = row.from
    <3>1. t \in DOMAIN templates
      BY <1>1, <2>1
    <3>2. Cardinality(Published(t) \cup {Len(events) + 1}) = Cardinality(Published(t)) + 1
      BY PublishedFinite, FS_AddElement
    <3> QED
      BY <2>1, <3>1, <3>2 DEF TemplatesFit
  <2>2. CASE t # row.from /\ t \in DOMAIN templates
    BY <2>2 DEF TemplatesFit
  <2>3. CASE t \notin DOMAIN templates
    <3>1. t # row.from
      BY <1>1, <2>3
    <3>2. Published(t) = {}
      BY <1>1, <2>3 DEF EventsFit, Published
    <3> QED
      BY <2>3, <3>1, <3>2, FS_EmptySet
  <2> QED
    BY <2>1, <2>2, <2>3
<1> QED
  BY <1>2 DEF TemplatesFit

LEMMA CreateKeeps ==
  ASSUME FormsInv, NEW ed \in Editors, CreateFromForm(ed)
  PROVE  FormsInv'
<1> DEFINE f == form[ed]
           in == CreateInput(f)
           from == IF f.template # Blank /\ templates[f.template].there THEN f.template ELSE Blank
           row == Insert(in, from, NoBody)
<1>1. FormFits(f) /\ f.edit = Blank /\ templates' = AfterCreate(f, in) /\ saved' = saved
  BY DEF CreateFromForm, FormsInv, FormsFit
<1>2. /\ Listed(templates') /\ DOMAIN templates \subseteq DOMAIN templates'
      /\ \A t \in DOMAIN templates' : DOMAIN templates'[t] = TemplateFields
      /\ \A t \in DOMAIN templates :
           templates'[t].uses = IF t = f.template /\ templates[t].there /\ ~Refused(in)
                                THEN templates[t].uses + 1 ELSE templates[t].uses
      /\ \A t \in DOMAIN templates' : t \notin DOMAIN templates => templates'[t].uses = 0
  <2> HIDE DEF f, in
  <2> QED
    BY <1>1, TemplatesAfter DEF FormsInv
<1>3. DOMAIN f = FormFields /\ Timed(f) /\ f.template \in DOMAIN templates \cup {Blank}
  BY <1>1 DEF FormFits
<1>4. SavedFits'
  BY <1>1, SavedStill DEF FormsInv
<1>5. CASE Refused(in)
  <2> DEFINE g == FromInput(f)
  <2>1. events' = events /\ form' = [form EXCEPT ![ed] = g]
    BY <1>5 DEF CreateFromForm
  <2>2. DOMAIN templates' = DOMAIN templates
    <3>1. Listed(templates) /\ DOMAIN templates = DOMAIN [t \in DOMAIN templates |->
                     IF t = f.template /\ templates[t].there /\ Counted(in, t)
                     THEN [templates[t] EXCEPT !.uses = @ + 1] ELSE templates[t]]
      BY DEF FormsInv, TemplatesFit
    <3> QED
      BY <1>1, <1>5, <3>1 DEF AfterCreate
  <2>3. NothingUndone
    BY <2>1, <2>2, NothingMoved
  <2>4. EventsFit'
    BY <2>1, <2>3, RowsStillFit DEF FormsInv
  <2>5. \A t : Published(t)' = Published(t)
    BY <2>1 DEF Published
  <2>6. TemplatesFit'
    BY <1>2, <1>5, <2>2, <2>5 DEF FormsInv, TemplatesFit
  <2>7. FormFits(g)
    <3>1. /\ DOMAIN g = FormFields /\ CreateInput(g) = CreateInput(f)
          /\ g.sent = CreateInput(f) /\ g.touched = FALSE /\ g.template = Blank
          /\ g.edit = f.edit /\ g.start = f.start /\ g.end = f.end /\ g.began = f.began
      <4> HIDE DEF f
      <4> QED
        BY <1>3, Redisplayed
    <3> HIDE DEF g, in
    <3> QED
      BY <1>1, <1>3, <3>1 DEF FormFits, SentAgain, Timed
  <2>9. FormsFit'
    <3> HIDE DEF g
    <3> QED
      BY <2>1, <2>3, <2>7, OneFormSet DEF FormsInv
  <2> QED
    BY <1>4, <2>4, <2>6, <2>9 DEF FormsInv
<1>6. CASE ~Refused(in)
  <2>1. events' = Append(events, row) /\ form' = [form EXCEPT ![ed] = NoForm]
    BY <1>6 DEF CreateFromForm
  <2>2. from \in DOMAIN templates \cup {Blank}
    BY <1>3
  <2>3. RowFits(row) /\ FollowsOne(row) /\ row.from = from /\ row.body = NoBody
    <3> HIDE DEF f, from
    <3> QED
      BY <1>3, <1>6, CreatedFits
  <2> HIDE DEF row, from
  <2>4. /\ NothingUndone /\ EventsFit'
        /\ \A t : Published(t)' = IF row.from = t THEN Published(t) \cup {Len(events) + 1}
                                  ELSE Published(t)
        /\ \A t : Len(events) + 1 \notin Published(t)
    BY <1>2, <2>1, <2>2, <2>3, RowAdded DEF FormsInv
  <2>5. \A t \in DOMAIN templates :
          templates'[t].uses = IF t = row.from THEN templates[t].uses + 1 ELSE templates[t].uses
    <3>1. Blank \notin DOMAIN templates
      BY ListFacts DEF FormsInv, TemplatesFit, Blank
    <3> HIDE DEF f, in
    <3> QED
      BY <1>2, <1>6, <2>3, <3>1 DEF from
  <2>6. TemplatesFit'
    BY <1>2, <2>2, <2>3, <2>4, <2>5, OneMorePublished DEF FormsInv
  <2>7. FormsFit'
    BY <2>1, <2>4, OneFormChanged DEF FormsInv
  <2> QED
    BY <1>4, <2>4, <2>6, <2>7 DEF FormsInv
<1> QED
  BY <1>5, <1>6

LEMMA ApiCreateKeeps ==
  ASSUME FormsInv, NEW body \in Bodies, ApiCreate(body)
  PROVE  FormsInv'
<1> DEFINE in == IntoInput(body)
           row == Insert(in, Blank, body)
<1>1. /\ ~Refused(in) /\ events' = Append(events, row)
      /\ templates' = templates /\ form' = form /\ saved' = saved
  BY DEF ApiCreate
<1>2. Timed(body) /\ in = CreateInput(body)
  BY BodyAsForm
<1> HIDE DEF in
<1>3. RowFits(row) /\ FollowsOne(row) /\ row.from = Blank /\ row.body = body
  BY <1>1, <1>2, CreatedFits
<1> HIDE DEF row
<1>4. /\ NothingUndone /\ EventsFit'
      /\ \A t : Published(t)' = IF row.from = t THEN Published(t) \cup {Len(events) + 1}
                                ELSE Published(t)
      /\ \A t : Len(events) + 1 \notin Published(t)
  BY <1>1, <1>3, RowAdded DEF FormsInv
<1>5. Blank \notin DOMAIN templates
  BY ListFacts DEF FormsInv, TemplatesFit, Blank
<1>6. TemplatesFit'
  BY <1>1, <1>3, <1>4, <1>5, OneMorePublished DEF FormsInv, TemplatesFit
<1>7. FormsFit' /\ SavedFits'
  BY <1>1, <1>4, FormsStillFit, SavedStill DEF FormsInv
<1> QED
  BY <1>4, <1>6, <1>7 DEF FormsInv

LEMMA DeleteTemplateKeeps ==
  ASSUME FormsInv, NEW t \in DOMAIN templates, DeleteTemplate(t)
  PROVE  FormsInv'
<1> DEFINE gone == [templates[t] EXCEPT !.there = FALSE]
<1>1. /\ events' = events /\ form' = form /\ saved' = saved
      /\ templates' = [templates EXCEPT ![t] = gone]
  BY DEF DeleteTemplate, FormsInv, TemplatesFit
<1>2. DOMAIN gone = TemplateFields /\ gone.uses = templates[t].uses
  BY DEF FormsInv, TemplatesFit, TemplateFields
<1> HIDE DEF gone
<1>3. /\ Listed(templates') /\ DOMAIN templates' = DOMAIN templates /\ templates'[t] = gone
      /\ \A other \in DOMAIN templates : other # t => templates'[other] = templates[other]
  BY <1>1, ListRewritten DEF FormsInv, TemplatesFit
<1>4. NothingUndone
  BY <1>1, <1>3, NothingMoved
<1>5. \A other : Published(other)' = Published(other)
  BY <1>1 DEF Published
<1>6. TemplatesFit'
  BY <1>2, <1>3, <1>5 DEF FormsInv, TemplatesFit
<1> QED
  BY <1>1, <1>4, <1>6, RowsStillFit, FormsStillFit, SavedStill DEF FormsInv

LEMMA StartsKeeps ==
  ASSUME FormsInv, NEW id \in DOMAIN events, Starts(id)
  PROVE  FormsInv'
<1> DEFINE e == events[id]
           row == [e EXCEPT !.started = Now]
<1>1. RowFits(e) /\ FollowsOne(e) /\ e.planned
  BY DEF FormsInv, EventsFit, Starts
<1>2. /\ events' = [events EXCEPT ![id] = row]
      /\ templates' = templates /\ form' = form /\ saved' = saved
  BY <1>1 DEF Starts
<1>3. /\ DOMAIN row = RowFields /\ row.started = Now
      /\ \A x \in RowFields : x # "started" => row[x] = e[x]
  BY <1>1 DEF RowFits, RowFields
<1> HIDE DEF row
<1>4. /\ row.kind = e.kind /\ row.planned = e.planned /\ row.start = e.start /\ row.end = e.end
      /\ row.severity = e.severity /\ row.category = e.category /\ row.keeps = e.keeps
      /\ row.repeats = e.repeats /\ row.step = e.step /\ row.next = e.next
      /\ row.follows = e.follows /\ row.from = e.from /\ row.body = e.body
  BY <1>3 DEF RowFields
<1>5. RowFits(row) /\ FollowsOne(row) /\ (UnderWay(e) => UnderWay(row))
  <2>1. RowFits(row)
    <3>1. row.started \in Nat /\ DOMAIN row = RowFields
      BY <1>3 DEF Now
    <3> QED
      BY <1>1, <1>4, <3>1 DEF RowFits
  <2>2. FollowsOne(row)
    BY <1>1, <1>4 DEF FollowsOne
  <2>3. UnderWay(e) => UnderWay(row)
    BY <1>3, <1>4 DEF UnderWay, Now, Blank
  <2> QED
    BY <2>1, <2>2, <2>3
<1>6. NothingUndone /\ EventsFit' /\ \A t : Published(t)' = Published(t)
  BY <1>2, <1>4, <1>5, RowRewritten DEF FormsInv
<1> QED
  BY <1>2, <1>6, CountsStill, FormsStillFit, SavedStill DEF FormsInv

LEMMA ClosesKeeps ==
  ASSUME FormsInv, NEW id \in DOMAIN events, Closes(id)
  PROVE  FormsInv'
<1> DEFINE e == events[id]
           row == [e EXCEPT !.closed = TRUE]
<1>1. RowFits(e) /\ FollowsOne(e)
  BY DEF FormsInv, EventsFit
<1>2. /\ events' = [events EXCEPT ![id] = row]
      /\ templates' = templates /\ form' = form /\ saved' = saved
  BY <1>1 DEF Closes
<1>3. /\ DOMAIN row = RowFields
      /\ \A x \in RowFields : x # "closed" => row[x] = e[x]
  BY <1>1 DEF RowFits, RowFields
<1> HIDE DEF row
<1>4. /\ row.kind = e.kind /\ row.planned = e.planned /\ row.start = e.start /\ row.end = e.end
      /\ row.severity = e.severity /\ row.category = e.category /\ row.keeps = e.keeps
      /\ row.repeats = e.repeats /\ row.step = e.step /\ row.next = e.next
      /\ row.follows = e.follows /\ row.from = e.from /\ row.body = e.body
      /\ row.started = e.started
  BY <1>3 DEF RowFields
<1>5. RowFits(row) /\ FollowsOne(row) /\ (UnderWay(e) => UnderWay(row))
  <2>1. RowFits(row)
    BY <1>1, <1>3, <1>4 DEF RowFits
  <2>2. FollowsOne(row)
    BY <1>1, <1>4 DEF FollowsOne
  <2>3. UnderWay(e) => UnderWay(row)
    BY <1>4 DEF UnderWay
  <2> QED
    BY <2>1, <2>2, <2>3
<1>6. NothingUndone /\ EventsFit' /\ \A t : Published(t)' = Published(t)
  BY <1>2, <1>4, <1>5, RowRewritten DEF FormsInv
<1> QED
  BY <1>2, <1>6, CountsStill, FormsStillFit, SavedStill DEF FormsInv

LEMMA UpdateKeeps ==
  ASSUME FormsInv, NEW ed \in Editors, Update(ed)
  PROVE  FormsInv'
<1> DEFINE f == form[ed]
           e == events[f.edit]
           in == UpdateInput(f, e)
           row == UpdatedRow(in, e)
<1>1. FormFits(f) /\ f.edit # Blank /\ templates' = templates
  BY DEF Update, FormsInv, FormsFit
<1>2. EditFits(f) /\ DOMAIN f = FormFields /\ Timed(f) /\ f.touched \in BOOLEAN
  BY <1>1 DEF FormFits
<1>3. f.edit \in DOMAIN events /\ RowFits(e) /\ RowFits(f.seen)
  BY <1>2 DEF EditFits, FormsInv, EventsFit
<1>4. CASE e.closed
  <2>1. form' = [form EXCEPT ![ed] = NoForm] /\ UNCHANGED <<events, templates, saved>>
    BY <1>1, <1>4 DEF Update
  <2> QED
    BY <2>1, OnlyAForm
<1>5. CASE ~e.closed /\ UpdateError(in, e)
  <2> DEFINE shown == FromInput(f)
             g == [shown EXCEPT !.locked = UnderWay(e), !.touched = TRUE]
  <2>1. form' = [form EXCEPT ![ed] = g] /\ UNCHANGED <<events, templates, saved>>
    BY <1>1, <1>5 DEF Update
  <2>2. /\ DOMAIN shown = FormFields /\ shown.template = Blank /\ shown.edit = f.edit
        /\ shown.start = f.start /\ shown.end = f.end /\ shown.began = f.began
        /\ shown.seen = f.seen
    <3> HIDE DEF f
    <3> QED
      BY <1>2, Redisplayed
  <2> HIDE DEF shown
  <2>3. /\ DOMAIN g = FormFields /\ g.template = Blank /\ g.edit = f.edit
        /\ g.start = f.start /\ g.end = f.end /\ g.began = f.began /\ g.seen = f.seen
        /\ g.locked = UnderWay(e) /\ g.touched = TRUE
    BY <2>2 DEF FormFields, TypedFields, TimeFields
  <2> HIDE DEF g
  <2>4. EditFits(g)
    BY <1>2, <2>3 DEF EditFits
  <2>5. FormFits(g)
    BY <1>1, <1>2, <2>3, <2>4 DEF FormFits, Timed
  <2> QED
    BY <2>1, <2>5, OnlyAForm
<1>6. CASE ~e.closed /\ ~UpdateError(in, e)
  <2>1. /\ events' = [events EXCEPT ![f.edit] = row]
        /\ form' = [form EXCEPT ![ed] = NoForm]
        /\ saved' = [edit |-> f.edit, before |-> e, after |-> row,
                     told |-> MovesItsTimes(in, e), touched |-> f.touched, seen |-> f.seen]
    BY <1>6 DEF Update
  <2>2. /\ RowFits(row) /\ FollowsOne(row) /\ row.kind = e.kind /\ row.planned = e.planned
        /\ row.started = e.started /\ row.from = e.from /\ row.body = e.body
    <3> HIDE DEF f, e
    <3> QED
      BY <1>2, <1>3, <1>6, EditedFits
  <2>3. UnderWay(e) => UnderWay(row)
    BY <2>2 DEF UnderWay
  <2>4. NothingUndone /\ EventsFit' /\ \A t : Published(t)' = Published(t)
    <3> HIDE DEF row
    <3> QED
      BY <1>1, <1>3, <2>1, <2>2, <2>3, RowRewritten DEF FormsInv
  <2>5. TemplatesFit' /\ FormsFit'
    BY <1>1, <2>1, <2>4, CountsStill, OneFormSet DEF FormsInv
  <2>6. UnderWay(f.seen) => FormatInput(row.start) = FormatInput(f.seen.start)
    <3>1. ASSUME UnderWay(f.seen)
          PROVE  e.planned = f.seen.planned /\ f.start = FormatInput(ShownStart(f.seen))
      BY <1>2, <3>1 DEF EditFits
    <3> HIDE DEF f, e
    <3> QED
      BY <1>3, <3>1, WritesBackTheStart
  <2>7. ASSUME f.touched = FALSE, f.seen = [e EXCEPT !.started = f.seen.started]
        PROVE  Minutes(row) = Minutes(e) /\ (MovesItsTimes(in, e) => e # Minutes(e))
    <3>1. /\ f.severity = f.seen.severity /\ f.category = f.seen.category
          /\ f.services = f.seen.services /\ f.follows = f.seen.follows
          /\ f.start = FormatInput(ShownStart(f.seen)) /\ f.end = FormatInput(f.seen.end)
      BY <1>2, <2>7 DEF EditFits
    <3>2. /\ f.seen.severity = e.severity /\ f.seen.category = e.category
          /\ f.seen.services = e.services /\ f.seen.follows = e.follows
          /\ f.seen.start = e.start /\ f.seen.end = e.end /\ f.seen.planned = e.planned
      <4> HIDE DEF f, e
      <4> QED
        BY <1>3, <2>7 DEF RowFits, RowFields
    <3> HIDE DEF f, e
    <3> QED
      BY <1>3, <3>1, <3>2, WritesBackTheRow
  <2>8. SavedFits'
    <3> HIDE DEF f, e, in, row
    <3>1. /\ saved'.edit = f.edit /\ saved'.before = e /\ saved'.after = row
          /\ saved'.told = MovesItsTimes(in, e) /\ saved'.touched = f.touched
          /\ saved'.seen = f.seen
      BY <2>1
    <3>2. UntouchedEditChangesNothing'
      BY <1>2, <2>7, <3>1 DEF UntouchedEditChangesNothing
    <3>3. StartedKeepsItsStart'
      BY <2>6, <3>1 DEF StartedKeepsItsStart
    <3> QED
      BY <3>2, <3>3 DEF SavedFits
  <2> QED
    BY <2>4, <2>5, <2>8 DEF FormsInv
<1> QED
  BY <1>4, <1>5, <1>6

-----------------------------------------------------------------------------
LEMMA FormsBegin == FormInit => FormsInv
<1> SUFFICES ASSUME FormInit PROVE FormsInv
  OBVIOUS
<1>1. EventsFit /\ TemplatesFit
  BY NothingListed DEF FormInit, EventsFit, TemplatesFit
<1>2. FormsFit
  BY DEF FormInit, FormsFit, Open
<1>3. saved.edit = Blank
  BY DEF FormInit, NothingSaved
<1>4. SavedFits
  BY <1>3 DEF SavedFits, UntouchedEditChangesNothing, StartedKeepsItsStart
<1> QED
  BY <1>1, <1>2, <1>4 DEF FormsInv

LEMMA FormsKeep == FormsInv /\ [FormNext]_formVars => FormsInv'
<1> SUFFICES ASSUME FormsInv, [FormNext]_formVars PROVE FormsInv'
  OBVIOUS
<1>1. ASSUME NEW ed \in Editors, NewForm(ed) PROVE FormsInv'
  BY <1>1, NewFormKeeps
<1>2. ASSUME NEW ed \in Editors, CreateFromForm(ed) PROVE FormsInv'
  BY <1>2, CreateKeeps
<1>3. ASSUME NEW ed \in Editors, Update(ed) PROVE FormsInv'
  BY <1>3, UpdateKeeps
<1>4. ASSUME NEW ed \in Editors, Leave(ed) PROVE FormsInv'
  BY <1>4, LeaveKeeps
<1>5. ASSUME NEW ed \in Editors, NEW t \in DOMAIN templates, UseTemplate(ed, t) PROVE FormsInv'
  BY <1>5, UseTemplateKeeps
<1>6. ASSUME NEW ed \in Editors, NEW change \in Typed, Type(ed, change) PROVE FormsInv'
  BY <1>6, TypeKeeps
<1>7. ASSUME NEW ed \in Editors, NEW id \in DOMAIN events, EditForm(ed, id) PROVE FormsInv'
  BY <1>7, EditFormKeeps
<1>8. ASSUME NEW t \in DOMAIN templates, DeleteTemplate(t) PROVE FormsInv'
  BY <1>8, DeleteTemplateKeeps
<1>9. ASSUME NEW body \in Bodies, ApiCreate(body) PROVE FormsInv'
  BY <1>9, ApiCreateKeeps
<1>10. ASSUME NEW id \in DOMAIN events, Starts(id) PROVE FormsInv'
  BY <1>10, StartsKeeps
<1>11. ASSUME NEW id \in DOMAIN events, Closes(id) PROVE FormsInv'
  BY <1>11, ClosesKeeps
<1>12. CASE UNCHANGED formVars
  <2>1. /\ events' = events /\ templates' = templates /\ form' = form /\ saved' = saved
    BY <1>12 DEF formVars
  <2>2. NothingUndone /\ \A t : Published(t)' = Published(t)
    BY <2>1, NothingMoved DEF Published
  <2> QED
    BY <2>1, <2>2, RowsStillFit, CountsStill, FormsStillFit, SavedStill DEF FormsInv
<1> QED
  BY <1>1, <1>2, <1>3, <1>4, <1>5, <1>6, <1>7, <1>8, <1>9, <1>10, <1>11, <1>12 DEF FormNext

LEMMA FormsTellTrue == FormsInv => FormsAreFaithful
<1> SUFFICES ASSUME FormsInv PROVE FormsAreFaithful
  OBVIOUS
<1>1. FitsItsKind
  BY DEF FormsInv, EventsFit, RowFits, FollowsOne, FitsItsKind
<1>2. RefusedFormKeepsWhatWasTyped
  BY DEF FormsInv, FormsFit, FormFits, SentAgain, RefusedFormKeepsWhatWasTyped
<1>3. KeysPublishAsTheForm
  BY BodyAsForm DEF FormsInv, EventsFit, KeysPublishAsTheForm
<1>4. TemplatesCountTheirEvents
  BY DEF FormsInv, TemplatesFit, TemplatesCountTheirEvents, Published
<1> QED
  BY <1>1, <1>2, <1>3, <1>4 DEF FormsInv, SavedFits, FormsAreFaithful

(* Whatever is typed and published, by however many authors and tools: an  *)
(* event kept fits its kind, a refused form sent again asks for the same   *)
(* event, an edit saved as it was opened changes nothing and tells nobody, *)
(* the start of a maintenance under way is written back as it was shown, a *)
(* key publishes as the form, and templates count their events             *)
(* (routes/events/form.rs, services/event_service.rs, api/events.rs).      *)
THEOREM FormsHold == FormSpec => []FormsAreFaithful
<1>1. FormSpec => []FormsInv
  BY FormsBegin, FormsKeep, PTL DEF FormSpec
<1> QED
  BY <1>1, FormsTellTrue, PTL

=============================================================================
