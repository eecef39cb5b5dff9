--------------------------- MODULE EventLifecycle ---------------------------
(***************************************************************************)
(* Incidents and maintenances from their announcement to their end: what   *)
(* the team posts, moves, undoes, edits and deletes, and the schedule that *)
(* starts and completes announced maintenances.                            *)
(*                                                                         *)
(* A request reads the event once (find), checks it against what it read,  *)
(* and then writes in statements of its own.  Between the two, other       *)
(* requests and the schedule move the same event.  The state change is     *)
(* guarded by the state read (a compare and swap); the undo, the message,  *)
(* the next update and the edit are not.                                   *)
(*                                                                         *)
(* The status of the services is StatusBoard's: every write here is a      *)
(* SaveEvent there.  Announcements (publications) have no state and are    *)
(* left out.                                                               *)
(***************************************************************************)
EXTENDS StatusRules, Integers, FiniteSets

CONSTANTS
  Events,       \* rows of the events table
  Kinds,        \* the kinds of event that are announced
  Roles,        \* the roles of those who ask
  Workers,      \* requests under way at once
  MaxClock,     \* bound on the instants
  MaxMessages,  \* bound on the messages posted on an event
  MayFail       \* a request may stop on an error, the server may restart

ASSUME LifecycleAssumption ==
  /\ Kinds \subseteq Kind /\ Roles \subseteq {"publisher", "admin"}
  /\ MaxClock \in Nat \ {0} /\ MaxMessages \in Nat
  /\ MayFail \in BOOLEAN

VARIABLES
  clock,
  event,     \* the row of each event; no lifecycle stands for no row
  stored,    \* event_updates: how many messages each event holds
  sent,      \* how many of them were handed to the alert channels
  tells,     \* history: what was told of an event since it last moved, and
             \* whether an error or a restart lost a message about it
  request,   \* where each request is, and what it read
  schedule,  \* where apply_schedule is, and what it moved
  reopened   \* history: events a publisher brought back from their end

vars == <<clock, event, stored, sent, tells, request, schedule, reopened>>

NoTime == 0
Time   == NoTime..MaxClock

Row == [kind : Kind, planned : BOOLEAN, repeats : BOOLEAN,
        lifecycle : Lifecycle \cup {None}, previous : Lifecycle \cup {None},
        plannedStart : Time, plannedEnd : Time, started : Time, ended : Time,
        restored : Time, nextUpdate : Time]

NoRow == [kind |-> "incident", planned |-> FALSE, repeats |-> FALSE,
          lifecycle |-> None, previous |-> None, plannedStart |-> NoTime,
          plannedEnd |-> NoTime, started |-> NoTime, ended |-> NoTime,
          restored |-> NoTime, nextUpdate |-> NoTime]

Exists(e) == event[e].lifecycle # None

Operations == {"post", "revert", "edit", "delete"}

\* A request: what it does, for whom, to which event, the state it read, and
\* what the form asks: a message or not, the next state or None, the next
\* update or NoTime, a new window (and whether it moves the one that was read).
Idle == [pc |-> "idle", op |-> "post", role |-> "admin", e |-> None,
         seen |-> None, message |-> FALSE, next |-> None, promise |-> NoTime,
         start |-> NoTime, end |-> NoTime, moves |-> FALSE]

Request == [pc : {"idle", "message", "move", "promise", "tell", "write"},
            op : Operations, role : {"publisher", "admin"}, e : Events \cup {None},
            seen : Lifecycle \cup {None}, message : BOOLEAN,
            next : Lifecycle \cup {None}, promise : Time,
            start : Time, end : Time, moves : BOOLEAN]

\* apply_schedule: the instant it runs for, and what it has yet to tell
IdleSchedule == [pc |-> "idle", now |-> NoTime, started |-> {}, completed |-> {}]

Schedule == [pc : {"idle", "complete", "tell"}, now : Time,
             started : SUBSET Events, completed : SUBSET Events]

\* What a message says happened, and the mark of a message that was lost
Happening == {"opened", "updated", "rescheduled", "started", "closed", "lost"}

Init ==
  /\ clock = 1
  /\ event = [e \in Events |-> NoRow]
  /\ stored = [e \in Events |-> 0] /\ sent = [e \in Events |-> 0]
  /\ tells = [e \in Events |-> {}]
  /\ request = [w \in Workers |-> Idle]
  /\ schedule = IdleSchedule
  /\ reopened = {}

----------------------------------------------------------------------------
(* The rows that the statements of the event repository leave.             *)

\* schedule_error, for a maintenance: its end, when it has one, comes after
\* its start, and an announced one has a start.
ValidWindow(kind, planned, start, end) ==
  kind = "maintenance" =>
    /\ planned => start # NoTime
    /\ start # NoTime /\ end # NoTime => start < end

\* initial_lifecycle: the states an event of `kind` may be created in
InitialLifecycles(kind, planned) ==
  IF kind = "incident" THEN {l \in Lifecycle : OpensIncident(l)}
  ELSE IF planned THEN {"scheduled"} ELSE {"in_progress"}

\* When the next update is due does not matter here, only whether one is.
Promises == {NoTime, MaxClock}

\* The rows insert may write at `now`, once creation_error let them through.
\* initial_started_at dates them: an incident may have begun in the past, a
\* maintenance with a start is announced, one without begins right away.
NewIncident(step, began, promise) ==
  [NoRow EXCEPT !.lifecycle = step, !.started = began, !.nextUpdate = promise]

NewIncidents(now) ==
  {NewIncident(x[1], x[2], x[3]) :
     x \in InitialLifecycles("incident", FALSE) \X (1..now) \X Promises}

NewMaintenance(start, end, repeats, now) ==
  LET planned == start # NoTime
  IN  [NoRow EXCEPT !.kind = "maintenance", !.planned = planned,
         !.lifecycle = CHOOSE l \in InitialLifecycles("maintenance", planned) : TRUE,
         !.plannedStart = start, !.plannedEnd = end, !.repeats = repeats,
         !.started = IF planned THEN NoTime ELSE now]

NewMaintenances(now) ==
  {NewMaintenance(window[1], window[2], window[3], now) :
     window \in {x \in Time \X Time \X BOOLEAN :
       /\ ValidWindow("maintenance", x[1] # NoTime,
                      IF x[1] # NoTime THEN x[1] ELSE now, x[2])
       /\ x[3] => x[1] # NoTime /\ x[2] # NoTime}}

NewRows(now) ==
  (IF "incident" \in Kinds THEN NewIncidents(now) ELSE {})
    \cup (IF "maintenance" \in Kinds THEN NewMaintenances(now) ELSE {})

\* transition: keeps the current state for a one step undo.  The start is
\* recorded the first time work begins, the restoration when the team starts
\* watching, the end on closing.
Moved(row, next, now) ==
  [row EXCEPT !.previous = row.lifecycle, !.lifecycle = next,
     !.started = IF next = "in_progress" /\ row.started = NoTime THEN now
                 ELSE row.started,
     !.ended = IF next \in {"resolved", "completed"} THEN now ELSE row.ended,
     !.restored = IF next = "monitoring"
                  THEN IF row.restored = NoTime THEN now ELSE row.restored
                  ELSE IF next \in {"investigating", "in_progress"} THEN NoTime
                  ELSE row.restored]

\* revert_transition
EndedReverted(row) ==
  [row EXCEPT !.lifecycle = row.previous, !.previous = None,
     !.restored = IF row.lifecycle = "monitoring" THEN NoTime ELSE row.restored,
     !.started = IF row.previous = "scheduled" THEN NoTime ELSE row.started]

Reverted(row) ==
  [row EXCEPT !.lifecycle = row.previous, !.previous = None, !.ended = NoTime,
     !.restored = IF row.lifecycle = "monitoring" THEN NoTime ELSE row.restored,
     !.started = IF row.previous = "scheduled" THEN NoTime ELSE row.started]

\* start_due_maintenance: the rows it moves, and what it makes of them
PastStart(now) ==
  {e \in Events : /\ event[e].kind = "maintenance"
                  /\ event[e].lifecycle = "scheduled"
                  /\ event[e].plannedStart # NoTime
                  /\ event[e].plannedStart < now}

DueToStart(now) ==
  {e \in Events : /\ event[e].kind = "maintenance"
                  /\ event[e].lifecycle = "scheduled"
                  /\ event[e].plannedStart # NoTime
                  /\ event[e].plannedStart <= now}

Started(row) ==
  [row EXCEPT !.previous = None, !.lifecycle = "in_progress",
     !.started = IF row.started = NoTime THEN row.plannedStart ELSE row.started]

\* complete_due_maintenance
DueToComplete(now) ==
  {e \in Events : /\ event[e].kind = "maintenance"
                  /\ event[e].lifecycle = "in_progress"
                  /\ event[e].plannedEnd # NoTime
                  /\ event[e].plannedEnd <= now}


Completed(row) ==
  [row EXCEPT !.previous = None, !.lifecycle = "completed",
     !.ended = IF row.ended = NoTime THEN row.plannedEnd ELSE row.ended]

\* update: the window the form asks for
Rescheduled(row, r) == [row EXCEPT !.plannedStart = r.start, !.plannedEnd = r.end]

\* of_new and of_move: what a message says happened
OfNew(kind, lifecycle) ==
  IF kind = "maintenance" /\ lifecycle = "in_progress" THEN "started" ELSE "opened"


OfMove(kind, from, to) ==
  IF IsTerminal(to) THEN "closed"
  ELSE IF kind = "maintenance" /\ from = "scheduled" /\ to = "in_progress"
       THEN "started"
       ELSE "updated"

\* can_modify: closed events stay as they are, except for an admin
CanModify(row, role) == ~IsTerminal(row.lifecycle) \/ role = "admin"

----------------------------------------------------------------------------
(* Requests *)

\* A request or the schedule is at work on the event.
Busy(e) == \/ \E w \in Workers : request[w].e = e
           \/ e \in schedule.started \cup schedule.completed

Tell(e, happening) == tells' = [tells EXCEPT ![e] = @ \cup {happening}]

\* EventService::announce: validation, the insert, then one message
\* (AUTOINCREMENT: no request under way knows the id of a new row).
Create(w, e, row) ==
  /\ request[w].pc = "idle" /\ ~Exists(e) /\ ~Busy(e)
  /\ event' = [event EXCEPT ![e] = row]
  /\ Tell(e, OfNew(row.kind, row.lifecycle))
  /\ UNCHANGED <<clock, stored, sent, request, schedule, reopened>>

\* update_error and revert's own refusal, on the event as it was read
Accepted(row, r) ==
  /\ CanModify(row, r.role)
  /\ r.op = "post" => IF r.next = None THEN r.message
                      ELSE CanTransition(row.kind, row.lifecycle, r.next)
  /\ r.op = "revert" => row.previous # None
  /\ r.op = "edit" =>
       ValidWindow(row.kind, row.planned,
                   IF row.planned THEN r.start ELSE row.started, r.end)

\* moves_its_window, decided on the event as it was read
MovesItsWindow(row, r) ==
  /\ r.op = "edit" /\ row.lifecycle = "scheduled"
  /\ <<row.plannedStart, row.plannedEnd>> # <<r.start, r.end>>

\* The statement a request goes to once its checks passed.
FirstStep(r) ==
  IF r.op # "post" THEN "write"
  ELSE IF r.message THEN "message" ELSE "move"

\* find, then every check before the first write
Find(w, r) ==
  /\ request[w].pc = "idle"
  /\ Exists(r.e) /\ Accepted(event[r.e], r)
  /\ r.message => stored[r.e] < MaxMessages
  /\ request' = [request EXCEPT ![w] =
                   [r EXCEPT !.pc = FirstStep(r), !.seen = event[r.e].lifecycle,
                             !.moves = MovesItsWindow(event[r.e], r)]]
  /\ UNCHANGED <<clock, event, stored, sent, tells, schedule, reopened>>

At(w, pc) == request[w].pc = pc

GoTo(w, pc) == request' = [request EXCEPT ![w].pc = pc]

Done(w) == request' = [request EXCEPT ![w] = Idle]

\* post_update: add_update
AddUpdate(w) ==
  LET e == request[w].e
  IN  /\ At(w, "message") /\ Exists(e)
      /\ stored' = [stored EXCEPT ![e] = @ + 1]
      /\ GoTo(w, IF request[w].next = None THEN "promise" ELSE "move")
      /\ UNCHANGED <<clock, event, sent, tells, schedule, reopened>>

\* The condition of the compare and swap: the state that was read
StillThere(r) == Exists(r.e)
StillAsRead(r) == event[r.e].lifecycle = r.seen

\* post_update: transition finds the event in the state that was read
Transition(w) ==
  LET r == request[w]
  IN  /\ At(w, "move") /\ StillAsRead(r)
      /\ event' = [event EXCEPT ![r.e] = Moved(event[r.e], r.next, clock)]
      /\ tells' = [tells EXCEPT ![r.e] = {}]
      /\ GoTo(w, "promise")
      /\ UNCHANGED <<clock, stored, sent, schedule, reopened>>

\* post_update: it finds it elsewhere, and the request is refused
TransitionRefused(w) ==
  /\ At(w, "move") /\ ~StillAsRead(request[w])
  /\ Done(w)
  /\ UNCHANGED <<clock, event, stored, sent, tells, schedule, reopened>>

\* post_update: set_next_update, for an incident: none once it is over
SetNextUpdate(w) ==
  LET r == request[w]
      over == r.next # None /\ IsTerminal(r.next)
  IN  /\ At(w, "promise")
      /\ event' = IF Exists(r.e) /\ event[r.e].kind = "incident"
                  THEN [event EXCEPT ![r.e].nextUpdate =
                          IF over THEN NoTime ELSE r.promise]
                  ELSE event
      /\ GoTo(w, "tell")
      /\ UNCHANGED <<clock, stored, sent, tells, schedule, reopened>>

\* post_update: tell_update
TellUpdate(w) ==
  LET r == request[w]
      happening == IF r.next = None THEN "updated"
                   ELSE OfMove(event[r.e].kind, r.seen, r.next)
  IN  /\ At(w, "tell") /\ r.op = "post"
      /\ IF Exists(r.e)
         THEN /\ Tell(r.e, happening)
              /\ sent' = IF r.message THEN [sent EXCEPT ![r.e] = @ + 1] ELSE sent
         ELSE UNCHANGED <<tells, sent>>
      /\ Done(w)
      /\ UNCHANGED <<clock, event, stored, schedule, reopened>>

\* revert: revert_transition, on whatever state the event is in by now
Revert(w) ==
  LET r == request[w]
      row == event[r.e]
      undoes == row.previous # None
  IN  /\ At(w, "write") /\ r.op = "revert"
      /\ event' = IF undoes THEN [event EXCEPT ![r.e] = Reverted(row)] ELSE event
      /\ tells' = IF undoes THEN [tells EXCEPT ![r.e] = {}] ELSE tells
      /\ reopened' = IF undoes /\ IsTerminal(row.lifecycle) /\ r.role # "admin"
                     THEN reopened \cup {r.e} ELSE reopened
      /\ GoTo(w, "tell")
      /\ UNCHANGED <<clock, stored, sent, schedule>>

\* revert: its message
TellRevert(w) ==
  /\ At(w, "tell") /\ request[w].op = "revert"
  /\ IF Exists(request[w].e) THEN Tell(request[w].e, "updated")
     ELSE UNCHANGED tells
  /\ Done(w)
  /\ UNCHANGED <<clock, event, stored, sent, schedule, reopened>>

\* update: the window of the event, and a message when an announced one moves
Edit(w) ==
  LET r == request[w]
  IN  /\ At(w, "write") /\ r.op = "edit" /\ Exists(r.e)
      /\ event' = [event EXCEPT ![r.e] = Rescheduled(event[r.e], r)]
      /\ IF r.moves THEN Tell(r.e, "rescheduled") ELSE UNCHANGED tells
      /\ Done(w)
      /\ UNCHANGED <<clock, stored, sent, schedule, reopened>>

\* delete: the event with its messages, and those queued about it
Delete(w) ==
  LET e == request[w].e
  IN  /\ At(w, "write") /\ request[w].op = "delete"
      /\ event' = [event EXCEPT ![e] = NoRow]
      /\ stored' = [stored EXCEPT ![e] = 0] /\ sent' = [sent EXCEPT ![e] = 0]
      /\ tells' = [tells EXCEPT ![e] = {}]
      /\ reopened' = reopened \ {e}
      /\ Done(w)
      /\ UNCHANGED <<clock, schedule>>

\* A write meets a deleted event or a database error and `?` leaves the
\* handler where it is.
Abandon(w) ==
  /\ request[w].pc # "idle"
  /\ MayFail \/ (~Exists(request[w].e) /\ request[w].pc \in {"message", "write"})
  /\ IF request[w].pc \in {"promise", "tell"} THEN Tell(request[w].e, "lost")
     ELSE UNCHANGED tells
  /\ Done(w)
  /\ UNCHANGED <<clock, event, stored, sent, schedule, reopened>>

----------------------------------------------------------------------------
(* The schedule, run every minute by a task of its own *)

\* Only the moves of maintenances that do not repeat are told.
ToTellRepeating(moved) == {e \in moved : event[e].repeats}
ToTell(moved) == {e \in moved : ~event[e].repeats}

\* apply_schedule: start_due_maintenance
StartDue ==
  LET due == DueToStart(clock)
  IN  /\ schedule.pc = "idle"
      /\ event' = [e \in Events |-> IF e \in due THEN Started(event[e]) ELSE event[e]]
      /\ tells' = [e \in Events |-> IF e \in due THEN {} ELSE tells[e]]
      /\ schedule' = [pc |-> "complete", now |-> clock,
                      started |-> ToTell(due), completed |-> {}]
      /\ UNCHANGED <<clock, stored, sent, request, reopened>>

\* apply_schedule: complete_due_maintenance, at the same instant
CompleteDue ==
  LET due == DueToComplete(schedule.now)
  IN  /\ schedule.pc = "complete"
      /\ event' = [e \in Events |-> IF e \in due THEN Completed(event[e]) ELSE event[e]]
      /\ tells' = [e \in Events |-> IF e \in due THEN {} ELSE tells[e]]
      /\ schedule' = [schedule EXCEPT !.pc = "tell", !.completed = ToTell(due)]
      /\ UNCHANGED <<clock, stored, sent, request, reopened>>

\* apply_schedule: one message for each start, then for each end.  A row
\* deleted meanwhile takes no message.
TellStarted(e) ==
  /\ schedule.pc = "tell" /\ e \in schedule.started
  /\ IF Exists(e) THEN Tell(e, "started") ELSE UNCHANGED tells
  /\ schedule' = [schedule EXCEPT !.started = @ \ {e}]
  /\ UNCHANGED <<clock, event, stored, sent, request, reopened>>

TellCompleted(e) ==
  /\ schedule.pc = "tell" /\ schedule.started = {} /\ e \in schedule.completed
  /\ IF Exists(e) THEN Tell(e, "closed") ELSE UNCHANGED tells
  /\ schedule' = [schedule EXCEPT !.completed = @ \ {e}]
  /\ UNCHANGED <<clock, event, stored, sent, request, reopened>>

\* Everything is told, or a statement failed, or the server stopped, and what
\* was left to do is lost.
EndSchedule ==
  LET left == schedule.started \cup schedule.completed
  IN  /\ \/ schedule.pc = "tell" /\ left = {}
         \/ MayFail /\ schedule.pc # "idle"
      /\ tells' = [e \in Events |-> IF e \in left THEN tells[e] \cup {"lost"}
                                    ELSE tells[e]]
      /\ schedule' = IdleSchedule
      /\ UNCHANGED <<clock, event, stored, sent, request, reopened>>

Tick ==
  /\ clock < MaxClock
  /\ clock' = clock + 1
  /\ UNCHANGED <<event, stored, sent, tells, request, schedule, reopened>>

----------------------------------------------------------------------------
AskPost(w, e, role) ==
  \E message \in BOOLEAN, next \in Lifecycle \cup {None}, promise \in Promises :
    /\ event[e].kind = "maintenance" => promise = NoTime
    /\ Find(w, [Idle EXCEPT !.op = "post", !.e = e, !.role = role,
                  !.message = message, !.next = next, !.promise = promise])

AskRevert(w, e, role) == Find(w, [Idle EXCEPT !.op = "revert", !.e = e, !.role = role])

\* The form of a maintenance, which may have been open for a while; one begun
\* right away has no planned start.  Editing an incident moves no window.
AskEdit(w, e, role) ==
  \E start, end \in Time :
    /\ event[e].kind = "maintenance"
    /\ ~event[e].planned => start = NoTime
    /\ Find(w, [Idle EXCEPT !.op = "edit", !.e = e, !.role = role,
                  !.start = start, !.end = end])

AskDelete(w, e, role) == Find(w, [Idle EXCEPT !.op = "delete", !.e = e, !.role = role])

Serve(w) ==
  \/ \E e \in Events : \E row \in NewRows(clock) : Create(w, e, row)
  \/ \E e \in Events, role \in Roles :
       AskPost(w, e, role) \/ AskRevert(w, e, role) \/ AskEdit(w, e, role)
         \/ AskDelete(w, e, role)
  \/ AddUpdate(w) \/ Transition(w) \/ TransitionRefused(w)
  \/ SetNextUpdate(w) \/ TellUpdate(w)
  \/ Revert(w) \/ TellRevert(w) \/ Edit(w) \/ Delete(w) \/ Abandon(w)

ApplySchedule ==
  \/ StartDue \/ CompleteDue \/ EndSchedule
  \/ \E e \in Events : TellStarted(e) \/ TellCompleted(e)

Next == (\E w \in Workers : Serve(w)) \/ ApplySchedule \/ Tick

Spec == Init /\ [][Next]_vars

\* The task runs for the life of the server, and time passes.  Nothing makes
\* the team act: requests get no fairness.
FairSpec == Spec /\ WF_vars(ApplySchedule) /\ WF_vars(Tick)

----------------------------------------------------------------------------
(* Properties *)

TypeOK ==
  /\ clock \in 1..MaxClock
  /\ event \in [Events -> Row]
  /\ stored \in [Events -> Nat] /\ sent \in [Events -> Nat]
  /\ tells \in [Events -> SUBSET Happening]
  /\ request \in [Workers -> Request]
  /\ schedule \in Schedule
  /\ reopened \in SUBSET Events

\* The dates of an event fit the state it shows, whichever order the team's
\* moves and undos and the schedule's starts and ends came in: it has an end
\* exactly when it is resolved or completed, work under way has a start that
\* waiting work has not, and a restoration is one of an incident that is being
\* watched or over (transition, revert_transition, start_due_maintenance and
\* complete_due_maintenance each write some of these columns).
DatesFitState ==
  \A e \in Events :
    LET row == event[e]
    IN  /\ row.ended # NoTime <=> row.lifecycle \in {"resolved", "completed"}
        /\ row.lifecycle = "in_progress" => row.started # NoTime
        /\ row.lifecycle = "scheduled" => row.started = NoTime
        /\ row.restored # NoTime => row.lifecycle \in {"monitoring", "resolved"}

\* The undo an event offers goes back along a move the event can make, so no
\* sequence of moves, undos and schedule runs brings it to a state of the other
\* kind or leaves it at an end it cannot reach (previous_lifecycle as transition,
\* revert_transition and the schedule leave it).
UndoIsLegal ==
  \A e \in Events :
    event[e].previous # None =>
      CanTransition(event[e].kind, event[e].previous, event[e].lifecycle)

\* What makes the two inductive.  An undo restores a state without its dates,
\* so the dates of the state it goes back to must still be there; and a move
\* waiting to be written is one its event can make from the state that was read,
\* which the compare and swap of transition then finds or refuses.
UndoKeepsDates ==
  \A e \in Events :
    LET row == event[e]
    IN  row.previous # None =>
          /\ row.previous = "in_progress" => row.started # NoTime
          /\ row.restored # NoTime /\ row.lifecycle # "monitoring"
               => row.previous = "monitoring"

MoveIsLegal ==
  \A w \in Workers :
    LET r == request[w]
    IN  /\ r.pc # "idle" => r.e \in Events
        /\ r.pc = "move" \/ (r.pc = "message" /\ r.next # None) =>
             /\ r.next # None /\ r.seen # None
             /\ Exists(r.e) => CanTransition(event[r.e].kind, r.seen, r.next)

LifecycleInv == TypeOK /\ DatesFitState /\ UndoIsLegal /\ UndoKeepsDates /\ MoveIsLegal

\* "Closed events stay as they are, except for an admin" (can_modify): no
\* publisher's undo brings an event back from its end.
OnlyAdminsReopen == reopened = {}

Quiet(e) == ~Busy(e) /\ schedule.pc = "idle"

\* Once nobody is at work on an event that reached its end, the destinations
\* were told of that end, whoever ended it, a member or the schedule, unless an
\* error or a restart came between the end and its message.  A session of a
\* repeating maintenance the schedule ends is silent.
EndIsTold ==
  \A e \in Events :
    Quiet(e) /\ Exists(e) /\ IsTerminal(event[e].lifecycle) /\ ~event[e].repeats
      => tells[e] \cap {"closed", "lost"} # {}

\* A maintenance in `lifecycle` though the instant that ends it has come
Waits(e, lifecycle, until) ==
  /\ event[e].kind = "maintenance" /\ event[e].lifecycle = lifecycle
  /\ until # NoTime /\ until <= clock

\* Announced maintenances start and complete without anyone: one whose start
\* has come leaves "scheduled", one under way whose end has come is completed
\* (spawn_maintenance_schedule).
DueMaintenanceMoves ==
  \A e \in Events :
    /\ Waits(e, "scheduled", event[e].plannedStart)
         ~> ~Waits(e, "scheduled", event[e].plannedStart)
    /\ Waits(e, "in_progress", event[e].plannedEnd)
         ~> ~Waits(e, "in_progress", event[e].plannedEnd)
=============================================================================
