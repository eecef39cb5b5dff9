---------------------------- MODULE StatusBoard ----------------------------
(***************************************************************************)
(* The state each service shows (services.status), derived from three      *)
(* causes kept elsewhere: the state set by hand, the events that name it   *)
(* and the outage the checks or a monitoring tool found.                   *)
(*                                                                         *)
(* Whoever changes a cause then calls recalculate_status for the services  *)
(* it touched.  That function is three statements on a connection pool,    *)
(* with no transaction around them: read the service, read the events,     *)
(* write the worst.  Request handlers, the monitoring round, a report and  *)
(* the maintenance schedule all do this concurrently, so a worker here is  *)
(* any of them and its recalculation takes three steps.                    *)
(***************************************************************************)
EXTENDS StatusRules, FiniteSets

CONSTANTS
  Services,     \* the services of the page
  Events,       \* rows of the events table
  EventStates,  \* the states such a row may be in (see EventState)
  Workers,      \* requests and background tasks under way at once
  MayFail       \* whether a worker may stop on a database error or a restart

\* What status_drivers reads of an event; NoEvent stands for no row.
EventState == [kind : Kind, severity : Severity, lifecycle : Lifecycle,
               keepsUp : BOOLEAN]

NoEvent == [kind |-> "incident", severity |-> "minor", lifecycle |-> None,
            keepsUp |-> FALSE]

ASSUME BoardAssumption ==
  /\ EventStates \subseteq EventState
  /\ MayFail \in BOOLEAN
  /\ None \notin Services

VARIABLES
  manual,     \* services.manual_status
  detected,   \* services.detected_status, or None
  shown,      \* services.status
  event,      \* the row of each event, or NoEvent
  named,      \* event_services: the services each event names
  pc,         \* where each worker is in recalculate_status
  todo,       \* the services it has yet to recalculate
  current,    \* the one it is at, or None
  read,       \* what it read of the causes of that one
  overtaken,  \* history: workers a cause of whose service changed since they
              \* began to read it
  excused     \* history: services left stale by a recalculation that was
              \* overtaken or abandoned

causes    == <<manual, detected, event, named>>
locals    == <<pc, todo, current, read>>
history   == <<overtaken, excused>>
boardVars == <<causes, shown, locals, history>>

Detected == {None, "major_outage"}

NoRead == [manual |-> "operational", detected |-> None, drivers |-> {}]

----------------------------------------------------------------------------
(* The rule: what a service should show.                                   *)

\* EventRepository::status_drivers, as the states derived from its rows
StatusDrivers(s) ==
  {DeriveStatus(event[e].kind, event[e].severity) :
     e \in {x \in Events :
              /\ s \in named[x]
              /\ DrivesServices(event[x].kind, event[x].lifecycle,
                                event[x].keepsUp)}}

\* The states recalculate_status takes the worst of.
Candidates(m, d, drivers) == drivers \cup {m} \cup ({d} \ {None})

Worst(m, d, drivers) == WorstOf(Candidates(m, d, drivers))

\* What the causes in the database call for now.
Due(s) == Worst(manual[s], detected[s], StatusDrivers(s))

----------------------------------------------------------------------------
BoardInit ==
  /\ manual    = [s \in Services |-> "operational"]
  /\ detected  = [s \in Services |-> None]
  /\ shown     = [s \in Services |-> "operational"]
  /\ event     = [e \in Events |-> NoEvent]
  /\ named     = [e \in Events |-> {}]
  /\ pc        = [w \in Workers |-> "idle"]
  /\ todo      = [w \in Workers |-> {}]
  /\ current   = [w \in Workers |-> None]
  /\ read      = [w \in Workers |-> NoRead]
  /\ overtaken = {}
  /\ excused   = {}

(***************************************************************************)
(* Changing a cause.  Worker w writes it in one statement or transaction   *)
(* and from then on owes the services in `touched` a recalculation.  The   *)
(* recalculations of these services that others are at are overtaken.      *)
(***************************************************************************)
Owes(w, touched) ==
  /\ todo' = [todo EXCEPT ![w] = @ \cup touched]
  /\ overtaken' = overtaken \cup {v \in Workers : current[v] \in touched}
  /\ UNCHANGED <<shown, pc, current, read, excused>>

\* set_manual_status
SetManualStatus(w, s, status) ==
  /\ pc[w] = "idle" /\ todo[w] = {}
  /\ manual' = [manual EXCEPT ![s] = status]
  /\ Owes(w, {s})
  /\ UNCHANGED <<detected, event, named>>

\* The state mark_detected_down writes.
DetectedDown == "major_outage"

\* mark_detected_down, called by declare_outage
MarkDetectedDown(w, s) ==
  /\ pc[w] = "idle" /\ todo[w] = {}
  /\ detected[s] = None
  /\ detected' = [detected EXCEPT ![s] = DetectedDown]
  /\ Owes(w, {s})
  /\ UNCHANGED <<manual, event, named>>

\* mark_detected_up, called by end_outage, and set_check when it drops a
\* detected state: the callers recalculate only when one was there.
DropDetected(w, s) ==
  /\ pc[w] = "idle" /\ todo[w] = {}
  /\ detected[s] # None
  /\ detected' = [detected EXCEPT ![s] = None]
  /\ Owes(w, {s})
  /\ UNCHANGED <<manual, event, named>>

\* The services a saved event may change: linked before or after the save.
TouchedAfter(e, services) == services
Touched(e, services) == named[e] \cup services

\* A statement of the event repository: create, update, transition,
\* revert_transition, delete or a due maintenance.  It leaves event e in
\* `state` (NoEvent once deleted) naming `services`.  The schedule moves
\* several events before it recalculates any, hence no condition on todo.
SaveEvent(w, e, state, services) ==
  /\ pc[w] = "idle"
  /\ <<state, services>> # <<event[e], named[e]>>
  /\ event' = [event EXCEPT ![e] = state]
  /\ named' = [named EXCEPT ![e] = services]
  /\ Owes(w, Touched(e, services))
  /\ UNCHANGED <<manual, detected>>

----------------------------------------------------------------------------
(* recalculate_status, one action per statement.                           *)

\* ServiceRepository::find_by_id
FindService(w, s) ==
  /\ pc[w] = "idle" /\ s \in todo[w]
  /\ pc' = [pc EXCEPT ![w] = "drivers"]
  /\ current' = [current EXCEPT ![w] = s]
  /\ read' = [read EXCEPT ![w] = [NoRead EXCEPT !.manual = manual[s],
                                                !.detected = detected[s]]]
  /\ overtaken' = overtaken \ {w}
  /\ UNCHANGED <<causes, shown, todo, excused>>

\* EventRepository::status_drivers
ReadDrivers(w) ==
  /\ pc[w] = "drivers"
  /\ pc' = [pc EXCEPT ![w] = "write"]
  /\ read' = [read EXCEPT ![w].drivers = StatusDrivers(current[w])]
  /\ UNCHANGED <<causes, shown, todo, current, history>>

\* The status that follows from what was read.
StatusFrom(r) == Worst(r.manual, r.detected, r.drivers)

\* ServiceRepository::update_status.  It writes only a status that differs,
\* which leaves the same row: the last update time is not modelled.
UpdateStatus(w) ==
  LET s == current[w]
  IN  /\ pc[w] = "write"
      /\ shown' = [shown EXCEPT ![s] = StatusFrom(read[w])]
      /\ pc' = [pc EXCEPT ![w] = "idle"]
      /\ todo' = [todo EXCEPT ![w] = @ \ {s}]
      /\ current' = [current EXCEPT ![w] = None]
      /\ read' = [read EXCEPT ![w] = NoRead]
      /\ overtaken' = overtaken \ {w}
      /\ excused' = IF w \in overtaken THEN excused \cup {s} ELSE excused \ {s}
      /\ UNCHANGED causes

\* A statement fails and `?` leaves the handler, or the server stops: what
\* the worker still owed is never recalculated.
Abandon(w) ==
  /\ MayFail
  /\ todo[w] # {}
  /\ pc' = [pc EXCEPT ![w] = "idle"]
  /\ todo' = [todo EXCEPT ![w] = {}]
  /\ current' = [current EXCEPT ![w] = None]
  /\ read' = [read EXCEPT ![w] = NoRead]
  /\ overtaken' = overtaken \ {w}
  /\ excused' = excused \cup todo[w]
  /\ UNCHANGED <<causes, shown>>

Change(w) ==
  \/ \E s \in Services, status \in ServiceStatus : SetManualStatus(w, s, status)
  \/ \E s \in Services : MarkDetectedDown(w, s) \/ DropDetected(w, s)
  \/ \E e \in Events, state \in EventStates, services \in SUBSET Services :
       SaveEvent(w, e, state, services)
  \/ \E e \in Events : SaveEvent(w, e, NoEvent, {})

RecalculateStatus(w) ==
  \/ \E s \in Services : FindService(w, s)
  \/ ReadDrivers(w)
  \/ UpdateStatus(w)

BoardNext == \E w \in Workers : Change(w) \/ RecalculateStatus(w) \/ Abandon(w)

BoardSpec == BoardInit /\ [][BoardNext]_boardVars

----------------------------------------------------------------------------
(* Properties *)

BoardTypeOK ==
  /\ manual \in [Services -> ServiceStatus]
  /\ detected \in [Services -> Detected]
  /\ shown \in [Services -> ServiceStatus]
  /\ event \in [Events -> EventStates \cup {NoEvent}]
  /\ named \in [Events -> SUBSET Services]
  /\ pc \in [Workers -> {"idle", "drivers", "write"}]
  /\ todo \in [Workers -> SUBSET Services]
  /\ current \in [Workers -> Services \cup {None}]
  /\ read \in [Workers -> [manual : ServiceStatus, detected : Detected,
                           drivers : SUBSET ServiceStatus]]
  /\ overtaken \subseteq Workers
  /\ excused \subseteq Services

Owed(s) == \E w \in Workers : s \in todo[w]

\* A service that nobody is about to recalculate shows the worst of the
\* state set by hand, the ones open work implies and the one the checks
\* found (the comment on recalculate_status).
SettledStatusIsWorst == \A s \in Services : Owed(s) \/ shown[s] = Due(s)

\* A service nobody is about to recalculate shows what its causes call for,
\* unless the last recalculation of it was overtaken by another worker's
\* write between its first read and its own write, or abandoned on an error.
\* Nothing else leaves services.status stale: no caller forgets a service it
\* touched, and reading the causes in two statements is harmless by itself.
StaleOnlyWhenOvertaken ==
  \A s \in Services : Owed(s) \/ s \in excused \/ shown[s] = Due(s)

----------------------------------------------------------------------------
(* The inductive invariant behind StaleOnlyWhenOvertaken.                  *)

\* A worker is at a service exactly between find_by_id and update_status,
\* and still owes it.
AtWork ==
  \A w \in Workers :
    /\ pc[w] = "idle" <=> current[w] = None
    /\ current[w] # None => current[w] \in todo[w]

\* What a worker read is still so, unless it was overtaken.
ReadsAreFresh ==
  \A w \in Workers :
    pc[w] # "idle" /\ w \notin overtaken =>
      /\ read[w].manual = manual[current[w]]
      /\ read[w].detected = detected[current[w]]
      /\ pc[w] = "write" => read[w].drivers = StatusDrivers(current[w])

BoardInv == BoardTypeOK /\ AtWork /\ ReadsAreFresh /\ StaleOnlyWhenOvertaken
=============================================================================
