------------------------------- MODULE Strip -------------------------------
(***************************************************************************)
(* The days a service shows on its availability strip, while its incidents *)
(* are declared, moved, undone, edited and deleted, outages are detected,  *)
(* ended and erased, and midnight passes (History; event_repo.rs,          *)
(* outage_repo.rs, routes/outages.rs).                                     *)
(*                                                                         *)
(* Each statement that dates an incident is one step: a state change is    *)
(* guarded by the state it was asked from.  Who may ask is EventLifecycle's*)
(* and FollowUp's concern.                                                 *)
(***************************************************************************)
EXTENDS History, StatusRules

CONSTANTS
  Incidents,  \* rows of the events table that name the service
  Created,    \* when the service was created
  Severities, \* how bad an incident may be
  MaxTime,    \* bound on the clock
  MaxTurns,   \* bound: what members and checks do
  MaxOutages  \* bound: outages detected

ASSUME StripAssumption ==
  /\ Created \in Nat /\ Severities \subseteq Severity /\ MaxOutages \in Nat

VARIABLES
  now,
  incident,  \* the row of each incident; no lifecycle stands for no row
  outages,   \* service_outages of the service
  turns,
  broken,    \* history: the days each incident had the service down
  open       \* history: the days each incident was open

stripVars == <<now, incident, outages, turns, broken, open>>

NoIncident == [lifecycle |-> None, previous |-> None, severity |-> "minor",
               started |-> Unset, restored |-> Unset, ended |-> Unset]

OnRecord(i) == incident[i].lifecycle # None
IsOpen(row) == row.lifecycle # None /\ ~IsTerminal(row.lifecycle)
HasServiceDown(row) == DrivesServices("incident", row.lifecycle, FALSE)

StripInit ==
  /\ now = Created
  /\ incident = [i \in Incidents |-> NoIncident]
  /\ outages = {} /\ turns = 0
  /\ broken = [i \in Incidents |-> {}] /\ open = [i \in Incidents |-> {}]

----------------------------------------------------------------------------
(* Incidents: event_repo.rs *)

\* The row insert writes: an incident declared late began in the past.
Declared(step, severity, began) ==
  [NoIncident EXCEPT !.lifecycle = step, !.severity = severity, !.started = began]

\* transition: the restoration is recorded when the team starts watching and
\* forgotten when it goes back to work, the end on closing.
MovedKeepingReturn(row, next) ==
  [row EXCEPT !.previous = row.lifecycle, !.lifecycle = next,
     !.ended = IF next = "resolved" THEN now ELSE row.ended,
     !.restored = IF next = "monitoring" /\ row.restored = Unset THEN now
                  ELSE row.restored]
Moved(row, next) ==
  [row EXCEPT !.previous = row.lifecycle, !.lifecycle = next,
     !.ended = IF next = "resolved" THEN now ELSE row.ended,
     !.restored = CASE next = "monitoring" ->
                         (IF row.restored = Unset THEN now ELSE row.restored)
                    [] next \in {"investigating", "in_progress"} -> Unset
                    [] OTHER -> row.restored]

\* revert_transition
Reverted(row) ==
  [row EXCEPT !.lifecycle = row.previous, !.previous = None, !.ended = Unset,
     !.restored = IF row.lifecycle = "monitoring" THEN Unset ELSE row.restored]

\* History: an incident declared late, or brought back from its end, was
\* open, and at first down, since it began.
DaysBetween(from, to) == LocalDate(from)..LocalDate(to)

Lives(i, row) ==
  LET since == IF IsOpen(incident[i]) THEN now ELSE row.started
  IN  /\ incident' = [incident EXCEPT ![i] = row]
      /\ open' = [open EXCEPT ![i] = IF IsOpen(row) THEN @ \cup DaysBetween(since, now) ELSE @]
      /\ broken' = [broken EXCEPT ![i] =
           IF HasServiceDown(row)
           THEN @ \cup DaysBetween(IF OnRecord(i) THEN now ELSE row.started, now)
           ELSE @]

Acts == turns < MaxTurns /\ turns' = turns + 1

Declare(i, step, severity, began) ==
  /\ ~OnRecord(i) /\ OpensIncident(step) /\ began \in 0..now
  /\ Lives(i, Declared(step, severity, began))
  /\ Acts /\ UNCHANGED <<now, outages>>

Transition(i, next) ==
  /\ OnRecord(i) /\ CanTransition("incident", incident[i].lifecycle, next)
  /\ Lives(i, Moved(incident[i], next))
  /\ Acts /\ UNCHANGED <<now, outages>>

UndoMove(i) ==
  /\ OnRecord(i) /\ incident[i].previous # None
  /\ Lives(i, Reverted(incident[i]))
  /\ Acts /\ UNCHANGED <<now, outages>>

\* An edit of how bad it is; its dates stay.
Edit(i, severity) ==
  /\ OnRecord(i) /\ severity # incident[i].severity
  /\ Lives(i, [incident[i] EXCEPT !.severity = severity])
  /\ Acts /\ UNCHANGED <<now, outages>>

Delete(i) ==
  /\ OnRecord(i)
  /\ incident' = [incident EXCEPT ![i] = NoIncident]
  /\ open' = [open EXCEPT ![i] = {}] /\ broken' = [broken EXCEPT ![i] = {}]
  /\ Acts /\ UNCHANGED <<now, outages>>

----------------------------------------------------------------------------
(* Outages: outage_repo.rs, routes/outages.rs *)

Untouched == UNCHANGED <<now, incident, broken, open>>

\* open_outage: dated from the first failure, at most one under way
OpenOutage ==
  /\ Cardinality(outages) < MaxOutages
  /\ \A o \in outages : o.end # Unset
  /\ \E n \in 1..MaxOutages, start \in {now, now - 1} :
       /\ start >= Created
       /\ \A o \in outages : o.n # n /\ o.end <= start
       /\ outages' = outages \cup {[n |-> n, start |-> start, end |-> Unset]}
  /\ Acts /\ Untouched

CloseOutage ==
  /\ \E o \in outages :
       /\ o.end = Unset
       /\ outages' = (outages \ {o}) \cup {[o EXCEPT !.end = now]}
  /\ Acts /\ Untouched

\* erase: it was not an outage.  Only an ended one may be erased.
Erase ==
  /\ \E o \in outages : o.end # Unset /\ outages' = outages \ {o}
  /\ Acts /\ Untouched

TimePasses ==
  /\ now < MaxTime /\ now' = now + 1
  /\ open' = [i \in Incidents |->
       IF IsOpen(incident[i]) THEN open[i] \cup DaysBetween(now', now') ELSE open[i]]
  /\ broken' = [i \in Incidents |->
       IF HasServiceDown(incident[i]) THEN broken[i] \cup DaysBetween(now', now')
       ELSE broken[i]]
  /\ UNCHANGED <<incident, outages, turns>>

StripNext ==
  \/ \E i \in Incidents :
       \/ \E step \in Lifecycle, severity \in Severities, began \in {now, now - 1} :
            Declare(i, step, severity, began)
       \/ \E next \in Lifecycle : Transition(i, next)
       \/ \E severity \in Severities : Edit(i, severity)
       \/ UndoMove(i) \/ Delete(i)
  \/ OpenOutage \/ CloseOutage \/ Erase \/ TimePasses

StripSpec == StripInit /\ [][StripNext]_stripVars

----------------------------------------------------------------------------
(* Properties *)

Rows == {incident[i] : i \in {j \in Incidents : OnRecord(j)}}
Shown == StripOf(Created, Rows, outages, now)
Tracked == {day \in WindowDays(now) : day >= LocalDate(Created)}

\* Every day of the strip on which an incident had the service down shows at
\* least how bad it was, whatever was moved, undone, edited or watched since
\* (transition, revert_transition, incident_spans, worst_level_on).
DaysDownAreShown ==
  \A i \in Incidents : \A day \in broken[i] \cap Tracked :
    incident[i].lifecycle # "cancelled"
      => Shown[day].level >= SeverityLevel(incident[i].severity)

Fell(o, day) ==
  /\ EndOrNow(o, now) - o.start >= MinDetected
  /\ \E t \in o.start..(EndOrNow(o, now) - 1) : LocalDate(t) = day

\* No day of the strip is coloured for nothing: an incident that was not
\* cancelled was open that day, or an outage that lasted fell on it
\* (incident_spans, OutageRepository::since, tracked_day).
NoDayBlamedForNothing ==
  \A day \in Tracked : Shown[day].level > 0 =>
    \/ \E i \in Incidents : incident[i].lifecycle # "cancelled" /\ day \in open[i]
    \/ \E o \in outages : Fell(o, day)

\* An outage that lasted colours every day it fell on, and a day coloured
\* for an outage alone leads to one the panel lists under that day
\* (detected_minutes_on, outage_day, OutageRepository::recent, days_covered).
OutagesAreShownAndListed ==
  \A day \in Tracked :
    /\ (\E o \in outages : Fell(o, day)) => Shown[day].level > 0
    /\ Shown[day].detected > 0 =>
         \E o \in OutagesSince(outages, now) : day \in DaysCovered(o, FirstDay(now), now)

\* The strip tells what happened, day by day: neither less nor more
\* (StripDay::worst of the incidents and the outages of each day).
StripTellsWhatHappened == DaysDownAreShown /\ NoDayBlamedForNothing /\ OutagesAreShownAndListed
=============================================================================
