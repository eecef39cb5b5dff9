----------------------------- MODULE Monitoring -----------------------------
(***************************************************************************)
(* Automatic outages: the monitoring round that checks every service once  *)
(* a minute, the reports of outside monitoring tools, and what both may    *)
(* find changed under them: a check edited, a service deleted, a           *)
(* maintenance or an incident beginning or ending, a restart.              *)
(*                                                                         *)
(* services.detected_status and the table service_outages are written in   *)
(* one transaction by every path; everything else is read in statements of *)
(* its own and used later.  The round and each report are therefore        *)
(* processes whose steps are their database statements.  The status a      *)
(* service shows is left to StatusBoard: nothing here reads it.            *)
(***************************************************************************)
EXTENDS StatusRules, Integers, FiniteSets

CONSTANTS
  Services,
  Checks,                  \* what a service may be checked on: kind and address
  Delays,                  \* the outage_after_minutes a service may set
  Reporters,               \* reports of monitoring tools handled at once
  MaxFailures,             \* the largest failure count, u8::MAX in the code
  MAX_SKIPPED_ROUNDS,
  MIN_SIMULTANEOUS_FALLS,
  MaxClock,                \* bound on the instants
  MaxEdits,                \* bound on what the team does
  ClockStops,              \* rounds stop at MaxClock, or go on at that instant
  MayFail                  \* database errors and restarts happen

ASSUME MonitoringAssumption ==
  /\ Delays # {} /\ Delays \subseteq 1..MaxFailures
  /\ MaxFailures \in Nat /\ MaxClock \in Nat \ {0} /\ MaxEdits \in Nat
  /\ MAX_SKIPPED_ROUNDS \in Nat /\ MIN_SIMULTANEOUS_FALLS \in Nat
  /\ ClockStops \in BOOLEAN /\ MayFail \in BOOLEAN
  /\ None \notin Services /\ None \notin Checks

VARIABLES
  clock,        \* the instant, one per round
  present,      \* the services not deleted
  check,        \* services.check_kind and check_target, or None
  delay,        \* services.outage_after_minutes
  detected,     \* the services whose detected_status is major_outage
  outages,      \* service_outages, by service
  maintenance,  \* services under a maintenance that takes them down
  incident,     \* services an incident being worked on names
  streaks,      \* MonitorState.streaks; no failure stands for no entry
  skipped,      \* MonitorState.skipped_rounds
  offline,      \* MonitorState.offline
  round,        \* where run_round is and what it read
  report,       \* where each report is and what it read
  told,         \* the last message queued about each service
  edits,        \* how many steps the team took
  dropped,      \* history: services whose outage an edited check erased
  inARow,       \* history: failed checks since the last answer a round kept
  quietAt       \* history: the last failure during a maintenance

tables  == <<present, check, delay, detected, outages>>
work    == <<maintenance, incident>>
memory  == <<streaks, skipped, offline>>
history == <<dropped, inARow, quietAt>>
vars    == <<clock, tables, work, memory, round, report, told, edits, history>>

\* No instant: an outage still under way, a streak with no date.
NoTime == 0
Time   == NoTime..MaxClock

Outage == [start : Time, end : Time, source : {"check", "report"}]

NoStreak == [failures |-> 0, since |-> NoTime]
Streak   == [failures : 0..MaxFailures, since : Time]

Changes == {"service_down", "service_up"} \X Services

IdleRound ==
  [pc |-> "idle", now |-> NoTime, listed |-> {}, detected |-> {},
   check |-> [s \in Services |-> None],
   delay |-> [s \in Services |-> CHOOSE d \in Delays : TRUE],
   quiet |-> {}, failed |-> {}, todo |-> {}, telling |-> None, changes |-> {}]

IdleReport ==
  [pc |-> "idle", now |-> NoTime, known |-> {}, checked |-> {},
   detected |-> {}, quiet |-> {}, changed |-> {}, telling |-> None,
   changes |-> {}]

Init ==
  /\ clock = 1
  /\ present = Services
  /\ check \in [Services -> Checks \cup {None}]
  /\ delay \in [Services -> Delays]
  /\ detected = {}
  /\ outages = [s \in Services |-> {}]
  /\ maintenance \in SUBSET Services /\ incident = {}
  /\ streaks = [s \in Services |-> NoStreak]
  /\ skipped = 0 /\ offline = FALSE
  /\ round = IdleRound
  /\ report = [r \in Reporters |-> IdleReport]
  /\ told = [s \in Services |-> None]
  /\ edits = 0
  /\ dropped = {}
  /\ inARow = [s \in Services |-> 0]
  /\ quietAt = [s \in Services |-> NoTime]

----------------------------------------------------------------------------
(* The transactions on detected_status and service_outages.                *)

IsOpen(outage) == outage.end = NoTime

HasOpenOutage(s) == \E o \in outages[s] : IsOpen(o)

\* mark_detected_down commits: the service exists and the unique index on
\* open outages finds none.
CanMarkDownTwice(s) == s \in present
CanMarkDown(s) == s \in present /\ ~HasOpenOutage(s)

MarkDetectedDown(s, start, source) ==
  /\ detected' = detected \cup {s}
  /\ outages' = [outages EXCEPT ![s] = @ \cup
                   {[start |-> start, end |-> NoTime, source |-> source]}]
  /\ dropped' = dropped \ {s}
  /\ UNCHANGED <<present, check, delay, inARow, quietAt>>

LaterOf(a, b) == IF a > b THEN a ELSE b

\* close_outage: never before the start

Closed(outage, now) ==
  IF IsOpen(outage) THEN [outage EXCEPT !.end = LaterOf(outage.start, now)]
  ELSE outage

\* mark_detected_up, for a service with a detected state
MarkDetectedUp(s, now) ==
  /\ detected' = detected \ {s}
  /\ outages' = [outages EXCEPT ![s] = {Closed(o, now) : o \in @}]
  /\ UNCHANGED <<present, check, delay, history>>

\* announce and enqueue_after: a service coming back is told only where the
\* latest message about it is its outage.  A deleted service is refused by
\* the foreign key of the queue.
AnnounceFalls(changes) ==
  told' = [s \in Services |->
             IF s \in present /\ <<"service_down", s>> \in changes
             THEN "service_down" ELSE told[s]]

Announce(changes) ==
  told' = [s \in Services |->
             IF s \notin present THEN told[s]
             ELSE IF <<"service_down", s>> \in changes THEN "service_down"
             ELSE IF <<"service_up", s>> \in changes /\ told[s] = "service_down"
                  THEN "service_up"
                  ELSE told[s]]

----------------------------------------------------------------------------
(* The rules of services/monitoring.rs.                                    *)

\* Observations of a round: the services of `observed`, those of `failed`
\* did not answer.
LooksLikeOwnFailure(observed, failed) ==
  LET answeringBefore == {s \in observed : streaks[s].failures = 0
                                           /\ s \notin round.detected}
  IN  /\ Cardinality(answeringBefore) >= MIN_SIMULTANEOUS_FALLS
      /\ answeringBefore \subseteq failed

LooksLikeNetworkLoss(observed, lost) ==
  Cardinality(observed) >= MIN_SIMULTANEOUS_FALLS /\ observed = lost

\* skip_round: whether to ignore the round
SkipRound(ownFailure) == ownFailure /\ skipped < MAX_SKIPPED_ROUNDS

\* next_state: the new failure count, saturating

NextFailures(s) ==
  IF s \notin round.failed THEN 0
  ELSE IF streaks[s].failures = MaxFailures THEN MaxFailures
  ELSE streaks[s].failures + 1

\* next_state: what the round asks of the outage of s
HastyTransition(s) ==
  IF s \notin round.failed
  THEN IF s \in round.detected THEN "up" ELSE "stay"
  ELSE IF /\ s \notin round.detected /\ s \notin round.quiet
          /\ NextFailures(s) + 1 >= round.delay[s]
       THEN "down" ELSE "stay"

LateTransition(s) ==
  IF s \notin round.failed
  THEN IF s \in round.detected THEN "up" ELSE "stay"
  ELSE IF /\ s \notin round.detected /\ s \notin round.quiet
          /\ NextFailures(s) > round.delay[s]
       THEN "down" ELSE "stay"


NextTransition(s) ==
  IF s \notin round.failed
  THEN IF s \in round.detected THEN "up" ELSE "stay"
  ELSE IF /\ s \notin round.detected /\ s \notin round.quiet
          /\ NextFailures(s) >= round.delay[s]
       THEN "down" ELSE "stay"

\* MonitorState::record: the streak kept for s
DatedStreak(s) ==
  IF NextFailures(s) = 0 THEN NoStreak
  ELSE [failures |-> NextFailures(s),
        since |-> IF streaks[s].since = NoTime THEN round.now ELSE streaks[s].since]

RecordedStreak(s) ==
  IF NextFailures(s) = 0 THEN NoStreak
  ELSE [failures |-> NextFailures(s),
        since |-> IF s \in round.quiet THEN NoTime
                  ELSE IF streaks[s].since = NoTime THEN round.now
                  ELSE streaks[s].since]

----------------------------------------------------------------------------
(* run_round *)

\* list_checked, then keep_only on the streaks.  Rounds follow one another:
\* each takes a new instant.
ListChecked ==
  LET listed == {s \in present : check[s] # None}
      now == IF clock < MaxClock THEN clock + 1 ELSE clock
  IN  /\ round.pc = "idle"
      /\ ClockStops => clock < MaxClock
      /\ clock' = now
      /\ streaks' = [s \in Services |-> IF s \in listed THEN streaks[s] ELSE NoStreak]
      /\ round' = IF listed = {} THEN round
                  ELSE [IdleRound EXCEPT !.pc = "probe", !.now = now,
                          !.listed = listed, !.detected = detected,
                          !.check = check, !.delay = delay]
      /\ UNCHANGED <<edits, tables, work, skipped, offline, report, told, history>>

\* services_under_maintenance, then probe_all, then network_lost and
\* skip_this_round.  Of the services listed, those of `failed` did not
\* answer, those of `lost` because Statup has no network; one neither failed
\* nor answered is left out, its check having panicked.  The probes touch
\* nothing shared.
ProbeAll(answered, failed, lost) ==
  LET observed == answered \cup failed
      isLost == LooksLikeNetworkLoss(observed, lost)
      skip == SkipRound(LooksLikeOwnFailure(observed, failed))
      kept == IF isLost \/ skip THEN {} ELSE answered
  IN  /\ round.pc = "probe"
      /\ offline' = isLost
      /\ skipped' = IF isLost THEN 0 ELSE IF skip THEN skipped + 1 ELSE 0
      /\ round' = IF isLost \/ skip THEN IdleRound
                  ELSE [round EXCEPT !.pc = "apply", !.quiet = maintenance,
                                     !.failed = failed, !.todo = observed]
      /\ inARow' = [s \in Services |->
                      IF s \in kept THEN 0
                      ELSE IF s \in failed /\ inARow[s] < MaxFailures
                           THEN inARow[s] + 1 ELSE inARow[s]]
      /\ UNCHANGED <<edits, clock, tables, work, streaks, report, told, dropped,
                     quietAt>>

\* The in-memory half of apply, before any write.
Record(s) ==
  /\ round.pc = "apply" /\ s \in round.todo /\ round.telling = None
  /\ streaks' = [streaks EXCEPT ![s] = RecordedStreak(s)]
  /\ UNCHANGED <<edits, clock, work, skipped, offline, report, told>>

Judged(s) == [round EXCEPT !.todo = @ \ {s}]

\* apply: nothing to change, or mark_detected_up finds no outage under way
ApplyStay(s) ==
  /\ Record(s)
  /\ \/ NextTransition(s) = "stay"
     \/ NextTransition(s) = "up" /\ s \notin detected
  /\ round' = Judged(s)
  /\ quietAt' = IF s \in round.failed \cap round.quiet
                THEN [quietAt EXCEPT ![s] = round.now] ELSE quietAt
  /\ UNCHANGED <<tables, dropped, inARow>>

\* apply, Transition::Down: declare_outage up to mark_detected_down
ApplyDown(s) ==
  /\ Record(s)
  /\ NextTransition(s) = "down" /\ CanMarkDown(s)
  /\ MarkDetectedDown(s, RecordedStreak(s).since, "check")
  /\ round' = [Judged(s) EXCEPT !.telling = s]

\* apply, Transition::Up: end_outage
ApplyUp(s) ==
  /\ Record(s)
  /\ NextTransition(s) = "up" /\ s \in detected
  /\ MarkDetectedUp(s, round.now)
  /\ round' = [Judged(s) EXCEPT !.changes = @ \cup {<<"service_up", s>>}]

\* apply returns an error, which is logged and leaves the others to be
\* judged: the service was deleted or has an outage under way, or the
\* database failed.
ApplyError(s) ==
  /\ Record(s)
  /\ \/ NextTransition(s) = "down" /\ (MayFail \/ ~CanMarkDown(s))
     \/ NextTransition(s) = "up" /\ MayFail
  /\ round' = Judged(s)
  /\ UNCHANGED <<tables, history>>

\* declare_outage reads status_drivers: an incident being worked on, or a
\* maintenance, already tells people.  An error then leaves it untold.
Untold(s) == s \in maintenance \cup incident

TellDown ==
  /\ round.pc = "apply" /\ round.telling # None
  /\ \/ round' = [round EXCEPT !.telling = None,
                    !.changes = IF Untold(round.telling) THEN @
                                ELSE @ \cup {<<"service_down", round.telling>>}]
     \/ MayFail /\ round' = [round EXCEPT !.telling = None]
  /\ UNCHANGED <<edits, clock, tables, work, memory, report, told, history>>

\* Every service judged: announce
EndRound ==
  /\ round.pc = "apply" /\ round.todo = {} /\ round.telling = None
  /\ Announce(round.changes)
  /\ round' = IdleRound
  /\ UNCHANGED <<edits, clock, tables, work, memory, report, history>>

RunRound ==
  \/ ListChecked
  \* Only whether every failure is a network loss matters.
  \/ \E answered, failed \in SUBSET round.listed :
       /\ answered \cap failed = {}
       /\ \E lost \in {{}, failed} : ProbeAll(answered, failed, lost)
  \/ \E s \in Services : ApplyStay(s) \/ ApplyDown(s) \/ ApplyUp(s) \/ ApplyError(s)
  \/ TellDown
  \/ EndRound

----------------------------------------------------------------------------
(* The report of a monitoring tool, routes/api/reports.                    *)

\* Applying::start, ServiceRepository::list_all
StartReport(r) ==
  /\ report[r].pc = "idle"
  /\ report' = [report EXCEPT ![r] =
                  [IdleReport EXCEPT !.pc = "start", !.now = clock,
                     !.known = present, !.detected = detected,
                     !.checked = {s \in present : check[s] # None}]]
  /\ UNCHANGED <<edits, clock, tables, work, memory, round, told, history>>

\* Applying::start, services_under_maintenance
ReadMaintenance(r) ==
  /\ report[r].pc = "start"
  /\ report' = [report EXCEPT ![r] = [@ EXCEPT !.pc = "take", !.quiet = maintenance]]
  /\ UNCHANGED <<edits, clock, tables, work, memory, round, told, history>>

\* judge lets a signal through.  The refused and the unchanged ones change
\* nothing.
Applies(r, s, down) ==
  LET rep == report[r]
  IN  /\ rep.pc = "take" /\ rep.telling = None
      /\ s \in rep.known \ (rep.checked \cup rep.changed)
      /\ down => s \notin rep.quiet
      /\ (s \in rep.detected) = ~down

\* take, Reported::Down: declare_outage up to mark_detected_down.  A unique
\* violation is another report's outage, and changes nothing.
TakeDown(r, s) ==
  /\ Applies(r, s, TRUE) /\ CanMarkDown(s)
  /\ MarkDetectedDown(s, report[r].now, "report")
  /\ report' = [report EXCEPT ![r] = [@ EXCEPT
                     !.telling = s,
                     !.changed = report[r].changed \cup {s}]]
  /\ UNCHANGED <<edits, clock, work, memory, round, told>>

\* The second half of declare_outage, as in TellDown; an error ends the
\* report, which is why only success is here.
TellReported(r) ==
  LET s == report[r].telling
  IN  /\ s # None
      /\ report' = [report EXCEPT ![r] =
                      [@ EXCEPT !.telling = None,
                         !.changes = IF Untold(s) THEN report[r].changes
                                     ELSE report[r].changes
                                            \cup {<<"service_down", s>>}]]
      /\ UNCHANGED <<edits, clock, tables, work, memory, round, told, history>>

\* take, Reported::Up: end_outage, unless another report ended it
TakeUp(r, s) ==
  /\ Applies(r, s, FALSE) /\ s \in detected
  /\ MarkDetectedUp(s, report[r].now)
  /\ report' = [report EXCEPT ![r] =
                  [@ EXCEPT !.changed = report[r].changed \cup {s},
                            !.changes = report[r].changes
                                          \cup {<<"service_up", s>>}]]
  /\ UNCHANGED <<edits, clock, work, memory, round, told>>

\* Every signal taken, or one failed: what the report changed is announced
\* all the same.
FinishReport(r) ==
  /\ report[r].pc = "take"
  /\ report[r].telling = None \/ MayFail
  /\ Announce(report[r].changes)
  /\ report' = [report EXCEPT ![r] = IdleReport]
  /\ UNCHANGED <<edits, clock, tables, work, memory, round, history>>

HandleReport(r) ==
  \/ StartReport(r) \/ ReadMaintenance(r) \/ TellReported(r) \/ FinishReport(r)
  \/ \E s \in Services : TakeDown(r, s) \/ TakeUp(r, s)

----------------------------------------------------------------------------
(* What the team does meanwhile.                                           *)

\* set_check, one transaction: a changed check drops what the old one found
SetCheck(s, c) ==
  /\ s \in present /\ check[s] # c
  /\ check' = [check EXCEPT ![s] = c]
  /\ detected' = detected \ {s}
  /\ outages' = [outages EXCEPT ![s] = {o \in @ : ~IsOpen(o)}]
  /\ dropped' = IF s \in detected THEN dropped \cup {s} ELSE dropped
  /\ UNCHANGED <<clock, present, delay, work, memory, round, report, told,
                 inARow, quietAt>>

\* set_outage_after, for a monitored service
SetOutageAfter(s, d) ==
  /\ s \in present /\ delay[s] # d
  /\ delay' = [delay EXCEPT ![s] = d]
  /\ UNCHANGED <<clock, present, check, detected, outages, work, memory, round,
                 report, told, history>>

\* OutageRepository::erase: an ended outage that was not one
EraseOutage(s, o) ==
  /\ ~IsOpen(o)
  /\ outages' = [outages EXCEPT ![s] = @ \ {o}]
  /\ UNCHANGED <<clock, present, check, delay, detected, work, memory, round,
                 report, told, history>>

\* ServiceService::delete.  The outages and the messages of the service go
\* with it; one that an event names is kept.
DeleteService(s) ==
  /\ s \in present \ (maintenance \cup incident)
  /\ present' = present \ {s}
  /\ check' = [check EXCEPT ![s] = None]
  /\ detected' = detected \ {s}
  /\ outages' = [outages EXCEPT ![s] = {}]
  /\ told' = [told EXCEPT ![s] = None]
  /\ UNCHANGED <<clock, delay, work, memory, round, report, history>>

\* A maintenance that takes s down begins or ends (EventLifecycle)
ToggleMaintenance(s) ==
  /\ s \in present
  /\ maintenance' = IF s \in maintenance THEN maintenance \ {s}
                    ELSE maintenance \cup {s}
  /\ UNCHANGED <<clock, tables, incident, memory, round, report, told, history>>

\* An incident being worked on begins or ends (EventLifecycle)
ToggleIncident(s) ==
  /\ s \in present
  /\ incident' = IF s \in incident THEN incident \ {s} ELSE incident \cup {s}
  /\ UNCHANGED <<clock, tables, maintenance, memory, round, report, told, history>>

\* The server stops and starts: the round, the reports and what the checks
\* remember are lost.
Restart ==
  /\ MayFail
  /\ streaks' = [s \in Services |-> NoStreak]
  /\ skipped' = 0 /\ offline' = FALSE
  /\ round' = IdleRound
  /\ report' = [r \in Reporters |-> IdleReport]
  /\ UNCHANGED <<edits, clock, tables, work, told, history>>

Team ==
  /\ edits < MaxEdits /\ edits' = edits + 1
  /\ \E s \in Services :
       \/ \E c \in Checks \cup {None} : SetCheck(s, c)
       \/ \E d \in Delays : SetOutageAfter(s, d)
       \/ \E o \in outages[s] : EraseOutage(s, o)
       \/ DeleteService(s)
       \/ ToggleMaintenance(s)
       \/ ToggleIncident(s)

Next ==
  \/ RunRound
  \/ \E r \in Reporters : HandleReport(r)
  \/ Team
  \/ Restart

Spec == Init /\ [][Next]_vars

\* The round is a task of the server that runs for as long as it lives.
FairSpec == Spec /\ WF_vars(RunRound)

----------------------------------------------------------------------------
(* Properties *)

RoundType ==
  [pc : {"idle", "probe", "apply"}, now : Time, listed : SUBSET Services,
   detected : SUBSET Services, check : [Services -> Checks \cup {None}],
   delay : [Services -> Delays], quiet : SUBSET Services,
   failed : SUBSET Services, todo : SUBSET Services,
   telling : Services \cup {None}, changes : SUBSET Changes]

ReportType ==
  [pc : {"idle", "start", "take"}, now : Time, known : SUBSET Services,
   checked : SUBSET Services, detected : SUBSET Services,
   quiet : SUBSET Services, changed : SUBSET Services,
   telling : Services \cup {None}, changes : SUBSET Changes]

TypeOK ==
  /\ clock \in Time \ {NoTime} /\ edits \in 0..MaxEdits
  /\ present \subseteq Services /\ detected \subseteq Services
  /\ check \in [Services -> Checks \cup {None}]
  /\ delay \in [Services -> Delays]
  /\ outages \in [Services -> SUBSET Outage]
  /\ maintenance \subseteq Services /\ incident \subseteq Services
  /\ streaks \in [Services -> Streak]
  /\ skipped \in 0..MAX_SKIPPED_ROUNDS /\ offline \in BOOLEAN
  /\ round \in RoundType
  /\ report \in [Reporters -> ReportType]
  /\ told \in [Services -> {None, "service_down", "service_up"}]
  /\ dropped \subseteq Services
  /\ inARow \in [Services -> 0..MaxFailures]
  /\ quietAt \in [Services -> Time]

\* A service has a detected state exactly while one outage of it is under
\* way, whatever rounds, reports, edits of its check, deletions and restarts
\* interleave: the services page reads the one and the availability strip
\* the other.
DetectedIffOneOpenOutage ==
  \A s \in Services :
    /\ s \in detected <=> HasOpenOutage(s)
    /\ \A o, p \in outages[s] : IsOpen(o) /\ IsOpen(p) => o = p

\* No outage ends before it started, even when the report that ends it read
\* the clock before the outage began.
OutageEndsAfterItsStart ==
  \A s \in Services : \A o \in outages[s] : ~IsOpen(o) => o.start <= o.end

\* An outage the checks declare is dated after every failure seen during a
\* maintenance: those failures count but never date it (documentation: "the
\* outage is declared at the next failed check, dated from then").
MaintenanceDatesNothing ==
  [][\A s \in Services : \A o \in outages'[s] \ outages[s] :
       IsOpen(o) /\ o.source = "check" => o.start > quietAt[s]]_vars

\* A service the round has just declared down failed as many checks as its
\* delay since the last answer of a round that was not ignored (documentation:
\* "When a service fails as many checks in a row as its delay, three by
\* default, it shows Outage"; an answer in a round blamed on Statup's own
\* connection does not count).
OutageAfterFailuresInARow ==
  round.telling # None => inARow[round.telling] >= round.delay[round.telling]

Quiescent ==
  round.pc = "idle" /\ \A r \in Reporters : report[r].pc = "idle"

\* Once the round and the reports are done, a service last told as not
\* answering is in an outage, unless an edit of its check erased that one
\* ("their return in one more" message).
ReturnIsTold ==
  Quiescent =>
    \A s \in Services :
      told[s] = "service_down" => s \in detected \cup dropped

\* A service that keeps failing, check and maintenances left alone, is
\* eventually shown in outage: rounds blamed on Statup's own connection are
\* ignored a few times in a row at most.
KeepsFailing(s) ==
  /\ check[s] # None /\ s \notin maintenance /\ ~offline
  /\ round.pc = "apply" => s \in round.failed

DeadServiceIsDetected ==
  \A s \in Services, c \in Checks :
    <>[](check[s] = c /\ KeepsFailing(s) /\ inARow[s] > 0)
      => []<>(s \in detected)

\* A service that answers every check is eventually shown as answering, even
\* while the others fall and rounds are ignored.
KeepsAnswering(s) ==
  /\ check[s] # None
  /\ round.pc = "apply" => s \notin round.failed

AnsweringServiceIsCleared ==
  \A s \in Services, c \in Checks :
    <>[](check[s] = c /\ KeepsAnswering(s) /\ inARow[s] = 0)
      => <>[](s \notin detected)

\* Detection follows what the checks find: a service that keeps failing is shown
\* as down and one that keeps answering is not.
DetectionFollowsTheChecks == DeadServiceIsDetected /\ AnsweringServiceIsCleared

----------------------------------------------------------------------------
(* The inductive invariant behind DetectedIffOneOpenOutage.                *)

\* A round or a report under way has read the clock, so that the outage it
\* ends is ended for good.
ClockWasRead ==
  /\ round.pc # "idle" => round.now # NoTime
  /\ \A r \in Reporters : report[r].pc # "idle" => report[r].now # NoTime

OutagesInv ==
  TypeOK /\ ClockWasRead /\ DetectedIffOneOpenOutage /\ OutageEndsAfterItsStart
=============================================================================
