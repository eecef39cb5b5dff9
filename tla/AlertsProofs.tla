---------------------------- MODULE AlertsProofs ----------------------------
(***************************************************************************)
(* Proofs about Monitoring, for any services, checks, reports and bounds,  *)
(* about Deliveries, for any channels, services, events, delays and        *)
(* errors, and about Messages, for any destinations, forms and answers.    *)
(***************************************************************************)
EXTENDS Monitoring, Deliveries, Messages, NaturalsInduction, WellFoundedInduction, TLAPS

-----------------------------------------------------------------------------
(* Monitoring                                                              *)

\* A delay is a number of failures the code can count, and at least one.
LEMMA DelayBounds ==
  /\ MaxFailures \in Nat \ {0}
  /\ \A d \in Delays : d \in 1..MaxFailures
<1>1. /\ Delays # {} /\ Delays \subseteq 1..MaxFailures
      /\ MaxFailures \in Nat
  BY MonitoringAssumption
<1>2. \A d \in Delays : d \in 1..MaxFailures
  BY <1>1, Zenon
<1>3. PICK d \in Delays : TRUE
  BY <1>1, Zenon
<1>4. d \in 1..MaxFailures
  BY <1>2, <1>3
<1> QED BY <1>1, <1>2, <1>4

\* A round and a report that are not under way are typed.
LEMMA RoundTypes == IdleRound \in RoundType /\ IdleReport \in ReportType
<1>1. (CHOOSE d \in Delays : TRUE) \in Delays
  BY MonitoringAssumption
<1>2. NoTime \in Time
  BY MonitoringAssumption DEF NoTime, Time
<1> QED BY <1>1, <1>2 DEF IdleRound, RoundType, IdleReport, ReportType

\* The streak a round keeps for a service has a count the code can hold.
LEMMA StreakType ==
  ASSUME TypeOK, NEW s \in Services
  PROVE  /\ NextFailures(s) \in 0..MaxFailures
         /\ RecordedStreak(s) \in Streak
<1>1. /\ streaks[s].failures \in 0..MaxFailures
      /\ streaks[s].since \in Time
  BY DEF TypeOK, Streak
<1>2. NextFailures(s) \in 0..MaxFailures
  BY <1>1, MonitoringAssumption DEF NextFailures
<1>3. round.now \in Time /\ NoTime \in Time
  BY MonitoringAssumption DEF TypeOK, RoundType, NoTime, Time
<1> QED BY <1>1, <1>2, <1>3, MonitoringAssumption
        DEF RecordedStreak, Streak, NoStreak

\* A report given new locals leaves the others alone.
LEMMA ReportUpdate ==
  ASSUME TypeOK, NEW r \in Reporters, NEW x \in ReportType
  PROVE  [report EXCEPT ![r] = x] \in [Reporters -> ReportType]
BY DEF TypeOK

\* The columns, the memory of the checks and the locals of the round and of
\* the reports keep their types.
LEMMA TypeStep == TypeOK /\ [Next]_vars => TypeOK'
<1> SUFFICES ASSUME TypeOK, [Next]_vars PROVE TypeOK'
  OBVIOUS
<1>1. CASE ListChecked
  <2>1. clock' \in Time \ {NoTime} /\ clock' \in Time
    BY <1>1, MonitoringAssumption DEF ListChecked, TypeOK, Time, NoTime
  <2>2. streaks' \in [Services -> Streak]
    BY <1>1, MonitoringAssumption DEF ListChecked, TypeOK, Streak, NoStreak, Time, NoTime
  <2>3. round' \in RoundType
    BY <1>1, <2>1, RoundTypes DEF ListChecked, TypeOK, RoundType
  <2> QED BY <1>1, <2>1, <2>2, <2>3 DEF ListChecked, TypeOK, tables, work, history
<1>2. ASSUME NEW answered \in SUBSET round.listed, NEW failed \in SUBSET round.listed,
             NEW lost, ProbeAll(answered, failed, lost)
      PROVE TypeOK'
  <2>1. answered \subseteq Services /\ failed \subseteq Services
    BY DEF TypeOK, RoundType
  <2>2. round' \in RoundType
    BY <1>2, <2>1, RoundTypes DEF ProbeAll, TypeOK, RoundType
  <2>3. skipped' \in 0..MAX_SKIPPED_ROUNDS
    BY <1>2, MonitoringAssumption DEF ProbeAll, TypeOK, SkipRound
  <2>4. inARow' \in [Services -> 0..MaxFailures]
    BY <1>2, MonitoringAssumption DEF ProbeAll, TypeOK
  <2>5. offline' \in BOOLEAN
    BY <1>2 DEF ProbeAll, LooksLikeNetworkLoss
  <2> QED BY <1>2, <2>2, <2>3, <2>4, <2>5 DEF ProbeAll, TypeOK, tables, work
<1>3. ASSUME NEW s \in Services, Record(s) PROVE streaks' \in [Services -> Streak]
  BY <1>3, StreakType DEF Record, TypeOK
<1>4. ASSUME NEW s \in Services
      PROVE  /\ Judged(s) \in RoundType
             /\ [Judged(s) EXCEPT !.telling = s] \in RoundType
             /\ [Judged(s) EXCEPT !.changes = @ \cup {<<"service_up", s>>}] \in RoundType
  <2>1. Judged(s) \in RoundType
    BY DEF TypeOK, Judged, RoundType
  <2>2. <<"service_up", s>> \in Changes
    BY DEF Changes
  <2>3. ASSUME NEW x \in RoundType
        PROVE  /\ [x EXCEPT !.telling = s] \in RoundType
               /\ [x EXCEPT !.changes = @ \cup {<<"service_up", s>>}] \in RoundType
    BY <2>2 DEF RoundType
  <2> QED BY <2>1, <2>3
<1>5. ASSUME NEW s \in Services, ApplyStay(s) PROVE TypeOK'
  <2>1. quietAt' \in [Services -> Time]
    BY <1>5 DEF ApplyStay, TypeOK, RoundType
  <2> QED BY <1>3, <1>4, <1>5, <2>1 DEF ApplyStay, Record, TypeOK, tables, work
<1>6. ASSUME NEW s \in Services, ApplyDown(s) PROVE TypeOK'
  <2>1. RecordedStreak(s).since \in Time /\ round.check[s] \in Checks \cup {None}
        /\ NoTime \in Time
    BY StreakType, MonitoringAssumption DEF Streak, TypeOK, RoundType, NoTime, Time
  <2>2. outages' \in [Services -> SUBSET Outage]
    BY <1>6, <2>1 DEF ApplyDown, MarkDetectedDown, TypeOK, Outage
  <2> QED BY <1>3, <1>4, <1>6, <2>2 DEF ApplyDown, Record, MarkDetectedDown, TypeOK, work
<1>7. ASSUME NEW s \in Services, NEW now \in Time, MarkDetectedUp(s, now)
      PROVE  outages' \in [Services -> SUBSET Outage] /\ detected' \subseteq Services
  <2>1. ASSUME NEW o \in Outage PROVE Closed(o, now) \in Outage
    BY DEF Closed, Outage, LaterOf
  <2> QED BY <1>7, <2>1 DEF MarkDetectedUp, TypeOK
<1>8. ASSUME NEW s \in Services, ApplyUp(s) PROVE TypeOK'
  <2>1. round.now \in Time
    BY DEF TypeOK, RoundType
  <2> QED BY <1>3, <1>4, <1>7, <1>8, <2>1
          DEF ApplyUp, Record, MarkDetectedUp, TypeOK, work, history
<1>9. ASSUME NEW s \in Services, ApplyError(s) PROVE TypeOK'
  BY <1>3, <1>4, <1>9 DEF ApplyError, Record, TypeOK, tables, work, history
<1>10. CASE TellDown
  <2>1. round' \in RoundType
    <3>1. round.telling \in Services
      BY <1>10 DEF TellDown, TypeOK, RoundType
    <3>2. <<"service_down", round.telling>> \in Changes
      BY <3>1 DEF Changes
    <3> DEFINE x == IF Untold(round.telling) THEN round.changes
                    ELSE round.changes \cup {<<"service_down", round.telling>>}
    <3>3. x \in SUBSET Changes /\ round.changes \in SUBSET Changes
      BY <3>2 DEF TypeOK, RoundType
    <3>4. ASSUME NEW y \in SUBSET Changes
          PROVE  [round EXCEPT !.telling = None, !.changes = y] \in RoundType
      BY DEF TypeOK, RoundType
    <3>5. [round EXCEPT !.telling = None] \in RoundType
      BY DEF TypeOK, RoundType
    <3>6. [round EXCEPT !.telling = None, !.changes = x] \in RoundType
      BY <3>3, <3>4
    <3> QED BY <1>10, <3>5, <3>6 DEF TellDown
  <2> QED BY <1>10, <2>1 DEF TellDown, TypeOK, tables, work, memory, history
<1>11. ASSUME NEW changes, Announce(changes)
       PROVE  told' \in [Services -> {None, "service_down", "service_up"}]
  BY <1>11 DEF Announce, TypeOK
<1>12. CASE EndRound
  BY <1>11, <1>12, RoundTypes DEF EndRound, TypeOK, tables, work, memory, history
<1>13. ASSUME NEW r \in Reporters, HandleReport(r) PROVE TypeOK'
  <2>0. report[r] \in ReportType /\ maintenance \in SUBSET Services
    BY DEF TypeOK
  <2>1. CASE StartReport(r)
    <3>1. report' \in [Reporters -> ReportType]
      BY <2>1, RoundTypes DEF StartReport, TypeOK, ReportType
    <3> QED BY <2>1, <3>1 DEF StartReport, TypeOK, tables, work, memory, history
  <2>2. CASE ReadMaintenance(r)
    <3>1. report' \in [Reporters -> ReportType]
      <4>1. [report[r] EXCEPT !.pc = "take", !.quiet = maintenance] \in ReportType
        BY <2>0 DEF ReportType
      <4> QED BY <2>2, <4>1 DEF ReadMaintenance, TypeOK
    <3> QED BY <2>2, <3>1 DEF ReadMaintenance, TypeOK, tables, work, memory, history
  <2>3. CASE TellReported(r)
    <3>1. report' \in [Reporters -> ReportType]
      <4>1. <<"service_down", report[r].telling>> \in Changes
        BY <2>3 DEF TellReported, TypeOK, ReportType, Changes
      <4>2. ASSUME NEW x \in SUBSET Changes
            PROVE  [report[r] EXCEPT !.telling = None, !.changes = x] \in ReportType
        BY <2>0 DEF ReportType
      <4>3. report[r].changes \in SUBSET Changes
        BY <2>0 DEF ReportType
      <4> DEFINE x == IF Untold(report[r].telling) THEN report[r].changes
                      ELSE report[r].changes
                             \cup {<<"service_down", report[r].telling>>}
      <4>4. x \in SUBSET Changes
        BY <4>1, <4>3
      <4>5. [report[r] EXCEPT !.telling = None, !.changes = x] \in ReportType
        BY <4>2, <4>4
      <4> QED BY <2>3, <4>5, ReportUpdate DEF TellReported
    <3> QED BY <2>3, <3>1 DEF TellReported, TypeOK, tables, work, memory, history
  <2>4. CASE FinishReport(r)
    BY <1>11, <2>4, RoundTypes DEF FinishReport, TypeOK, tables, work, memory, history
  <2>5. ASSUME NEW s \in Services, TakeDown(r, s) PROVE TypeOK'
    <3>1. report' \in [Reporters -> ReportType]
      <4>1. [report[r] EXCEPT !.telling = s, !.changed = @ \cup {s}] \in ReportType
        BY <2>0 DEF ReportType
      <4> QED BY <2>5, <4>1, ReportUpdate DEF TakeDown
    <3>2. report[r].now \in Time /\ NoTime \in Time
      BY MonitoringAssumption DEF TypeOK, ReportType, NoTime, Time
    <3>3. outages' \in [Services -> SUBSET Outage]
      BY <2>5, <3>2 DEF TakeDown, MarkDetectedDown, TypeOK, Outage
    <3> QED BY <2>5, <3>1, <3>3 DEF TakeDown, MarkDetectedDown, TypeOK, work, memory
  <2>6. ASSUME NEW s \in Services, TakeUp(r, s) PROVE TypeOK'
    <3>1. report' \in [Reporters -> ReportType]
      <4>1. <<"service_up", s>> \in Changes
        BY DEF Changes
      <4> DEFINE services == report[r].changed \cup {s}
                 changes == report[r].changes \cup {<<"service_up", s>>}
      <4>2. report[r] \in ReportType
        BY DEF TypeOK
      <4>3. services \in SUBSET Services /\ changes \in SUBSET Changes
        BY <4>1, <4>2 DEF ReportType
      <4>4. report' = [report EXCEPT ![r] = [report[r] EXCEPT !.changed = services,
                                                            !.changes = changes]]
        BY <2>6 DEF TakeUp
      <4> HIDE DEF services, changes
      <4>5. [report[r] EXCEPT !.changed = services, !.changes = changes] \in ReportType
        BY <4>2, <4>3 DEF ReportType
      <4> QED BY <4>4, <4>5, ReportUpdate
    <3>2. report[r].now \in Time
      BY DEF TypeOK, ReportType
    <3> QED BY <1>7, <2>6, <3>1, <3>2
            DEF TakeUp, MarkDetectedUp, TypeOK, work, memory, history
  <2> QED BY <1>13, <2>1, <2>2, <2>3, <2>4, <2>5, <2>6 DEF HandleReport
<1>14. CASE Team
  <2>0. edits' \in 0..MaxEdits
    BY <1>14, MonitoringAssumption DEF Team, TypeOK
  <2>1. ASSUME NEW s \in Services, NEW c \in Checks \cup {None}, SetCheck(s, c)
        PROVE  TypeOK'
    BY <2>0, <2>1 DEF SetCheck, TypeOK, work, memory
  <2>2. ASSUME NEW s \in Services, NEW d \in Delays, SetOutageAfter(s, d)
        PROVE  TypeOK'
    BY <2>0, <2>2 DEF SetOutageAfter, TypeOK, work, memory, history
  <2>3. ASSUME NEW s \in Services, NEW o \in outages[s], EraseOutage(s, o)
        PROVE  TypeOK'
    BY <2>0, <2>3 DEF EraseOutage, TypeOK, work, memory, history
  <2>4. ASSUME NEW s \in Services, DeleteService(s) PROVE TypeOK'
    BY <2>0, <2>4 DEF DeleteService, TypeOK, work, memory, history
  <2>5. ASSUME NEW s \in Services, ToggleMaintenance(s) PROVE TypeOK'
    BY <2>0, <2>5 DEF ToggleMaintenance, TypeOK, tables, memory, history
  <2>6. ASSUME NEW s \in Services, ToggleIncident(s) PROVE TypeOK'
    BY <2>0, <2>6 DEF ToggleIncident, TypeOK, tables, memory, history
  <2> QED BY <1>14, <2>1, <2>2, <2>3, <2>4, <2>5, <2>6 DEF Team
<1>15. CASE Restart
  <2>1. NoStreak \in Streak
    BY MonitoringAssumption DEF NoStreak, Streak, NoTime, Time
  <2>2. streaks' \in [Services -> Streak] /\ report' \in [Reporters -> ReportType]
    BY <1>15, <2>1, RoundTypes DEF Restart
  <2>3. skipped' \in 0..MAX_SKIPPED_ROUNDS /\ round' \in RoundType
    BY <1>15, RoundTypes, MonitoringAssumption DEF Restart
  <2>4. offline' \in BOOLEAN
    BY <1>15 DEF Restart
  <2> QED BY <1>15, <2>2, <2>3, <2>4 DEF Restart, TypeOK, tables, work, history
<1>16. CASE UNCHANGED vars
  BY <1>16 DEF vars, TypeOK, tables, work, memory, history
<1> QED
  <2>1. CASE RunRound
    BY <2>1, <1>1, <1>2, <1>5, <1>6, <1>8, <1>9, <1>10, <1>12 DEF RunRound
  <2> QED BY <2>1, <1>13, <1>14, <1>15, <1>16 DEF Next

\* The program starts in a state of the right types.
LEMMA TypeInit == Init => TypeOK
<1> SUFFICES ASSUME Init PROVE TypeOK
  OBVIOUS
<1>1. NoStreak \in Streak /\ NoTime \in Time /\ 1 \in Time \ {NoTime}
  BY MonitoringAssumption DEF NoStreak, Streak, NoTime, Time
<1>2. offline \in BOOLEAN
  BY DEF Init
<1>3. /\ skipped \in 0..MAX_SKIPPED_ROUNDS /\ edits \in 0..MaxEdits
      /\ inARow \in [Services -> 0..MaxFailures]
  BY MonitoringAssumption DEF Init
<1> QED BY RoundTypes, <1>1, <1>2, <1>3 DEF Init, TypeOK

\* The types hold in every reachable state.
THEOREM TypeCorrect == Spec => []TypeOK
BY TypeInit, TypeStep, PTL DEF Spec

----------------------------------------------------------------------------
(* What each transaction does to the outages of every service.             *)

OutagesOK == DetectedIffOneOpenOutage /\ OutageEndsAfterItsStart

\* mark_detected_down opens the one outage of a service that had none open.
LEMMA DownKeepsOutages ==
  ASSUME TypeOK, OutagesOK, NEW s \in Services, NEW start, NEW source,
         CanMarkDown(s), MarkDetectedDown(s, start, source)
  PROVE  OutagesOK'
<1> DEFINE new == [start |-> start, end |-> NoTime, source |-> source]
<1>1. /\ outages'[s] = outages[s] \cup {new}
      /\ \A x \in Services \ {s} : outages'[x] = outages[x]
      /\ detected' = detected \cup {s}
  BY DEF MarkDetectedDown, TypeOK
<1>2. IsOpen(new)
  BY DEF IsOpen
<1>3. \A o \in outages[s] : ~IsOpen(o)
  BY DEF CanMarkDown, HasOpenOutage
<1> HIDE DEF new
<1>4. DetectedIffOneOpenOutage'
  BY <1>1, <1>2, <1>3
  DEF DetectedIffOneOpenOutage, HasOpenOutage, IsOpen, OutagesOK
<1>5. OutageEndsAfterItsStart'
  BY <1>1, <1>2, <1>3 DEF OutageEndsAfterItsStart, IsOpen, OutagesOK
<1> QED BY <1>4, <1>5 DEF OutagesOK

\* mark_detected_up ends that outage, at an instant that is one.
LEMMA UpKeepsOutages ==
  ASSUME TypeOK, OutagesOK, NEW s \in Services, NEW now \in Time \ {NoTime},
         MarkDetectedUp(s, now)
  PROVE  OutagesOK'
<1>1. /\ outages'[s] = {Closed(o, now) : o \in outages[s]}
      /\ \A x \in Services \ {s} : outages'[x] = outages[x]
      /\ detected' = detected \ {s}
  BY DEF MarkDetectedUp, TypeOK
<1>2. ASSUME NEW o \in outages[s]
      PROVE  /\ ~IsOpen(Closed(o, now))
             /\ Closed(o, now).start <= Closed(o, now).end
  <2>1. o.start \in Nat /\ o.end \in Nat /\ now \in Nat /\ now # 0
    BY DEF TypeOK, Outage, Time, NoTime
  <2>2. CASE IsOpen(o)
    <3>1. Closed(o, now) = [o EXCEPT !.end = LaterOf(o.start, now)]
      BY <2>2 DEF Closed
    <3>2. o \in Outage
      BY DEF TypeOK
    <3>3. /\ Closed(o, now).start = o.start
          /\ Closed(o, now).end = LaterOf(o.start, now)
      BY <3>1, <3>2 DEF Outage
    <3> QED BY <2>1, <3>3 DEF IsOpen, LaterOf, NoTime
  <2>3. CASE ~IsOpen(o)
    BY <2>3 DEF Closed, OutagesOK, OutageEndsAfterItsStart
  <2> QED BY <2>2, <2>3
<1>3. DetectedIffOneOpenOutage'
  BY <1>1, <1>2 DEF DetectedIffOneOpenOutage, HasOpenOutage, IsOpen, OutagesOK
<1>4. OutageEndsAfterItsStart'
  BY <1>1, <1>2 DEF OutageEndsAfterItsStart, IsOpen, OutagesOK
<1> QED BY <1>3, <1>4 DEF OutagesOK

\* An edited check erases the outage under way, a deletion every outage, a
\* correction an ended one.
LEMMA TeamKeepsOutages ==
  ASSUME TypeOK, OutagesOK, Team
  PROVE  OutagesOK'
<1> USE DEF OutagesOK
<1>1. ASSUME NEW s \in Services, NEW c, SetCheck(s, c) PROVE OutagesOK'
  BY <1>1 DEF SetCheck, TypeOK, DetectedIffOneOpenOutage, HasOpenOutage, IsOpen,
              OutageEndsAfterItsStart
<1>2. ASSUME NEW s \in Services, NEW o \in outages[s], EraseOutage(s, o)
      PROVE  OutagesOK'
  BY <1>2 DEF EraseOutage, TypeOK, DetectedIffOneOpenOutage, HasOpenOutage,
              IsOpen, OutageEndsAfterItsStart
<1>3. ASSUME NEW s \in Services, DeleteService(s) PROVE OutagesOK'
  BY <1>3 DEF DeleteService, TypeOK, DetectedIffOneOpenOutage, HasOpenOutage,
              IsOpen, OutageEndsAfterItsStart
<1>4. CASE UNCHANGED <<detected, outages>>
  BY <1>4 DEF DetectedIffOneOpenOutage, HasOpenOutage, IsOpen,
              OutageEndsAfterItsStart
<1>5. \A s \in Services :
        \/ \E d \in Delays : SetOutageAfter(s, d)
        \/ ToggleMaintenance(s)
        \/ ToggleIncident(s)
        => UNCHANGED <<detected, outages>>
  BY DEF SetOutageAfter, ToggleMaintenance, ToggleIncident, tables
<1> QED BY <1>1, <1>2, <1>3, <1>4, <1>5 DEF Team

\* A round or a report under way has read the clock.
LEMMA ClockStep ==
  TypeOK /\ ClockWasRead /\ [Next]_vars => ClockWasRead'
<1> SUFFICES ASSUME TypeOK, ClockWasRead, [Next]_vars PROVE ClockWasRead'
  OBVIOUS
<1> USE DEF ClockWasRead
<1>0. IdleRound.pc = "idle" /\ IdleReport.pc = "idle"
  BY DEF IdleRound, IdleReport
<1>1. CASE ListChecked
  <2>1. (IF clock < MaxClock THEN clock + 1 ELSE clock) # NoTime
    BY MonitoringAssumption DEF TypeOK, Time, NoTime
  <2> QED BY <1>1, <2>1 DEF ListChecked, IdleRound
<1>2. ASSUME NEW answered, NEW failed, NEW lost, ProbeAll(answered, failed, lost)
      PROVE  ClockWasRead'
  BY <1>0, <1>2 DEF ProbeAll, TypeOK, RoundType
<1>3. ASSUME NEW s \in Services,
             ApplyStay(s) \/ ApplyDown(s) \/ ApplyUp(s) \/ ApplyError(s)
      PROVE  ClockWasRead'
  BY <1>3 DEF ApplyStay, ApplyDown, ApplyUp, ApplyError, Record, Judged, TypeOK,
              RoundType
<1>4. CASE TellDown \/ EndRound
  BY <1>0, <1>4 DEF TellDown, EndRound, TypeOK, RoundType
<1>5. ASSUME NEW r \in Reporters, HandleReport(r) PROVE ClockWasRead'
  <2>1. CASE StartReport(r)
    BY <2>1 DEF StartReport, IdleReport, TypeOK
  <2>2. CASE FinishReport(r)
    BY <1>0, <2>2 DEF FinishReport, TypeOK
  <2>3. CASE ReadMaintenance(r)
    BY <2>3 DEF ReadMaintenance, TypeOK, ReportType
  <2>4. CASE TellReported(r)
    BY <2>4 DEF TellReported, TypeOK, ReportType
  <2>5. ASSUME NEW s \in Services, TakeDown(r, s) PROVE ClockWasRead'
    BY <2>5 DEF TakeDown, TypeOK, ReportType
  <2>6. ASSUME NEW s \in Services, TakeUp(r, s) PROVE ClockWasRead'
    BY <2>6 DEF TakeUp, TypeOK, ReportType
  <2> QED BY <1>5, <2>1, <2>2, <2>3, <2>4, <2>5, <2>6 DEF HandleReport
<1>6. CASE Team
  BY <1>6 DEF Team, SetCheck, SetOutageAfter, EraseOutage, DeleteService,
              ToggleMaintenance, ToggleIncident
<1>7. CASE Restart
  BY <1>0, <1>7 DEF Restart
<1>8. CASE UNCHANGED vars
  BY <1>8 DEF vars
<1> QED
  <2>1. CASE RunRound
    BY <2>1, <1>1, <1>2, <1>3, <1>4 DEF RunRound
  <2> QED BY <2>1, <1>5, <1>6, <1>7, <1>8 DEF Next

\* Every step keeps the detected states and the outages in agreement.
LEMMA OutagesStep ==
  TypeOK /\ ClockWasRead /\ OutagesOK /\ [Next]_vars => OutagesOK'
<1> SUFFICES ASSUME TypeOK, ClockWasRead, OutagesOK, [Next]_vars PROVE OutagesOK'
  OBVIOUS
<1>1. CASE UNCHANGED <<detected, outages>>
  BY <1>1 DEF OutagesOK, DetectedIffOneOpenOutage, HasOpenOutage, IsOpen,
              OutageEndsAfterItsStart
<1>2. ASSUME NEW s \in Services, ApplyDown(s) PROVE OutagesOK'
  BY <1>2, DownKeepsOutages DEF ApplyDown
<1>3. ASSUME NEW s \in Services, ApplyUp(s) PROVE OutagesOK'
  <2>1. round.now \in Time \ {NoTime}
    BY <1>3 DEF ApplyUp, Record, ClockWasRead, TypeOK, RoundType
  <2> QED BY <1>3, <2>1, UpKeepsOutages DEF ApplyUp
<1>4. ASSUME NEW r \in Reporters, NEW s \in Services, TakeDown(r, s)
      PROVE  OutagesOK'
  BY <1>4, DownKeepsOutages DEF TakeDown
<1>5. ASSUME NEW r \in Reporters, NEW s \in Services, TakeUp(r, s)
      PROVE  OutagesOK'
  <2>1. report[r].now \in Time \ {NoTime}
    BY <1>5 DEF TakeUp, Applies, ClockWasRead, TypeOK, ReportType
  <2> QED BY <1>5, <2>1, UpKeepsOutages DEF TakeUp
<1>6. CASE Team
  BY <1>6, TeamKeepsOutages
<1>7. CASE RunRound
  <2>1. \A s \in Services : ApplyStay(s) \/ ApplyError(s)
          => UNCHANGED <<detected, outages>>
    BY DEF ApplyStay, ApplyError, tables
  <2>2. \A answered, failed, lost : ProbeAll(answered, failed, lost)
          => UNCHANGED <<detected, outages>>
    BY DEF ProbeAll, tables
  <2>3. ListChecked \/ TellDown \/ EndRound => UNCHANGED <<detected, outages>>
    BY DEF ListChecked, TellDown, EndRound, tables
  <2> QED BY <1>1, <1>2, <1>3, <1>7, <2>1, <2>2, <2>3 DEF RunRound
<1>8. ASSUME NEW r \in Reporters, HandleReport(r) PROVE OutagesOK'
  <2>1. StartReport(r) \/ ReadMaintenance(r) \/ TellReported(r) \/ FinishReport(r)
          => UNCHANGED <<detected, outages>>
    BY DEF StartReport, ReadMaintenance, TellReported, FinishReport, tables
  <2> QED BY <1>1, <1>4, <1>5, <1>8, <2>1 DEF HandleReport
<1>9. Restart \/ UNCHANGED vars => UNCHANGED <<detected, outages>>
  BY DEF Restart, vars, tables
<1> QED BY <1>1, <1>6, <1>7, <1>8, <1>9 DEF Next

\* Every step keeps the inductive invariant.
LEMMA InvStep == OutagesInv /\ [Next]_vars => OutagesInv'
BY TypeStep, ClockStep, OutagesStep DEF OutagesInv, OutagesOK

\* The inductive invariant holds at the start.
LEMMA InvInit == Init => OutagesInv
<1> SUFFICES ASSUME Init PROVE OutagesInv
  OBVIOUS
<1>1. TypeOK
  BY TypeInit
<1>2. ClockWasRead
  BY DEF Init, ClockWasRead, IdleRound, IdleReport
<1>3. DetectedIffOneOpenOutage /\ OutageEndsAfterItsStart
  BY DEF Init, DetectedIffOneOpenOutage, HasOpenOutage, OutageEndsAfterItsStart
<1> QED BY <1>1, <1>2, <1>3 DEF OutagesInv

\* For any services, checks and concurrent reports: a service has a detected
\* state exactly while one outage of it is under way.
THEOREM DetectionIsConsistent == Spec => []DetectedIffOneOpenOutage
<1>1. OutagesInv => DetectedIffOneOpenOutage
  BY DEF OutagesInv
<1> QED BY <1>1, InvInit, InvStep, PTL DEF Spec

\* For any interleaving, no outage ends before it started.
THEOREM OutagesEndAfterTheyStart == Spec => []OutageEndsAfterItsStart
<1>1. OutagesInv => OutageEndsAfterItsStart
  BY DEF OutagesInv
<1> QED BY <1>1, InvInit, InvStep, PTL DEF Spec

----------------------------------------------------------------------------
(* The failures that lead to an outage.                                    *)

\* Outside its application, a round has nothing to judge or to tell.
RoundShape ==
  round.pc # "apply" =>
    round.todo = {} /\ round.telling = None /\ round.changes = {}

\* The count kept for a service never runs ahead of the failed checks seen
\* since its last answer: that of a service still to be judged will not
\* either, and the one just declared down has failed as often as its delay.
FailuresCounted ==
  /\ \A s \in Services :
       IF s \in round.todo THEN NextFailures(s) <= inARow[s]
       ELSE streaks[s].failures <= inARow[s]
  /\ round.telling # None => inARow[round.telling] >= round.delay[round.telling]

FailuresInv == TypeOK /\ RoundShape /\ FailuresCounted

\* The fields of a round after each of its steps.
LEMMA RoundFields ==
  ASSUME TypeOK, NEW s \in Services
  PROVE  /\ Judged(s).pc = round.pc /\ Judged(s).now = round.now
         /\ Judged(s).todo = round.todo \ {s} /\ Judged(s).failed = round.failed
         /\ Judged(s).telling = round.telling /\ Judged(s).delay = round.delay
         /\ Judged(s).changes = round.changes /\ Judged(s).quiet = round.quiet
         /\ Judged(s).detected = round.detected
         /\ Judged(s) \in RoundType
BY DEF Judged, TypeOK, RoundType

\* What the four ways of applying a result share: the service is judged, the
\* streak recorded, nothing else of the round changes but what it tells.
ApplyStep(s) == ApplyStay(s) \/ ApplyDown(s) \/ ApplyUp(s) \/ ApplyError(s)

LEMMA AppliedFields ==
  ASSUME TypeOK, NEW s \in Services, ApplyStep(s)
  PROVE  /\ round.pc = "apply" /\ s \in round.todo /\ round.telling = None
         /\ round'.pc = "apply" /\ round'.now = round.now
         /\ round'.todo = round.todo \ {s} /\ round'.failed = round.failed
         /\ round'.delay = round.delay
         /\ streaks' = [streaks EXCEPT ![s] = RecordedStreak(s)]
         /\ clock' = clock /\ inARow' = inARow /\ told' = told
         /\ present' = present
<1>1. /\ round.pc = "apply" /\ s \in round.todo /\ round.telling = None
      /\ streaks' = [streaks EXCEPT ![s] = RecordedStreak(s)]
      /\ clock' = clock /\ inARow' = inARow /\ told' = told /\ present' = present
  BY DEF ApplyStep, ApplyStay, ApplyDown, ApplyUp, ApplyError, Record, history,
         tables, MarkDetectedDown, MarkDetectedUp
<1>2. \/ round' = Judged(s)
      \/ round' = [Judged(s) EXCEPT !.telling = s]
      \/ round' = [Judged(s) EXCEPT !.changes = @ \cup {<<"service_up", s>>}]
  BY DEF ApplyStep, ApplyStay, ApplyDown, ApplyUp, ApplyError
<1>3. ASSUME NEW x \in RoundType, NEW y, NEW z
      PROVE  /\ [x EXCEPT !.telling = y].pc = x.pc
             /\ [x EXCEPT !.telling = y].now = x.now
             /\ [x EXCEPT !.telling = y].todo = x.todo
             /\ [x EXCEPT !.telling = y].failed = x.failed
             /\ [x EXCEPT !.telling = y].delay = x.delay
             /\ [x EXCEPT !.changes = z].pc = x.pc
             /\ [x EXCEPT !.changes = z].now = x.now
             /\ [x EXCEPT !.changes = z].todo = x.todo
             /\ [x EXCEPT !.changes = z].failed = x.failed
             /\ [x EXCEPT !.changes = z].delay = x.delay
  BY DEF RoundType
<1>4. CASE round' = Judged(s)
  BY <1>1, <1>4, RoundFields
<1>5. CASE round' = [Judged(s) EXCEPT !.telling = s]
  BY <1>1, <1>3, <1>5, RoundFields
<1>6. CASE round' = [Judged(s) EXCEPT !.changes = Judged(s).changes \cup {<<"service_up", s>>}]
  BY <1>1, <1>3, <1>6, RoundFields
<1> QED BY <1>2, <1>4, <1>5, <1>6

\* The end of a round and the first reading of the next.
LEMMA IdleFields ==
  /\ IdleRound.pc = "idle" /\ IdleRound.todo = {}
  /\ IdleRound.telling = None /\ IdleRound.changes = {}
BY DEF IdleRound

\* The steps of the reports, of the team and of no one leave the round and
\* what it counts alone.
LEMMA OthersLeaveTheRound ==
  ASSUME TypeOK,
         \/ \E r \in Reporters : HandleReport(r)
         \/ Team
         \/ UNCHANGED vars
  PROVE  round' = round /\ streaks' = streaks /\ inARow' = inARow
         /\ quietAt' = quietAt /\ clock' = clock
<1>1. ASSUME NEW r \in Reporters, HandleReport(r)
      PROVE  round' = round /\ streaks' = streaks /\ inARow' = inARow
             /\ quietAt' = quietAt /\ clock' = clock
  BY <1>1 DEF HandleReport, StartReport, ReadMaintenance, TellReported,
              FinishReport, TakeDown, TakeUp, MarkDetectedDown, MarkDetectedUp,
              memory, history
<1>2. CASE Team
  BY <1>2 DEF Team, SetCheck, SetOutageAfter, EraseOutage, DeleteService,
              ToggleMaintenance, ToggleIncident, memory, history
<1>3. CASE UNCHANGED vars
  BY <1>3 DEF vars, memory, history
<1> QED BY <1>1, <1>2, <1>3

\* A round that is not applying its results has nothing to judge or tell.
LEMMA ShapeStep == TypeOK /\ RoundShape /\ [Next]_vars => RoundShape'
<1> SUFFICES ASSUME TypeOK, RoundShape, [Next]_vars PROVE RoundShape'
  OBVIOUS
<1> USE DEF RoundShape
<1>1. CASE ListChecked
  BY <1>1 DEF ListChecked, IdleRound
<1>2. ASSUME NEW answered, NEW failed, NEW lost, ProbeAll(answered, failed, lost)
      PROVE  RoundShape'
  BY <1>2, IdleFields DEF ProbeAll, TypeOK, RoundType
<1>3. ASSUME NEW s \in Services, ApplyStep(s) PROVE RoundShape'
  BY <1>3, AppliedFields
<1>4. CASE TellDown
  BY <1>4 DEF TellDown, TypeOK, RoundType
<1>5. CASE EndRound \/ Restart
  BY <1>5, IdleFields DEF EndRound, Restart
<1>6. CASE (\E r \in Reporters : HandleReport(r)) \/ Team \/ UNCHANGED vars
  BY <1>6, OthersLeaveTheRound
<1>7. CASE RunRound
  BY <1>1, <1>2, <1>3, <1>4, <1>5, <1>7 DEF RunRound, ApplyStep
<1> QED BY <1>5, <1>6, <1>7 DEF Next

\* Every step keeps the counts at or below the failures seen.
LEMMA FailuresStep ==
  TypeOK /\ RoundShape /\ FailuresCounted /\ [Next]_vars => FailuresCounted'
<1> SUFFICES ASSUME TypeOK, RoundShape, FailuresCounted, [Next]_vars
             PROVE  FailuresCounted'
  OBVIOUS
<1>0. /\ \A s \in Services : /\ streaks[s].failures \in 0..MaxFailures
                             /\ inARow[s] \in 0..MaxFailures
      /\ MaxFailures \in Nat
  BY MonitoringAssumption DEF TypeOK, Streak
<1>1. CASE ListChecked
  <2>1. round.todo = {} /\ round.telling = None
    BY <1>1 DEF ListChecked, RoundShape
  <2>2. round'.todo = {} /\ round'.telling = None
    BY <1>1, <2>1 DEF ListChecked, IdleRound
  <2>3. \A s \in Services : streaks'[s].failures = 0
                            \/ streaks'[s].failures = streaks[s].failures
    BY <1>1 DEF ListChecked, NoStreak
  <2>4. inARow' = inARow
    BY <1>1 DEF ListChecked, history
  <2> QED BY <1>0, <2>1, <2>2, <2>3, <2>4 DEF FailuresCounted
<1>2. ASSUME NEW answered \in SUBSET round.listed, NEW failed \in SUBSET round.listed,
             answered \cap failed = {}, NEW lost, ProbeAll(answered, failed, lost)
      PROVE  FailuresCounted'
  <2>1. round.todo = {} /\ round.telling = None /\ streaks' = streaks
    BY <1>2 DEF ProbeAll, RoundShape
  <2>2. \A s \in Services : streaks[s].failures <= inARow[s]
    BY <2>1 DEF FailuresCounted
  <2> DEFINE ignored == LooksLikeNetworkLoss(answered \cup failed, lost)
                        \/ SkipRound(LooksLikeOwnFailure(answered \cup failed, failed))
  <2>3. inARow' = [s \in Services |->
                     IF s \in (IF ignored THEN {} ELSE answered) THEN 0
                     ELSE IF s \in failed /\ inARow[s] < MaxFailures
                          THEN inARow[s] + 1 ELSE inARow[s]]
    BY <1>2 DEF ProbeAll
  <2>4. round' = IF ignored THEN IdleRound
                 ELSE [round EXCEPT !.pc = "apply", !.quiet = maintenance,
                         !.failed = failed, !.todo = answered \cup failed]
    BY <1>2 DEF ProbeAll
  <2> HIDE DEF ignored
  <2>5. CASE ignored
    <3>1. round'.todo = {} /\ round'.telling = None
      BY <2>4, <2>5, IdleFields
    <3>2. \A s \in Services : inARow'[s] >= inARow[s] /\ inARow'[s] \in Nat
      BY <1>0, <2>3, <2>5
    <3>3. \A s \in Services : streaks[s].failures <= inARow'[s]
      BY <1>0, <2>2, <3>2
    <3> QED BY <2>1, <3>1, <3>3 DEF FailuresCounted
  <2>6. CASE ~ignored
    <3>1. round'.todo = answered \cup failed /\ round'.failed = failed
          /\ round'.telling = None
      BY <2>1, <2>4, <2>6 DEF TypeOK, RoundType
    <3>2. ASSUME NEW s \in Services, s \in failed PROVE NextFailures(s)' <= inARow'[s]
      <4>1. inARow'[s] = IF inARow[s] < MaxFailures THEN inARow[s] + 1 ELSE inARow[s]
        BY <1>2, <2>3, <3>2
      <4>2. NextFailures(s)' = IF streaks[s].failures = MaxFailures THEN MaxFailures
                               ELSE streaks[s].failures + 1
        BY <2>1, <3>1, <3>2 DEF NextFailures
      <4>3. /\ streaks[s].failures \in 0..MaxFailures
            /\ inARow[s] \in 0..MaxFailures
            /\ streaks[s].failures <= inARow[s]
        BY <1>0, <2>2
      <4> QED BY <1>0, <4>1, <4>2, <4>3
    <3>3. ASSUME NEW s \in Services, s \in answered PROVE NextFailures(s)' <= inARow'[s]
      <4>1. NextFailures(s)' = 0 /\ inARow'[s] = 0
        BY <1>2, <2>3, <2>6, <3>1, <3>3 DEF NextFailures
      <4> QED BY <4>1
    <3>4. ASSUME NEW s \in Services, s \notin answered \cup failed
          PROVE  streaks'[s].failures <= inARow'[s]
      BY <2>1, <2>2, <2>3, <2>6, <3>4
    <3> QED BY <3>1, <3>2, <3>3, <3>4 DEF FailuresCounted
  <2> QED BY <2>5, <2>6
<1>3. ASSUME NEW s \in Services, ApplyStep(s) PROVE FailuresCounted'
  <2>1. NextFailures(s) <= inARow[s]
    BY <1>3, AppliedFields DEF FailuresCounted
  <2>2. /\ \A x \in Services \ {s} : streaks'[x] = streaks[x]
        /\ streaks'[s].failures = NextFailures(s)
    <3>1. RecordedStreak(s).failures = NextFailures(s)
      BY DEF RecordedStreak, NoStreak
    <3> QED BY <1>3, <3>1, AppliedFields DEF TypeOK
  <2>3. ASSUME NEW x \in Services \ {s} PROVE NextFailures(x)' = NextFailures(x)
    BY <1>3, <2>2, AppliedFields DEF NextFailures
  <2>4. /\ round'.todo = round.todo \ {s} /\ inARow' = inARow
        /\ round'.delay = round.delay /\ round.telling = None
    BY <1>3, AppliedFields
  <2>5. \A x \in Services : IF x \in round'.todo THEN NextFailures(x)' <= inARow'[x]
                            ELSE streaks'[x].failures <= inARow'[x]
    BY <2>1, <2>2, <2>3, <2>4 DEF FailuresCounted
  <2>6. round'.telling # None => inARow'[round'.telling] >= round'.delay[round'.telling]
    <3>1. CASE ApplyDown(s)
      <4>1. round'.telling = s
        BY <3>1, RoundFields DEF ApplyDown, RoundType
      <4>2. NextFailures(s) >= round.delay[s]
        BY <3>1 DEF ApplyDown, NextTransition
      <4>3. NextFailures(s) \in Int /\ inARow[s] \in Int /\ round.delay[s] \in Int
        <5>1. NextFailures(s) \in 0..MaxFailures /\ inARow[s] \in 0..MaxFailures
          BY StreakType DEF TypeOK
        <5>2. round.delay[s] \in Delays
          BY DEF TypeOK, RoundType
        <5>3. round.delay[s] \in 1..MaxFailures
          BY <5>2, DelayBounds
        <5> QED BY <5>1, <5>3, DelayBounds
      <4> QED BY <2>1, <2>4, <4>1, <4>2, <4>3
    <3>2. CASE ApplyStay(s) \/ ApplyUp(s) \/ ApplyError(s)
      <4>1. round'.telling = round.telling
        BY <3>2, RoundFields DEF ApplyStay, ApplyUp, ApplyError, RoundType
      <4> QED BY <2>4, <4>1
    <3> QED BY <1>3, <3>1, <3>2 DEF ApplyStep
  <2> QED BY <2>5, <2>6 DEF FailuresCounted
<1>4. CASE TellDown
  <2>1. /\ round'.todo = round.todo /\ round'.failed = round.failed
        /\ round'.telling = None /\ streaks' = streaks /\ inARow' = inARow
    BY <1>4 DEF TellDown, TypeOK, RoundType, memory, history
  <2> QED BY <2>1 DEF FailuresCounted, NextFailures
<1>5. CASE EndRound
  <2>1. round'.todo = {} /\ round'.telling = None /\ round.todo = {}
        /\ streaks' = streaks /\ inARow' = inARow
    BY <1>5, IdleFields DEF EndRound, memory, history
  <2> QED BY <2>1 DEF FailuresCounted
<1>6. CASE Restart
  <2>1. round'.todo = {} /\ round'.telling = None /\ inARow' = inARow
        /\ \A s \in Services : streaks'[s].failures = 0
    BY <1>6, IdleFields DEF Restart, history, NoStreak
  <2> QED BY <1>0, <2>1 DEF FailuresCounted
<1>7. CASE (\E r \in Reporters : HandleReport(r)) \/ Team \/ UNCHANGED vars
  BY <1>7, OthersLeaveTheRound DEF FailuresCounted, NextFailures
<1>8. CASE RunRound
  BY <1>1, <1>2, <1>3, <1>4, <1>5, <1>8 DEF RunRound, ApplyStep
<1> QED BY <1>6, <1>7, <1>8 DEF Next

\* For any delays, reports, edits and restarts, a service the round has just
\* declared down failed as many checks as its delay since its last answer.
THEOREM OutageTakesItsDelay == Spec => []OutageAfterFailuresInARow
<1>1. Init => FailuresInv
  <2> SUFFICES ASSUME Init PROVE RoundShape /\ FailuresCounted
    BY TypeInit DEF FailuresInv
  <2> QED BY IdleFields DEF Init, RoundShape, FailuresCounted, NoStreak
<1>2. FailuresInv /\ [Next]_vars => FailuresInv'
  BY TypeStep, ShapeStep, FailuresStep DEF FailuresInv
<1>3. FailuresInv => OutageAfterFailuresInARow
  BY DEF FailuresInv, FailuresCounted, OutageAfterFailuresInARow
<1> QED BY <1>1, <1>2, <1>3, PTL DEF Spec

----------------------------------------------------------------------------
(* What a maintenance hides never dates an outage.                         *)

\* The rounds take instants of their own, so that what a round still has to
\* judge it judges later than every failure hidden by a maintenance, and a
\* streak that is dated began after the last of them.
QuietIsBehind ==
  /\ round.pc # "idle" => round.now <= clock
  /\ \A s \in Services :
       /\ quietAt[s] <= clock
       /\ round.pc = "probe" \/ s \in round.todo => quietAt[s] < round.now
       /\ streaks[s].since # NoTime => quietAt[s] < streaks[s].since

QuietInv == OutagesInv /\ RoundShape /\ QuietIsBehind

\* The streak recorded for a service that failed outside a maintenance is
\* dated after every failure a maintenance hid.
LEMMA DatedAfterQuiet ==
  ASSUME TypeOK, QuietIsBehind, NEW s \in Services, s \in round.todo
  PROVE  RecordedStreak(s).since # NoTime => quietAt[s] < RecordedStreak(s).since
<1>1. quietAt[s] < round.now
  BY DEF QuietIsBehind
<1>2. streaks[s].since # NoTime => quietAt[s] < streaks[s].since
  BY DEF QuietIsBehind
<1>3. /\ NextFailures(s) = 0 => RecordedStreak(s).since = NoTime
      /\ NextFailures(s) # 0 =>
           RecordedStreak(s).since = IF s \in round.quiet THEN NoTime
                                     ELSE IF streaks[s].since = NoTime THEN round.now
                                     ELSE streaks[s].since
  BY DEF RecordedStreak, NoStreak
<1> QED BY <1>1, <1>2, <1>3

\* Every step keeps the failures hidden by a maintenance behind the rounds.
LEMMA QuietStep ==
  ASSUME ClockStops
  PROVE  TypeOK /\ RoundShape /\ QuietIsBehind /\ [Next]_vars => QuietIsBehind'
<1> SUFFICES ASSUME TypeOK, RoundShape, QuietIsBehind, [Next]_vars
             PROVE  QuietIsBehind'
  OBVIOUS
<1>0. /\ clock \in Nat /\ MaxClock \in Nat
      /\ round.now \in Nat
      /\ \A s \in Services : quietAt[s] \in Nat /\ streaks[s].since \in Nat
  BY MonitoringAssumption DEF TypeOK, RoundType, Streak, Time, NoTime
<1>1. CASE ListChecked
  <2>1. clock' = clock + 1 /\ quietAt' = quietAt
    BY <1>1 DEF ListChecked, history
  <2>2. \/ round' = round /\ round.pc = "idle"
        \/ round'.pc = "probe" /\ round'.now = clock' /\ round'.todo = {}
    BY <1>1 DEF ListChecked, IdleRound
  <2>3. \A s \in Services : streaks'[s].since = NoTime \/ streaks'[s] = streaks[s]
    BY <1>1 DEF ListChecked, NoStreak
  <2>4. \A s \in Services : quietAt[s] <= clock
                            /\ (streaks[s].since # NoTime => quietAt[s] < streaks[s].since)
    BY DEF QuietIsBehind
  <2>5. round.pc = "idle" => round.todo = {}
    BY DEF RoundShape
  <2>6. CASE round' = round /\ round.pc = "idle"
    BY <1>0, <2>1, <2>3, <2>4, <2>5, <2>6 DEF QuietIsBehind
  <2>7. CASE round'.pc = "probe" /\ round'.now = clock' /\ round'.todo = {}
    BY <1>0, <2>1, <2>3, <2>4, <2>7 DEF QuietIsBehind
  <2> QED BY <2>2, <2>6, <2>7
<1>2. ASSUME NEW answered, NEW failed, NEW lost, ProbeAll(answered, failed, lost)
      PROVE  QuietIsBehind'
  <2>1. streaks' = streaks /\ quietAt' = quietAt /\ clock' = clock /\ round.pc = "probe"
    BY <1>2 DEF ProbeAll
  <2>2. \/ round'.pc = "idle" /\ round'.todo = {}
        \/ round'.pc = "apply" /\ round'.now = round.now
    BY <1>2, IdleFields DEF ProbeAll, TypeOK, RoundType
  <2> QED BY <2>1, <2>2 DEF QuietIsBehind
<1>3. ASSUME NEW s \in Services, ApplyStep(s) PROVE QuietIsBehind'
  <2>1. /\ \A x \in Services \ {s} : streaks'[x] = streaks[x]
        /\ streaks'[s] = RecordedStreak(s)
    BY <1>3, AppliedFields DEF TypeOK
  <2>2. /\ clock' = clock /\ round'.now = round.now /\ round'.pc = "apply"
        /\ round.pc = "apply" /\ round'.todo = round.todo \ {s} /\ s \in round.todo
    BY <1>3, AppliedFields
  <2>3. \/ quietAt' = quietAt
        \/ /\ quietAt' = [quietAt EXCEPT ![s] = round.now]
           /\ RecordedStreak(s).since = NoTime
    <3>1. CASE ApplyStay(s)
      <4>1. CASE s \in round.failed \cap round.quiet
        BY <3>1, <4>1 DEF ApplyStay, RecordedStreak, NoStreak
      <4> QED BY <3>1, <4>1 DEF ApplyStay
    <3>2. CASE ApplyDown(s) \/ ApplyUp(s) \/ ApplyError(s)
      BY <3>2 DEF ApplyDown, ApplyUp, ApplyError, MarkDetectedDown, MarkDetectedUp,
                  history
    <3> QED BY <1>3, <3>1, <3>2 DEF ApplyStep
  <2>4. RecordedStreak(s).since # NoTime => quietAt[s] < RecordedStreak(s).since
    BY <2>2, DatedAfterQuiet
  <2>5. CASE quietAt' = quietAt
    BY <2>1, <2>2, <2>4, <2>5 DEF QuietIsBehind
  <2>6. CASE /\ quietAt' = [quietAt EXCEPT ![s] = round.now]
             /\ RecordedStreak(s).since = NoTime
    <3>1. /\ quietAt'[s] = round.now
          /\ \A x \in Services \ {s} : quietAt'[x] = quietAt[x]
      BY <2>6 DEF TypeOK
    <3> QED BY <2>1, <2>2, <2>6, <3>1 DEF QuietIsBehind
  <2> QED BY <2>3, <2>5, <2>6
<1>4. CASE TellDown
  <2>1. /\ round'.todo = round.todo /\ round'.pc = round.pc /\ round'.now = round.now
        /\ streaks' = streaks /\ quietAt' = quietAt /\ clock' = clock
    BY <1>4 DEF TellDown, TypeOK, RoundType, memory, history
  <2> QED BY <2>1 DEF QuietIsBehind
<1>5. CASE EndRound \/ Restart
  <2>1. round'.todo = {} /\ round'.pc = "idle" /\ quietAt' = quietAt /\ clock' = clock
    BY <1>5, IdleFields DEF EndRound, Restart, history
  <2>2. \A s \in Services : streaks'[s].since = NoTime \/ streaks'[s] = streaks[s]
    BY <1>5 DEF EndRound, Restart, memory, NoStreak
  <2> QED BY <2>1, <2>2 DEF QuietIsBehind
<1>6. CASE (\E r \in Reporters : HandleReport(r)) \/ Team \/ UNCHANGED vars
  BY <1>6, OthersLeaveTheRound DEF QuietIsBehind
<1>7. CASE RunRound
  BY <1>1, <1>2, <1>3, <1>4, <1>5, <1>7 DEF RunRound, ApplyStep
<1> QED BY <1>5, <1>6, <1>7 DEF Next

\* An outage that is under way after a step and was not before is the one
\* mark_detected_down has just opened.
LEMMA NewOutage ==
  ASSUME OutagesInv, [Next]_vars, NEW x \in Services,
         NEW o \in outages'[x] \ outages[x], IsOpen(o), o.source = "check"
  PROVE  /\ ApplyDown(x)
         /\ o = [start |-> RecordedStreak(x).since, end |-> NoTime, source |-> "check"]
<1>0. TypeOK /\ ClockWasRead /\ OutagesOK
  BY DEF OutagesInv, OutagesOK
<1>1. ~ UNCHANGED outages
  OBVIOUS
<1>2. ASSUME NEW s \in Services, NEW start, NEW source,
             MarkDetectedDown(s, start, source)
      PROVE  x = s /\ o = [start |-> start, end |-> NoTime, source |-> source]
  BY <1>0, <1>2 DEF MarkDetectedDown, TypeOK
<1>3. ASSUME NEW s \in Services, NEW now \in Time \ {NoTime}, MarkDetectedUp(s, now)
      PROVE  FALSE
  <2>1. x = s /\ o \in {Closed(p, now) : p \in outages[s]}
    BY <1>0, <1>3 DEF MarkDetectedUp, TypeOK
  <2>2. PICK p \in outages[s] : o = Closed(p, now)
    BY <2>1
  <2>3. IsOpen(p)
    BY <2>1, <2>2 DEF Closed
  <2>4. p \in Outage
    BY <1>0 DEF TypeOK
  <2>5. o.end = LaterOf(p.start, now)
    BY <2>2, <2>3, <2>4 DEF Closed, Outage
  <2>6. LaterOf(p.start, now) # NoTime
    BY <2>4 DEF LaterOf, Outage, Time, NoTime
  <2> QED BY <2>5, <2>6 DEF IsOpen
<1>4. ASSUME NEW s \in Services, ApplyDown(s)
      PROVE  /\ ApplyDown(x)
             /\ o = [start |-> RecordedStreak(x).since, end |-> NoTime,
                     source |-> "check"]
  BY <1>2, <1>4 DEF ApplyDown
<1>5. ASSUME NEW s \in Services, ApplyUp(s) PROVE FALSE
  <2>1. round.now \in Time \ {NoTime}
    BY <1>0, <1>5 DEF ApplyUp, Record, ClockWasRead, TypeOK, RoundType
  <2> QED BY <1>3, <1>5, <2>1 DEF ApplyUp
<1>6. ASSUME NEW r \in Reporters, NEW s \in Services, TakeDown(r, s) PROVE FALSE
  <2>1. o = [start |-> report[r].now, end |-> NoTime, source |-> "report"]
    BY <1>2, <1>6 DEF TakeDown
  <2> QED BY <2>1
<1>7. ASSUME NEW r \in Reporters, NEW s \in Services, TakeUp(r, s) PROVE FALSE
  <2>1. report[r].now \in Time \ {NoTime}
    BY <1>0, <1>7 DEF TakeUp, Applies, ClockWasRead, TypeOK, ReportType
  <2> QED BY <1>3, <1>7, <2>1 DEF TakeUp
<1>8. ASSUME Team PROVE FALSE
  <2>1. ASSUME NEW s \in Services, NEW c, SetCheck(s, c) PROVE FALSE
    BY <1>0, <2>1 DEF SetCheck, TypeOK
  <2>2. ASSUME NEW s \in Services, NEW p, EraseOutage(s, p) PROVE FALSE
    BY <1>0, <2>2 DEF EraseOutage, TypeOK
  <2>3. ASSUME NEW s \in Services, DeleteService(s) PROVE FALSE
    BY <1>0, <2>3 DEF DeleteService, TypeOK
  <2>4. ASSUME NEW s \in Services, NEW d,
               SetOutageAfter(s, d) \/ ToggleMaintenance(s) \/ ToggleIncident(s)
        PROVE  FALSE
    BY <1>1, <2>4 DEF SetOutageAfter, ToggleMaintenance, ToggleIncident, tables
  <2> QED BY <1>8, <2>1, <2>2, <2>3, <2>4 DEF Team
<1>9. ASSUME NEW r \in Reporters, HandleReport(r) PROVE FALSE
  <2>1. StartReport(r) \/ ReadMaintenance(r) \/ TellReported(r) \/ FinishReport(r)
          => UNCHANGED outages
    BY DEF StartReport, ReadMaintenance, TellReported, FinishReport, tables
  <2> QED BY <1>1, <1>6, <1>7, <1>9, <2>1 DEF HandleReport
<1>10. Restart \/ UNCHANGED vars => UNCHANGED outages
  BY DEF Restart, vars, tables
<1>11. RunRound => \E s \in Services : ApplyDown(s) \/ ApplyUp(s)
  <2>1. \A s \in Services : ApplyStay(s) \/ ApplyError(s) => UNCHANGED outages
    BY DEF ApplyStay, ApplyError, tables
  <2>2. \A answered, failed, lost : ProbeAll(answered, failed, lost)
          => UNCHANGED outages
    BY DEF ProbeAll, tables
  <2>3. ListChecked \/ TellDown \/ EndRound => UNCHANGED outages
    BY DEF ListChecked, TellDown, EndRound, tables
  <2> QED BY <1>1, <2>1, <2>2, <2>3 DEF RunRound
<1>12. RunRound
  BY <1>1, <1>8, <1>9, <1>10 DEF Next
<1>13. PICK s \in Services : ApplyDown(s) \/ ApplyUp(s)
  BY <1>11, <1>12
<1> QED BY <1>4, <1>5, <1>13

\* Where every round has an instant of its own: an outage the checks declare
\* is dated after every failure seen during a maintenance, whatever restarts,
\* edits and reports come between.
THEOREM MaintenanceNeverDates ==
  ASSUME ClockStops
  PROVE  Spec => MaintenanceDatesNothing
<1>1. Init => QuietInv
  <2> SUFFICES ASSUME Init PROVE RoundShape /\ QuietIsBehind
    BY InvInit DEF QuietInv
  <2> QED BY IdleFields, MonitoringAssumption
          DEF Init, RoundShape, QuietIsBehind, NoStreak, NoTime
<1>2. QuietInv /\ [Next]_vars => QuietInv'
  BY InvStep, ShapeStep, QuietStep DEF QuietInv, OutagesInv
<1>3. QuietInv /\ [Next]_vars =>
        [\A s \in Services : \A o \in outages'[s] \ outages[s] :
           IsOpen(o) /\ o.source = "check" => o.start > quietAt[s]]_vars
  <2> SUFFICES ASSUME QuietInv, [Next]_vars, NEW s \in Services,
                      NEW o \in outages'[s] \ outages[s],
                      IsOpen(o), o.source = "check"
               PROVE  o.start > quietAt[s]
    OBVIOUS
  <2>1. ApplyDown(s) /\ o.start = RecordedStreak(s).since
    BY NewOutage DEF QuietInv
  <2>2. TypeOK /\ QuietIsBehind
    BY DEF QuietInv, OutagesInv
  <2>3. s \in round.todo /\ NextTransition(s) = "down"
    BY <2>1 DEF ApplyDown, Record
  <2>4. quietAt[s] < round.now
    BY <2>2, <2>3 DEF QuietIsBehind
  <2>5. RecordedStreak(s).since # NoTime
    <3>1. s \in round.failed /\ s \notin round.quiet
      BY <2>3 DEF NextTransition
    <3>2. NextFailures(s) # 0
      <4>1. streaks[s].failures \in 0..MaxFailures
        BY <2>2 DEF TypeOK, Streak
      <4> QED BY <3>1, <4>1, DelayBounds DEF NextFailures
    <3>3. RecordedStreak(s).since = IF streaks[s].since = NoTime THEN round.now
                                    ELSE streaks[s].since
      BY <3>1, <3>2 DEF RecordedStreak
    <3>4. round.now # NoTime
      <4>1. quietAt[s] \in Nat /\ round.now \in Nat
        BY <2>2, MonitoringAssumption DEF TypeOK, RoundType, Time, NoTime
      <4> QED BY <2>4, <4>1 DEF NoTime
    <3> QED BY <3>3, <3>4
  <2>6. quietAt[s] < RecordedStreak(s).since
    BY <2>2, <2>3, <2>5, DatedAfterQuiet
  <2>7. quietAt[s] \in Nat /\ RecordedStreak(s).since \in Nat
    BY <2>2, StreakType, MonitoringAssumption DEF TypeOK, Streak, Time, NoTime
  <2> QED BY <2>1, <2>6, <2>7
<1> QED BY <1>1, <1>2, <1>3, PTL DEF Spec, MaintenanceDatesNothing

----------------------------------------------------------------------------
(* The checks alone: what is told of an outage is taken back.              *)

Fell(s) == <<"service_down", s>> \in round.changes \/ round.telling = s
Rose(s) == <<"service_up", s>> \in round.changes

\* What the round has to tell of a service: a service that fell is in outage
\* until a check is edited, one that rose did not fall in the same round, and
\* one last told as not answering is in outage or about to be told as back.
ReturnOwed ==
  \A s \in Services :
    /\ s \notin present => told[s] = None
    /\ told[s] = "service_down" => s \in detected \cup dropped \/ Rose(s)
    /\ s \in present /\ Fell(s) => s \in detected \cup dropped
    /\ Fell(s) \/ Rose(s) => s \notin round.todo
    /\ Rose(s) => ~Fell(s)

ReturnInv == TypeOK /\ RoundShape /\ ReturnOwed

\* Every step of the checks and of the team keeps what is owed.
LEMMA ReturnStep ==
  ASSUME Reporters = {}, ~MayFail
  PROVE  TypeOK /\ RoundShape /\ ReturnOwed /\ [Next]_vars => ReturnOwed'
<1> SUFFICES ASSUME TypeOK, RoundShape, ReturnOwed, [Next]_vars PROVE ReturnOwed'
  OBVIOUS
<1> USE DEF Fell, Rose
<1>1. CASE ListChecked
  <2>1. UNCHANGED <<present, told, detected, dropped>>
    BY <1>1 DEF ListChecked, tables, history
  <2>2. round.changes = {} /\ round.telling = None /\ None \notin Services
    BY <1>1, MonitoringAssumption DEF ListChecked, RoundShape
  <2>3. round'.changes = {} /\ round'.telling = None
    BY <1>1, <2>2 DEF ListChecked, IdleRound
  <2> QED BY <2>1, <2>2, <2>3 DEF ReturnOwed
<1>2. ASSUME NEW answered, NEW failed, NEW lost, ProbeAll(answered, failed, lost)
      PROVE  ReturnOwed'
  <2>1. UNCHANGED <<present, told, detected, dropped>>
    BY <1>2 DEF ProbeAll, tables
  <2>2. round.changes = {} /\ round.telling = None /\ None \notin Services
    BY <1>2, MonitoringAssumption DEF ProbeAll, RoundShape
  <2>3. round'.changes = {} /\ round'.telling = None
    BY <1>2, <2>2, IdleFields DEF ProbeAll, TypeOK, RoundType
  <2> QED BY <2>1, <2>2, <2>3 DEF ReturnOwed
<1>3. ASSUME NEW s \in Services, ApplyStep(s) PROVE ReturnOwed'
  <2>1. /\ round'.todo = round.todo \ {s} /\ s \in round.todo
        /\ round.telling = None /\ told' = told /\ present' = present
    BY <1>3, AppliedFields
  <2>2. None \notin Services
    BY MonitoringAssumption
  <2>3. CASE ApplyStay(s) \/ ApplyError(s)
    <3>1. UNCHANGED <<detected, dropped>>
      BY <2>3 DEF ApplyStay, ApplyError, tables, history
    <3>2. round'.telling = None /\ round'.changes = round.changes
      BY <2>1, <2>3, RoundFields DEF ApplyStay, ApplyError
    <3> QED BY <2>1, <2>2, <3>1, <3>2 DEF ReturnOwed
  <2>4. CASE ApplyDown(s)
    <3>1. detected' = detected \cup {s} /\ dropped' = dropped \ {s}
      BY <2>4 DEF ApplyDown, MarkDetectedDown
    <3>2. round'.telling = s /\ round'.changes = round.changes
      BY <2>4, RoundFields DEF ApplyDown, RoundType
    <3>3. ~Rose(s) /\ <<"service_down", s>> \notin round.changes
      BY <2>1 DEF ReturnOwed
    <3>4. ASSUME NEW x \in Services, x # s
          PROVE  /\ Fell(x)' <=> Fell(x)
                 /\ Rose(x)' <=> Rose(x)
                 /\ x \in (detected \cup dropped)' <=> x \in detected \cup dropped
      BY <2>1, <2>2, <3>1, <3>2, <3>4
    <3>5. s \in (detected \cup dropped)' /\ ~Rose(s)' /\ s \notin round'.todo
      BY <2>1, <3>1, <3>2, <3>3
    <3> QED BY <2>1, <3>4, <3>5 DEF ReturnOwed
  <2>5. CASE ApplyUp(s)
    <3>1. detected' = detected \ {s} /\ dropped' = dropped
      BY <2>5 DEF ApplyUp, MarkDetectedUp, history
    <3>2. round'.telling = None /\ round'.changes = round.changes \cup {<<"service_up", s>>}
      BY <2>1, <2>5, RoundFields DEF ApplyUp, RoundType
    <3>3. ~Fell(s)
      BY <2>1 DEF ReturnOwed
    <3>4. ASSUME NEW x \in Services, x # s
          PROVE  /\ Fell(x)' <=> Fell(x)
                 /\ Rose(x)' <=> Rose(x)
                 /\ x \in (detected \cup dropped)' <=> x \in detected \cup dropped
      BY <2>1, <2>2, <3>1, <3>2, <3>4
    <3>5. Rose(s)' /\ ~Fell(s)' /\ s \notin round'.todo
      BY <2>1, <2>2, <3>2, <3>3
    <3> QED BY <2>1, <3>4, <3>5 DEF ReturnOwed
  <2> QED BY <1>3, <2>3, <2>4, <2>5 DEF ApplyStep
<1>4. CASE TellDown
  <2>1. /\ UNCHANGED <<present, told, detected, dropped>>
        /\ round'.todo = round.todo /\ round'.telling = None
    BY <1>4 DEF TellDown, tables, history, TypeOK, RoundType
  <2>2. \/ round'.changes = round.changes
        \/ round'.changes = round.changes \cup {<<"service_down", round.telling>>}
    <3> DEFINE y == IF Untold(round.telling) THEN round.changes
                    ELSE round.changes \cup {<<"service_down", round.telling>>}
    <3>1. round' = [round EXCEPT !.telling = None, !.changes = y]
      BY <1>4 DEF TellDown
    <3>2. y = round.changes \/ y = round.changes \cup {<<"service_down", round.telling>>}
      OBVIOUS
    <3> HIDE DEF y
    <3>3. round'.changes = y
      BY <3>1 DEF TypeOK, RoundType
    <3> QED BY <3>2, <3>3
  <2>3. None \notin Services
    BY MonitoringAssumption
  <2>4. ASSUME NEW x \in Services PROVE (Rose(x)' <=> Rose(x)) /\ (Fell(x)' => Fell(x))
    BY <2>1, <2>2, <2>3
  <2> QED BY <2>1, <2>4 DEF ReturnOwed
<1>5. CASE EndRound
  <2>1. UNCHANGED <<present, detected, dropped>>
    BY <1>5 DEF EndRound, tables, history
  <2>2. round'.changes = {} /\ round'.telling = None /\ None \notin Services
        /\ round.telling = None
    BY <1>5, IdleFields, MonitoringAssumption DEF EndRound
  <2>3. \A s \in Services :
          told'[s] = IF s \notin present THEN told[s]
                     ELSE IF <<"service_down", s>> \in round.changes THEN "service_down"
                     ELSE IF Rose(s) /\ told[s] = "service_down" THEN "service_up"
                     ELSE told[s]
    BY <1>5 DEF EndRound, Announce
  <2>4. ASSUME NEW s \in Services, told'[s] = "service_down"
        PROVE  s \in detected \cup dropped
    <3>1. s \in present
      BY <2>3, <2>4 DEF ReturnOwed, None
    <3>2. CASE <<"service_down", s>> \in round.changes
      BY <3>1, <3>2 DEF ReturnOwed
    <3>3. CASE <<"service_down", s>> \notin round.changes
      <4>1. told[s] = "service_down" /\ ~Rose(s)
        BY <2>3, <2>4, <3>1, <3>3
      <4> QED BY <4>1 DEF ReturnOwed
    <3> QED BY <3>2, <3>3
  <2>5. \A s \in Services : s \notin present => told'[s] = None
    BY <2>3 DEF ReturnOwed
  <2> QED BY <2>1, <2>2, <2>4, <2>5 DEF ReturnOwed
<1>6. CASE Team
  <2>1. round' = round
    BY <1>6, OthersLeaveTheRound
  <2>2. ASSUME NEW s \in Services, NEW c, SetCheck(s, c) PROVE ReturnOwed'
    <3>1. /\ UNCHANGED <<present, told>>
          /\ \A x \in Services : x \in (detected \cup dropped)' <=> x \in detected \cup dropped
      BY <2>2 DEF SetCheck
    <3> QED BY <2>1, <3>1 DEF ReturnOwed
  <2>3. ASSUME NEW s \in Services, DeleteService(s) PROVE ReturnOwed'
    <3>1. /\ told'[s] = None /\ present' = present \ {s} /\ dropped' = dropped
          /\ detected' = detected \ {s}
          /\ \A x \in Services \ {s} : told'[x] = told[x]
      BY <2>3 DEF DeleteService, TypeOK, history
    <3>2. None # "service_down"
      BY DEF None
    <3> QED BY <2>1, <3>1, <3>2 DEF ReturnOwed
  <2>4. CASE UNCHANGED <<present, told, detected, dropped>>
    BY <2>1, <2>4 DEF ReturnOwed
  <2>5. ASSUME NEW s \in Services, NEW o, EraseOutage(s, o)
        PROVE  UNCHANGED <<present, told, detected, dropped>>
    BY <2>5 DEF EraseOutage, history
  <2>6. ASSUME NEW s \in Services, NEW d,
               SetOutageAfter(s, d) \/ ToggleMaintenance(s) \/ ToggleIncident(s)
        PROVE  UNCHANGED <<present, told, detected, dropped>>
    BY <2>6 DEF SetOutageAfter, ToggleMaintenance, ToggleIncident, tables, history
  <2> QED BY <1>6, <2>2, <2>3, <2>4, <2>5, <2>6 DEF Team
<1>7. CASE UNCHANGED vars
  BY <1>7 DEF vars, tables, history, ReturnOwed
<1>8. CASE RunRound
  BY <1>1, <1>2, <1>3, <1>4, <1>5, <1>8 DEF RunRound, ApplyStep
<1>9. ~Restart /\ ~\E r \in Reporters : HandleReport(r)
  BY DEF Restart
<1> QED BY <1>6, <1>7, <1>8, <1>9 DEF Next

\* With no outside tool and no error: once the round is done, a service last
\* told as not answering is in an outage, unless an edit of its check erased
\* that one.
THEOREM ReturnsAreTold ==
  ASSUME Reporters = {}, ~MayFail
  PROVE  Spec => []ReturnIsTold
<1>1. Init => ReturnInv
  <2> SUFFICES ASSUME Init PROVE RoundShape /\ ReturnOwed
    BY TypeInit DEF ReturnInv
  <2> QED BY IdleFields, MonitoringAssumption
          DEF Init, RoundShape, ReturnOwed, Fell, Rose, None
<1>2. ReturnInv /\ [Next]_vars => ReturnInv'
  BY TypeStep, ShapeStep, ReturnStep DEF ReturnInv
<1>3. ReturnInv => ReturnIsTold
  BY DEF ReturnInv, RoundShape, ReturnOwed, Rose, ReturnIsTold, Quiescent
<1> QED BY <1>1, <1>2, <1>3, PTL DEF Spec

-----------------------------------------------------------------------------
(* Deliveries.  A message waits in its row, is read by a round with those  *)
(* that leave with it, leaves, and has its outcome written; rows are added *)
(* and deleted at each of these moments.  The invariant says of each       *)
(* channel what a round has read of it, which copies are accounted for,    *)
(* and what the channel was last told.                                     *)

\* A set of naturals that is not empty has a first member.
LEMMA FirstNumber ==
  ASSUME NEW T \in SUBSET Nat, T # {}
  PROVE  First(T) \in T /\ \A n \in T : First(T) <= n
<1> DEFINE R == OpToRel(<, Nat)
<1>1. \A y, x \in Nat : y < x => <<y, x>> \in R
  BY DEF OpToRel
<1>2. IsWellFoundedOn(R, Nat)
  BY NatLessThanWellFounded
<1> HIDE DEF R
<1>3. PICK m \in T : \A n \in T : ~ (<<n, m>> \in R)
  BY <1>2, WFMin, Zenon
<1>4. \A n \in T : ~(n < m)
  BY <1>1, <1>3
<1>5. \A n \in T : m <= n
  BY <1>4
<1> QED BY <1>5 DEF First

\* A set of ids that is not empty has a last one.
LEMMA LastNumber ==
  ASSUME NEW T \in SUBSET Ids, T # {}
  PROVE  Last(T) \in T /\ \A n \in T : n <= Last(T)
<1>0. MaxRows \in Nat
  BY DeliveriesAssumption
<1> DEFINE back == {MaxRows - n : n \in T}
<1>1. back \in SUBSET Nat /\ back # {}
  <2>1. \A n \in T : n \in Int /\ n <= MaxRows
    BY <1>0 DEF Ids
  <2>2. \A n \in T : MaxRows - n \in Nat
    BY <1>0, <2>1
  <2> QED BY <2>2
<1>2. PICK b \in back : \A m \in back : b <= m
  BY <1>1, FirstNumber
<1>3. PICK t \in T : b = MaxRows - t
  BY <1>2
<1>4. \A n \in T : n <= t
  <2> SUFFICES ASSUME NEW n \in T PROVE n <= t
    OBVIOUS
  <2>1. MaxRows - n \in back
    OBVIOUS
  <2>2. MaxRows - t <= MaxRows - n
    BY <1>2, <1>3, <2>1
  <2>3. n \in Int /\ t \in Int
    BY <1>0 DEF Ids
  <2> QED BY <1>0, <2>2, <2>3
<1> QED BY <1>4 DEF Last

-----------------------------------------------------------------------------
(* What the rows and the locals hold                                       *)

RowT == [what : Happening, about : Watched \cup Events \cup {None}, at : Int,
         due : Int, status : Status, attempts : Nat]

Result == {"ok", "temporary", "slow_down", "permanent", "gone"}

JobT == [step : {"none", "head", "ready", "settle"}, head : Nat, row : RowT,
         ids : SUBSET Ids, result : Result, taken : BOOLEAN]

RoundT == [pc : {"idle", "due", "batch"}, now : Int, previous : [Channels -> Ids \cup {0}]]

RowsTyped ==
  /\ instant \in Int /\ live \subseteq Channels
  /\ known \subseteq Watched \cup Events
  /\ changed \in [Watched -> Int]
  /\ rows \in [Channels -> [Ids -> RowT]] /\ next \in [Channels -> Nat \ {0}]
  /\ announce \in [now : Int, due : Int, left : SUBSET Watched]
  /\ sending \in RoundT
  /\ job \in [Channels -> JobT]
  /\ heard \in [Channels -> [Watched -> Happening \cup {None}]]
  /\ copies \in [Channels -> [Ids -> Nat]]
  /\ doubtful \in [Channels -> SUBSET Ids]

\* A job has a head until it is sent, and rows until they are settled.
JobsHold ==
  \A c \in Channels : /\ job[c].step \in {"head", "ready"} => job[c].head \in Ids
                      /\ job[c].step \in {"ready", "settle"} => job[c].ids # {}

LEMMA IdsAreNumbers == Ids \subseteq Nat \ {0} /\ MaxRows \in Nat /\ MaxInstant \in Int
BY DeliveriesAssumption DEF Ids

LEMMA Blanks == NoRow \in RowT /\ NoJob \in JobT /\ IdleSending \in RoundT
<1>1. NoRow \in RowT
  BY DEF NoRow, RowT, Happening, Status
<1>2. NoJob \in JobT
  BY <1>1 DEF NoJob, JobT, Result
<1>3. IdleSending \in RoundT
  BY DEF IdleSending, RoundT
<1> QED BY <1>1, <1>2, <1>3

\* The rows a statement may leave.
LEMMA RowKinds ==
  ASSUME NEW row \in RowT, NEW at \in Int
  PROVE  /\ SentRow(row) \in RowT /\ FailedRow(row) \in RowT
         /\ RetriedRow(row, at) \in RowT
         /\ [row EXCEPT !.status = "failed"] \in RowT
<1>1. [row EXCEPT !.status = "failed"] \in RowT
  BY DEF RowT, Status
<1>2. row.attempts + 1 \in Nat
  BY DEF RowT
<1>3. SentRow(row) \in RowT
  BY <1>2 DEF SentRow, RowT, Status
<1>4. FailedRow(row) \in RowT
  BY <1>2 DEF FailedRow, RowT, Status
<1>5. RetriedRow(row, at) \in RowT
  BY <1>2 DEF RetriedRow, RowT
<1> QED BY <1>1, <1>3, <1>4, <1>5

\* retry_at gives an instant while an attempt is left.
LEMMA RetryType ==
  ASSUME NEW n \in Nat, NEW now \in Int, NEW result, MayRetry(n)
  PROVE  RetryAt(n, result, now) \in Int
<1>1. RETRY_DELAYS \in Seq(Nat) /\ ASKED_WAIT \in Nat
  BY DeliveriesAssumption
<1>2. n + 1 \in 1..Len(RETRY_DELAYS)
  BY <1>1 DEF MayRetry
<1>3. RETRY_DELAYS[n + 1] \in Nat
  BY <1>1, <1>2
<1> DEFINE wait == LongerOf(RETRY_DELAYS[n + 1], IF result = "slow_down" THEN ASKED_WAIT ELSE 0)
<1>4. wait \in Int
  BY <1>1, <1>3 DEF LongerOf
<1>5. RetryAt(n, result, now) = Later(now, wait)
  BY DEF RetryAt
<1> HIDE DEF wait
<1> QED BY <1>4, <1>5, IdsAreNumbers DEF Later, EarlierOf

\* settle: the row it leaves is one.
LEMMA SettledType ==
  ASSUME RowsTyped, NEW c \in Channels, job[c].step = "settle", ~GivesUp(c),
         NEW row \in RowT
  PROVE  SettledRow(c, row) \in RowT
<1>1. job[c] \in JobT /\ sending.now \in Int
  BY DEF RowsTyped, RoundT
<1>2. job[c].row.attempts \in Nat /\ job[c].result \in Result
  BY <1>1 DEF JobT, RowT
<1>3. CASE job[c].result = "ok"
  BY <1>3, RowKinds, 0 \in Int DEF SettledRow
<1>4. CASE job[c].result = "gone"
  BY <1>4, RowKinds, 0 \in Int DEF SettledRow
<1>5. CASE job[c].result \notin {"ok", "gone"}
  <2>1. MayRetry(job[c].row.attempts)
    BY <1>2, <1>5 DEF GivesUp, Result
  <2>2. RetryAt(job[c].row.attempts, job[c].result, sending.now) \in Int
    BY <1>1, <1>2, <2>1, RetryType
  <2>3. SettledRow(c, row) =
          RetriedRow(row, RetryAt(job[c].row.attempts, job[c].result, sending.now))
    BY <1>5 DEF SettledRow
  <2> QED BY <2>2, <2>3, RowKinds
<1> QED BY <1>3, <1>4, <1>5

\* Every message of a round is read from a row.
LEMMA HeadType ==
  ASSUME RowsTyped, NEW c \in Channels, NEW now
  PROVE  DueHead(c, now) = 0 \/ (DueHead(c, now) \in Pending(c) /\ DueHead(c, now) \in Ids
                                  /\ \A i \in Pending(c) : DueHead(c, now) <= i)
<1>1. Pending(c) \in SUBSET Nat /\ Pending(c) \subseteq Ids
  BY IdsAreNumbers DEF Pending
<1> QED BY <1>1, FirstNumber DEF DueHead

\* A row that is queued.
LEMMA QueuedType ==
  ASSUME RowsTyped, NEW what \in Happening, NEW x \in Watched \cup Events,
         NEW at \in Int, NEW due \in Int, Enqueue(what, x, at, due)
  PROVE  rows' \in [Channels -> [Ids -> RowT]] /\ next' \in [Channels -> Nat \ {0}]
<1> DEFINE row == [NoRow EXCEPT !.what = what, !.about = x, !.at = at, !.due = due,
                                !.status = "pending"]
<1>1. row \in RowT
  BY Blanks DEF RowT, Status
<1>2. PICK to : /\ rows' = [c \in Channels |-> IF c \in to THEN [rows[c] EXCEPT ![next[c]] = row]
                                               ELSE rows[c]]
                /\ next' = [c \in Channels |-> IF c \in to THEN next[c] + 1 ELSE next[c]]
  BY DEF Enqueue
<1> HIDE DEF row
<1>3. rows' \in [Channels -> [Ids -> RowT]]
  BY <1>1, <1>2 DEF RowsTyped
<1>4. next' \in [Channels -> Nat \ {0}]
  BY <1>2 DEF RowsTyped
<1> QED BY <1>3, <1>4

\* One step of the typing, action by action.
LEMMA QueueTypeStep == ASSUME RowsTyped, JobsHold, [QueueNext]_queueVars PROVE RowsTyped'
<1> USE DEF world, queues, task, outside
<1>0. /\ announce.now \in Int /\ announce.due \in Int /\ announce.left \subseteq Watched
      /\ \A c \in Channels : job[c] \in JobT
      /\ \A c \in Channels : rows[c] \in [Ids -> RowT]
  BY DEF RowsTyped
<1>1. ASSUME NEW e \in Events, Notify(e) PROVE RowsTyped'
  <2>1. rows' \in [Channels -> [Ids -> RowT]] /\ next' \in [Channels -> Nat \ {0}]
    BY <1>1, QueuedType DEF Notify, Happening, RowsTyped
  <2> QED BY <1>1, <2>1 DEF Notify, RowsTyped
<1>2. ASSUME NEW found \in SUBSET Watched, BeginAnnounce(found) PROVE RowsTyped'
  <2>1. Later(instant, WAVE_WAIT) \in Int
    BY IdsAreNumbers, DeliveriesAssumption DEF Later, EarlierOf, RowsTyped
  <2>2. announce' \in [now : Int, due : Int, left : SUBSET Watched]
    BY <1>2, <2>1 DEF BeginAnnounce, RowsTyped
  <2>3. changed' \in [Watched -> Int]
    BY <1>2 DEF BeginAnnounce, RowsTyped
  <2> QED BY <1>2, <2>2, <2>3 DEF BeginAnnounce, RowsTyped
<1>3. ASSUME NEW s \in Watched, AnnounceOne(s) PROVE RowsTyped'
  <2>1. rows' \in [Channels -> [Ids -> RowT]] /\ next' \in [Channels -> Nat \ {0}]
    <3>1. PICK what \in Happening : Enqueue(what, s, announce.now, announce.due)
      BY <1>3 DEF AnnounceOne, Happening
    <3> QED BY <1>0, <3>1, QueuedType
  <2>2. announce' \in [now : Int, due : Int, left : SUBSET Watched]
    BY <1>3 DEF AnnounceOne, RowsTyped
  <2> QED BY <1>3, <2>1, <2>2 DEF AnnounceOne, RowsTyped
<1>4. ASSUME NEW s \in Watched, AnnounceLost(s) PROVE RowsTyped'
  <2>2. announce' \in [now : Int, due : Int, left : SUBSET Watched]
    BY <1>4 DEF AnnounceLost, RowsTyped
  <2> QED BY <1>4, <2>2 DEF AnnounceLost, RowsTyped
<1>5. CASE Administer
  <2>1. ASSUME NEW c \in Channels, CreateChannel(c) PROVE RowsTyped'
    BY <2>1 DEF CreateChannel, RowsTyped
  <2>2. ASSUME NEW c \in Channels, DeleteChannel(c) PROVE RowsTyped'
    <3>1. rows' \in [Channels -> [Ids -> RowT]]
      BY <2>2, Blanks DEF DeleteChannel, RowsTyped
    <3> QED BY <2>2, <3>1 DEF DeleteChannel, RowsTyped
  <2>3. ASSUME NEW c \in Channels, NEW audience, UpdateChannel(c, audience) PROVE RowsTyped'
    BY <2>3 DEF UpdateChannel, RowsTyped
  <2>4. ASSUME NEW x \in Watched \cup Events, DeleteSubject(x) PROVE RowsTyped'
    <3>1. rows' \in [Channels -> [Ids -> RowT]]
      BY <2>4, Blanks DEF DeleteSubject, Without, RowsTyped
    <3> QED BY <2>4, <3>1 DEF DeleteSubject, RowsTyped
  <2> QED BY <1>5, <2>1, <2>2, <2>3, <2>4 DEF Administer
<1>6. CASE StartRound
  <2>1. sending' \in RoundT
    BY <1>6, Blanks DEF StartRound, RowsTyped, RoundT
  <2> QED BY <1>6, <2>1 DEF StartRound, RowsTyped
<1>7. CASE ReadDue
  <2>1. CASE UNCHANGED job
    <3> DEFINE heads == [c \in Channels |-> DueHead(c, sending.now)]
    <3>1. heads \in [Channels -> Ids \cup {0}]
      BY HeadType
    <3>2. sending' = IdleSending \/ sending' = [sending EXCEPT !.pc = "batch", !.previous = heads]
      BY <1>7 DEF ReadDue
    <3> HIDE DEF heads
    <3>3. sending' \in RoundT
      BY <3>1, <3>2, Blanks DEF RowsTyped, RoundT
    <3> QED BY <1>7, <2>1, <3>3 DEF ReadDue, RowsTyped
  <2>2. CASE ~ UNCHANGED job
    <3> DEFINE heads == [c \in Channels |-> DueHead(c, sending.now)]
    <3>1. /\ sending' = [sending EXCEPT !.pc = "batch", !.previous = heads]
          /\ job' = [c \in Channels |-> IF heads[c] = 0 THEN NoJob
                        ELSE [NoJob EXCEPT !.step = "head", !.head = heads[c],
                                           !.row = rows[c][heads[c]]]]
      BY <1>7, <2>2 DEF ReadDue
    <3>2. ASSUME NEW c \in Channels, heads[c] # 0
          PROVE  heads[c] \in Nat /\ rows[c][heads[c]] \in RowT
      BY <1>0, <3>2, HeadType, IdsAreNumbers
    <3>3. ASSUME NEW c \in Channels, heads[c] # 0
          PROVE  [NoJob EXCEPT !.step = "head", !.head = heads[c],
                               !.row = rows[c][heads[c]]] \in JobT
      <4>1. ASSUME NEW h \in Nat, NEW row \in RowT
            PROVE  [NoJob EXCEPT !.step = "head", !.head = h, !.row = row] \in JobT
        BY Blanks DEF JobT
      <4> QED BY <3>2, <3>3, <4>1
    <3>4. heads \in [Channels -> Ids \cup {0}]
      BY HeadType
    <3> HIDE DEF heads
    <3>6. sending' \in RoundT
      BY <3>1, <3>4 DEF RowsTyped, RoundT
    <3>5. job' \in [Channels -> JobT]
      BY <3>1, <3>3, Blanks
    <3> QED BY <1>7, <3>5, <3>6 DEF ReadDue, RowsTyped
  <2> QED BY <2>1, <2>2
<1>8. CASE EndBatch
  <2>1. sending' \in RoundT
    BY <1>8 DEF EndBatch, RowsTyped, RoundT
  <2> QED BY <1>8, <2>1 DEF EndBatch, RowsTyped
\* A job moves on, or is done.
<1>9. ASSUME NEW c \in Channels, NEW new \in JobT, job' = [job EXCEPT ![c] = new]
      PROVE  job' \in [Channels -> JobT]
  BY <1>9 DEF RowsTyped
<1>10. ASSUME NEW c \in Channels, Prepare(c) PROVE RowsTyped'
  <2> DEFINE ids == {job[c].head} \cup WaveOf(c, job[c].head, job[c].row)
  <2>1. ids \subseteq Ids
    BY <1>10 DEF Prepare, JobsHold, WaveOf, Pending
  <2>2. \/ job' = [job EXCEPT ![c] = NoJob]
        \/ job' = [job EXCEPT ![c] = [job[c] EXCEPT !.step = "settle", !.ids = ids,
                                                    !.result = "gone"]]
        \/ job' = [job EXCEPT ![c] = [job[c] EXCEPT !.step = "ready", !.ids = ids]]
    BY <1>10 DEF Prepare, RowsTyped
  <2> HIDE DEF ids
  <2>3. /\ [job[c] EXCEPT !.step = "settle", !.ids = ids, !.result = "gone"] \in JobT
        /\ [job[c] EXCEPT !.step = "ready", !.ids = ids] \in JobT
    BY <1>0, <2>1 DEF JobT, Result
  <2>4. job' \in [Channels -> JobT]
    BY <1>9, <2>2, <2>3, Blanks
  <2> QED BY <1>10, <2>4 DEF Prepare, RowsTyped
<1>11. ASSUME NEW c \in Channels, NEW result \in SendResult, NEW taken \in BOOLEAN,
              Send(c, result, taken)
       PROVE  RowsTyped'
  <2>1. job' = [job EXCEPT ![c] = [job[c] EXCEPT !.step = "settle", !.result = result,
                                                 !.taken = taken]]
    BY <1>11 DEF Send, RowsTyped
  <2>2. [job[c] EXCEPT !.step = "settle", !.result = result, !.taken = taken] \in JobT
    BY <1>0 DEF JobT, Result, SendResult
  <2>3. job' \in [Channels -> JobT]
    BY <1>9, <2>1, <2>2
  <2>4. job[c].ids \subseteq Ids /\ job[c].row.what \in Happening
    BY <1>0 DEF JobT, RowT
  <2>5. heard' \in [Channels -> [Watched -> Happening \cup {None}]]
    <3> DEFINE new == [s \in Watched |-> IF s \in Named(c, job[c].ids) THEN job[c].row.what
                                           ELSE heard[c][s]]
    <3>1. new \in [Watched -> Happening \cup {None}]
      BY <2>4 DEF RowsTyped
    <3>2. heard' = heard \/ heard' = [heard EXCEPT ![c] = new]
      BY <1>11 DEF Send, RowsTyped
    <3> HIDE DEF new
    <3> QED BY <3>1, <3>2 DEF RowsTyped
  <2>6. ASSUME NEW n \in Nat PROVE TwoAtMost(n + 1) \in Nat
    BY DEF TwoAtMost, EarlierOf
  <2>7. copies' \in [Channels -> [Ids -> Nat]]
    <3> DEFINE new == [i \in Ids |-> IF i \in job[c].ids THEN TwoAtMost(copies[c][i] + 1)
                                      ELSE copies[c][i]]
    <3>1. new \in [Ids -> Nat]
      BY <2>6 DEF RowsTyped
    <3>2. copies' = copies \/ copies' = [copies EXCEPT ![c] = new]
      BY <1>11 DEF Send, RowsTyped
    <3> HIDE DEF new
    <3> QED BY <3>1, <3>2 DEF RowsTyped
  <2>8. doubtful' \in [Channels -> SUBSET Ids]
    BY <1>11, <2>4 DEF Send, RowsTyped
  <2> QED BY <1>11, <2>3, <2>5, <2>7, <2>8 DEF Send, RowsTyped
<1>12. ASSUME NEW c \in Channels, Settle(c) PROVE RowsTyped'
  <2> DEFINE i == First(job[c].ids)
             left == job[c].ids \ {i}
  <2>1. job[c].ids \subseteq Ids
    BY <1>0 DEF JobT
  <2>2. i \in Ids
    <3>1. job[c].ids # {} /\ job[c].ids \subseteq Nat
      BY <1>12, <2>1, IdsAreNumbers DEF Settle, JobsHold
    <3> QED BY <2>1, <3>1, FirstNumber
  <2> DEFINE row == SettledRow(c, rows[c][i])
  <2>3. row \in RowT
    BY <1>0, <1>12, <2>2, SettledType DEF Settle
  <2>4. rows' = [rows EXCEPT ![c][i] = row]
    BY <1>12, <2>2 DEF Settle, RowsTyped
  <2>5. \/ job' = [job EXCEPT ![c] = NoJob]
        \/ job' = [job EXCEPT ![c] = [job[c] EXCEPT !.ids = left]]
    BY <1>12 DEF Settle, RowsTyped
  <2>6. left \subseteq Ids
    BY <2>1
  <2> HIDE DEF i, left, row
  <2>7. rows' \in [Channels -> [Ids -> RowT]]
    BY <2>2, <2>3, <2>4 DEF RowsTyped
  <2>8. [job[c] EXCEPT !.ids = left] \in JobT
    BY <1>0, <2>6 DEF JobT
  <2>9. job' \in [Channels -> JobT]
    BY <1>9, <2>5, <2>8, Blanks
  <2> QED BY <1>12, <2>7, <2>9 DEF Settle, RowsTyped
<1>13. ASSUME NEW c \in Channels, GiveUp(c) PROVE RowsTyped'
  <2>1. \A i \in Ids : [rows[c][i] EXCEPT !.status = "failed"] \in RowT
    BY <1>0, RowKinds, 0 \in Int
  <2>2. rows' \in [Channels -> [Ids -> RowT]]
    BY <1>13, <2>1 DEF GiveUp, RowsTyped
  <2>3. job' \in [Channels -> JobT]
    BY <1>9, <1>13, Blanks DEF GiveUp
  <2> QED BY <1>13, <2>2, <2>3 DEF GiveUp, RowsTyped
<1>14. ASSUME NEW c \in Channels, Panic(c) PROVE RowsTyped'
  <2>1. job' \in [Channels -> JobT]
    BY <1>9, <1>14, Blanks DEF Panic
  <2> QED BY <1>14, <2>1 DEF Panic, RowsTyped
<1>15. CASE Abort
  <2>1. job' \in [Channels -> JobT] /\ sending' \in RoundT
    BY <1>15, Blanks DEF Abort
  <2>2. \A c \in Channels : job[c].ids \subseteq Ids
    BY <1>0 DEF JobT
  <2>3. doubtful' \in [Channels -> SUBSET Ids]
    BY <1>15, <2>2 DEF Abort, RowsTyped
  <2> QED BY <1>15, <2>1, <2>3 DEF Abort, RowsTyped
<1>16. CASE Purge
  <2>1. rows' \in [Channels -> [Ids -> RowT]]
    BY <1>16, Blanks DEF Purge, RowsTyped
  <2> QED BY <1>16, <2>1 DEF Purge, RowsTyped
<1>17. CASE Tick
  BY <1>17 DEF Tick, RowsTyped
<1>18. CASE UNCHANGED queueVars
  BY <1>18 DEF queueVars, RowsTyped
<1>19. CASE DeliverDue
  BY <1>6, <1>7, <1>8, <1>10, <1>11, <1>12, <1>13, <1>19 DEF DeliverDue
<1>20. CASE \/ \E e \in Events : Notify(e)
            \/ \E found \in SUBSET Watched : BeginAnnounce(found)
            \/ \E s \in Watched : AnnounceOne(s) \/ AnnounceLost(s)
  BY <1>1, <1>2, <1>3, <1>4, <1>20
<1> QED BY <1>5, <1>14, <1>15, <1>16, <1>17, <1>18, <1>19, <1>20 DEF QueueNext

LEMMA JobsStep == ASSUME RowsTyped, JobsHold, [QueueNext]_queueVars PROVE JobsHold'
<1> USE DEF world, queues, task, outside
<1>0. job \in [Channels -> JobT]
  BY DEF RowsTyped
<1>1. CASE UNCHANGED job
  BY <1>1 DEF JobsHold
<1>2. ASSUME NEW c \in Channels, NEW new, job' = [job EXCEPT ![c] = new],
             new.step \in {"head", "ready"} => new.head \in Ids,
             new.step \in {"ready", "settle"} => new.ids # {}
      PROVE  JobsHold'
  BY <1>0, <1>2 DEF JobsHold
<1>3. NoJob.step = "none"
  BY DEF NoJob
<1>4. CASE ReadDue
  <2>1. CASE UNCHANGED job
    BY <1>1, <2>1
  <2>2. CASE ~ UNCHANGED job
    <3> DEFINE heads == [c \in Channels |-> DueHead(c, sending.now)]
    <3>1. job' = [c \in Channels |-> IF heads[c] = 0 THEN NoJob
                        ELSE [NoJob EXCEPT !.step = "head", !.head = heads[c],
                                           !.row = rows[c][heads[c]]]]
      BY <1>4, <2>2 DEF ReadDue
    <3>2. \A c \in Channels : heads[c] = 0 \/ heads[c] \in Ids
      BY HeadType
    <3> HIDE DEF heads
    <3> QED BY <1>3, <3>1, <3>2 DEF JobsHold, NoJob
  <2> QED BY <2>1, <2>2
<1>5. ASSUME NEW c \in Channels, Prepare(c) PROVE JobsHold'
  <2> DEFINE ids == {job[c].head} \cup WaveOf(c, job[c].head, job[c].row)
             gone == [job[c] EXCEPT !.step = "settle", !.ids = ids, !.result = "gone"]
             loaded == [job[c] EXCEPT !.step = "ready", !.ids = ids]
  <2>1. job' = [job EXCEPT ![c] = NoJob] \/ job' = [job EXCEPT ![c] = gone]
          \/ job' = [job EXCEPT ![c] = loaded]
    BY <1>0, <1>5 DEF Prepare
  <2>2. job[c].head \in Ids /\ ids # {}
    BY <1>5 DEF Prepare, JobsHold
  <2> HIDE DEF ids
  <2>3. gone.step = "settle" /\ gone.ids # {} /\ loaded.ids # {} /\ loaded.head \in Ids
    BY <1>0, <2>2 DEF JobT
  <2> HIDE DEF gone, loaded
  <2> QED BY <1>2, <1>3, <2>1, <2>3
<1>6. ASSUME NEW c \in Channels, NEW result, NEW taken, Send(c, result, taken)
      PROVE  JobsHold'
  <2> DEFINE new == [job[c] EXCEPT !.step = "settle", !.result = result, !.taken = taken]
  <2>1. job' = [job EXCEPT ![c] = new]
    BY <1>0, <1>6 DEF Send
  <2>2. new.step = "settle" /\ new.ids # {}
    BY <1>0, <1>6 DEF Send, JobsHold, JobT
  <2> HIDE DEF new
  <2> QED BY <1>2, <2>1, <2>2
<1>7. ASSUME NEW c \in Channels, Settle(c) PROVE JobsHold'
  <2> DEFINE left == job[c].ids \ {First(job[c].ids)}
             new == [job[c] EXCEPT !.ids = left]
  <2>1. job' = [job EXCEPT ![c] = NoJob] \/ (left # {} /\ job' = [job EXCEPT ![c] = new])
    BY <1>0, <1>7 DEF Settle
  <2> HIDE DEF left
  <2>2. new.step = "settle" /\ new.ids = left
    BY <1>0, <1>7 DEF Settle, JobT
  <2> HIDE DEF new
  <2> QED BY <1>2, <1>3, <2>1, <2>2
<1>8. ASSUME NEW c \in Channels, GiveUp(c) \/ Panic(c) PROVE JobsHold'
  <2>1. job' = [job EXCEPT ![c] = NoJob]
    BY <1>8 DEF GiveUp, Panic
  <2> QED BY <1>2, <1>3, <2>1
<1>9. CASE Abort
  BY <1>3, <1>9 DEF Abort, JobsHold
<1>10. CASE Administer
  BY <1>1, <1>10 DEF Administer, CreateChannel, DeleteChannel, UpdateChannel, DeleteSubject
<1>11. CASE DeliverDue
  BY <1>1, <1>4, <1>5, <1>6, <1>7, <1>8, <1>11 DEF DeliverDue, StartRound, EndBatch
<1>12. CASE \/ \E e \in Events : Notify(e)
            \/ \E found \in SUBSET Watched : BeginAnnounce(found)
            \/ \E s \in Watched : AnnounceOne(s) \/ AnnounceLost(s)
  BY <1>1, <1>12 DEF Notify, BeginAnnounce, AnnounceOne, AnnounceLost
<1>13. CASE Purge \/ Tick \/ UNCHANGED queueVars
  BY <1>1, <1>13 DEF Purge, Tick, queueVars
<1> QED BY <1>8, <1>9, <1>10, <1>11, <1>12, <1>13 DEF QueueNext

-----------------------------------------------------------------------------
(* The inductive invariant                                                 *)

There(c, i)     == rows[c][i].status # None
Waits(c, i)     == rows[c][i].status = "pending"
OfService(c, i) == There(c, i) /\ rows[c][i].about \in Watched
Alike(c, i, j)  == There(c, i) /\ rows[c][i].about = rows[c][j].about
Preparable(c)   == job[c].step \in {"head", "ready"}

\* The messages about services are numbered in the order of their instants,
\* and those about one service have instants of their own; an announcement
\* under way is the latest.
AtOrder ==
  /\ announce.now <= instant
  /\ \A s \in announce.left : announce.now <= changed[s]
  /\ \A c \in Channels, i \in Ids : OfService(c, i) =>
       /\ rows[c][i].at <= announce.now
       /\ rows[c][i].at <= changed[rows[c][i].about]
       /\ rows[c][i].about \in announce.left => rows[c][i].at < announce.now
  /\ \A c \in Channels, i, j \in Ids : OfService(c, i) /\ OfService(c, j) /\ i < j =>
       /\ rows[c][i].at <= rows[c][j].at
       /\ rows[c][i].about = rows[c][j].about => rows[c][i].at < rows[c][j].at

\* So is the message a round has read, although it may be deleted since.
HeadBehind ==
  \A c \in Channels : Preparable(c) /\ job[c].row.about \in Watched =>
    /\ job[c].row.at <= announce.now
    /\ \A i \in Ids : OfService(c, i) /\ i > job[c].head => job[c].row.at <= rows[c][i].at

\* Ids not given yet have no row and no copy; a row is about something.
FreshIds(c) ==
  /\ \A i \in Ids : i >= next[c] => ~There(c, i) /\ copies[c][i] = 0
  /\ \A i \in Ids : ~There(c, i) => rows[c][i].about = None

\* What a round has read still waits as it was, unless it was deleted: the head
\* with none before it, and the rows that leave with it.
JobInRound(c) == job[c].step # "none" => sending.pc = "batch"

HeadWaits(c) ==
  Preparable(c) =>
    /\ job[c].head < next[c]
    /\ \A i \in Ids : i < job[c].head => ~Waits(c, i)
    /\ There(c, job[c].head) =>
         /\ Waits(c, job[c].head)
         /\ rows[c][job[c].head].what = job[c].row.what
         /\ rows[c][job[c].head].at = job[c].row.at
         /\ rows[c][job[c].head].about = job[c].row.about

WaveWaits(c) ==
  job[c].step = "ready" =>
    \A i \in job[c].ids :
      /\ i >= job[c].head
      /\ i # job[c].head => job[c].row.about \in Watched
      /\ There(c, i) => rows[c][i].what = job[c].row.what /\ rows[c][i].at = job[c].row.at

IdsWait(c) ==
  job[c].step \in {"ready", "settle"} =>
    \A i \in job[c].ids : i < next[c] /\ (There(c, i) => Waits(c, i))

\* A message that reached its channel, or may have, has an outcome to be
\* written, or is known to be doubtful.
Clean(c, i) == copies[c][i] = 0 \/ i \in doubtful[c]

OutcomeKnown(c) ==
  /\ job[c].taken => job[c].step = "settle"
  /\ job[c].step = "settle" /\ job[c].result = "ok" => job[c].taken
  /\ job[c].taken => \A i \in job[c].ids :
       copies[c][i] > 0 /\ (job[c].result # "ok" => i \in doubtful[c])

NotLeftYet(c) ==
  /\ job[c].step = "head" => Clean(c, job[c].head)
  /\ job[c].step = "ready" => \A i \in job[c].ids : Clean(c, i)

CopiesAccounted(c) ==
  \A i \in Ids :
    /\ rows[c][i].status = "sent" => copies[c][i] > 0
    /\ copies[c][i] > 1 => i \in doubtful[c]
    /\ Waits(c, i) => Clean(c, i) \/ (job[c].taken /\ i \in job[c].ids)

\* No message about a service waits behind a later one that left, and what the
\* channel was last told of a service is the last one that left.
NoneOvertaken(c) ==
  \A i, j \in Ids : i < j /\ OfService(c, j) /\ Alike(c, i, j) /\ copies[c][j] > 0 => ~Waits(c, i)

LastHeard(c) ==
  \A j \in Ids :
    /\ OfService(c, j) /\ copies[c][j] > 0
    /\ \A k \in Ids : k > j /\ Alike(c, k, j) => copies[c][k] = 0
    => heard[c][rows[c][j].about] = rows[c][j].what

Read(c)      == JobInRound(c) /\ HeadWaits(c) /\ WaveWaits(c) /\ IdsWait(c)
Copied(c)    == OutcomeKnown(c) /\ NotLeftYet(c) /\ CopiesAccounted(c)
HeardInOrder(c)     == NoneOvertaken(c) /\ LastHeard(c)
ChannelOK(c) == FreshIds(c) /\ Read(c) /\ Copied(c) /\ (~SameSecond => HeardInOrder(c))

LEMMA ChannelTypes ==
  ASSUME RowsTyped, NEW c \in Channels
  PROVE  /\ rows[c] \in [Ids -> RowT] /\ next[c] \in Nat /\ job[c] \in JobT
         /\ copies[c] \in [Ids -> Nat] /\ doubtful[c] \subseteq Ids
         /\ heard[c] \in [Watched -> Happening \cup {None}]
         /\ \A i \in Ids : rows[c][i].at \in Int /\ copies[c][i] \in Nat /\ i \in Nat
BY IdsAreNumbers DEF RowsTyped, RowT

LEMMA NoService == None \notin Watched /\ None \notin Events /\ Watched \cap Events = {}
BY DeliveriesAssumption

-----------------------------------------------------------------------------
(* The instants                                                            *)

\* A step that queues nothing keeps what the rows are about.
NothingQueued ==
  \A c \in Channels, i \in Ids :
    rows'[c][i].status # None =>
      /\ rows[c][i].status # None
      /\ rows'[c][i].what = rows[c][i].what
      /\ rows'[c][i].about = rows[c][i].about
      /\ rows'[c][i].at = rows[c][i].at

\* What a settled message leaves of its row.
LEMMA SettledKeeps ==
  ASSUME NEW c, NEW row \in RowT
  PROVE  /\ SettledRow(c, row).what = row.what
         /\ SettledRow(c, row).about = row.about
         /\ SettledRow(c, row).at = row.at
         /\ row.status = None => SettledRow(c, row) = row
         /\ SettledRow(c, row).status = None => row.status = None
         /\ SettledRow(c, row).status = "sent" =>
              row.status = "sent" \/ (job[c].result = "ok" /\ row.status # None)
         /\ SettledRow(c, row).status = "pending" =>
              row.status = "pending" /\ job[c].result \notin {"ok", "gone"}
<1> DEFINE at == RetryAt(job[c].row.attempts, job[c].result, sending.now)
<1>1. SettledRow(c, row) = IF job[c].result = "ok" THEN SentRow(row)
                           ELSE IF job[c].result = "gone" THEN FailedRow(row)
                           ELSE RetriedRow(row, at)
  BY DEF SettledRow
<1> HIDE DEF at
<1>2. /\ SentRow(row).what = row.what /\ SentRow(row).about = row.about
      /\ SentRow(row).at = row.at
      /\ row.status = None => SentRow(row) = row
      /\ row.status # None => SentRow(row).status = "sent"
  BY DEF SentRow, RowT, None
<1>3. /\ FailedRow(row).what = row.what /\ FailedRow(row).about = row.about
      /\ FailedRow(row).at = row.at
      /\ row.status # "pending" => FailedRow(row) = row
      /\ row.status = "pending" => FailedRow(row).status = "failed"
  BY DEF FailedRow, RowT
<1>4. /\ RetriedRow(row, at).what = row.what /\ RetriedRow(row, at).about = row.about
      /\ RetriedRow(row, at).at = row.at
      /\ RetriedRow(row, at).status = row.status
      /\ row.status # "pending" => RetriedRow(row, at) = row
  BY DEF RetriedRow, RowT
<1>5. CASE job[c].result = "ok"
  BY <1>1, <1>2, <1>5 DEF None
<1>6. CASE job[c].result = "gone"
  BY <1>1, <1>3, <1>6 DEF None
<1>7. CASE job[c].result \notin {"ok", "gone"}
  BY <1>1, <1>4, <1>7 DEF None
<1> QED BY <1>5, <1>6, <1>7

\* settle: of its row alone.
LEMMA SettledRows ==
  ASSUME RowsTyped, JobsHold, NEW d \in Channels, Settle(d)
  PROVE  LET i == First(job[d].ids)
         IN  /\ i \in job[d].ids /\ i \in Ids
             /\ rows'[d][i] = SettledRow(d, rows[d][i])
             /\ \A k \in Ids \ {i} : rows'[d][k] = rows[d][k]
             /\ \A c \in Channels \ {d} : rows'[c] = rows[c]
<1> DEFINE i == First(job[d].ids)
<1>1. job[d].ids \subseteq Ids /\ job[d].ids # {}
  BY ChannelTypes DEF Settle, JobsHold, JobT
<1>2. i \in job[d].ids
  BY <1>1, FirstNumber, IdsAreNumbers
<1>3. rows' = [rows EXCEPT ![d][i] = SettledRow(d, rows[d][i])]
  BY <1>1, <1>2 DEF Settle, RowsTyped
<1> HIDE DEF i
<1>4. /\ rows'[d][i] = SettledRow(d, rows[d][i])
      /\ \A k \in Ids \ {i} : rows'[d][k] = rows[d][k]
      /\ \A c \in Channels \ {d} : rows'[c] = rows[c]
  BY <1>1, <1>2, <1>3 DEF RowsTyped
<1> QED BY <1>1, <1>2, <1>4 DEF i

\* fail_waiting: every waiting message of the channel.
LEMMA GivenUpRows ==
  ASSUME RowsTyped, NEW d \in Channels, GiveUp(d)
  PROVE  /\ \A i \in Ids : /\ rows'[d][i].what = rows[d][i].what
                           /\ rows'[d][i].about = rows[d][i].about
                           /\ rows'[d][i].at = rows[d][i].at
                           /\ ~Waits(d, i) => rows'[d][i] = rows[d][i]
                           /\ Waits(d, i) => rows'[d][i].status = "failed"
         /\ \A c \in Channels \ {d} : rows'[c] = rows[c]
<1>1. rows[d] \in [Ids -> RowT]
  BY ChannelTypes
<1> DEFINE new == [i \in Ids |-> IF rows[d][i].status = "pending"
                                 THEN [rows[d][i] EXCEPT !.status = "failed"]
                                 ELSE rows[d][i]]
<1>2. rows' = [rows EXCEPT ![d] = new]
  BY <1>1 DEF GiveUp, RowsTyped
<1>3. \A i \in Ids : new[i] = IF rows[d][i].status = "pending"
                              THEN [rows[d][i] EXCEPT !.status = "failed"]
                              ELSE rows[d][i]
  OBVIOUS
<1> HIDE DEF new
<1>4. rows'[d] = new /\ \A c \in Channels \ {d} : rows'[c] = rows[c]
  BY <1>2 DEF RowsTyped
<1> QED BY <1>1, <1>3, <1>4 DEF RowT, Waits

\* An insert adds one waiting row, at the next id of a channel, or none.
LEMMA QueuedRows ==
  ASSUME RowsTyped, NEW what, NEW x, NEW at, NEW due, Enqueue(what, x, at, due),
         NEW c \in Channels
  PROVE  \/ rows'[c] = rows[c] /\ next'[c] = next[c]
         \/ /\ next[c] \in Ids /\ next'[c] = next[c] + 1
            /\ \A i \in Ids \ {next[c]} : rows'[c][i] = rows[c][i]
            /\ rows'[c][next[c]].what = what /\ rows'[c][next[c]].about = x
            /\ rows'[c][next[c]].at = at /\ rows'[c][next[c]].status = "pending"
<1> DEFINE row == [NoRow EXCEPT !.what = what, !.about = x, !.at = at, !.due = due,
                                !.status = "pending"]
<1>1. row.what = what /\ row.about = x /\ row.at = at /\ row.status = "pending"
  BY DEF NoRow
<1>2. PICK to : /\ rows' = [d \in Channels |-> IF d \in to THEN [rows[d] EXCEPT ![next[d]] = row]
                                               ELSE rows[d]]
                /\ next' = [d \in Channels |-> IF d \in to THEN next[d] + 1 ELSE next[d]]
                /\ HasRoom
  BY DEF Enqueue
<1> HIDE DEF row
<1>3. next[c] \in Ids
  BY <1>2 DEF HasRoom
<1> QED BY <1>1, <1>2, <1>3, ChannelTypes

\* The steps that queue nothing.
LEMMA QueuesNothing ==
  ASSUME RowsTyped, JobsHold,
         \/ DeliverDue \/ Administer \/ Abort \/ Purge \/ Tick \/ UNCHANGED queueVars
         \/ \E c \in Channels : Panic(c)
         \/ \E s \in Watched : AnnounceLost(s)
         \/ \E found \in SUBSET Watched : BeginAnnounce(found)
  PROVE  NothingQueued
<1> USE DEF world, queues, task, outside
<1>0. \A c \in Channels : rows[c] \in [Ids -> RowT]
  BY ChannelTypes
<1>1. CASE UNCHANGED rows
  BY <1>1 DEF NothingQueued
<1>2. CASE \A c \in Channels, i \in Ids : rows'[c][i] = rows[c][i] \/ rows'[c][i] = NoRow
  BY <1>2 DEF NothingQueued, NoRow
<1>3. ASSUME NEW d \in Channels, Settle(d) PROVE NothingQueued
  <2> DEFINE i == First(job[d].ids)
  <2>1. /\ i \in Ids
        /\ rows'[d][i] = SettledRow(d, rows[d][i])
        /\ \A k \in Ids \ {i} : rows'[d][k] = rows[d][k]
        /\ \A c \in Channels \ {d} : rows'[c] = rows[c]
    BY <1>3, SettledRows
  <2> HIDE DEF i
  <2>2. rows[d][i] \in RowT
    BY <1>0, <2>1
  <2> QED BY <2>1, <2>2, SettledKeeps DEF NothingQueued
<1>4. ASSUME NEW d \in Channels, GiveUp(d) PROVE NothingQueued
  <2> SUFFICES ASSUME NEW c \in Channels, NEW i \in Ids, rows'[c][i].status # None
               PROVE  /\ rows[c][i].status # None
                      /\ rows'[c][i].what = rows[c][i].what
                      /\ rows'[c][i].about = rows[c][i].about
                      /\ rows'[c][i].at = rows[c][i].at
    BY DEF NothingQueued
  <2>1. CASE c = d
    BY <1>4, <2>1, GivenUpRows DEF Waits, None
  <2>2. CASE c # d
    BY <1>4, <2>2, GivenUpRows
  <2> QED BY <2>1, <2>2
<1>5. CASE DeliverDue
  BY <1>1, <1>3, <1>4, <1>5 DEF DeliverDue, StartRound, ReadDue, EndBatch, Prepare, Send
<1>6. CASE Administer
  <2>1. ASSUME NEW c \in Channels, DeleteChannel(c) PROVE NothingQueued
    <3>1. \A d \in Channels, i \in Ids : rows'[d][i] = rows[d][i] \/ rows'[d][i] = NoRow
      BY <2>1 DEF DeleteChannel, RowsTyped
    <3> QED BY <1>2, <3>1
  <2>2. ASSUME NEW x, DeleteSubject(x) PROVE NothingQueued
    <3>1. \A d \in Channels, i \in Ids : rows'[d][i] = rows[d][i] \/ rows'[d][i] = NoRow
      BY <2>2 DEF DeleteSubject, Without
    <3> QED BY <1>2, <3>1
  <2> QED BY <1>1, <1>6, <2>1, <2>2 DEF Administer, CreateChannel, UpdateChannel
<1>7. CASE Purge
  <2>1. \A d \in Channels, i \in Ids : rows'[d][i] = rows[d][i] \/ rows'[d][i] = NoRow
    BY <1>7 DEF Purge
  <2> QED BY <1>2, <2>1
<1>8. CASE \/ Abort \/ Tick \/ UNCHANGED queueVars
           \/ \E c \in Channels : Panic(c)
           \/ \E s \in Watched : AnnounceLost(s)
           \/ \E found \in SUBSET Watched : BeginAnnounce(found)
  BY <1>1, <1>8 DEF Abort, Tick, queueVars, Panic, AnnounceLost, BeginAnnounce
<1> QED BY <1>5, <1>6, <1>7, <1>8

\* One step, as far as the instants are concerned.
LEMMA AtStep ==
  ASSUME ~SameSecond, RowsTyped, JobsHold, AtOrder, \A c \in Channels : FreshIds(c),
         [QueueNext]_queueVars
  PROVE  AtOrder'
<1> USE DEF world, queues, task, outside
<1>0. /\ announce.now \in Int /\ instant \in Int /\ announce.left \subseteq Watched
      /\ \A s \in Watched : changed[s] \in Int
      /\ announce \in [now : Int, due : Int, left : SUBSET Watched]
      /\ \A c \in Channels, i \in Ids : rows[c][i].at \in Int
  BY ChannelTypes DEF RowsTyped
\* No row is added, and the announcement goes on.
<1>1. ASSUME NothingQueued, announce'.now = announce.now, announce'.left \subseteq announce.left,
             changed' = changed, instant' \in Int, instant' >= instant
      PROVE  AtOrder'
  <2>1. announce'.now <= instant' /\ \A s \in announce'.left : announce'.now <= changed'[s]
    BY <1>0, <1>1 DEF AtOrder
  <2>2. \A c \in Channels, i \in Ids : OfService(c, i)' =>
          /\ OfService(c, i) /\ rows'[c][i].at = rows[c][i].at
          /\ rows'[c][i].about = rows[c][i].about
    BY <1>1 DEF NothingQueued, OfService, There
  <2>3. \A c \in Channels, i \in Ids : OfService(c, i)' =>
          /\ rows'[c][i].at <= announce'.now
          /\ rows'[c][i].at <= changed'[rows'[c][i].about]
          /\ rows'[c][i].about \in announce'.left => rows'[c][i].at < announce'.now
    BY <1>1, <2>2 DEF AtOrder
  <2>4. \A c \in Channels, i, j \in Ids : OfService(c, i)' /\ OfService(c, j)' /\ i < j =>
          /\ rows'[c][i].at <= rows'[c][j].at
          /\ rows'[c][i].about = rows'[c][j].about => rows'[c][i].at < rows'[c][j].at
    BY <2>2 DEF AtOrder
  <2> QED BY <2>1, <2>3, <2>4 DEF AtOrder
<1>2. CASE DeliverDue \/ Administer \/ Abort \/ Purge \/ UNCHANGED queueVars \/ \E c \in Channels : Panic(c)
  <2>1. NothingQueued
    BY <1>2, QueuesNothing
  <2>2. UNCHANGED <<announce, changed, instant>>
    <3>1. CASE DeliverDue
      BY <3>1 DEF DeliverDue, StartRound, ReadDue, EndBatch, Prepare, Send, Settle, GiveUp
    <3>2. CASE Administer
      BY <3>2 DEF Administer, CreateChannel, DeleteChannel, UpdateChannel, DeleteSubject
    <3>3. CASE Abort \/ Purge \/ UNCHANGED queueVars \/ \E c \in Channels : Panic(c)
      BY <3>3 DEF Abort, Purge, queueVars, Panic
    <3> QED BY <1>2, <3>1, <3>2, <3>3
  <2> QED BY <1>0, <1>1, <2>1, <2>2
<1>3. CASE Tick
  <2>1. NothingQueued
    BY <1>3, QueuesNothing
  <2> QED BY <1>0, <1>1, <1>3, <2>1 DEF Tick
<1>4. ASSUME NEW s \in Watched, AnnounceLost(s) PROVE AtOrder'
  <2>1. NothingQueued
    BY <1>4, QueuesNothing
  <2> QED BY <1>0, <1>1, <1>4, <2>1 DEF AnnounceLost
\* The instant of a new announcement is the latest, and no service changed in it.
<1>5. ASSUME NEW found \in SUBSET Watched, BeginAnnounce(found) PROVE AtOrder'
  <2>1. /\ announce'.now = instant /\ announce'.left = found /\ instant' = instant /\ rows' = rows
        /\ \A s \in found : changed[s] < instant
        /\ \A s \in Watched : changed'[s] = IF s \in found THEN instant ELSE changed[s]
    BY <1>5 DEF BeginAnnounce
  <2>2. \A c \in Channels, i \in Ids : OfService(c, i)' =>
          OfService(c, i) /\ rows'[c][i] = rows[c][i]
    BY <2>1 DEF OfService, There
  <2>3. ASSUME NEW c \in Channels, NEW i \in Ids, OfService(c, i)
        PROVE  /\ rows[c][i].at <= instant
               /\ rows[c][i].at <= changed'[rows[c][i].about]
               /\ rows[c][i].about \in found => rows[c][i].at < instant
    <3>1. /\ rows[c][i].about \in Watched /\ rows[c][i].at <= announce.now
          /\ rows[c][i].at <= changed[rows[c][i].about] /\ announce.now <= instant
      BY <2>3 DEF AtOrder, OfService
    <3> DEFINE at == rows[c][i].at
               about == rows[c][i].about
    <3>2. at \in Int /\ changed[about] \in Int /\ at <= announce.now /\ at <= changed[about]
      BY <1>0, <3>1
    <3>3. about \in found => changed[about] < instant
      BY <2>1
    <3>4. changed'[about] = IF about \in found THEN instant ELSE changed[about]
      BY <2>1, <3>1
    <3> HIDE DEF at, about
    <3>5. at <= instant /\ at <= changed'[about] /\ (about \in found => at < instant)
      BY <1>0, <3>1, <3>2, <3>3, <3>4
    <3> QED BY <3>5 DEF at, about
  <2>4. \A s \in announce'.left : announce'.now <= changed'[s]
    BY <1>0, <2>1
  <2>5. \A c \in Channels, i, j \in Ids : OfService(c, i)' /\ OfService(c, j)' /\ i < j =>
          /\ rows'[c][i].at <= rows'[c][j].at
          /\ rows'[c][i].about = rows'[c][j].about => rows'[c][i].at < rows'[c][j].at
    BY <2>2 DEF AtOrder
  <2>6. \A c \in Channels, i \in Ids : OfService(c, i)' =>
          /\ rows'[c][i].at <= announce'.now
          /\ rows'[c][i].at <= changed'[rows'[c][i].about]
          /\ rows'[c][i].about \in announce'.left => rows'[c][i].at < announce'.now
    BY <2>1, <2>2, <2>3
  <2>7. announce'.now <= instant'
    BY <1>0, <2>1
  <2> QED BY <2>4, <2>5, <2>6, <2>7 DEF AtOrder
\* A row about a service has the instant of the announcement, and its service
\* is announced then.
<1>6. ASSUME NEW what, NEW x, NEW due, Enqueue(what, x, announce.now, due),
             x \in Watched => x \in announce.left,
             announce'.now = announce.now,
             announce'.left = announce.left \ {x}, changed' = changed, instant' = instant
      PROVE  AtOrder'
  <2>1. ASSUME NEW c \in Channels, NEW i \in Ids, OfService(c, i)'
        PROVE  \/ OfService(c, i) /\ rows'[c][i] = rows[c][i]
               \/ /\ i = next[c] /\ rows'[c][i].at = announce.now
                  /\ rows'[c][i].about = x /\ x \in announce.left
    BY <1>6, <2>1, QueuedRows DEF OfService, There
  <2>2. \A c \in Channels, i \in Ids : OfService(c, i) => i < next[c]
    BY ChannelTypes DEF FreshIds, OfService
  <2>3. ASSUME NEW c \in Channels, NEW i \in Ids, OfService(c, i)'
        PROVE  /\ rows'[c][i].at <= announce'.now
               /\ rows'[c][i].at <= changed'[rows'[c][i].about]
               /\ rows'[c][i].about \in announce'.left => rows'[c][i].at < announce'.now
    <3>1. CASE OfService(c, i) /\ rows'[c][i] = rows[c][i]
      BY <1>6, <3>1 DEF AtOrder
    <3>2. CASE rows'[c][i].at = announce.now /\ rows'[c][i].about = x /\ x \in announce.left
      BY <1>0, <1>6, <3>2 DEF AtOrder
    <3> QED BY <2>1, <2>3, <3>1, <3>2
  <2>4. ASSUME NEW c \in Channels, NEW i \in Ids, NEW j \in Ids,
               OfService(c, i)', OfService(c, j)', i < j
        PROVE  /\ rows'[c][i].at <= rows'[c][j].at
               /\ rows'[c][i].about = rows'[c][j].about => rows'[c][i].at < rows'[c][j].at
    <3>1. i \in Nat /\ j \in Nat /\ next[c] \in Nat
      BY ChannelTypes
    <3>2. OfService(c, i) /\ rows'[c][i] = rows[c][i]
      <4>1. CASE i = next[c]
        <5>1. ~OfService(c, j) /\ j # next[c]
          BY <2>2, <2>4, <3>1, <4>1
        <5> QED BY <2>1, <2>4, <5>1
      <4> QED BY <2>1, <2>4, <4>1
    <3>3. CASE OfService(c, j) /\ rows'[c][j] = rows[c][j]
      BY <2>4, <3>2, <3>3 DEF AtOrder
    <3>4. CASE rows'[c][j].at = announce.now /\ rows'[c][j].about = x /\ x \in announce.left
      BY <3>2, <3>4 DEF AtOrder
    <3> QED BY <2>1, <2>4, <3>3, <3>4
  <2>5. announce'.now <= instant' /\ \A s \in announce'.left : announce'.now <= changed'[s]
    BY <1>6 DEF AtOrder
  <2> QED BY <2>3, <2>4, <2>5 DEF AtOrder
<1>7. ASSUME NEW s \in Watched, AnnounceOne(s) PROVE AtOrder'
  BY <1>0, <1>6, <1>7 DEF AnnounceOne
\* A message about an event says nothing of a service.
<1>8. ASSUME NEW e \in Events, Notify(e) PROVE AtOrder'
  <2>1. Enqueue("news", e, instant, instant) /\ announce' = announce /\ changed' = changed
        /\ instant' = instant
    BY <1>8 DEF Notify
  <2>2. \A c \in Channels, i \in Ids : OfService(c, i)' =>
          OfService(c, i) /\ rows'[c][i] = rows[c][i]
    BY <2>1, QueuedRows, NoService DEF OfService, There
  <2>3. \A c \in Channels, i \in Ids : OfService(c, i)' =>
          /\ rows'[c][i].at <= announce'.now
          /\ rows'[c][i].at <= changed'[rows'[c][i].about]
          /\ rows'[c][i].about \in announce'.left => rows'[c][i].at < announce'.now
    BY <2>1, <2>2 DEF AtOrder
  <2>4. \A c \in Channels, i, j \in Ids : OfService(c, i)' /\ OfService(c, j)' /\ i < j =>
          /\ rows'[c][i].at <= rows'[c][j].at
          /\ rows'[c][i].about = rows'[c][j].about => rows'[c][i].at < rows'[c][j].at
    BY <2>2 DEF AtOrder
  <2>5. announce'.now <= instant' /\ \A s \in announce'.left : announce'.now <= changed'[s]
    BY <2>1 DEF AtOrder
  <2> QED BY <2>3, <2>4, <2>5 DEF AtOrder
<1>9. CASE \/ \E e \in Events : Notify(e)
           \/ \E found \in SUBSET Watched : BeginAnnounce(found)
           \/ \E s \in Watched : AnnounceOne(s) \/ AnnounceLost(s)
  BY <1>4, <1>5, <1>7, <1>8, <1>9
<1> QED BY <1>2, <1>3, <1>9 DEF QueueNext

\* What a step may do to the job of a channel: a job that is new or over, or
\* that has lost rows or gained an outcome, is not to be prepared.
LEMMA JobMoves ==
  ASSUME RowsTyped, JobsHold, NEW c \in Channels,
         \/ DeliverDue \/ Administer \/ Abort \/ Purge \/ Tick \/ UNCHANGED queueVars
         \/ \E d \in Channels : Panic(d)
         \/ \E s \in Watched : AnnounceOne(s) \/ AnnounceLost(s)
         \/ \E found \in SUBSET Watched : BeginAnnounce(found)
         \/ \E e \in Events : Notify(e),
         Preparable(c)'
  PROVE  \/ Preparable(c) /\ job'[c].head = job[c].head /\ job'[c].row = job[c].row
         \/ /\ rows' = rows /\ announce' = announce
            /\ job'[c].head \in Pending(c) /\ job'[c].row = rows[c][job'[c].head]
            /\ \A i \in Pending(c) : job'[c].head <= i
<1> USE DEF world, queues, task, outside
<1> DEFINE Goal ==
      \/ Preparable(c) /\ job'[c].head = job[c].head /\ job'[c].row = job[c].row
      \/ /\ rows' = rows /\ announce' = announce
         /\ job'[c].head \in Pending(c) /\ job'[c].row = rows[c][job'[c].head]
         /\ \A i \in Pending(c) : job'[c].head <= i
<1>0. job \in [Channels -> JobT] /\ job'[c].step \in {"head", "ready"}
  BY DEF RowsTyped, Preparable
<1>1. CASE job'[c] = job[c]
  BY <1>0, <1>1 DEF Preparable
<1>2. NoJob.step = "none"
  BY DEF NoJob
\* The job of one channel changes: it is dropped, or settled from now on.
<1>3. ASSUME NEW d \in Channels, NEW new, job' = [job EXCEPT ![d] = new],
             new.step \in {"none", "settle"}
      PROVE  Goal
  BY <1>0, <1>1, <1>3
<1>4. CASE ReadDue
  <2>1. CASE UNCHANGED job
    BY <1>1, <2>1
  <2>2. CASE ~ UNCHANGED job
    <3> DEFINE heads == [d \in Channels |-> DueHead(d, sending.now)]
    <3>1. job' = [d \in Channels |-> IF heads[d] = 0 THEN NoJob
                        ELSE [NoJob EXCEPT !.step = "head", !.head = heads[d],
                                           !.row = rows[d][heads[d]]]]
      BY <1>4, <2>2 DEF ReadDue
    <3>2. heads[c] = 0 \/ (heads[c] \in Pending(c) /\ \A i \in Pending(c) : heads[c] <= i)
      BY HeadType
    <3> HIDE DEF heads
    <3>3. heads[c] # 0
      BY <1>0, <1>2, <3>1
    <3>4. job'[c].head = heads[c] /\ job'[c].row = rows[c][heads[c]]
      BY <3>1, <3>3 DEF NoJob
    <3>5. rows' = rows /\ announce' = announce
      BY <1>4 DEF ReadDue
    <3> QED BY <3>2, <3>3, <3>4, <3>5
  <2> QED BY <2>1, <2>2
<1>5. ASSUME NEW d \in Channels, Prepare(d) PROVE Goal
  <2>1. CASE d # c
    BY <1>0, <1>1, <1>5, <2>1 DEF Prepare
  <2>2. CASE d = c
    <3> DEFINE ids == {job[d].head} \cup WaveOf(d, job[d].head, job[d].row)
               gone == [job[d] EXCEPT !.step = "settle", !.ids = ids, !.result = "gone"]
               loaded == [job[d] EXCEPT !.step = "ready", !.ids = ids]
    <3>1. job' = [job EXCEPT ![d] = NoJob] \/ job' = [job EXCEPT ![d] = gone]
            \/ job' = [job EXCEPT ![d] = loaded]
      BY <1>0, <1>5 DEF Prepare
    <3> HIDE DEF ids
    <3>2. gone.step = "settle" /\ loaded.head = job[d].head /\ loaded.row = job[d].row
      BY <1>0 DEF JobT
    <3>3. Preparable(c)
      BY <1>5, <2>2 DEF Prepare, Preparable
    <3> HIDE DEF gone, loaded
    <3> QED BY <1>0, <1>2, <1>3, <2>2, <3>1, <3>2, <3>3
  <2> QED BY <2>1, <2>2
<1>6. ASSUME NEW d \in Channels, NEW result, NEW taken, Send(d, result, taken) PROVE Goal
  <2> DEFINE new == [job[d] EXCEPT !.step = "settle", !.result = result, !.taken = taken]
  <2>1. job' = [job EXCEPT ![d] = new]
    BY <1>0, <1>6 DEF Send
  <2>2. new.step = "settle"
    BY <1>0 DEF JobT
  <2> HIDE DEF new
  <2> QED BY <1>3, <2>1, <2>2
<1>7. ASSUME NEW d \in Channels, Settle(d) PROVE Goal
  <2> DEFINE left == job[d].ids \ {First(job[d].ids)}
             new == [job[d] EXCEPT !.ids = left]
  <2>1. job' = [job EXCEPT ![d] = NoJob] \/ job' = [job EXCEPT ![d] = new]
    BY <1>0, <1>7 DEF Settle
  <2> HIDE DEF left
  <2>2. new.step = "settle"
    BY <1>0, <1>7 DEF Settle, JobT
  <2> HIDE DEF new
  <2> QED BY <1>2, <1>3, <2>1, <2>2
<1>8. ASSUME NEW d \in Channels, GiveUp(d) \/ Panic(d) PROVE Goal
  <2>1. job' = [job EXCEPT ![d] = NoJob]
    BY <1>8 DEF GiveUp, Panic
  <2> QED BY <1>2, <1>3, <2>1
<1>9. CASE Abort
  BY <1>0, <1>2, <1>9 DEF Abort
<1>10. CASE Administer
  BY <1>1, <1>10 DEF Administer, CreateChannel, DeleteChannel, UpdateChannel, DeleteSubject
<1>11. CASE DeliverDue
  BY <1>1, <1>4, <1>5, <1>6, <1>7, <1>8, <1>11 DEF DeliverDue, StartRound, EndBatch
<1>12. CASE \/ \E e \in Events : Notify(e)
            \/ \E found \in SUBSET Watched : BeginAnnounce(found)
            \/ \E s \in Watched : AnnounceOne(s) \/ AnnounceLost(s)
  BY <1>1, <1>12 DEF Notify, BeginAnnounce, AnnounceOne, AnnounceLost
<1>13. CASE Purge \/ Tick \/ UNCHANGED queueVars
  BY <1>1, <1>13 DEF Purge, Tick, queueVars
<1> QED BY <1>8, <1>9, <1>10, <1>11, <1>12, <1>13

\* One step, as far as the head that was read is concerned.
LEMMA HeadStep ==
  ASSUME RowsTyped, JobsHold, AtOrder, HeadBehind, \A c \in Channels : FreshIds(c),
         \A c \in Channels : HeadWaits(c), [QueueNext]_queueVars
  PROVE  HeadBehind'
<1> USE DEF world, queues, task, outside
<1>0. /\ announce.now \in Int /\ instant \in Int
      /\ \A c \in Channels, i \in Ids : rows[c][i].at \in Int
      /\ \A c \in Channels : job[c].row.at \in Int
  BY ChannelTypes DEF RowsTyped, JobT, RowT
<1>1. announce'.now \in Int /\ announce'.now >= announce.now
  <2>1. RowsTyped'
    BY QueueTypeStep
  <2>2. announce'.now \in Int
    BY <2>1 DEF RowsTyped
  <2>3. announce'.now >= announce.now
    <3>1. CASE announce' = announce
      BY <1>0, <3>1
    <3>2. ASSUME NEW s, AnnounceOne(s) \/ AnnounceLost(s) PROVE announce'.now = announce.now
      BY <3>2 DEF AnnounceOne, AnnounceLost, RowsTyped
    <3>3. ASSUME NEW found, BeginAnnounce(found) PROVE announce'.now = instant
      BY <3>3 DEF BeginAnnounce
    <3>4. CASE DeliverDue
      BY <3>1, <3>4 DEF DeliverDue, StartRound, ReadDue, EndBatch, Prepare, Send, Settle, GiveUp
    <3>5. CASE Administer
      BY <3>1, <3>5 DEF Administer, CreateChannel, DeleteChannel, UpdateChannel, DeleteSubject
    <3>6. CASE Abort \/ Purge \/ Tick \/ UNCHANGED queueVars \/ (\E c \in Channels : Panic(c))
                 \/ \E e \in Events : Notify(e)
      BY <3>1, <3>6 DEF Abort, Purge, Tick, queueVars, Panic, Notify
    <3>7. CASE \/ \E found \in SUBSET Watched : BeginAnnounce(found)
               \/ \E s \in Watched : AnnounceOne(s) \/ AnnounceLost(s)
      BY <1>0, <3>2, <3>3, <3>7 DEF AtOrder
    <3> QED BY <3>4, <3>5, <3>6, <3>7 DEF QueueNext
  <2> QED BY <2>2, <2>3
\* A row about a service that is new is not before the announcement.
<1>2. ASSUME NEW c \in Channels, NEW i \in Ids, OfService(c, i)'
      PROVE  \/ OfService(c, i) /\ rows'[c][i].at = rows[c][i].at
             \/ rows'[c][i].at = announce.now
  <2>1. CASE NothingQueued
    BY <1>2, <2>1 DEF NothingQueued, OfService, There
  <2>2. ASSUME NEW s \in Watched, AnnounceOne(s)
        PROVE  (OfService(c, i) /\ rows'[c][i].at = rows[c][i].at) \/ rows'[c][i].at = announce.now
    <3>1. PICK what : Enqueue(what, s, announce.now, announce.due)
      BY <2>2 DEF AnnounceOne
    <3> QED BY <1>2, <3>1, QueuedRows DEF OfService, There
  <2>3. ASSUME NEW e \in Events, Notify(e)
        PROVE  OfService(c, i) /\ rows'[c][i].at = rows[c][i].at
    <3>1. Enqueue("news", e, instant, instant)
      BY <2>3 DEF Notify
    <3> QED BY <1>2, <3>1, QueuedRows, NoService DEF OfService, There
  <2> QED BY <2>1, <2>2, <2>3, QueuesNothing DEF QueueNext
<1>3. SUFFICES ASSUME NEW c \in Channels, Preparable(c)', job'[c].row.about \in Watched
               PROVE  /\ job'[c].row.at <= announce'.now
                      /\ \A i \in Ids : OfService(c, i)' /\ i > job'[c].head =>
                           job'[c].row.at <= rows'[c][i].at
  BY DEF HeadBehind
<1>4. CASE Preparable(c) /\ job'[c].head = job[c].head /\ job'[c].row = job[c].row
  <2>1. /\ job[c].row.at <= announce.now
        /\ \A i \in Ids : OfService(c, i) /\ i > job[c].head => job[c].row.at <= rows[c][i].at
    BY <1>3, <1>4 DEF HeadBehind
  <2>2. job[c].row.at <= announce'.now
    BY <1>0, <1>1, <2>1
  <2> QED BY <1>2, <1>4, <2>1, <2>2
<1>5. CASE /\ rows' = rows /\ announce' = announce
           /\ job'[c].head \in Pending(c) /\ job'[c].row = rows[c][job'[c].head]
  <2> DEFINE h == job'[c].head
  <2>1. h \in Ids /\ OfService(c, h)
    BY <1>3, <1>5 DEF Pending, OfService, There, None
  <2>2. rows[c][h].at <= announce.now
    BY <2>1 DEF AtOrder
  <2>3. \A i \in Ids : OfService(c, i) /\ i > h => rows[c][h].at <= rows[c][i].at
    BY <2>1, IdsAreNumbers DEF AtOrder
  <2>4. \A i \in Ids : OfService(c, i)' => OfService(c, i)
    BY <1>5 DEF OfService, There
  <2> HIDE DEF h
  <2> QED BY <1>5, <2>2, <2>3, <2>4 DEF h
<1>6. \/ DeliverDue \/ Administer \/ Abort \/ Purge \/ Tick \/ UNCHANGED queueVars
      \/ \E d \in Channels : Panic(d)
      \/ \E s \in Watched : AnnounceOne(s) \/ AnnounceLost(s)
      \/ \E found \in SUBSET Watched : BeginAnnounce(found)
      \/ \E e \in Events : Notify(e)
  BY DEF QueueNext
<1> QED BY <1>3, <1>4, <1>5, <1>6, JobMoves

-----------------------------------------------------------------------------
(* Copies and words, one channel at a time                                 *)

\* What is left of a channel's queue keeps its promises when rows are deleted,
\* no earlier one than a copy that left, and when a job is dropped that has
\* nothing to record but what is doubtful.
LEMMA ChannelKept ==
  ASSUME RowsTyped, JobsHold, NEW c \in Channels, ChannelOK(c),
         \A i \in Ids : rows'[c][i] = rows[c][i] \/ rows'[c][i] = NoRow,
         ~SameSecond =>
           \A j, k \in Ids : /\ j < k /\ OfService(c, j) /\ Alike(c, k, j)
                             /\ copies[c][k] > 0 /\ There(c, j)'
                           => There(c, k)',
         next'[c] = next[c], copies'[c] = copies[c], heard'[c] = heard[c],
         doubtful[c] \subseteq doubtful'[c],
         \/ job'[c] = job[c] /\ (sending'.pc = sending.pc \/ job[c].step = "none")
         \/ job'[c] = NoJob /\ (job[c].taken => job[c].ids \subseteq doubtful'[c])
  PROVE  ChannelOK(c)'
<1>0. NoRow.status = None /\ NoRow.about = None /\ NoJob.step = "none" /\ NoJob.taken = FALSE
  BY DEF NoRow, NoJob
<1>1. \A i \in Ids : There(c, i)' => There(c, i) /\ rows'[c][i] = rows[c][i]
  BY <1>0 DEF There
<1>2. \A i \in Ids : Waits(c, i)' => Waits(c, i) /\ There(c, i)'
  BY <1>0 DEF Waits, There, None
<1>3. FreshIds(c)'
  <2>1. FreshIds(c)
    BY DEF ChannelOK
  <2> QED BY <1>0, <1>1, <2>1 DEF FreshIds, There
<1>4. Read(c)'
  <2>0. Read(c)
    BY DEF ChannelOK
  <2>1. CASE job'[c] = NoJob
    BY <1>0, <2>1 DEF Read, JobInRound, HeadWaits, WaveWaits, IdsWait, Preparable
  <2>2. CASE job'[c] = job[c] /\ (sending'.pc = sending.pc \/ job[c].step = "none")
    <3>1. JobInRound(c)'
      BY <2>0, <2>2 DEF Read, JobInRound
    <3>2. HeadWaits(c)'
      <4>1. HeadWaits(c)
        BY <2>0 DEF Read
      <4>2. Preparable(c)' => Preparable(c) /\ job'[c].head = job[c].head /\ job'[c].row = job[c].row
        BY <2>2 DEF Preparable
      <4>3. PICK h : h = job[c].head
        OBVIOUS
      <4>4. Preparable(c) => h \in Ids /\ (There(c, h)' => There(c, h) /\ rows'[c][h] = rows[c][h])
        BY <1>1, <4>3 DEF JobsHold, Preparable
      <4>5. Preparable(c)' => job'[c].head = h
        BY <4>2, <4>3
      <4> QED BY <1>2, <4>1, <4>2, <4>3, <4>4, <4>5 DEF HeadWaits, Waits, There
    <3>3. WaveWaits(c)'
      <4>1. WaveWaits(c) /\ job[c].ids \subseteq Ids
        BY <2>0, ChannelTypes DEF Read, JobT
      <4> QED BY <1>1, <2>2, <4>1 DEF WaveWaits
    <3>4. IdsWait(c)'
      <4>1. IdsWait(c) /\ job[c].ids \subseteq Ids
        BY <2>0, ChannelTypes DEF Read, JobT
      <4> QED BY <1>1, <2>2, <4>1 DEF IdsWait, Waits
    <3> QED BY <3>1, <3>2, <3>3, <3>4 DEF Read
  <2> QED BY <2>1, <2>2
<1>5. Copied(c)'
  <2>0. OutcomeKnown(c) /\ NotLeftYet(c) /\ CopiesAccounted(c)
    BY DEF ChannelOK, Copied
  <2>1. \A i \in Ids : Clean(c, i) => Clean(c, i)'
    BY DEF Clean
  <2>2. OutcomeKnown(c)' /\ NotLeftYet(c)'
    <3>1. CASE job'[c] = NoJob
      BY <1>0, <3>1 DEF OutcomeKnown, NotLeftYet
    <3>2. CASE job'[c] = job[c]
      BY <2>0, <3>2 DEF OutcomeKnown, NotLeftYet, Clean
    <3> QED BY <3>1, <3>2
  <2>3. ASSUME NEW i \in Ids, Waits(c, i)'
        PROVE  Clean(c, i)' \/ (job'[c].taken /\ i \in job'[c].ids)
    <3>1. Clean(c, i) \/ (job[c].taken /\ i \in job[c].ids)
      BY <1>2, <2>0, <2>3 DEF CopiesAccounted
    <3>2. CASE Clean(c, i)
      BY <2>1, <3>2
    <3>3. CASE job[c].taken /\ i \in job[c].ids
      BY <3>3 DEF Clean
    <3> QED BY <3>1, <3>2, <3>3
  <2>4. \A i \in Ids : rows'[c][i].status = "sent" => rows[c][i].status = "sent"
    BY <1>0 DEF None
  <2>5. CopiesAccounted(c)'
    BY <2>0, <2>3, <2>4 DEF CopiesAccounted
  <2> QED BY <2>2, <2>5 DEF Copied
<1>6. ASSUME ~SameSecond PROVE HeardInOrder(c)'
  <2>0. NoneOvertaken(c) /\ LastHeard(c)
    BY <1>6 DEF ChannelOK, HeardInOrder
  <2>1. \A i, j \in Ids : Alike(c, i, j)' /\ OfService(c, j)' =>
          OfService(c, j) /\ Alike(c, i, j) /\ rows'[c][j] = rows[c][j]
    BY <1>1 DEF Alike, OfService
  <2>2. NoneOvertaken(c)'
    BY <1>2, <2>0, <2>1 DEF NoneOvertaken
  <2>3. ASSUME NEW j \in Ids, OfService(c, j)', copies'[c][j] > 0,
               \A k \in Ids : k > j /\ Alike(c, k, j)' => copies'[c][k] = 0
        PROVE  heard'[c][rows'[c][j].about] = rows'[c][j].what
    <3>1. OfService(c, j) /\ rows'[c][j] = rows[c][j] /\ There(c, j)' /\ j \in Nat
      BY <1>1, <2>3, IdsAreNumbers DEF OfService
    <3>2. ASSUME NEW k \in Ids, k > j, Alike(c, k, j) PROVE copies[c][k] = 0
      <4>1. k \in Nat /\ copies[c][k] \in Nat
        BY ChannelTypes
      <4>2. CASE copies[c][k] > 0
        <5>1. There(c, k)'
          BY <1>6, <3>1, <3>2, <4>1, <4>2
        <5>2. Alike(c, k, j)'
          BY <1>1, <3>1, <3>2, <5>1 DEF Alike
        <5> QED BY <2>3, <3>2, <5>2
      <4> QED BY <4>1, <4>2
    <3> QED BY <2>0, <2>3, <3>1, <3>2 DEF LastHeard
  <2>4. LastHeard(c)'
    BY <2>3 DEF LastHeard
  <2> QED BY <2>2, <2>4 DEF HeardInOrder
<1> QED BY <1>3, <1>4, <1>5, <1>6 DEF ChannelOK

\* Outcomes are written: rows keep what they are about, and those of the job
\* that are not written yet wait.
LEMMA OutcomesWritten ==
  ASSUME RowsTyped, NEW c \in Channels, ChannelOK(c), job[c].step = "settle",
         \A i \in Ids : /\ rows'[c][i].what = rows[c][i].what
                        /\ rows'[c][i].about = rows[c][i].about
                        /\ There(c, i)' <=> There(c, i)
                        /\ Waits(c, i)' => Waits(c, i)
                        /\ rows'[c][i].status = "sent" =>
                             rows[c][i].status = "sent" \/ copies[c][i] > 0,
         NEW left \in SUBSET job[c].ids,
         \A i \in left : rows'[c][i] = rows[c][i],
         \A i \in job[c].ids \ left : Waits(c, i)' /\ job[c].taken => i \in doubtful[c],
         (job'[c] = NoJob /\ left = {}) \/ job'[c] = [job[c] EXCEPT !.ids = left],
         next'[c] = next[c], copies'[c] = copies[c], heard'[c] = heard[c],
         doubtful'[c] = doubtful[c], sending' = sending
  PROVE  ChannelOK(c)'
<1>0. NoJob.step = "none" /\ NoJob.taken = FALSE
  BY DEF NoJob
<1>1. job[c] \in JobT
  BY ChannelTypes
<1>2. \/ job'[c].step = "none" /\ job'[c].taken = FALSE /\ left = {}
      \/ /\ job'[c].step = "settle" /\ job'[c].ids = left
         /\ job'[c].taken = job[c].taken /\ job'[c].result = job[c].result
  BY <1>0, <1>1 DEF JobT
<1>3. FreshIds(c)'
  <2>1. FreshIds(c)
    BY DEF ChannelOK
  <2> QED BY <2>1 DEF FreshIds
<1>4. Read(c)'
  <2>0. JobInRound(c) /\ IdsWait(c)
    BY DEF ChannelOK, Read
  <2>1. JobInRound(c)'
    BY <2>0 DEF JobInRound
  <2>2. HeadWaits(c)' /\ WaveWaits(c)'
    BY <1>2 DEF HeadWaits, WaveWaits, Preparable
  <2>3. IdsWait(c)'
    BY <1>2, <2>0 DEF IdsWait, There, Waits
  <2> QED BY <2>1, <2>2, <2>3 DEF Read
<1>5. Copied(c)'
  <2>0. OutcomeKnown(c) /\ CopiesAccounted(c)
    BY DEF ChannelOK, Copied
  <2>1. OutcomeKnown(c)'
    BY <1>2, <2>0 DEF OutcomeKnown
  <2>2. NotLeftYet(c)'
    BY <1>2 DEF NotLeftYet
  <2>3. ASSUME NEW i \in Ids, Waits(c, i)'
        PROVE  Clean(c, i)' \/ (job'[c].taken /\ i \in job'[c].ids)
    <3>1. Clean(c, i) \/ (job[c].taken /\ i \in job[c].ids)
      BY <2>0, <2>3 DEF CopiesAccounted
    <3>2. CASE Clean(c, i)
      BY <3>2 DEF Clean
    <3>3. CASE job[c].taken /\ i \in job[c].ids
      BY <1>2, <2>3, <3>3 DEF Clean
    <3> QED BY <3>1, <3>2, <3>3
  <2>4. CopiesAccounted(c)'
    BY <2>0, <2>3 DEF CopiesAccounted
  <2> QED BY <2>1, <2>2, <2>4 DEF Copied
<1>6. ASSUME ~SameSecond PROVE HeardInOrder(c)'
  <2>0. NoneOvertaken(c) /\ LastHeard(c)
    BY <1>6 DEF ChannelOK, HeardInOrder
  <2>1. /\ \A i, j \in Ids : Alike(c, i, j)' <=> Alike(c, i, j)
        /\ \A j \in Ids : OfService(c, j)' <=> OfService(c, j)
    BY DEF Alike, OfService
  <2>2. NoneOvertaken(c)'
    BY <2>0, <2>1 DEF NoneOvertaken
  <2>3. LastHeard(c)'
    BY <2>0, <2>1 DEF LastHeard
  <2> QED BY <2>2, <2>3 DEF HeardInOrder
<1> QED BY <1>3, <1>4, <1>5, <1>6 DEF ChannelOK

\* A job goes on: nothing has left that is not doubtful yet.
LEMMA JobGoesOn ==
  ASSUME RowsTyped, NEW c \in Channels, ChannelOK(c),
         ~job[c].taken, ~job'[c].taken,
         job'[c].step = "settle" => job'[c].result # "ok",
         Read(c)', NotLeftYet(c)',
         rows'[c] = rows[c], next'[c] = next[c], copies'[c] = copies[c],
         heard'[c] = heard[c], doubtful'[c] = doubtful[c]
  PROVE  ChannelOK(c)'
<1>1. FreshIds(c)'
  <2>1. FreshIds(c)
    BY DEF ChannelOK
  <2> QED BY <2>1 DEF FreshIds, There
<1>2. Copied(c)'
  <2>0. CopiesAccounted(c)
    BY DEF ChannelOK, Copied
  <2>1. OutcomeKnown(c)'
    BY DEF OutcomeKnown
  <2>2. CopiesAccounted(c)'
    BY <2>0 DEF CopiesAccounted, Waits, Clean
  <2> QED BY <2>1, <2>2 DEF Copied
<1>3. ASSUME ~SameSecond PROVE HeardInOrder(c)'
  <2>0. NoneOvertaken(c) /\ LastHeard(c)
    BY <1>3 DEF ChannelOK, HeardInOrder
  <2>1. NoneOvertaken(c)'
    BY <2>0 DEF NoneOvertaken, OfService, Alike, There, Waits
  <2>2. LastHeard(c)'
    BY <2>0 DEF LastHeard, OfService, Alike, There
  <2> QED BY <2>1, <2>2 DEF HeardInOrder
<1> QED BY <1>1, <1>2, <1>3 DEF ChannelOK

\* due: the head of a queue is read.
LEMMA HeadRead ==
  ASSUME RowsTyped, NEW c \in Channels, ChannelOK(c), sending.pc = "due", sending'.pc = "batch",
         NEW h \in Pending(c), \A i \in Pending(c) : h <= i,
         job'[c].step = "head", job'[c].head = h, job'[c].row = rows[c][h],
         job'[c].taken = FALSE,
         rows'[c] = rows[c], next'[c] = next[c], copies'[c] = copies[c],
         heard'[c] = heard[c], doubtful'[c] = doubtful[c]
  PROVE  ChannelOK(c)'
<1>0. h \in Ids /\ h \in Nat /\ Waits(c, h) /\ There(c, h) /\ next[c] \in Nat
  BY ChannelTypes DEF Pending, Waits, There, None
<1>1. ~job[c].taken
  BY DEF ChannelOK, Read, JobInRound, Copied, OutcomeKnown
<1>2. h < next[c]
  BY <1>0 DEF ChannelOK, FreshIds
<1>3. \A i \in Ids : i < h => ~Waits(c, i)
  <2> SUFFICES ASSUME NEW i \in Ids, i < h, Waits(c, i) PROVE FALSE
    OBVIOUS
  <2>1. i \in Pending(c) /\ i \in Nat
    BY IdsAreNumbers DEF Pending, Waits
  <2> QED BY <1>0, <2>1
<1>4. Read(c)'
  <2>1. JobInRound(c)'
    BY DEF JobInRound
  <2>2. HeadWaits(c)'
    BY <1>0, <1>2, <1>3 DEF HeadWaits, Waits
  <2>3. WaveWaits(c)' /\ IdsWait(c)'
    BY DEF WaveWaits, IdsWait
  <2> QED BY <2>1, <2>2, <2>3 DEF Read
<1>5. NotLeftYet(c)'
  <2>1. Clean(c, h)
    BY <1>0, <1>1 DEF ChannelOK, Copied, CopiesAccounted
  <2> QED BY <2>1 DEF NotLeftYet, Clean
<1> QED BY <1>1, <1>4, <1>5, JobGoesOn

\* prepare: the rows that leave with the head are read.
LEMMA Prepared ==
  ASSUME RowsTyped, JobsHold, NEW c \in Channels, ChannelOK(c), sending'.pc = "batch",
         job[c].step = "head", NEW ids,
         ids = {job[c].head} \cup WaveOf(c, job[c].head, job[c].row),
         \/ job'[c] = [job[c] EXCEPT !.step = "settle", !.ids = ids, !.result = "gone"]
         \/ job'[c] = [job[c] EXCEPT !.step = "ready", !.ids = ids],
         rows'[c] = rows[c], next'[c] = next[c], copies'[c] = copies[c],
         heard'[c] = heard[c], doubtful'[c] = doubtful[c]
  PROVE  ChannelOK(c)'
<1> DEFINE head == job[c].head
<1>0. job[c] \in JobT /\ head \in Ids /\ head \in Nat /\ next[c] \in Nat
  BY ChannelTypes, IdsAreNumbers DEF JobsHold
<1>1. /\ job'[c].head = head /\ job'[c].row = job[c].row /\ job'[c].ids = ids
      /\ job'[c].taken = job[c].taken
      /\ job'[c].step = "ready" \/ (job'[c].step = "settle" /\ job'[c].result = "gone")
  BY <1>0 DEF JobT
<1>2. ~job[c].taken
  BY DEF ChannelOK, Copied, OutcomeKnown
<1>3. HeadWaits(c) /\ NotLeftYet(c) /\ FreshIds(c) /\ CopiesAccounted(c)
  BY DEF ChannelOK, Read, Copied
<1>4. ASSUME NEW i \in ids, i # head
      PROVE  /\ i \in Ids /\ i > head /\ job[c].row.about \in Watched
             /\ Waits(c, i) /\ rows[c][i].what = job[c].row.what /\ rows[c][i].at = job[c].row.at
  BY <1>4 DEF WaveOf, Pending, Waits
<1>5. \A i \in ids : i < next[c] /\ (There(c, i) => Waits(c, i))
  <2> SUFFICES ASSUME NEW i \in ids PROVE i < next[c] /\ (There(c, i) => Waits(c, i))
    OBVIOUS
  <2>1. CASE i = head
    BY <1>3, <2>1 DEF HeadWaits, Preparable
  <2>2. CASE i # head
    <3>1. Waits(c, i) /\ There(c, i) /\ i \in Ids
      BY <1>4, <2>2 DEF Waits, There, None
    <3>2. i \in Nat /\ ~(i >= next[c])
      BY <1>3, <3>1, IdsAreNumbers DEF FreshIds
    <3> QED BY <1>0, <3>1, <3>2
  <2> QED BY <2>1, <2>2
<1>6. Read(c)'
  <2>1. JobInRound(c)'
    BY DEF JobInRound
  <2>2. HeadWaits(c)'
    BY <1>1, <1>3 DEF HeadWaits, Preparable, There, Waits
  <2>3. WaveWaits(c)'
    <3>1. \A i \in ids : /\ i >= head
                         /\ i # head => job[c].row.about \in Watched
                         /\ There(c, i) => /\ rows[c][i].what = job[c].row.what
                                           /\ rows[c][i].at = job[c].row.at
      <4> SUFFICES ASSUME NEW i \in ids
                   PROVE  /\ i >= head
                          /\ i # head => job[c].row.about \in Watched
                          /\ There(c, i) => /\ rows[c][i].what = job[c].row.what
                                            /\ rows[c][i].at = job[c].row.at
        OBVIOUS
      <4>1. CASE i = head
        BY <1>0, <1>3, <4>1 DEF HeadWaits, Preparable
      <4>2. CASE i # head
        BY <1>0, <1>4, <4>2, IdsAreNumbers
      <4> QED BY <4>1, <4>2
    <3> QED BY <1>1, <3>1 DEF WaveWaits, There
  <2>4. IdsWait(c)'
    BY <1>1, <1>5 DEF IdsWait, There, Waits
  <2> QED BY <2>1, <2>2, <2>3, <2>4 DEF Read
<1>7. NotLeftYet(c)'
  <2>1. \A i \in ids : Clean(c, i)
    <3> SUFFICES ASSUME NEW i \in ids PROVE Clean(c, i)
      OBVIOUS
    <3>1. CASE i = head
      BY <1>3, <3>1 DEF NotLeftYet
    <3>2. CASE i # head
      BY <1>2, <1>3, <1>4, <3>2 DEF CopiesAccounted
    <3> QED BY <3>1, <3>2
  <2> QED BY <1>1, <2>1 DEF NotLeftYet, Clean
<1> QED BY <1>1, <1>2, <1>6, <1>7, JobGoesOn

\* A message is queued, behind all those of its channel.
LEMMA Queued ==
  ASSUME RowsTyped, JobsHold, NEW c \in Channels, ChannelOK(c),
         next[c] \in Ids, next'[c] = next[c] + 1,
         \A i \in Ids \ {next[c]} : rows'[c][i] = rows[c][i],
         rows'[c][next[c]].status = "pending",
         job'[c] = job[c], copies'[c] = copies[c], heard'[c] = heard[c],
         doubtful'[c] = doubtful[c], sending' = sending
  PROVE  ChannelOK(c)'
<1>0. /\ job[c] \in JobT /\ next[c] \in Nat /\ job[c].ids \subseteq Ids
      /\ \A i \in Ids : i \in Nat /\ copies[c][i] \in Nat
  BY ChannelTypes DEF JobT
<1>1. PICK n : n = next[c]
  OBVIOUS
<1>2. /\ FreshIds(c) /\ HeadWaits(c) /\ WaveWaits(c) /\ IdsWait(c) /\ JobInRound(c)
      /\ OutcomeKnown(c) /\ NotLeftYet(c) /\ CopiesAccounted(c)
      /\ ~SameSecond => NoneOvertaken(c) /\ LastHeard(c)
  BY DEF ChannelOK, Read, Copied, HeardInOrder
<1>3. copies[c][n] = 0 /\ \A i \in Ids : i >= n => ~There(c, i)
  BY <1>0, <1>1, <1>2 DEF FreshIds
<1>4. There(c, n)' /\ \A i \in Ids \ {n} : /\ There(c, i)' <=> There(c, i)
                                          /\ Waits(c, i)' <=> Waits(c, i)
  BY <1>1 DEF There, Waits, None
<1>5. FreshIds(c)'
  BY <1>0, <1>1, <1>2, <1>4 DEF There, Waits, FreshIds
<1>6. Read(c)'
  <2>1. JobInRound(c)'
    BY <1>2 DEF JobInRound
  <2>2. HeadWaits(c)'
    <3>1. PICK h : h = job[c].head
      OBVIOUS
    <3>2. Preparable(c) => h \in Ids /\ h \in Nat /\ h < n
      BY <1>0, <1>1, <1>2, <3>1 DEF HeadWaits, JobsHold, Preparable
    <3>3. Preparable(c) => \A i \in Ids : i < h => ~Waits(c, i)'
      BY <1>0, <1>1, <1>2, <1>4, <3>1, <3>2 DEF There, Waits, HeadWaits
    <3>4. Preparable(c)' <=> Preparable(c)
      BY DEF Preparable
    <3>5. Preparable(c) => h < next'[c]
      BY <1>0, <1>1, <3>2
    <3>6. Preparable(c) /\ There(c, h)' =>
            /\ Waits(c, h)' /\ rows'[c][h].what = job[c].row.what
            /\ rows'[c][h].at = job[c].row.at /\ rows'[c][h].about = job[c].row.about
      BY <1>0, <1>1, <1>2, <1>4, <3>1, <3>2 DEF There, Waits, HeadWaits
    <3>7. job'[c].head = h /\ job'[c].row = job[c].row
      BY <3>1
    <3> QED BY <3>3, <3>4, <3>5, <3>6, <3>7 DEF HeadWaits
  <2>3. \A i \in job[c].ids : job[c].step \in {"ready", "settle"} => i # n /\ i < next'[c]
    BY <1>0, <1>1, <1>2 DEF IdsWait
  <2>4. WaveWaits(c)'
    BY <1>0, <1>1, <1>2, <1>4, <2>3 DEF There, Waits, WaveWaits
  <2>5. IdsWait(c)'
    BY <1>0, <1>1, <1>2, <1>4, <2>3 DEF There, Waits, IdsWait
  <2> QED BY <2>1, <2>2, <2>4, <2>5 DEF Read
<1>7. Copied(c)'
  <2>1. OutcomeKnown(c)' /\ NotLeftYet(c)'
    BY <1>2 DEF OutcomeKnown, NotLeftYet, Clean
  <2>2. CopiesAccounted(c)'
    <3>1. Clean(c, n)'
      BY <1>3 DEF Clean
    <3>2. \A i \in Ids \ {n} : Clean(c, i)' <=> Clean(c, i)
      BY DEF Clean
    <3>3. rows'[c][n].status # "sent"
      BY <1>1
    <3> QED BY <1>0, <1>1, <1>2, <1>3, <1>4, <3>1, <3>2, <3>3 DEF There, Waits, Clean, CopiesAccounted
  <2> QED BY <2>1, <2>2 DEF Copied
<1>8. ASSUME ~SameSecond PROVE HeardInOrder(c)'
  <2>1. NoneOvertaken(c)'
    <3> SUFFICES ASSUME NEW i \in Ids, NEW j \in Ids, i < j, OfService(c, j)', Alike(c, i, j)',
                        copies'[c][j] > 0
                 PROVE  ~Waits(c, i)'
      BY DEF NoneOvertaken
    <3>1. j # n
      BY <1>3
    <3>2. There(c, j) /\ j < n
      BY <1>0, <1>3, <1>4, <3>1, <1>1 DEF There, Waits, OfService
    <3>3. i # n
      BY <1>0, <1>1, <3>2
    <3>4. OfService(c, j) /\ Alike(c, i, j)
      BY <1>1, <1>4, <3>1, <3>3 DEF There, Waits, OfService, Alike
    <3> QED BY <1>2, <1>4, <1>8, <3>3, <3>4 DEF There, Waits, Alike, OfService, NoneOvertaken
  <2>2. LastHeard(c)'
    <3> SUFFICES ASSUME NEW j \in Ids, OfService(c, j)', copies'[c][j] > 0,
                        \A k \in Ids : k > j /\ Alike(c, k, j)' => copies'[c][k] = 0
                 PROVE  heard'[c][rows'[c][j].about] = rows'[c][j].what
      BY DEF LastHeard
    <3>1. j # n
      BY <1>3
    <3>2. OfService(c, j) /\ rows'[c][j] = rows[c][j]
      BY <1>1, <1>4, <3>1 DEF There, Waits, OfService
    <3>3. \A k \in Ids : k > j /\ Alike(c, k, j) => copies[c][k] = 0
      BY <1>1, <1>3, <1>4, <3>1 DEF There, Waits, Alike
    <3> QED BY <1>2, <1>8, <3>2, <3>3 DEF LastHeard
  <2> QED BY <2>1, <2>2 DEF HeardInOrder
<1> QED BY <1>5, <1>6, <1>7, <1>8 DEF ChannelOK

\* deliver_batch: the message has reached its channel.  No earlier message about
\* what it names waits: those before the head do not, those after it that do
\* are of later instants or leave too.
LEMMA Sent ==
  ASSUME RowsTyped, JobsHold, ~SameSecond => AtOrder /\ HeadBehind, NEW c \in Channels, ChannelOK(c),
         job[c].step = "ready", NEW ids, ids = job[c].ids, NEW result \in SendResult,
         job'[c] = [job[c] EXCEPT !.step = "settle", !.result = result, !.taken = TRUE],
         \A s \in Watched : heard'[c][s] = IF s \in Named(c, ids) THEN job[c].row.what
                                            ELSE heard[c][s],
         \A i \in Ids : copies'[c][i] = IF i \in ids THEN TwoAtMost(copies[c][i] + 1)
                                        ELSE copies[c][i],
         doubtful'[c] = IF result = "ok" THEN doubtful[c] ELSE doubtful[c] \cup ids,
         rows'[c] = rows[c], next'[c] = next[c], sending' = sending
  PROVE  ChannelOK(c)'
<1> DEFINE head == job[c].head
<1>0. /\ job[c] \in JobT /\ head \in Ids /\ head \in Nat /\ ids \subseteq Ids
      /\ \A i \in Ids : i \in Nat /\ copies[c][i] \in Nat /\ rows[c][i].at \in Int
      /\ job[c].row.at \in Int
  BY ChannelTypes DEF JobsHold, JobT, RowT
<1>1. /\ FreshIds(c) /\ HeadWaits(c) /\ WaveWaits(c) /\ IdsWait(c) /\ JobInRound(c)
      /\ OutcomeKnown(c) /\ NotLeftYet(c) /\ CopiesAccounted(c)
      /\ ~SameSecond => NoneOvertaken(c) /\ LastHeard(c) /\ AtOrder /\ HeadBehind
  BY DEF ChannelOK, Read, Copied, HeardInOrder
<1>2. /\ job'[c].step = "settle" /\ job'[c].result = result /\ job'[c].taken = TRUE
      /\ job'[c].ids = ids
  BY <1>0 DEF JobT
<1>3. /\ \A i \in Ids : copies'[c][i] \in Nat
      /\ \A i \in ids : copies'[c][i] > 0
      /\ \A i \in ids : copies[c][i] = 0 => copies'[c][i] = 1
      /\ \A i \in Ids \ ids : copies'[c][i] = copies[c][i]
  <2>1. \A n \in Nat : /\ TwoAtMost(n + 1) > 0 /\ TwoAtMost(n + 1) \in Nat
                       /\ n = 0 => TwoAtMost(n + 1) = 1
    BY DEF TwoAtMost, EarlierOf
  <2> QED BY <1>0, <2>1
<1>4. /\ doubtful[c] \subseteq doubtful'[c]
      /\ result # "ok" => ids \subseteq doubtful'[c]
  OBVIOUS
<1>5. FreshIds(c)'
  <2>1. \A i \in Ids : i >= next'[c] => ~There(c, i)' /\ i \notin ids /\ copies'[c][i] = 0
    BY <1>0, <1>1, <1>3, ChannelTypes DEF FreshIds, There, IdsWait
  <2> QED BY <1>1, <2>1 DEF FreshIds, There
<1>6. Read(c)'
  <2>1. JobInRound(c)'
    BY <1>1 DEF JobInRound
  <2>2. HeadWaits(c)' /\ WaveWaits(c)'
    BY <1>2 DEF HeadWaits, WaveWaits, Preparable
  <2>3. IdsWait(c)'
    BY <1>1, <1>2 DEF IdsWait, There, Waits
  <2> QED BY <2>1, <2>2, <2>3 DEF Read
<1>7. Copied(c)'
  <2>1. OutcomeKnown(c)'
    BY <1>2, <1>3, <1>4 DEF OutcomeKnown
  <2>2. NotLeftYet(c)'
    BY <1>2 DEF NotLeftYet
  <2>3. CopiesAccounted(c)'
    <3>1. ASSUME NEW i \in Ids
          PROVE  /\ rows'[c][i].status = "sent" => copies'[c][i] > 0
                 /\ copies'[c][i] > 1 => i \in doubtful'[c]
                 /\ Waits(c, i)' => Clean(c, i)' \/ (job'[c].taken /\ i \in job'[c].ids)
      <4>1. CASE i \in ids
        <5>1. Clean(c, i)
          BY <1>1, <4>1 DEF NotLeftYet
        <5>2. copies[c][i] = 0 \/ i \in doubtful'[c]
          BY <1>4, <5>1 DEF Clean
        <5> QED BY <1>2, <1>3, <4>1, <5>2
      <4>2. CASE i \notin ids
        <5>1. copies'[c][i] = copies[c][i] /\ ~job[c].taken
          BY <1>1, <1>3, <4>2 DEF OutcomeKnown
        <5> QED BY <1>1, <1>4, <5>1 DEF CopiesAccounted, Clean, Waits
      <4> QED BY <4>1, <4>2
    <3> QED BY <3>1 DEF CopiesAccounted
  <2> QED BY <2>1, <2>2, <2>3 DEF Copied
<1>8. ASSUME ~SameSecond PROVE NoneOvertaken(c)'
  <2> SUFFICES ASSUME NEW i \in Ids, NEW j \in Ids, i < j, OfService(c, j), Alike(c, i, j),
                      copies'[c][j] > 0, Waits(c, i)
               PROVE  FALSE
    BY DEF NoneOvertaken, OfService, Alike, There, Waits
  <2>1. j \in ids
    <3>1. CASE j \notin ids
      BY <1>1, <1>3, <1>8, <3>1 DEF NoneOvertaken
    <3> QED BY <3>1
  <2>2. rows[c][j].at = job[c].row.at /\ j >= head
    BY <1>1, <2>1 DEF WaveWaits, OfService
  <2>3. OfService(c, i) /\ rows[c][i].at < rows[c][j].at
    <3>1. OfService(c, i) /\ rows[c][i].about = rows[c][j].about
      BY DEF OfService, Alike
    <3> QED BY <1>1, <1>8, <3>1 DEF AtOrder
  <2>4. CASE i < head
    BY <1>1, <2>4 DEF HeadWaits, Preparable
  <2>5. CASE i = head
    <3>1. There(c, head)
      BY <2>3, <2>5 DEF OfService
    <3>2. rows[c][head].at = job[c].row.at
      BY <1>1, <3>1 DEF HeadWaits, Preparable
    <3> QED BY <1>0, <2>2, <2>3, <2>5, <3>2
  <2>6. CASE i > head
    <3>1. j # head
      BY <1>0, <2>6
    <3>2. job[c].row.about \in Watched
      BY <1>1, <2>1, <3>1 DEF WaveWaits
    <3>3. job[c].row.at <= rows[c][i].at
      BY <1>1, <1>8, <2>3, <2>6, <3>2 DEF HeadBehind, Preparable
    <3> QED BY <1>0, <2>2, <2>3, <3>3
  <2> QED BY <1>0, <2>4, <2>5, <2>6
<1>9. ASSUME ~SameSecond PROVE LastHeard(c)'
  <2> SUFFICES ASSUME NEW j \in Ids, OfService(c, j), copies'[c][j] > 0,
                      \A k \in Ids : k > j /\ Alike(c, k, j) => copies'[c][k] = 0
               PROVE  heard'[c][rows[c][j].about] = rows[c][j].what
    BY DEF LastHeard, OfService, Alike, There
  <2> DEFINE s == rows[c][j].about
  <2>0. s \in Watched
    BY DEF OfService
  <2>1. CASE s \in Named(c, ids)
    <3>1. PICK i \in ids : rows[c][i].about = s
      BY <2>1 DEF Named
    <3>2. i \in Ids /\ There(c, i)
      BY <1>0, <1>1, <2>0, <3>1, NoService DEF FreshIds
    <3>3. Alike(c, i, j)
      BY <3>1, <3>2 DEF Alike
    <3>4. i <= j
      BY <1>0, <1>3, <3>2, <3>3
    <3>5. j \in ids
      <4>1. CASE j \notin ids
        <5>1. i < j /\ copies[c][j] > 0
          BY <1>0, <1>3, <3>4, <4>1
        <5>2. ~Waits(c, i)
          BY <1>1, <1>9, <3>2, <3>3, <5>1 DEF NoneOvertaken
        <5>3. Waits(c, i)
          BY <1>1, <3>2 DEF IdsWait
        <5> QED BY <5>2, <5>3
      <4> QED BY <4>1
    <3>6. rows[c][j].what = job[c].row.what
      BY <1>1, <3>5 DEF WaveWaits, OfService
    <3> QED BY <2>0, <2>1, <3>6
  <2>2. CASE s \notin Named(c, ids)
    <3>1. j \notin ids
      BY <2>0, <2>2 DEF Named
    <3>2. copies[c][j] > 0
      BY <1>3, <3>1
    <3>3. ASSUME NEW k \in Ids, k > j, Alike(c, k, j) PROVE copies[c][k] = 0
      <4>1. k \notin ids
        BY <1>3, <3>3
      <4> QED BY <1>3, <3>3, <4>1
    <3>4. heard[c][s] = rows[c][j].what
      BY <1>1, <1>9, <3>2, <3>3 DEF LastHeard
    <3> QED BY <2>0, <2>2, <3>4
  <2> QED BY <2>1, <2>2
<1> QED BY <1>5, <1>6, <1>7, <1>8, <1>9 DEF ChannelOK, HeardInOrder

\* A channel that a step leaves alone.
LEMMA Untouched ==
  ASSUME RowsTyped, JobsHold, NEW c \in Channels, ChannelOK(c),
         rows'[c] = rows[c], next'[c] = next[c], copies'[c] = copies[c],
         heard'[c] = heard[c], doubtful'[c] = doubtful[c], job'[c] = job[c],
         sending'.pc = sending.pc \/ job[c].step = "none"
  PROVE  ChannelOK(c)'
<1>1. \A j, k \in Ids : /\ j < k /\ OfService(c, j) /\ Alike(c, k, j)
                        /\ copies[c][k] > 0 /\ There(c, j)'
                      => There(c, k)'
  BY DEF Alike, There
<1>2. doubtful[c] \subseteq doubtful'[c] /\ \A i \in Ids : rows'[c][i] = rows[c][i]
  OBVIOUS
<1> QED BY <1>1, <1>2, ChannelKept

\* Something happens on the page, or an announcement goes on.
LEMMA HappeningStep ==
  ASSUME RowsTyped, JobsHold, \A c \in Channels : ChannelOK(c), NEW c \in Channels,
         \/ \E e \in Events : Notify(e)
         \/ \E found \in SUBSET Watched : BeginAnnounce(found)
         \/ \E s \in Watched : AnnounceOne(s) \/ AnnounceLost(s)
  PROVE  ChannelOK(c)'
<1> USE DEF world, queues, task, outside
<1>1. ASSUME NEW what, NEW x, NEW at, NEW due, Enqueue(what, x, at, due),
             UNCHANGED <<task, outside>>
      PROVE  ChannelOK(c)'
  <2>1. CASE rows'[c] = rows[c] /\ next'[c] = next[c]
    BY <1>1, <2>1, Untouched
  <2>2. CASE ~(rows'[c] = rows[c] /\ next'[c] = next[c])
    <3>1. /\ next[c] \in Ids /\ next'[c] = next[c] + 1
          /\ \A i \in Ids \ {next[c]} : rows'[c][i] = rows[c][i]
          /\ rows'[c][next[c]].status = "pending"
      BY <1>1, <2>2, QueuedRows
    <3> QED BY <1>1, <3>1, Queued
  <2> QED BY <2>1, <2>2
<1>2. ASSUME NEW e \in Events, Notify(e) PROVE ChannelOK(c)'
  BY <1>1, <1>2 DEF Notify
<1>3. ASSUME NEW s \in Watched, AnnounceOne(s) PROVE ChannelOK(c)'
  BY <1>1, <1>3 DEF AnnounceOne
<1>4. CASE \/ \E found \in SUBSET Watched : BeginAnnounce(found)
           \/ \E s \in Watched : AnnounceLost(s)
  BY <1>4, Untouched DEF BeginAnnounce, AnnounceLost
<1> QED BY <1>2, <1>3, <1>4

\* Administrators delete channels, services and events, and their messages.
LEMMA AdministerStep ==
  ASSUME RowsTyped, JobsHold, \A c \in Channels : ChannelOK(c), NEW c \in Channels,
         Administer
  PROVE  ChannelOK(c)'
<1> USE DEF world, queues, task, outside
<1>0. NoRow.status = None /\ NoRow.about = None
  BY DEF NoRow
<1>1. ASSUME NEW d \in Channels, DeleteChannel(d) PROVE ChannelOK(c)'
  <2>1. CASE d # c
    <3>1. rows'[c] = rows[c]
      BY <1>1, <2>1 DEF DeleteChannel, RowsTyped
    <3> QED BY <1>1, <3>1, Untouched DEF DeleteChannel
  <2>2. CASE d = c
    <3>1. \A i \in Ids : rows'[c][i] = NoRow
      BY <1>1, <2>2 DEF DeleteChannel, RowsTyped
    <3>2. \A j, k \in Ids : /\ j < k /\ OfService(c, j) /\ Alike(c, k, j)
                            /\ copies[c][k] > 0 /\ There(c, j)'
                          => There(c, k)'
      BY <1>0, <3>1 DEF There
    <3> QED BY <1>1, <3>1, <3>2, ChannelKept DEF DeleteChannel
  <2> QED BY <2>1, <2>2
<1>2. ASSUME NEW x \in Watched \cup Events, DeleteSubject(x) PROVE ChannelOK(c)'
  <2>1. \A i \in Ids : rows'[c][i] = IF rows[c][i].about = x THEN NoRow ELSE rows[c][i]
    BY <1>2 DEF DeleteSubject, Without
  <2>2. \A j, k \in Ids : /\ j < k /\ OfService(c, j) /\ Alike(c, k, j)
                          /\ copies[c][k] > 0 /\ There(c, j)'
                        => There(c, k)'
    BY <1>0, <2>1 DEF Alike, There
  <2> QED BY <1>2, <2>1, <2>2, ChannelKept DEF DeleteSubject
<1>3. ASSUME NEW d \in Channels, CreateChannel(d) PROVE ChannelOK(c)'
  BY <1>3, Untouched DEF CreateChannel
<1>4. ASSUME NEW d \in Channels, NEW audience, UpdateChannel(d, audience) PROVE ChannelOK(c)'
  BY <1>4, Untouched DEF UpdateChannel
<1> QED BY <1>1, <1>2, <1>3, <1>4 DEF Administer

\* purge: of two messages about a service, the earlier is deleted first.
LEMMA PurgeStep ==
  ASSUME RowsTyped, JobsHold, ~SameSecond => AtOrder, \A c \in Channels : ChannelOK(c), NEW c \in Channels,
         Purge
  PROVE  ChannelOK(c)'
<1> USE DEF world, queues, task, outside
<1> DEFINE finished == {i \in Ids : rows[c][i].status \in {"sent", "failed"}}
           old == {i \in finished : /\ rows[c][i].at + KEEP_HISTORY < instant
                                    /\ i # Last(finished)}
<1>0. /\ NoRow.status = None /\ KEEP_HISTORY \in Int /\ instant \in Int
      /\ \A i \in Ids : i \in Nat /\ rows[c][i].at \in Int /\ rows[c][i] \in RowT
  BY ChannelTypes, DeliveriesAssumption DEF NoRow, RowsTyped
<1>1. \A i \in Ids : rows'[c][i] = IF i \in old THEN NoRow ELSE rows[c][i]
  BY DEF Purge
<1>2. ASSUME ~SameSecond, NEW j \in Ids, NEW k \in Ids, j < k, OfService(c, j), Alike(c, k, j),
             copies[c][k] > 0, k \in old
      PROVE  j \in old
  <2>1. OfService(c, k) /\ Alike(c, j, k)
    BY <1>2 DEF OfService, Alike
  <2>2. ~Waits(c, j)
    BY <1>2, <2>1 DEF ChannelOK, HeardInOrder, NoneOvertaken
  <2>3. j \in finished
    BY <1>0, <1>2, <2>2 DEF Waits, OfService, There, RowT, Status
  <2>4. rows[c][j].at < rows[c][k].at /\ rows[c][k].at + KEEP_HISTORY < instant
    BY <1>2, <2>1 DEF AtOrder, Alike
  <2>5. k \in finished /\ finished \subseteq Ids
    BY <1>2
  <2>6. k <= Last(finished) /\ Last(finished) \in Ids
    <3> HIDE DEF finished
    <3> QED BY <2>5, LastNumber
  <2>7. rows[c][j].at + KEEP_HISTORY < instant /\ j # Last(finished)
    <3> HIDE DEF finished
    <3> QED BY <1>0, <1>2, <2>4, <2>6
  <2> QED BY <2>3, <2>7
<1> HIDE DEF old
<1>3. ASSUME ~SameSecond, NEW j \in Ids, NEW k \in Ids, j < k, OfService(c, j), Alike(c, k, j),
             copies[c][k] > 0, There(c, j)'
      PROVE  There(c, k)'
  <2>1. j \notin old
    BY <1>0, <1>1, <1>3 DEF There
  <2>2. k \notin old
    BY <1>2, <1>3, <2>1
  <2> QED BY <1>1, <1>3, <2>2 DEF There, Alike
<1>4. ~SameSecond =>
        \A j, k \in Ids : /\ j < k /\ OfService(c, j) /\ Alike(c, k, j)
                          /\ copies[c][k] > 0 /\ There(c, j)'
                        => There(c, k)'
  BY <1>3
<1> QED BY <1>1, <1>4, ChannelKept DEF Purge

\* The sending round reads, prepares, sends and records.
LEMMA DeliverStep ==
  ASSUME RowsTyped, JobsHold, ~SameSecond => AtOrder /\ HeadBehind, \A c \in Channels : ChannelOK(c),
         NEW c \in Channels, DeliverDue
  PROVE  ChannelOK(c)'
<1> USE DEF world, queues, task, outside
<1>0. NoJob.step = "none" /\ NoJob.taken = FALSE
  BY DEF NoJob
<1>1. /\ JobInRound(c) /\ IdsWait(c) /\ OutcomeKnown(c) /\ NotLeftYet(c) /\ CopiesAccounted(c)
      /\ job \in [Channels -> JobT] /\ job[c] \in JobT
      /\ rows[c] \in [Ids -> RowT] /\ job[c].ids \subseteq Ids
  BY ChannelTypes DEF ChannelOK, Read, Copied, RowsTyped, JobT
\* The job is dropped, and what it left is doubtful already.
<1>2. ASSUME rows' = rows, next' = next, outside' = outside, job'[c] = NoJob, ~job[c].taken
      PROVE  ChannelOK(c)'
  <2>1. \A j, k \in Ids : /\ j < k /\ OfService(c, j) /\ Alike(c, k, j)
                          /\ copies[c][k] > 0 /\ There(c, j)'
                        => There(c, k)'
    BY <1>2 DEF Alike, There
  <2>2. doubtful[c] \subseteq doubtful'[c] /\ \A i \in Ids : rows'[c][i] = rows[c][i]
    BY <1>2
  <2> QED BY <1>2, <2>1, <2>2, ChannelKept
<1>3. CASE StartRound \/ EndBatch
  BY <1>1, <1>3, Untouched DEF StartRound, EndBatch, Idle, JobInRound
<1>4. CASE ReadDue
  <2>0. job[c].step = "none" /\ ~job[c].taken
    BY <1>1, <1>4 DEF ReadDue, JobInRound, OutcomeKnown
  <2>1. CASE UNCHANGED job
    BY <1>4, <2>0, <2>1, Untouched DEF ReadDue
  <2>2. CASE ~ UNCHANGED job
    <3> DEFINE heads == [d \in Channels |-> DueHead(d, sending.now)]
    <3>1. /\ sending.pc = "due" /\ sending' = [sending EXCEPT !.pc = "batch", !.previous = heads]
          /\ job' = [d \in Channels |-> IF heads[d] = 0 THEN NoJob
                        ELSE [NoJob EXCEPT !.step = "head", !.head = heads[d],
                                           !.row = rows[d][heads[d]]]]
          /\ rows' = rows /\ next' = next /\ outside' = outside
      BY <1>4, <2>2 DEF ReadDue
    <3>2. heads[c] = 0 \/ (heads[c] \in Pending(c) /\ \A i \in Pending(c) : heads[c] <= i)
      BY HeadType
    <3> HIDE DEF heads
    <3>3. sending'.pc = "batch"
      BY <3>1 DEF RowsTyped, RoundT
    <3>4. CASE heads[c] = 0
      BY <1>2, <2>0, <3>1, <3>4
    <3>5. CASE heads[c] # 0
      <4>1. /\ job'[c].step = "head" /\ job'[c].head = heads[c]
            /\ job'[c].row = rows[c][heads[c]] /\ job'[c].taken = FALSE
        BY <3>1, <3>5 DEF NoJob
      <4> QED BY <3>1, <3>2, <3>3, <3>5, <4>1, HeadRead
    <3> QED BY <3>4, <3>5
  <2> QED BY <2>1, <2>2
<1>5. ASSUME NEW d \in Channels, Prepare(d) PROVE ChannelOK(c)'
  <2>1. CASE d # c
    <3>1. job'[c] = job[c]
      BY <1>1, <1>5, <2>1 DEF Prepare
    <3> QED BY <1>5, <3>1, Untouched DEF Prepare
  <2>2. CASE d = c
    <3> DEFINE ids == {job[c].head} \cup WaveOf(c, job[c].head, job[c].row)
    <3>1. \/ job'[c] = NoJob
          \/ job'[c] = [job[c] EXCEPT !.step = "settle", !.ids = ids, !.result = "gone"]
          \/ job'[c] = [job[c] EXCEPT !.step = "ready", !.ids = ids]
      BY <1>1, <1>5, <2>2 DEF Prepare
    <3>2. /\ job[c].step = "head" /\ sending'.pc = "batch" /\ rows' = rows /\ next' = next
          /\ outside' = outside
      BY <1>5, <2>2 DEF Prepare
    <3> HIDE DEF ids
    <3>3. ids = {job[c].head} \cup WaveOf(c, job[c].head, job[c].row)
      BY DEF ids
    <3>4. CASE job'[c] = NoJob
      BY <1>1, <1>2, <3>2, <3>4 DEF OutcomeKnown
    <3>5. CASE job'[c] # NoJob
      BY <3>1, <3>2, <3>3, <3>5, Prepared
    <3> QED BY <3>4, <3>5
  <2> QED BY <2>1, <2>2
<1>6. ASSUME NEW d \in Channels, NEW result \in SendResult, NEW taken \in BOOLEAN,
             Send(d, result, taken)
      PROVE  ChannelOK(c)'
  <2> DEFINE says == [s \in Watched |-> IF s \in Named(d, job[d].ids) THEN job[d].row.what
                                          ELSE heard[d][s]]
             more == [i \in Ids |-> IF i \in job[d].ids THEN TwoAtMost(copies[d][i] + 1)
                                    ELSE copies[d][i]]
             risk == doubtful[d] \cup job[d].ids
             new == [job[d] EXCEPT !.step = "settle", !.result = result, !.taken = taken]
  <2>0. /\ heard \in [Channels -> [Watched -> Happening \cup {None}]]
        /\ copies \in [Channels -> [Ids -> Nat]] /\ doubtful \in [Channels -> SUBSET Ids]
    BY DEF RowsTyped
  <2>1. /\ job' = [job EXCEPT ![d] = new] /\ rows' = rows /\ next' = next /\ sending' = sending
        /\ job[d].step = "ready"
        /\ result = "ok" => taken
    BY <1>1, <1>6 DEF Send
  <2>2. /\ taken => /\ heard' = [heard EXCEPT ![d] = says]
                    /\ copies' = [copies EXCEPT ![d] = more]
                    /\ doubtful' = IF result = "ok" THEN doubtful ELSE [doubtful EXCEPT ![d] = risk]
        /\ ~taken => outside' = outside
    BY <1>6, <2>0 DEF Send
  <2>3. /\ \A s \in Watched : says[s] = IF s \in Named(d, job[d].ids) THEN job[d].row.what
                                         ELSE heard[d][s]
        /\ \A i \in Ids : more[i] = IF i \in job[d].ids THEN TwoAtMost(copies[d][i] + 1)
                                    ELSE copies[d][i]
        /\ risk = doubtful[d] \cup job[d].ids
    OBVIOUS
  <2>4. new = [job[d] EXCEPT !.step = "settle", !.result = result, !.taken = taken]
    OBVIOUS
  <2> HIDE DEF says, more, risk, new
  <2>5. CASE d # c
    <3>1. /\ job'[c] = job[c] /\ heard'[c] = heard[c] /\ copies'[c] = copies[c]
          /\ doubtful'[c] = doubtful[c]
      BY <1>1, <2>0, <2>1, <2>2, <2>5
    <3> QED BY <2>1, <3>1, Untouched
  <2>6. CASE d = c /\ taken
    <3>1. /\ job'[c] = [job[c] EXCEPT !.step = "settle", !.result = result, !.taken = TRUE]
          /\ job[c].step = "ready"
      BY <1>1, <2>1, <2>4, <2>6
    <3>2. /\ \A s \in Watched : heard'[c][s] = IF s \in Named(c, job[c].ids)
                                                THEN job[c].row.what ELSE heard[c][s]
          /\ \A i \in Ids : copies'[c][i] = IF i \in job[c].ids THEN TwoAtMost(copies[c][i] + 1)
                                            ELSE copies[c][i]
      BY <2>0, <2>2, <2>3, <2>6
    <3>3. doubtful'[c] = IF result = "ok" THEN doubtful[c] ELSE doubtful[c] \cup job[c].ids
      BY <2>0, <2>2, <2>3, <2>6
    <3> QED BY <2>1, <3>1, <3>2, <3>3, Sent
  <2>7. CASE d = c /\ ~taken
    <3>1. /\ job'[c].step = "settle" /\ job'[c].result = result /\ ~job'[c].taken
          /\ job'[c].ids = job[c].ids /\ job[c].step = "ready" /\ result # "ok"
      BY <1>1, <2>1, <2>4, <2>7 DEF JobT
    <3>2. ~job[c].taken
      BY <1>1, <3>1 DEF OutcomeKnown
    <3>3. Read(c)'
      <4>1. JobInRound(c)'
        BY <1>1, <2>1, <3>1 DEF JobInRound
      <4>2. HeadWaits(c)' /\ WaveWaits(c)'
        BY <3>1 DEF HeadWaits, WaveWaits, Preparable
      <4>3. IdsWait(c)'
        BY <1>1, <2>1, <3>1 DEF IdsWait, There, Waits
      <4> QED BY <4>1, <4>2, <4>3 DEF Read
    <3>4. NotLeftYet(c)'
      BY <3>1 DEF NotLeftYet
    <3> QED BY <2>1, <2>2, <2>7, <3>1, <3>2, <3>3, <3>4, JobGoesOn
  <2> QED BY <2>5, <2>6, <2>7
<1>7. ASSUME NEW d \in Channels, Settle(d) PROVE ChannelOK(c)'
  <2>1. PICK i \in Ids : /\ i = First(job[d].ids) /\ i \in job[d].ids
                         /\ rows'[d][i] = SettledRow(d, rows[d][i])
                         /\ \A k \in Ids \ {i} : rows'[d][k] = rows[d][k]
                         /\ \A e \in Channels \ {d} : rows'[e] = rows[e]
    BY <1>7, SettledRows
  <2>3. PICK left : left = job[d].ids \ {i}
    OBVIOUS
  <2>2. /\ job' = [job EXCEPT ![d] = IF left = {} THEN NoJob ELSE [job[d] EXCEPT !.ids = left]]
        /\ next' = next /\ outside' = outside /\ sending' = sending /\ job[d].step = "settle"
    BY <1>1, <1>7, <2>1, <2>3 DEF Settle
  <2>4. CASE d # c
    BY <1>1, <2>1, <2>2, <2>4, Untouched
  <2>5. CASE d = c
    <3>1. (job'[c] = NoJob /\ left = {}) \/ job'[c] = [job[c] EXCEPT !.ids = left]
      BY <1>1, <2>2, <2>5
    <3>2. rows[c][i] \in RowT
      BY <1>1, <2>1
    <3>3. /\ rows'[c][i].what = rows[c][i].what /\ rows'[c][i].about = rows[c][i].about
          /\ There(c, i)' <=> There(c, i)
          /\ Waits(c, i)' => Waits(c, i) /\ job[c].result \notin {"ok", "gone"}
          /\ rows'[c][i].status = "sent" =>
               rows[c][i].status = "sent" \/ job[c].result = "ok"
      <4>1. rows'[c][i] = SettledRow(c, rows[c][i])
        BY <2>1, <2>5
      <4> QED BY <3>2, <4>1, SettledKeeps DEF There, Waits
    <3>4. job[c].result = "ok" => copies[c][i] > 0
      BY <1>1, <2>1, <2>2, <2>5 DEF OutcomeKnown
    <3>5. job[c].result # "ok" /\ job[c].taken => i \in doubtful[c]
      BY <1>1, <2>1, <2>5 DEF OutcomeKnown
    <3>6. \A k \in Ids : /\ rows'[c][k].what = rows[c][k].what
                         /\ rows'[c][k].about = rows[c][k].about
                         /\ There(c, k)' <=> There(c, k)
                         /\ Waits(c, k)' => Waits(c, k)
                         /\ rows'[c][k].status = "sent" =>
                              rows[c][k].status = "sent" \/ copies[c][k] > 0
      <4>1. \A k \in Ids \ {i} : rows'[c][k] = rows[c][k]
        BY <2>1, <2>5
      <4> QED BY <3>3, <3>4, <4>1 DEF There, Waits
    <3>7. \A k \in left : rows'[c][k] = rows[c][k]
      BY <1>1, <2>1, <2>3, <2>5
    <3>8. \A k \in job[c].ids \ left : Waits(c, k)' /\ job[c].taken => k \in doubtful[c]
      BY <2>3, <2>5, <3>3, <3>5 DEF Waits
    <3>9. left \in SUBSET job[c].ids
      BY <2>3, <2>5
    <3> QED BY <2>2, <2>5, <3>1, <3>6, <3>7, <3>8, <3>9, OutcomesWritten
  <2> QED BY <2>4, <2>5
<1>8. ASSUME NEW d \in Channels, GiveUp(d) PROVE ChannelOK(c)'
  <2>1. /\ job' = [job EXCEPT ![d] = NoJob] /\ job[d].step = "settle"
        /\ next' = next /\ outside' = outside /\ sending' = sending
    BY <1>8 DEF GiveUp
  <2>2. /\ \A i \in Ids : /\ rows'[d][i].what = rows[d][i].what
                          /\ rows'[d][i].about = rows[d][i].about
                          /\ ~Waits(d, i) => rows'[d][i] = rows[d][i]
                          /\ Waits(d, i) => rows'[d][i].status = "failed"
        /\ \A e \in Channels \ {d} : rows'[e] = rows[e]
    BY <1>8, GivenUpRows
  <2>3. CASE d # c
    BY <1>1, <2>1, <2>2, <2>3, Untouched
  <2>4. CASE d = c
    <3>1. \A i \in Ids : /\ rows'[c][i].what = rows[c][i].what
                         /\ rows'[c][i].about = rows[c][i].about
                         /\ There(c, i)' <=> There(c, i)
                         /\ Waits(c, i)' => Waits(c, i)
                         /\ rows'[c][i].status = "sent" =>
                              rows[c][i].status = "sent" \/ copies[c][i] > 0
      BY <2>2, <2>4 DEF There, Waits, None
    <3>2. \A i \in Ids : ~Waits(c, i)'
      BY <2>2, <2>4 DEF Waits
    <3>3. job'[c] = NoJob
      BY <1>1, <2>1, <2>4
    <3>4. {} \in SUBSET job[c].ids /\ \A i \in job[c].ids \ {} : i \in Ids
      BY <1>1
    <3> QED BY <2>1, <2>4, <3>1, <3>2, <3>3, <3>4, OutcomesWritten
  <2> QED BY <2>3, <2>4
<1> QED BY <1>3, <1>4, <1>5, <1>6, <1>7, <1>8 DEF DeliverDue

-----------------------------------------------------------------------------
(* The invariant and what it says                                          *)

IndInv ==
  /\ RowsTyped /\ JobsHold
  /\ ~SameSecond => AtOrder /\ HeadBehind
  /\ \A c \in Channels : ChannelOK(c)

LEMMA IndInvInit == QueueInit => IndInv
<1> SUFFICES ASSUME QueueInit PROVE IndInv
  OBVIOUS
<1> USE DEF QueueInit, NoRow, NoJob, NoAnnounce, IdleSending
<1>1. RowsTyped
  <2>1. rows \in [Channels -> [Ids -> RowT]] /\ job \in [Channels -> JobT] /\ sending \in RoundT
    BY Blanks
  <2>2. /\ instant \in Int /\ changed \in [Watched -> Int]
        /\ announce \in [now : Int, due : Int, left : SUBSET Watched]
        /\ heard \in [Channels -> [Watched -> Happening \cup {None}]]
        /\ copies \in [Channels -> [Ids -> Nat]] /\ doubtful \in [Channels -> SUBSET Ids]
    OBVIOUS
  <2>3. live \subseteq Channels /\ known \subseteq Watched \cup Events
        /\ next \in [Channels -> Nat \ {0}]
    OBVIOUS
  <2> QED BY <2>1, <2>2, <2>3 DEF RowsTyped
<1>2. JobsHold /\ HeadBehind
  BY DEF JobsHold, HeadBehind, Preparable
<1>3. AtOrder
  BY DEF AtOrder, OfService, There
<1>4. ASSUME NEW c \in Channels PROVE ChannelOK(c)
  <2>1. \A i \in Ids : ~There(c, i) /\ ~Waits(c, i) /\ rows[c][i].status = None
    BY DEF There, Waits, None
  <2>2. FreshIds(c)
    BY <2>1 DEF FreshIds
  <2>3. Read(c)
    BY DEF Read, JobInRound, HeadWaits, WaveWaits, IdsWait, Preparable
  <2>4. Copied(c)
    BY <2>1 DEF Copied, OutcomeKnown, NotLeftYet, CopiesAccounted, None
  <2>5. HeardInOrder(c)
    BY <2>1 DEF HeardInOrder, NoneOvertaken, LastHeard, OfService
  <2> QED BY <2>2, <2>3, <2>4, <2>5 DEF ChannelOK
<1> QED BY <1>1, <1>2, <1>3, <1>4 DEF IndInv

LEMMA IndInvStep == IndInv /\ [QueueNext]_queueVars => IndInv'
<1> SUFFICES ASSUME IndInv, [QueueNext]_queueVars PROVE IndInv'
  OBVIOUS
<1> USE DEF world, queues, task, outside
<1>0. /\ RowsTyped /\ JobsHold /\ \A c \in Channels : ChannelOK(c)
      /\ ~SameSecond => AtOrder /\ HeadBehind
  BY DEF IndInv
<1>1. RowsTyped' /\ JobsHold'
  BY <1>0, QueueTypeStep, JobsStep
<1>2. \A c \in Channels : FreshIds(c) /\ HeadWaits(c)
  BY <1>0 DEF ChannelOK, Read
<1>3. ~SameSecond => AtOrder' /\ HeadBehind'
  BY <1>0, <1>2, AtStep, HeadStep
<1>4. ASSUME NEW c \in Channels PROVE ChannelOK(c)'
  <2>0. /\ ChannelOK(c) /\ OutcomeKnown(c) /\ NoJob.taken = FALSE
        /\ job \in [Channels -> JobT] /\ doubtful \in [Channels -> SUBSET Ids]
    BY <1>0 DEF ChannelOK, Copied, RowsTyped, NoJob
  \* Rows stay, and the job is dropped.
  <2>1. ASSUME rows' = rows, next' = next, copies' = copies, heard' = heard,
               doubtful[c] \subseteq doubtful'[c], job'[c] = NoJob,
               job[c].taken => job[c].ids \subseteq doubtful'[c]
        PROVE  ChannelOK(c)'
    <3>1. \A j, k \in Ids : /\ j < k /\ OfService(c, j) /\ Alike(c, k, j)
                            /\ copies[c][k] > 0 /\ There(c, j)'
                          => There(c, k)'
      BY <2>1 DEF Alike, There
    <3>2. \A i \in Ids : rows'[c][i] = rows[c][i]
      BY <2>1
    <3> QED BY <1>0, <2>1, <3>1, <3>2, ChannelKept
  <2>2. ASSUME NEW d \in Channels, Panic(d) PROVE ChannelOK(c)'
    <3>1. CASE d # c
      BY <1>0, <2>0, <2>2, <3>1, Untouched DEF Panic
    <3>2. CASE d = c
      <4>1. ~job[c].taken /\ job'[c] = NoJob
        BY <2>0, <2>2, <3>2 DEF Panic, OutcomeKnown
      <4> QED BY <2>1, <2>2, <4>1 DEF Panic
    <3> QED BY <3>1, <3>2
  <2>3. CASE Abort
    <3>1. doubtful'[c] = IF job[c].taken THEN doubtful[c] \cup job[c].ids ELSE doubtful[c]
      BY <2>3 DEF Abort
    <3> QED BY <2>1, <2>3, <3>1 DEF Abort
  <2>4. CASE Tick \/ UNCHANGED queueVars
    BY <1>0, <2>4, Untouched DEF Tick, queueVars
  <2>5. CASE \/ \E e \in Events : Notify(e)
             \/ \E found \in SUBSET Watched : BeginAnnounce(found)
             \/ \E s \in Watched : AnnounceOne(s) \/ AnnounceLost(s)
    BY <1>0, <2>5, HappeningStep
  <2>6. CASE Administer \/ DeliverDue \/ Purge
    BY <1>0, <2>6, AdministerStep, DeliverStep, PurgeStep
  <2> QED BY <2>2, <2>3, <2>4, <2>5, <2>6 DEF QueueNext
<1> QED BY <1>1, <1>3, <1>4 DEF IndInv

\* Where no service changes twice within a second, each channel hears of a
\* service in the order its messages were queued: once none about it waits and
\* the last one was sent, that one is the last it was told, whatever was
\* retried, grouped, given up or sent again before.
THEOREM LastWordHolds == ASSUME ~SameSecond PROVE QueueSpec => []LastWordIsRight
<1>1. IndInv => LastWordIsRight
  <2> SUFFICES ASSUME IndInv, NEW c \in live, NEW s \in Watched,
                      About(c, s) # {},
                      \A i \in About(c, s) : rows[c][i].status # "pending",
                      rows[c][Last(About(c, s))].status = "sent"
               PROVE  heard[c][s] = rows[c][Last(About(c, s))].what
    BY DEF LastWordIsRight
  <2>0. c \in Channels /\ ChannelOK(c) /\ RowsTyped
    BY DEF IndInv, RowsTyped
  <2>1. About(c, s) \subseteq Ids
    BY DEF About
  <2>2. PICK j \in About(c, s) : j = Last(About(c, s)) /\ \A k \in About(c, s) : k <= j
    BY <2>1, LastNumber
  <2>3. j \in Ids /\ rows[c][j].about = s /\ OfService(c, j)
    BY <2>2 DEF About, OfService, There
  <2>4. copies[c][j] > 0
    BY <2>0, <2>2, <2>3 DEF ChannelOK, Copied, CopiesAccounted
  <2>5. \A k \in Ids : k > j /\ Alike(c, k, j) => copies[c][k] = 0
    <3> SUFFICES ASSUME NEW k \in Ids, k > j, Alike(c, k, j) PROVE FALSE
      OBVIOUS
    <3>1. k \in About(c, s)
      BY <2>3 DEF About, Alike, There
    <3> QED BY <2>2, <2>3, <3>1, IdsAreNumbers
  <2> QED BY <2>0, <2>2, <2>3, <2>4, <2>5 DEF ChannelOK, HeardInOrder, LastHeard
<1>2. QueueSpec => []IndInv
  BY IndInvInit, IndInvStep, PTL DEF QueueSpec
<1> QED BY <1>1, <1>2, PTL

\* A message recorded as sent did reach its channel, and reached it once unless
\* an outcome of it was lost.
THEOREM SentOnceHolds == QueueSpec => []SentOnce
<1>1. IndInv => SentOnce
  BY DEF IndInv, RowsTyped, ChannelOK, Copied, CopiesAccounted, SentOnce
<1>2. QueueSpec => []IndInv
  BY IndInvInit, IndInvStep, PTL DEF QueueSpec
<1> QED BY <1>1, <1>2, PTL

-----------------------------------------------------------------------------
(* Messages.  Each message leaves as it was written, so what must be true  *)
(* of it is proved where it is written, from its row, which is fair, and   *)
(* from the event, which has lost the words it withdrew; what the list     *)
(* says follows from who is first in a queue and how often it was tried.   *)

Places == Destinations \cup {Trial}
Text == Words \cup {NoWords}
State == Lifecycle \cup {None}
NameSeqs == {<<>>} \cup {<<w>> : w \in Words} \cup {<<w, "plain">> : w \in Words}
CodeWords ==
  Findings \cup {"none", "permanent", "transient", "too_many_requests", "redirected", "status",
                "mail_refused", "mail_busy", "mail_unreachable", "no_mail_server", "unknown"}
CodeRecords == [word : CodeWords, status : Nat]
Happenings ==
  {"opened", "published", "started", "updated", "rescheduled", "closed", "reviewed",
   "service_down", "service_up"}
TextRows ==
  [happening : Happenings, lifecycle : State, update : BOOLEAN, names : NameSeqs,
   attempts : Nat, code : CodeRecords]

\* A message that ends an event says a state that ends it, and one about
\* services is about no event.
FairRow(row) ==
  /\ row.happening = "closed" => row.names = <<>> /\ IsTerminal(row.lifecycle)
  /\ row.names # <<>> => /\ row.happening \in {"service_down", "service_up"}
                         /\ row.lifecycle = None /\ ~row.update
FairRows == {row \in TextRows : FairRow(row)}

EventFields ==
  {"kind", "severity", "lifecycle", "previous", "title", "description", "service", "window",
   "ended", "update", "review"}
\* An event has its fields, and none of the words withdrawn from it.
EventOK ==
  \/ event = NoEvent /\ withdrawn = {}
  \/ /\ DOMAIN event = EventFields
     /\ event.lifecycle \in State /\ event.previous \in State
     /\ event.title \in Words /\ event.description \in Words /\ event.service \in Words
     /\ event.update \in Text /\ event.review \in Text
     /\ "update" \in withdrawn => event.update = NoWords
     /\ "review" \in withdrawn => event.review = NoWords

DestinationOK(tool, target) == tool \in Tools /\ (tool # "email" => CanPost(tool, target))
\* A message being sent is as the property wants it, and can be posted.
MessageOK(m) ==
  /\ DestinationOK(m.tool, m.target)
  /\ ToldAsItHappened(m) /\ WithdrawnIsNotSent(m) /\ BodyTellsAll(m.tool, m.notice)

\* Only the first of a queue was tried; the message being sent is the first.
QueueOK(c) ==
  /\ \A i \in 2..Len(queue[c]) : queue[c][i].attempts = 0
  /\ Exists(c) => DestinationOK(channel[c].tool, channel[c].target)
  /\ channel[c] = NoChannel => ready[c] = NoMessage
  /\ event = NoEvent => \A i \in 1..Len(queue[c]) : queue[c][i].names # <<>>
  /\ Exists(c) /\ ready[c] # NoMessage => queue[c] # <<>> /\ ready[c].row = Head(queue[c])

TextShapes ==
  /\ DOMAIN channel = Destinations /\ DOMAIN ready = Places
  /\ queue \in [Destinations -> Seq(FairRows)]
  /\ DOMAIN outcome = Destinations /\ DOMAIN truth = Places

\* The messages and the destinations, and with the event the invariant.
SendingOK ==
  /\ TextShapes
  /\ \A c \in Destinations : QueueOK(c) /\ TheListSaysWhy(c)
  /\ \A c \in Places : ready[c] # NoMessage => MessageOK(ready[c])
  /\ AcceptedCanBePosted

TextInv == EventOK /\ SendingOK

\* An address with a topic names one: the last of its segments that is not
\* empty.
LEMMA TopicNamed ==
  ASSUME NEW S, NEW segments \in Seq(S), HasTopic(segments)
  PROVE  NtfyTopic(segments) # ""
<1> DEFINE named == {i \in DOMAIN segments : segments[i] # ""}
           back == {Len(segments) - i : i \in named}
<1>0. Len(segments) \in Nat /\ DOMAIN segments = 1..Len(segments)
  OBVIOUS
<1>1. named # {} /\ named \subseteq 1..Len(segments)
  BY <1>0, Zenon DEF HasTopic
<1> DEFINE m == Len(segments)
<1>2. back \in SUBSET Nat /\ back # {}
  <2>1. \A i \in 1..m : m - i \in Nat
    BY <1>0
  <2> HIDE DEF named
  <2> QED BY <1>1, <2>1
<1>3. First(back) \in back /\ \A n \in back : First(back) <= n
  BY <1>2, FirstNumber
<1>4. PICK last \in named : First(back) = Len(segments) - last
  BY <1>3
<1> HIDE DEF named
<1>5. \A j \in named : j <= last
  <2> SUFFICES ASSUME NEW j \in named PROVE j <= last
    OBVIOUS
  <2>1. First(back) <= Len(segments) - j
    BY <1>3
  <2>2. j \in Int /\ last \in Int
    BY <1>0, <1>1
  <2> QED BY <1>0, <1>4, <2>1, <2>2
<1>6. \E i \in named : \A j \in named : j <= i
  BY <1>5
<1> DEFINE topic == CHOOSE i \in named : \A j \in named : j <= i
<1>7. topic \in named
  BY <1>6
<1>8. segments[topic] # ""
  BY <1>7 DEF named
<1>9. NtfyTopic(segments) = segments[topic]
  BY <1>1, Zenon DEF NtfyTopic, named
<1> QED BY <1>8, <1>9, Zenon

\* A destination that is accepted can be posted to.
LEMMA AcceptedIsOK ==
  ASSUME NEW f \in Forms, Destination(f, MailReady)
  PROVE  DestinationOK(ChannelOf(f).tool, ChannelOf(f).target)
<1> DEFINE target == CompletedTarget(f.tool, f.target)
<1>1. ChannelOf(f).tool = f.tool /\ ChannelOf(f).target = target
  BY DEF ChannelOf
<1>2. f.tool \in Tools /\ DestinationAllowed(f.tool, target)
  BY DEF Destination
<1>3. CASE f.tool = "ntfy"
  <2>1. \E S : target.segments \in Seq(S)
    <3>1. \E S : f.target.segments \in Seq(S)
      BY MessagesAssumption, Zenon
    <3>2. <<"topic">> \in Seq({"topic"})
      OBVIOUS
    <3> QED BY <3>1, <3>2 DEF CompletedTarget, Url
  <2>2. HasTopic(target.segments)
    BY <1>2, <1>3 DEF DestinationAllowed
  <2>3. NtfyTopic(target.segments) # ""
    BY <2>1, <2>2, TopicNamed
  <2> QED BY <1>1, <1>2, <1>3, <2>3 DEF DestinationOK, CanPost
<1>4. CASE f.tool # "ntfy"
  BY <1>1, <1>2, <1>4 DEF DestinationOK, CanPost
<1> QED BY <1>3, <1>4

\* Whatever the tool, its body tells all of a notice whose words are words.
LEMMA BodiesTellAll ==
  ASSUME NEW tool \in Tools, NEW mark, mark # None, NEW headline \in Words,
         NEW state, NEW services \in Text, NEW text \in Text, NEW link
  PROVE  BodyTellsAll(tool, [mark |-> mark, headline |-> headline, state |-> state,
                             services |-> services, text |-> text, link |-> link])
<1> DEFINE n == [mark |-> mark, headline |-> headline, state |-> state,
                 services |-> services, text |-> text, link |-> link]
           shown(e1, e2, e3, m) == [mark |-> m, headline |-> e1, state |-> state,
                                services |-> e2, text |-> e3, link |-> link]
<1>0. /\ headline \in {"plain", "@", "<!"} /\ services \in {"plain", "@", "<!", "nothing"}
      /\ text \in {"plain", "@", "<!", "nothing"}
  BY DEF Words, Text, NoWords
<1>1. MarkEmoji(mark) \in {mark, None} /\ (MarkEmoji(mark) = None => mark = "plain")
  BY DEF MarkEmoji
<1>2. CASE tool \in {"slack", "google_chat"}
  <2>1. Body(tool, n) = shown(EscapeSlack(headline), EscapeSlack(services), EscapeSlack(text),
                             MarkEmoji(mark))
    BY <1>2 DEF Body, SlackBody, Lines, Marked
  <2>2. \A t \in {"plain", "@", "<!", "nothing"} :
          ~Fires(tool, EscapeSlack(t)) /\ Readable(EscapeSlack(t)) = t
    BY <1>2 DEF Fires, EscapeSlack, Readable
  <2> QED BY <1>0, <1>1, <2>1, <2>2 DEF BodyTellsAll
<1>3. CASE tool = "mattermost"
  <2>1. Body(tool, n) = shown(DefuseMentions(headline), DefuseMentions(services),
                             DefuseMentions(text), MarkEmoji(mark))
    BY <1>3 DEF Body, MattermostBody, Lines, Marked
  <2>2. \A t \in {"plain", "@", "<!", "nothing"} :
          ~Fires(tool, DefuseMentions(t)) /\ Readable(DefuseMentions(t)) = t
    BY <1>3 DEF Fires, DefuseMentions, Readable
  <2> QED BY <1>0, <1>1, <2>1, <2>2 DEF BodyTellsAll
<1>4. CASE tool \in {"discord", "teams", "email", "ntfy", "webhook"}
  <2>1. \E e \in {text, headline}, m \in {mark, MarkEmoji(mark)} :
          Body(tool, n) = shown(headline, services, e, m)
    BY <1>4 DEF Body, DiscordBody, TeamsBody, EmailBody, NtfyBody, WebhookBody, Lines, Marked,
                AsWritten
  <2>2. \A t \in {"plain", "@", "<!", "nothing"} : ~Fires(tool, t) /\ Readable(t) = t
    BY <1>4 DEF Fires, Readable
  <2> QED BY <1>0, <1>1, <2>1, <2>2 DEF BodyTellsAll
<1> QED BY <1>2, <1>3, <1>4 DEF Tools

\* A row tried again is a row.
LEMMA TriedIsARow ==
  ASSUME NEW row \in TextRows, NEW attempts \in Nat, NEW code \in CodeRecords
  PROVE  [row EXCEPT !.attempts = attempts, !.code = code] \in TextRows
<1>1. [row EXCEPT !.attempts = attempts] \in TextRows
  BY DEF TextRows
<1>2. \A r \in TextRows : [r EXCEPT !.code = code] \in TextRows
  BY DEF TextRows
<1> QED BY <1>1, <1>2

\* What a code stands for is worded as the failure it was stored for.
Worded(f) == FailureText(FromCode(Code(f))) = FailureText(f)
LEMMA CodesAreWorded ==
  ASSUME NEW what, NEW status,
         \/ what \in {"status", "mail_refused", "mail_busy"}
         \/ /\ what \in Findings \cup {"too_many_requests", "redirected", "gone",
                                       "mail_unreachable", "no_mail_server"}
            /\ status = NoStatus
  PROVE  Worded(Failure(what, status))
<1> USE DEF Worded, Failure, Code, FromCode, FailureText, Unknown, NoStatus, Findings
<1>1. CASE what = "status"
  BY <1>1
<1>2. CASE what \in {"mail_refused", "mail_busy"}
  BY <1>2
<1>3. CASE what \in Findings /\ status = NoStatus
  BY <1>3 DEF TransportCode, TransportKey
<1>4. CASE /\ what \in {"too_many_requests", "redirected", "gone", "mail_unreachable",
                        "no_mail_server"}
           /\ status = NoStatus
  BY <1>4
<1> QED BY <1>1, <1>2, <1>3, <1>4

\* How a send of a message that can be posted goes: a failure of it is
\* recorded in words an administrator reads.
LEMMA SendGoes ==
  ASSUME NEW m, DestinationOK(m.tool, m.target), NEW answer \in Answers
  PROVE  LET result == SendText(m, answer) IN
         /\ result.done \in BOOLEAN
         /\ result.failure.what # "unsupported" /\ Code(result.failure) \in CodeRecords
         /\ ~result.done => Worded(result.failure)
<1> DEFINE result == SendText(m, answer)
<1>0. /\ answer.ok \in BOOLEAN /\ answer.status \in Nat /\ MailReady \in BOOLEAN
      /\ answer.finding \in Findings \cup {"none", "permanent", "transient"}
      /\ ~answer.ok /\ answer.status = NoStatus => answer.finding \in Findings
  BY MessagesAssumption
<1>1. \A what, status : Failure(what, status).what = what
  BY DEF Failure
<1>2. ASSUME NEW status \in Nat, NEW what \in CodeWords
      PROVE  Code(Failure(what, status)) \in CodeRecords
  <2>1. Failure(what, status).status = status
    BY DEF Failure
  <2>2. /\ Code(Failure(what, status)).word \in CodeWords
        /\ Code(Failure(what, status)).status \in Nat
    BY <1>1, <2>1 DEF Code, TransportCode, CodeWords, Findings, NoStatus
  <2> QED BY <2>2 DEF Code, CodeRecords
<1>3. CASE m.tool # "email"
  <2>1. result = [done |-> answer.ok, failure |-> PostFailure(answer)]
    BY <1>0, <1>3 DEF SendText, DestinationOK
  <2>2. \E status \in Nat, what \in Findings \cup
            {"none", "permanent", "transient", "too_many_requests", "redirected", "status"} :
          /\ PostFailure(answer) = Failure(what, status)
          /\ ~answer.ok => \/ what = "status"
                           \/ /\ what \in Findings \cup {"too_many_requests", "redirected"}
                              /\ status = NoStatus
    BY <1>0 DEF PostFailure, NoStatus
  <2>3. PICK status \in Nat, what \in Findings \cup
            {"none", "permanent", "transient", "too_many_requests", "redirected", "status"} :
          /\ PostFailure(answer) = Failure(what, status)
          /\ ~answer.ok => \/ what = "status"
                           \/ /\ what \in Findings \cup {"too_many_requests", "redirected"}
                              /\ status = NoStatus
    BY <2>2
  <2>4. what # "unsupported"
    BY DEF Findings
  <2>5. Code(Failure(what, status)) \in CodeRecords
    BY <1>2 DEF CodeWords
  <2>6. ~answer.ok => Worded(Failure(what, status))
    BY <2>3, CodesAreWorded
  <2> QED BY <1>0, <1>1, <2>1, <2>3, <2>4, <2>5, <2>6
<1>4. CASE m.tool = "email"
  <2>1. result.failure = SendMail(m, answer) /\ result.done \in BOOLEAN
    BY <1>0, <1>4 DEF SendText
  <2>2. \E status \in Nat, what \in {"mail_refused", "mail_busy", "timed_out",
                                     "mail_unreachable", "no_mail_server"} :
          /\ SendMail(m, answer) = Failure(what, status)
          /\ what \in {"mail_refused", "mail_busy"} \/ status = NoStatus
    BY <1>0 DEF SendMail, ClassifySmtp, NoStatus
  <2>3. PICK status \in Nat, what \in {"mail_refused", "mail_busy", "timed_out",
                                       "mail_unreachable", "no_mail_server"} :
          /\ SendMail(m, answer) = Failure(what, status)
          /\ what \in {"mail_refused", "mail_busy"} \/ status = NoStatus
    BY <2>2
  <2>4. what # "unsupported"
    OBVIOUS
  <2>5. Code(Failure(what, status)) \in CodeRecords
    BY <1>2 DEF CodeWords, Findings
  <2>6. Worded(Failure(what, status))
    BY <2>3, CodesAreWorded DEF Findings
  <2> QED BY <1>1, <2>1, <2>3, <2>4, <2>5, <2>6
<1> QED BY <1>3, <1>4

\* The state an event is closed in is one of good news or of none.
LEMMA ClosedTone ==
  ASSUME NEW kind, NEW severity, NEW lifecycle, IsTerminal(lifecycle)
  PROVE  MarkOf(StateTone(kind, severity, lifecycle)) \in {"restored", "plain"}
BY DEF IsTerminal, StateTone, MarkOf

\* Every message has a mark.
LEMMA MarksAreSet ==
  ASSUME NEW kind, NEW severity, NEW lifecycle
  PROVE  MarkOf(StateTone(kind, severity, lifecycle)) # None
BY DEF MarkOf, None

\* A message written now from its row is as it should be.
LEMMA WrittenIsOK ==
  ASSUME EventOK, NEW c \in Destinations, NEW row \in FairRows,
         event = NoEvent => row.names # <<>>,
         DestinationOK(channel[c].tool, channel[c].target), ~Withdrawn(row)
  PROVE  LET m == Written(c, row) IN m.row = row /\ m # NoMessage /\ MessageOK(m)
<1> DEFINE m == Written(c, row)
           ch == channel[c]
<1>0. /\ row.names \in NameSeqs /\ FairRow(row)
      /\ "plain" \in Words /\ NoWords \in Text
  BY DEF FairRows, TextRows, Words, Text
<1>1. CASE row.names # <<>>
  <2> DEFINE headline == IF Len(row.names) = 1 THEN row.names[1] ELSE "plain"
             services == IF Len(row.names) = 1 THEN NoWords ELSE row.names[1]
             notice == ServiceNotice(row.happening, row.names, PageAddress)
  <2>1. m = Message(ch, notice, NoFacts(row.happening), row, withdrawn)
    BY <1>1 DEF Written
  <2>2. /\ m.tool = ch.tool /\ m.target = ch.target /\ m.notice = notice /\ m.row = row
    BY <2>1 DEF Message
  <2>3. headline \in Words /\ services \in Text
    <3>1. CASE \E w \in Words : row.names = <<w>>
      BY <1>0, <3>1
    <3>2. CASE \E w \in Words : row.names = <<w, "plain">>
      BY <1>0, <3>2 DEF Text
    <3> QED BY <1>0, <1>1, <3>1, <3>2 DEF NameSeqs
  <2>4. BodyTellsAll(ch.tool, notice)
    <3> DEFINE mark == IF row.happening = "service_up" THEN "restored" ELSE "outage"
               state == <<row.happening, IF Len(row.names) = 1 THEN "one" ELSE "wave">>
               link == IF PageAddress = None THEN None ELSE "page"
    <3>1. notice = [mark |-> mark, headline |-> headline, state |-> state,
                    services |-> services, text |-> NoWords, link |-> link]
      BY DEF ServiceNotice
    <3>2. mark # None /\ ch.tool \in Tools
      BY DEF None, DestinationOK
    <3> HIDE DEF mark, state, link, headline, services
    <3> QED BY <1>0, <2>3, <3>1, <3>2, BodiesTellAll
  <2>5. ToldAsItHappened(m) /\ WithdrawnIsNotSent(m)
    BY <1>0, <1>1, <2>2 DEF FairRow, ToldAsItHappened, WithdrawnIsNotSent
  <2>6. m # NoMessage
    BY <2>2 DEF NoMessage, None, DestinationOK, Tools
  <2> QED BY <2>2, <2>4, <2>5, <2>6 DEF MessageOK
<1>2. CASE row.names = <<>>
  <2> DEFINE was == StateThen(row)
             message == LoadMessage(row)
             notice == EventNotice(row.happening, was, event, message, PageAddress)
             facts == Facts(row.happening, was, event)
             text == TextOf(row.happening, message, event)
             tone == StateTone(event.kind, event.severity, was)
             state == StateLine(row.happening, was, event)
             link == IF PageAddress = None THEN None ELSE "event"
  <2>0. /\ event.title \in Words /\ event.description \in Words /\ event.service \in Words
        /\ event.update \in Text /\ event.review \in Text
        /\ "update" \in withdrawn => event.update = NoWords
        /\ "review" \in withdrawn => event.review = NoWords
    BY <1>2 DEF EventOK
  <2>1. m = Message(ch, notice, facts, row, withdrawn)
    BY <1>2 DEF Written
  <2>2. /\ m.tool = ch.tool /\ m.target = ch.target /\ m.notice = notice /\ m.row = row
        /\ m.facts = facts /\ m.withdrawn = withdrawn
    BY <2>1 DEF Message
  <2>3. notice = [mark |-> MarkOf(tone), headline |-> event.title, state |-> state,
                  services |-> event.service, text |-> text, link |-> link]
    BY DEF EventNotice
  <2>4. message \in Text /\ text \in Text
    BY <1>0, <2>0 DEF LoadMessage, TextOf, Text
  <2>5. BodyTellsAll(ch.tool, notice)
    <3>1. MarkOf(tone) # None /\ ch.tool \in Tools /\ event.service \in Text
      BY <2>0, MarksAreSet DEF DestinationOK, Text
    <3> HIDE DEF tone, state, link, text, notice
    <3> QED BY <2>0, <2>3, <2>4, <3>1, BodiesTellAll
  <2>6. ToldAsItHappened(m)
    <3> SUFFICES ASSUME row.lifecycle # None
                 PROVE  /\ facts.state = row.lifecycle
                        /\ notice.mark =
                             MarkOf(StateTone(facts.kind, facts.severity, row.lifecycle))
                        /\ row.happening = "closed" =>
                             /\ notice.mark \in {"restored", "plain"}
                             /\ notice.state[1] = row.lifecycle
      BY <2>2 DEF ToldAsItHappened
    <3>1. was = row.lifecycle
      BY DEF StateThen
    <3>2. facts.state = was /\ facts.kind = event.kind /\ facts.severity = event.severity
      BY DEF Facts
    <3>3. notice.mark = MarkOf(tone) /\ notice.state = state
      BY <2>3
    <3>4. ASSUME row.happening = "closed"
          PROVE  MarkOf(tone) \in {"restored", "plain"} /\ state[1] = was
      <4>1. IsTerminal(was)
        BY <1>0, <3>1, <3>4 DEF FairRow
      <4>2. MarkOf(tone) \in {"restored", "plain"}
        BY <4>1, ClosedTone
      <4>3. state[1] = was
        BY <3>4 DEF StateLine
      <4> QED BY <4>2, <4>3
    <3> QED BY <3>1, <3>2, <3>3, <3>4
  <2>7. WithdrawnIsNotSent(m)
    <3>1. notice.text = text
      BY <2>3
    <3>2. ASSUME row.happening = "reviewed"
          PROVE  "review" \notin withdrawn /\ text # NoWords
      <4>1. event.review # NoWords /\ message = event.review
        BY <3>2 DEF Withdrawn, LoadMessage
      <4> QED BY <2>0, <4>1 DEF TextOf
    <3>3. ASSUME row.update, "update" \in withdrawn, row.happening \in {"updated", "closed"}
          PROVE  text = NoWords
      <4>1. message = NoWords
        BY <2>0, <3>3 DEF LoadMessage
      <4> QED BY <3>3, <4>1 DEF TextOf
    <3> QED BY <2>2, <3>1, <3>2, <3>3 DEF WithdrawnIsNotSent
  <2>8. m # NoMessage
    BY <2>2 DEF NoMessage, None, DestinationOK, Tools
  <2> QED BY <2>2, <2>5, <2>6, <2>7, <2>8 DEF MessageOK
<1> QED BY <1>1, <1>2

\* A row is queued fair and untried.
LEMMA RowsAreFair ==
  ASSUME NEW happening \in Happenings, NEW lifecycle \in State, NEW update \in BOOLEAN,
         NEW names \in NameSeqs,
         happening = "closed" => names = <<>> /\ IsTerminal(lifecycle),
         names # <<>> => /\ happening \in {"service_down", "service_up"}
                         /\ lifecycle = None /\ ~update
  PROVE  LET row == TextRow(happening, lifecycle, update, names) IN
         row \in FairRows /\ row.attempts = 0 /\ row.names = names
<1>1. Code(Unknown) \in CodeRecords
  BY DEF Code, Unknown, Failure, NoStatus, CodeRecords, CodeWords, Findings
<1>2. TextRow(happening, lifecycle, update, names) \in TextRows
  BY <1>1 DEF TextRow, TextRows
<1> QED BY <1>2 DEF FairRows, FairRow, TextRow

\* A queue with no rows.
LEMMA NoRowsYet ==
  /\ <<>> \in Seq(FairRows) /\ Len(<<>>) = 0
  /\ \A i \in 1..Len(<<>>) : FALSE
  /\ \A i \in 2..Len(<<>>) : FALSE
OBVIOUS

\* Queueing a message leaves what is being sent and what is told of it.
LEMMA QueueingOK ==
  ASSUME SendingOK, NEW box, NEW row \in FairRows, row.attempts = 0, QueueFor(box, row),
         UNCHANGED <<ready, outcome, truth, channel>>,
         event' = NoEvent => event = NoEvent /\ row.names # <<>>
  PROVE  SendingOK'
<1> USE DEF SendingOK
<1>1. TextShapes'
  BY DEF TextShapes, QueueFor
<1>2. ASSUME NEW c \in Destinations PROVE QueueOK(c)' /\ TheListSaysWhy(c)'
  <2>0. queue[c] \in Seq(FairRows) /\ QueueOK(c) /\ TheListSaysWhy(c)
    BY DEF TextShapes
  <2>1. queue'[c] \in {queue[c], Append(queue[c], row)}
    BY DEF QueueFor
  <2>2. /\ \A i \in 2..Len(queue'[c]) : queue'[c][i].attempts = 0
        /\ event' = NoEvent => \A i \in 1..Len(queue'[c]) : queue'[c][i].names # <<>>
    <3>1. CASE queue'[c] = queue[c]
      BY <2>0, <3>1 DEF QueueOK
    <3>2. CASE queue'[c] = Append(queue[c], row)
      <4>1. /\ Len(queue'[c]) = Len(queue[c]) + 1 /\ Len(queue[c]) \in Nat
            /\ \A i \in 1..Len(queue[c]) : queue'[c][i] = queue[c][i]
            /\ queue'[c][Len(queue[c]) + 1] = row
        BY <2>0, <3>2
      <4>2. \A i \in 1..Len(queue'[c]) : i \in 1..Len(queue[c]) \/ i = Len(queue[c]) + 1
        BY <4>1
      <4>3. \A i \in 2..Len(queue'[c]) : i \in 2..Len(queue[c]) \/ i = Len(queue[c]) + 1
        BY <4>1
      <4>4. \A i \in 2..Len(queue[c]) : i \in 1..Len(queue[c])
        BY <4>1
      <4> HIDE <3>2
      <4> QED BY <2>0, <4>1, <4>2, <4>3, <4>4 DEF QueueOK
    <3> QED BY <2>1, <3>1, <3>2
  <2>3. queue[c] # <<>> => queue'[c] # <<>> /\ Head(queue'[c]) = Head(queue[c])
    BY <2>0, <2>1
  <2>4. queue[c] = <<>> => queue'[c] = <<>> \/ Head(queue'[c]) = row
    BY <2>0, <2>1
  <2>5. QueueOK(c)'
    BY <2>0, <2>2, <2>3 DEF QueueOK, Exists
  <2>6. LastSend(c)' = LastSend(c)
    BY <2>3, <2>4 DEF LastSend
  <2> QED BY <2>0, <2>5, <2>6 DEF TheListSaysWhy
<1>3. ASSUME NEW c \in Places, ready'[c] # NoMessage PROVE MessageOK(ready'[c])
  BY <1>3
<1>4. AcceptedCanBePosted'
  BY DEF AcceptedCanBePosted
<1> QED BY <1>1, <1>2, <1>3, <1>4

\* What the team does.
LEMMA TeamStep ==
  ASSUME TextInv,
         \/ \E words \in Names :
              \/ \E l \in {"investigating", "monitoring"} : AddEvent("incident", l, words)
              \/ \E l \in {"scheduled", "in_progress"} : AddEvent("maintenance", l, words)
              \/ AddEvent("publication", None, words)
         \/ \E to \in Lifecycle \cup {None}, words \in {"@", NoWords} : PostUpdate(to, words)
         \/ SaveReview("plain") \/ Revert \/ Reschedule
         \/ Withdraw("update") \/ Withdraw("review")
         \/ \E word \in Names : \/ FindServices("service_down", <<word, "plain">>)
                                \/ FindServices("service_up", <<word>>)
  PROVE  TextInv'
<1> USE DEF TextInv
<1>0. /\ Names \subseteq Words /\ <<>> \in NameSeqs /\ NoWords \in Text /\ None \in State
      /\ "plain" \in Text /\ "@" \in Text
  BY MessagesAssumption DEF NameSeqs, Text, Words, State
<1> DEFINE NamesAnEvent(e) == DOMAIN e = EventFields
<1>a. \A e : NamesAnEvent(e) => e # NoEvent
  <2>1. DOMAIN NoEvent = {"kind"}
    BY DEF NoEvent
  <2>2. "title" \in EventFields /\ "title" \notin {"kind"}
    BY DEF EventFields
  <2> QED BY <2>1, <2>2, Zenon
<1>b. ASSUME NEW happening \in Happenings, NEW lifecycle \in State, NEW update \in BOOLEAN,
             happening = "closed" => IsTerminal(lifecycle),
             Tell(happening, lifecycle, update), UNCHANGED <<ready, outcome, truth, channel>>,
             NamesAnEvent(event')
      PROVE  SendingOK'
  <2> DEFINE row == TextRow(happening, lifecycle, update, <<>>)
  <2>1. row \in FairRows /\ row.attempts = 0
    BY <1>0, <1>b, RowsAreFair
  <2>2. event' # NoEvent
    BY <1>a, <1>b
  <2>3. QueueFor(event'.kind, row)
    BY <1>b DEF Tell
  <2> HIDE DEF row
  <2> QED BY <1>b, <2>1, <2>2, <2>3, QueueingOK
<1>1. ASSUME NEW words \in Names, NEW kind \in {"incident", "maintenance", "publication"},
             NEW l \in State, AddEvent(kind, l, words)
      PROVE  TextInv'
  <2>1. EventOK'
    <3>1. event' = [kind |-> kind, severity |-> IF kind = "incident" THEN "critical" ELSE None,
               lifecycle |-> l, previous |-> None, title |-> words,
               description |-> words, service |-> words,
               window |-> IF l = "scheduled" THEN "first" ELSE None, ended |-> FALSE,
               update |-> NoWords, review |-> NoWords]
      BY <1>1 DEF AddEvent
    <3>2. NamesAnEvent(event')
      BY <3>1 DEF EventFields
    <3>3. words \in Words
      BY <1>0
    <3> QED BY <1>0, <3>1, <3>2, <3>3 DEF EventOK
  <2>2. NamesAnEvent(event')
    BY <1>1 DEF AddEvent, EventFields
  <2>3. OfNew(kind, l) \in Happenings \ {"closed"}
    BY DEF OfNew, Happenings
  <2>4. SendingOK'
    BY <1>1, <1>b, <2>2, <2>3 DEF AddEvent
  <2> QED BY <2>1, <2>4
<1>c. ASSUME event # NoEvent
      PROVE  /\ NamesAnEvent(event) /\ event.lifecycle \in State /\ event.previous \in State
             /\ event.title \in Words /\ event.description \in Words /\ event.service \in Words
             /\ event.update \in Text /\ event.review \in Text
             /\ "update" \in withdrawn => event.update = NoWords
             /\ "review" \in withdrawn => event.review = NoWords
  BY <1>c DEF EventOK
<1>2. ASSUME NEW to \in Lifecycle \cup {None}, NEW words \in {"@", NoWords},
             PostUpdate(to, words)
      PROVE  TextInv'
  <2> DEFINE happening == IF to = None THEN "updated" ELSE OfMove(event.kind, event.lifecycle, to)
  <2>0. event # NoEvent
    BY <1>2 DEF PostUpdate
  <2>1. /\ NamesAnEvent(event')
        /\ event'.lifecycle = (IF to = None THEN event.lifecycle ELSE to)
        /\ event'.previous = (IF to = None THEN event.previous ELSE event.lifecycle)
        /\ event'.title = event.title /\ event'.description = event.description
        /\ event'.service = event.service /\ event'.review = event.review
        /\ event'.update = (IF words = NoWords THEN event.update ELSE words)
    BY <1>2, <1>c, <2>0 DEF PostUpdate, EventFields
  <2>2. EventOK'
    <3>1. event'.lifecycle \in State /\ event'.previous \in State
      BY <1>c, <2>0, <2>1 DEF State
    <3>2. event'.update \in Text /\ ("update" \in withdrawn => event'.update = NoWords)
      BY <1>0, <1>2, <1>c, <2>0, <2>1 DEF PostUpdate
    <3>3. withdrawn' = withdrawn
      BY <1>2 DEF PostUpdate
    <3> QED BY <1>c, <2>0, <2>1, <3>1, <3>2, <3>3 DEF EventOK
  <2>3. /\ happening \in Happenings /\ (words # NoWords) \in BOOLEAN /\ event'.lifecycle \in State
        /\ happening = "closed" => IsTerminal(event'.lifecycle)
    BY <1>c, <2>0, <2>1 DEF OfMove, Happenings, State
  <2>4. SendingOK'
    <3>1. Tell(happening, event'.lifecycle, words # NoWords)
      BY <1>2 DEF PostUpdate
    <3> HIDE DEF happening
    <3> QED BY <1>2, <1>b, <2>1, <2>3, <3>1 DEF PostUpdate
  <2> QED BY <2>2, <2>4
<1>3. ASSUME SaveReview("plain") PROVE TextInv'
  <2>0. event # NoEvent
    BY <1>3 DEF SaveReview
  <2>1. /\ NamesAnEvent(event')
        /\ event'.lifecycle = event.lifecycle /\ event'.previous = event.previous
        /\ event'.title = event.title /\ event'.description = event.description
        /\ event'.service = event.service /\ event'.update = event.update
        /\ event'.review = "plain" /\ withdrawn' = withdrawn \ {"review"}
    BY <1>3, <1>c, <2>0 DEF SaveReview, EventFields
  <2>2. EventOK'
    BY <1>0, <1>c, <2>0, <2>1 DEF EventOK
  <2>3. SendingOK'
    <3>1. Tell("reviewed", event.lifecycle, FALSE) /\ "reviewed" \in Happenings
      BY <1>3 DEF SaveReview, Happenings
    <3> QED BY <1>3, <1>b, <1>c, <2>0, <2>1, <3>1 DEF SaveReview
  <2> QED BY <2>2, <2>3
<1>4. ASSUME Revert PROVE TextInv'
  <2>0. event # NoEvent
    BY <1>4 DEF Revert
  <2>1. /\ NamesAnEvent(event')
        /\ event'.lifecycle = event.previous /\ event'.previous = None
        /\ event'.title = event.title /\ event'.description = event.description
        /\ event'.service = event.service /\ event'.update = event.update
        /\ event'.review = event.review /\ withdrawn' = withdrawn
    BY <1>4, <1>c, <2>0 DEF Revert, EventFields
  <2>2. EventOK'
    BY <1>0, <1>c, <2>0, <2>1 DEF EventOK
  <2>3. SendingOK'
    <3>1. Tell("updated", event.previous, FALSE) /\ "updated" \in Happenings
      BY <1>4 DEF Revert, Happenings
    <3> QED BY <1>4, <1>b, <1>c, <2>0, <2>1, <3>1 DEF Revert
  <2> QED BY <2>2, <2>3
<1>5. ASSUME Reschedule PROVE TextInv'
  <2>0. event # NoEvent
    BY <1>5 DEF Reschedule
  <2>1. /\ NamesAnEvent(event')
        /\ event'.lifecycle = event.lifecycle /\ event'.previous = event.previous
        /\ event'.title = event.title /\ event'.description = event.description
        /\ event'.service = event.service /\ event'.update = event.update
        /\ event'.review = event.review /\ withdrawn' = withdrawn
    BY <1>5, <1>c, <2>0 DEF Reschedule, EventFields
  <2>2. EventOK'
    BY <1>0, <1>c, <2>0, <2>1 DEF EventOK
  <2>3. SendingOK'
    <3>1. Tell("rescheduled", event.lifecycle, FALSE) /\ "rescheduled" \in Happenings
      BY <1>5 DEF Reschedule, Happenings
    <3> QED BY <1>5, <1>b, <1>c, <2>0, <2>1, <3>1 DEF Reschedule
  <2> QED BY <2>2, <2>3
<1>6. ASSUME NEW field \in {"update", "review"}, Withdraw(field) PROVE TextInv'
  <2>0. event # NoEvent
    BY <1>6 DEF Withdraw
  <2>1. /\ NamesAnEvent(event')
        /\ event'.lifecycle = event.lifecycle /\ event'.previous = event.previous
        /\ event'.title = event.title /\ event'.description = event.description
        /\ event'.service = event.service /\ withdrawn' = withdrawn \cup {field}
        /\ event'.update = (IF field = "update" THEN NoWords ELSE event.update)
        /\ event'.review = (IF field = "review" THEN NoWords ELSE event.review)
    BY <1>6, <1>c, <2>0 DEF Withdraw, EventFields
  <2>2. EventOK'
    BY <1>0, <1>c, <2>0, <2>1 DEF EventOK
  <2>3. event' # NoEvent
    BY <1>a, <2>1
  <2>4. UNCHANGED <<queue, ready, outcome, truth, channel>>
    BY <1>6 DEF Withdraw
  <2>5. SendingOK'
    BY <2>3, <2>4 DEF SendingOK, TextShapes, QueueOK, Exists, TheListSaysWhy, LastSend,
                      AcceptedCanBePosted
  <2> QED BY <2>2, <2>5
<1>7. ASSUME NEW happening \in {"service_down", "service_up"}, NEW names \in NameSeqs,
             names # <<>>, FindServices(happening, names)
      PROVE  TextInv'
  <2> DEFINE row == TextRow(happening, None, FALSE, names)
  <2>0. happening \in Happenings /\ happening # "closed" /\ FALSE \in BOOLEAN
    BY DEF Happenings
  <2>1. row \in FairRows /\ row.attempts = 0 /\ row.names = names
    BY <1>0, <2>0, RowsAreFair
  <2>2. /\ QueueFor("detected", row) /\ UNCHANGED <<ready, outcome, truth, channel>>
        /\ event' = event /\ withdrawn' = withdrawn
    BY <1>7 DEF FindServices, team
  <2> HIDE DEF row
  <2>3. SendingOK'
    BY <1>7, <2>1, <2>2, QueueingOK
  <2> QED BY <2>2, <2>3 DEF EventOK
<1>8. \A word \in Names : /\ <<word>> \in NameSeqs /\ <<word, "plain">> \in NameSeqs
                          /\ <<word>> # <<>> /\ <<word, "plain">> # <<>>
  BY <1>0 DEF NameSeqs
<1>9. {"investigating", "monitoring", "scheduled", "in_progress", None} \subseteq State
  BY DEF State, Lifecycle
<1> QED BY <1>1, <1>2, <1>3, <1>4, <1>5, <1>6, <1>7, <1>8, <1>9

\* What administrators do to the destinations.
LEMMA DeskStep ==
  ASSUME TextInv,
         \/ \E c \in Destinations : \/ \E f \in Forms : Create(c, f) \/ Update(c, f)
                                    \/ Delete(c)
         \/ SavePageAddress("")
  PROVE  TextInv'
<1> USE DEF TextInv
<1>0. /\ TextShapes /\ AcceptedCanBePosted
      /\ \A c \in Destinations : QueueOK(c) /\ TheListSaysWhy(c)
      /\ \A c \in Places : ready[c] # NoMessage => MessageOK(ready[c])
  BY DEF SendingOK
<1>1. ASSUME UNCHANGED <<event, withdrawn>> PROVE EventOK'
  BY <1>1 DEF EventOK
<1>2. ASSUME NEW d \in Destinations, NEW f \in Forms, Check(f, MailReady),
             Exists(d) \/ channel[d] = NoChannel,
             channel' = [channel EXCEPT ![d] = ChannelOf(f)],
             UNCHANGED <<event, queue, ready, outcome, truth>>
      PROVE  SendingOK'
  <2> DEFINE ch == ChannelOf(f)
  <2>1. DestinationOK(ch.tool, ch.target)
    BY <1>2, AcceptedIsOK DEF Check
  <2>2. ch.tool # None /\ ch.tool # "removed"
    BY <2>1 DEF DestinationOK, Tools, None
  <2>3. ch # NoChannel /\ ch # Removed
    <3>1. NoChannel.tool = None /\ Removed.tool = "removed"
      BY DEF NoChannel, Removed
    <3> QED BY <2>2, <3>1, Zenon
  <2> HIDE DEF ch
  <2>4. channel'[d] = ch /\ \A c \in Destinations \ {d} : channel'[c] = channel[c]
    BY <1>0, <1>2 DEF TextShapes, ch
  <2>5. TextShapes'
    BY <1>0, <1>2 DEF TextShapes
  <2>6. ASSUME NEW c \in Destinations PROVE QueueOK(c)' /\ TheListSaysWhy(c)'
    <3>1. TheListSaysWhy(c)'
      BY <1>0, <1>2 DEF TheListSaysWhy, LastSend
    <3>2. QueueOK(c)'
      BY <1>0, <1>2, <2>1, <2>3, <2>4 DEF QueueOK, Exists
    <3> QED BY <3>1, <3>2
  <2>7. AcceptedCanBePosted'
    BY <1>0, <1>2 DEF AcceptedCanBePosted
  <2> QED BY <1>0, <1>2, <2>5, <2>6, <2>7 DEF SendingOK
<1>3. ASSUME NEW d \in Destinations, Delete(d) PROVE SendingOK'
  <2>1. /\ channel' = [channel EXCEPT ![d] = Removed]
        /\ queue' = [queue EXCEPT ![d] = <<>>]
        /\ outcome' = [outcome EXCEPT ![d] = Never] /\ truth' = [truth EXCEPT ![d] = Never]
        /\ UNCHANGED <<event, ready>>
    BY <1>3 DEF Delete, team
  <2>2. TextShapes'
    BY <1>0, <2>1, NoRowsYet DEF TextShapes
  <2>3. Removed # NoChannel
    BY DEF Removed, NoChannel, None
  <2>4. ASSUME NEW c \in Destinations PROVE QueueOK(c)' /\ TheListSaysWhy(c)'
    <3>1. CASE c = d
      <4>1. /\ channel'[c] = Removed /\ queue'[c] = <<>> /\ outcome'[c] = Never
            /\ truth'[c] = Never
        BY <1>0, <2>1, <3>1 DEF TextShapes, Places
      <4>2. QueueOK(c)'
        BY <2>3, <4>1, NoRowsYet DEF QueueOK, Exists
      <4>3. TheListSaysWhy(c)'
        BY <4>1 DEF TheListSaysWhy, LastSend, Never
      <4> QED BY <4>2, <4>3
    <3>2. CASE c # d
      <4>1. /\ channel'[c] = channel[c] /\ queue'[c] = queue[c] /\ outcome'[c] = outcome[c]
            /\ truth'[c] = truth[c] /\ ready'[c] = ready[c]
        BY <1>0, <2>1, <3>2 DEF TextShapes, Places
      <4> QED BY <1>0, <2>1, <4>1 DEF QueueOK, Exists, TheListSaysWhy, LastSend
    <3> QED BY <3>1, <3>2
  <2>5. AcceptedCanBePosted'
    <3>1. Never.failure.what # "unsupported"
      BY DEF Never, Unknown, Failure
    <3>2. \A c \in Places : truth'[c] \in {truth[c], Never}
      BY <1>0, <2>1 DEF TextShapes
    <3> QED BY <1>0, <3>1, <3>2 DEF AcceptedCanBePosted, Places
  <2> QED BY <1>0, <2>1, <2>2, <2>4, <2>5 DEF SendingOK
<1>4. ASSUME SavePageAddress("") PROVE SendingOK'
  <2>1. UNCHANGED <<event, channel, queue, ready, outcome, truth>>
    BY <1>4 DEF SavePageAddress, team
  <2> QED BY <1>0, <2>1 DEF SendingOK, TextShapes, QueueOK, Exists, TheListSaysWhy, LastSend,
                           AcceptedCanBePosted
<1>5. UNCHANGED <<event, withdrawn>>
  BY DEF Create, Update, Delete, SavePageAddress, team
<1>6. ASSUME NEW c \in Destinations, NEW f \in Forms, Create(c, f) \/ Update(c, f)
      PROVE  SendingOK'
  BY <1>2, <1>6 DEF Create, Update, team
<1> QED BY <1>1, <1>3, <1>4, <1>5, <1>6

\* A destination told something of, and the others left as they were.
LEMMA ToldOK ==
  ASSUME SendingOK, NEW d \in Destinations, NEW q \in Seq(FairRows), NEW verdict, NEW actual,
         UNCHANGED <<event, channel>>, Exists(d),
         queue' = [queue EXCEPT ![d] = q],
         DOMAIN ready' = Places, ready'[d] = NoMessage,
         \A c \in Places \ {d} : ready'[c] = ready[c],
         outcome' = [outcome EXCEPT ![d] = verdict], truth' = [truth EXCEPT ![d] = actual],
         \A i \in 2..Len(q) : q[i].attempts = 0,
         \A i \in 1..Len(q) : \E j \in 1..Len(queue[d]) : q[i].names = queue[d][j].names,
         TheListSaysWhy(d)', actual.failure.what # "unsupported"
  PROVE  SendingOK'
<1> USE DEF SendingOK
<1>2. TextShapes'
  BY DEF TextShapes
<1>3. /\ queue'[d] = q /\ truth'[d] = actual
      /\ \A c \in Places \ {d} : truth'[c] = truth[c]
      /\ \A c \in Destinations \ {d} : queue'[c] = queue[c] /\ outcome'[c] = outcome[c]
  BY DEF TextShapes, Places
<1>4. QueueOK(d)'
  <2>1. QueueOK(d)
    OBVIOUS
  <2>2. event' = NoEvent => \A i \in 1..Len(q) : q[i].names # <<>>
    BY <2>1 DEF QueueOK
  <2>3. channel'[d] = channel[d] /\ channel[d] # NoChannel
    BY DEF Exists
  <2> QED BY <1>3, <2>1, <2>2, <2>3 DEF QueueOK, Exists
<1>5. ASSUME NEW c \in Destinations \ {d} PROVE QueueOK(c)' /\ TheListSaysWhy(c)'
  <2>1. QueueOK(c) /\ TheListSaysWhy(c)
    OBVIOUS
  <2> QED BY <1>3, <2>1 DEF QueueOK, Exists, TheListSaysWhy, LastSend, Places
<1>6. \A c \in Destinations : QueueOK(c)' /\ TheListSaysWhy(c)'
  BY <1>4, <1>5
<1>7. \A c \in Places : ready'[c] # NoMessage => MessageOK(ready'[c])
  OBVIOUS
<1>8. AcceptedCanBePosted'
  BY <1>3 DEF AcceptedCanBePosted, Places
<1> QED BY <1>2, <1>6, <1>7, <1>8

\* The first message of a destination written, or failed on its own.
LEMMA WriteStep ==
  ASSUME TextInv, NEW d \in Destinations, WriteNext(d)
  PROVE  SendingOK'
<1> USE DEF TextInv
<1> DEFINE row == Head(queue[d])
           gone == Failure("gone", NoStatus)
           recorded == [status |-> "failed", failure |-> FromCode(Code(gone))]
           verdict == [status |-> "failed", failure |-> gone]
<1>0. /\ TextShapes /\ AcceptedCanBePosted
      /\ \A c \in Destinations : QueueOK(c) /\ TheListSaysWhy(c)
      /\ \A c \in Places : ready[c] # NoMessage => MessageOK(ready[c])
  BY DEF SendingOK
<1>1. /\ Exists(d) /\ queue[d] # <<>> /\ ready[d] = NoMessage
      /\ UNCHANGED <<event, channel>>
  BY DEF WriteNext, team, desk
<1>2. /\ queue[d] \in Seq(FairRows) /\ row \in FairRows
      /\ Len(queue[d]) \in Nat \ {0} /\ row = queue[d][1]
  BY <1>0, <1>1 DEF TextShapes
<1>3. CASE Withdrawn(row)
  <2>1. /\ queue' = [queue EXCEPT ![d] = Tail(queue[d])]
        /\ outcome' = [outcome EXCEPT ![d] = recorded]
        /\ truth' = [truth EXCEPT ![d] = verdict] /\ ready' = ready
    BY <1>3 DEF WriteNext
  <2> DEFINE q == Tail(queue[d])
  <2>2. /\ q \in Seq(FairRows) /\ Len(q) = Len(queue[d]) - 1
        /\ \A i \in 1..Len(q) : q[i] = queue[d][i + 1]
    BY <1>1, <1>2
  <2>3. \A i \in 1..Len(q) : i + 1 \in 2..Len(queue[d]) /\ i + 1 \in 1..Len(queue[d])
    BY <1>2, <2>2
  <2>4. \A i \in 1..Len(q) : q[i].attempts = 0
    BY <1>0, <2>2, <2>3 DEF QueueOK
  <2>5. \A i \in 1..Len(q) : \E j \in 1..Len(queue[d]) : q[i].names = queue[d][j].names
    BY <2>2, <2>3
  <2>6. q # <<>> => Head(q).attempts = 0
    <3>1. q # <<>> => 1 \in 1..Len(q) /\ Head(q) = q[1]
      BY <2>2
    <3> QED BY <2>4, <3>1
  <2> HIDE DEF q
  <2>7. queue'[d] = q /\ outcome'[d] = recorded /\ truth'[d] = verdict
    BY <1>0, <2>1 DEF TextShapes, Places, q
  <2>8. TheListSaysWhy(d)'
    <3>1. LastSend(d)' = recorded
      BY <2>6, <2>7 DEF LastSend
    <3>2. Worded(gone)
      BY CodesAreWorded
    <3> QED BY <2>7, <3>1, <3>2 DEF TheListSaysWhy, Worded
  <2>9. gone.what # "unsupported"
    BY DEF Failure
  <2>10. verdict.failure.what # "unsupported"
    BY <2>9
  <2>11. \A i \in 2..Len(q) : q[i].attempts = 0
    BY <2>2, <2>4
  <2>12. /\ DOMAIN ready' = Places /\ ready'[d] = NoMessage
         /\ \A c \in Places \ {d} : ready'[c] = ready[c]
    BY <1>0, <1>1, <2>1 DEF TextShapes
  <2>13. queue' = [queue EXCEPT ![d] = q]
    BY <2>1 DEF q
  <2> HIDE DEF recorded, verdict
  <2> QED BY <1>1, <2>1, <2>2, <2>5, <2>8, <2>10, <2>11, <2>12, <2>13, ToldOK
<1>4. CASE ~Withdrawn(row)
  <2> DEFINE m == Written(d, row)
  <2>1. ready' = [ready EXCEPT ![d] = m] /\ UNCHANGED <<queue, outcome, truth>>
    BY <1>4 DEF WriteNext
  <2>2. event = NoEvent => row.names # <<>>
    BY <1>0, <1>2 DEF QueueOK
  <2>3. DestinationOK(channel[d].tool, channel[d].target)
    BY <1>0, <1>1 DEF QueueOK
  <2>4. m.row = row /\ m # NoMessage /\ MessageOK(m)
    BY <1>2, <1>4, <2>2, <2>3, WrittenIsOK
  <2> HIDE DEF m
  <2>5. TextShapes'
    BY <1>0, <1>1, <2>1 DEF TextShapes
  <2>6. ready'[d] = m /\ \A c \in Places \ {d} : ready'[c] = ready[c]
    BY <1>0, <2>1 DEF TextShapes, Places
  <2>7. ASSUME NEW c \in Destinations PROVE QueueOK(c)' /\ TheListSaysWhy(c)'
    <3>1. TheListSaysWhy(c)'
      BY <1>0, <2>1 DEF TheListSaysWhy, LastSend
    <3>2. CASE c = d
      BY <1>0, <1>1, <2>1, <2>4, <2>6, <3>1, <3>2 DEF QueueOK, Exists
    <3>3. CASE c # d
      BY <1>0, <1>1, <2>1, <2>6, <3>1, <3>3 DEF QueueOK, Exists, Places
    <3> QED BY <3>2, <3>3
  <2>8. \A c \in Places : ready'[c] # NoMessage => MessageOK(ready'[c])
    BY <1>0, <2>4, <2>6
  <2>9. AcceptedCanBePosted'
    BY <1>0, <2>1 DEF AcceptedCanBePosted
  <2> QED BY <2>5, <2>7, <2>8, <2>9 DEF SendingOK
<1> QED BY <1>3, <1>4

\* The answer to a message settles it, if its destination is still there.
LEMMA AnswerStep ==
  ASSUME TextInv, NEW d \in Destinations, NEW answer \in Answers, Answer(d, answer)
  PROVE  SendingOK'
<1> USE DEF TextInv
<1> DEFINE m == ready[d]
           row == Head(queue[d])
           result == SendText(m, answer)
           f == result.failure
           after == Settled(d, result)
           actual == [status |-> CASE result.done -> "sent"
                                 [] ~result.done /\ TriesAgain(m.row, f) -> "retrying"
                                 [] OTHER -> "failed", failure |-> f]
<1>0. /\ TextShapes /\ AcceptedCanBePosted
      /\ \A c \in Destinations : QueueOK(c) /\ TheListSaysWhy(c)
      /\ \A c \in Places : ready[c] # NoMessage => MessageOK(ready[c])
  BY DEF SendingOK
<1>1. /\ m # NoMessage /\ ready' = [ready EXCEPT ![d] = NoMessage]
      /\ UNCHANGED <<event, channel>>
  BY DEF Answer, team, desk
<1>2. /\ DOMAIN ready' = Places /\ ready'[d] = NoMessage
      /\ \A c \in Places \ {d} : ready'[c] = ready[c]
  BY <1>0, <1>1 DEF TextShapes, Places
<1>3. /\ result.done \in BOOLEAN
      /\ f.what # "unsupported" /\ Code(f) \in CodeRecords
      /\ ~result.done => Worded(f)
  <2>1. DestinationOK(m.tool, m.target)
    BY <1>0, <1>1 DEF MessageOK, Places
  <2> QED BY <2>1, SendGoes
<1> HIDE DEF m, result, f
<1>4. CASE Exists(d) /\ queue[d] # <<>>
  <2>1. /\ queue' = [queue EXCEPT ![d] = after.queue]
        /\ outcome' = [outcome EXCEPT ![d] = after.outcome]
        /\ truth' = [truth EXCEPT ![d] = actual]
    BY <1>4 DEF Answer, m, result, f
  <2>2. /\ queue[d] \in Seq(FairRows) /\ row \in FairRows
        /\ Len(queue[d]) \in Nat \ {0} /\ row = queue[d][1]
    BY <1>0, <1>4 DEF TextShapes
  <2>3. m.row = row
    BY <1>0, <1>1, <1>4 DEF QueueOK, m
  <2> DEFINE rest == Tail(queue[d])
  <2>4. /\ rest \in Seq(FairRows) /\ Len(rest) = Len(queue[d]) - 1
        /\ \A i \in 1..Len(rest) : rest[i] = queue[d][i + 1]
    BY <1>4, <2>2
  <2>5. \A i \in 1..Len(rest) : i + 1 \in 2..Len(queue[d]) /\ i + 1 \in 1..Len(queue[d])
    BY <2>2, <2>4
  <2>6. \A i \in 1..Len(rest) : rest[i].attempts = 0
    BY <1>0, <2>4, <2>5 DEF QueueOK
  <2>7. actual.failure.what # "unsupported"
    BY <1>3
  <2>8. ASSUME NEW q \in Seq(FairRows), NEW verdict,
               after = [queue |-> q, outcome |-> verdict],
               \A i \in 2..Len(q) : q[i].attempts = 0,
               \A i \in 1..Len(q) : \E j \in 1..Len(queue[d]) : q[i].names = queue[d][j].names,
               LET said == IF q # <<>> /\ Head(q).attempts > 0
                           THEN [status |-> "retrying", failure |-> FromCode(Head(q).code)]
                           ELSE verdict
               IN  /\ said.status = actual.status
                   /\ actual.status \in {"retrying", "failed"} =>
                        FailureText(said.failure) = FailureText(f)
        PROVE  SendingOK'
    <3>1. /\ queue' = [queue EXCEPT ![d] = q] /\ outcome' = [outcome EXCEPT ![d] = verdict]
      BY <2>1, <2>8
    <3>2. queue'[d] = q /\ outcome'[d] = verdict /\ truth'[d] = actual
      BY <1>0, <2>1, <3>1 DEF TextShapes, Places
    <3>3. actual.failure = f
      OBVIOUS
    <3> HIDE DEF actual, after
    <3>4. TheListSaysWhy(d)'
      BY <2>8, <3>2, <3>3 DEF TheListSaysWhy, LastSend
    <3> QED BY <1>1, <1>2, <1>4, <2>1, <2>7, <2>8, <3>1, <3>4, ToldOK
  <2>9. CASE result.done
    <3>1. after = [queue |-> rest, outcome |-> [status |-> "sent", failure |-> Unknown]]
      BY <2>9 DEF Settled
    <3>2. actual.status = "sent"
      BY <2>9
    <3>3. rest # <<>> => Head(rest).attempts = 0
      BY <2>4, <2>6
    <3>4. \A i \in 1..Len(rest) : \E j \in 1..Len(queue[d]) : rest[i].names = queue[d][j].names
      BY <2>4, <2>5
    <3>5. \A i \in 2..Len(rest) : rest[i].attempts = 0
      BY <2>4, <2>6
    <3> DEFINE verdict == [status |-> "sent", failure |-> Unknown]
               said == IF rest # <<>> /\ Head(rest).attempts > 0
                       THEN [status |-> "retrying", failure |-> FromCode(Head(rest).code)]
                       ELSE verdict
    <3>6. said = verdict
      BY <3>3
    <3>7. said.status = actual.status /\ actual.status \notin {"retrying", "failed"}
      BY <3>2, <3>6
    <3> HIDE DEF actual, after
    <3> QED BY <2>4, <2>8, <3>1, <3>4, <3>5, <3>7
  <2>10. CASE ~result.done /\ TriesAgain(row, f)
    <3> DEFINE again == [row EXCEPT !.attempts = row.attempts + 1, !.code = Code(f)]
               q == <<again>> \o rest
    <3>1. after = [queue |-> q, outcome |-> outcome[d]]
      BY <2>10 DEF Settled, f
    <3>2. actual.status = "retrying"
      BY <2>3, <2>10
    <3>3. /\ again \in FairRows /\ again.attempts > 0 /\ again.code = Code(f)
          /\ again.names = row.names
      <4>1. row \in TextRows /\ FairRow(row) /\ row.attempts \in Nat
        BY <2>2 DEF FairRows, TextRows
      <4>2. again \in TextRows
        <5>1. row.attempts + 1 \in Nat
          BY <4>1
        <5> QED BY <1>3, <4>1, <5>1, TriedIsARow
      <4>3. /\ again.happening = row.happening /\ again.names = row.names
            /\ again.lifecycle = row.lifecycle /\ again.update = row.update
            /\ again.attempts = row.attempts + 1 /\ again.code = Code(f)
        BY <4>1 DEF TextRows
      <4> HIDE DEF again
      <4> QED BY <4>1, <4>2, <4>3 DEF FairRows, FairRow
    <3> HIDE DEF again
    <3>4. /\ q \in Seq(FairRows) /\ q # <<>> /\ Head(q) = again /\ Len(q) = Len(queue[d])
          /\ q[1] = again /\ \A i \in 2..Len(q) : q[i] = rest[i - 1]
      BY <2>2, <2>4, <3>3
    <3>5. \A i \in 2..Len(q) : q[i].attempts = 0
      <4>1. \A i \in 2..Len(q) : i - 1 \in 1..Len(rest)
        BY <2>2, <2>4, <3>4
      <4> QED BY <2>6, <3>4, <4>1
    <3>6. \A i \in 1..Len(q) : \E j \in 1..Len(queue[d]) : q[i].names = queue[d][j].names
      <4>1. \A i \in 2..Len(q) : i - 1 \in 1..Len(rest) /\ (i - 1) + 1 = i
        BY <2>2, <2>4, <3>4
      <4>2. \A i \in 2..Len(q) : q[i] = queue[d][i]
        BY <2>4, <3>4, <4>1
      <4>3. q[1].names = queue[d][1].names
        BY <2>2, <3>3, <3>4
      <4>4. \A i \in 1..Len(q) : i = 1 \/ i \in 2..Len(q)
        BY <2>2, <3>4
      <4> QED BY <3>4, <4>2, <4>3, <4>4
    <3>7. FailureText(FromCode(Code(f))) = FailureText(f)
      BY <1>3, <2>10 DEF Worded
    <3> HIDE DEF q, actual, after
    <3> QED BY <2>8, <3>1, <3>2, <3>3, <3>4, <3>5, <3>6, <3>7
  <2>11. CASE ~result.done /\ ~TriesAgain(row, f)
    <3> DEFINE verdict == [status |-> "failed", failure |-> FromCode(Code(f))]
    <3>1. after = [queue |-> <<>>, outcome |-> verdict]
      BY <2>11 DEF Settled, f
    <3>2. actual.status = "failed"
      BY <2>3, <2>11
    <3>3. FailureText(FromCode(Code(f))) = FailureText(f)
      BY <1>3, <2>11 DEF Worded
    <3> HIDE DEF actual, after
    <3> QED BY <2>8, <3>1, <3>2, <3>3, NoRowsYet
  <2> QED BY <1>3, <2>9, <2>10, <2>11
<1>5. CASE ~(Exists(d) /\ queue[d] # <<>>)
  <2>1. UNCHANGED <<queue, outcome, truth>>
    BY <1>5 DEF Answer
  <2>2. TextShapes'
    BY <1>0, <1>1, <2>1 DEF TextShapes
  <2>3. ASSUME NEW c \in Destinations PROVE QueueOK(c)' /\ TheListSaysWhy(c)'
    <3>1. TheListSaysWhy(c)'
      BY <1>0, <2>1 DEF TheListSaysWhy, LastSend
    <3>2. QueueOK(c)'
      BY <1>0, <1>1, <1>2, <2>1 DEF QueueOK, Exists, Places
    <3> QED BY <3>1, <3>2
  <2>4. \A c \in Places : ready'[c] # NoMessage => MessageOK(ready'[c])
    BY <1>0, <1>2
  <2>5. AcceptedCanBePosted'
    BY <1>0, <2>1 DEF AcceptedCanBePosted
  <2> QED BY <2>2, <2>3, <2>4, <2>5 DEF SendingOK
<1> QED BY <1>4, <1>5

\* A test sent to what the form says, and answered.
LEMMA TestStep ==
  ASSUME TextInv,
         \/ \E f \in Forms : Test(f)
         \/ \E answer \in Answers : TestAnswered(answer)
  PROVE  SendingOK'
<1> USE DEF TextInv
<1>0. /\ TextShapes /\ AcceptedCanBePosted
      /\ \A c \in Destinations : QueueOK(c) /\ TheListSaysWhy(c)
      /\ \A c \in Places : ready[c] # NoMessage => MessageOK(ready[c])
  BY DEF SendingOK
<1>1. Trial \in Places /\ \A c \in Destinations : c # Trial /\ c \in Places
  BY MessagesAssumption DEF Places
<1>2. ASSUME NEW m, m = NoMessage \/ MessageOK(m), ready' = [ready EXCEPT ![Trial] = m],
             DOMAIN truth' = Places,
             \A c \in Destinations : truth'[c] = truth[c],
             truth'[Trial].failure.what # "unsupported",
             UNCHANGED <<event, channel, queue, outcome>>
      PROVE  SendingOK'
  <2>1. ready'[Trial] = m /\ \A c \in Destinations : ready'[c] = ready[c]
    BY <1>0, <1>1, <1>2 DEF TextShapes
  <2>2. TextShapes'
    BY <1>0, <1>2 DEF TextShapes
  <2>3. ASSUME NEW c \in Destinations PROVE QueueOK(c)' /\ TheListSaysWhy(c)'
    <3>1. QueueOK(c) /\ TheListSaysWhy(c)
      BY <1>0
    <3> QED BY <1>2, <2>1, <3>1 DEF QueueOK, Exists, TheListSaysWhy, LastSend
  <2>4. \A c \in Places : ready'[c] # NoMessage => MessageOK(ready'[c])
    BY <1>0, <1>2, <2>1 DEF Places
  <2>5. AcceptedCanBePosted'
    BY <1>0, <1>1, <1>2 DEF AcceptedCanBePosted
  <2> QED BY <2>2, <2>3, <2>4, <2>5 DEF SendingOK
<1>3. ASSUME NEW f \in Forms, Test(f) PROVE SendingOK'
  <2> DEFINE row == TextRow("test", None, FALSE, <<>>)
             ch == ChannelOf(f)
             m == Message(ch, TestNotice, NoFacts("test"), row, {})
  <2>1. DestinationOK(ch.tool, ch.target)
    BY <1>3, AcceptedIsOK DEF Test
  <2>2. /\ m.tool = ch.tool /\ m.target = ch.target /\ m.notice = TestNotice /\ m.row = row
    BY DEF Message
  <2>3. row.lifecycle = None /\ row.happening = "test" /\ ~row.update
    BY DEF TextRow
  <2>4. BodyTellsAll(ch.tool, TestNotice)
    <3>1. /\ ch.tool \in Tools /\ "plain" # None /\ "plain" \in Words /\ "plain" \in Text
          /\ NoWords \in Text
      BY <2>1 DEF DestinationOK, None, Words, Text
    <3> HIDE DEF ch
    <3> QED BY <3>1, BodiesTellAll DEF TestNotice
  <2>5. MessageOK(m)
    BY <2>1, <2>2, <2>3, <2>4 DEF MessageOK, ToldAsItHappened, WithdrawnIsNotSent
  <2>6. /\ ready' = [ready EXCEPT ![Trial] = m]
        /\ UNCHANGED <<event, channel, queue, outcome, truth>>
    BY <1>3 DEF Test, team, desk
  <2> HIDE DEF m
  <2> QED BY <1>0, <1>1, <1>2, <2>5, <2>6 DEF TextShapes, AcceptedCanBePosted
<1>4. ASSUME NEW answer \in Answers, TestAnswered(answer) PROVE SendingOK'
  <2> DEFINE f == SendText(ready[Trial], answer).failure
             actual == [Never EXCEPT !.failure = f]
  <2>1. ready[Trial] # NoMessage
    BY <1>4 DEF TestAnswered
  <2>2. f.what # "unsupported"
    <3>1. DestinationOK(ready[Trial].tool, ready[Trial].target)
      BY <1>0, <1>1, <2>1 DEF MessageOK
    <3> QED BY <3>1, SendGoes
  <2>3. /\ ready' = [ready EXCEPT ![Trial] = NoMessage] /\ truth' = [truth EXCEPT ![Trial] = actual]
        /\ UNCHANGED <<event, channel, queue, outcome>>
    BY <1>4 DEF TestAnswered, team, desk
  <2> HIDE DEF f
  <2>4. actual.failure = f
    BY DEF Never
  <2> HIDE DEF actual
  <2>5. /\ DOMAIN truth' = Places /\ truth'[Trial] = actual
        /\ \A c \in Destinations : truth'[c] = truth[c]
    BY <1>0, <1>1, <2>3 DEF TextShapes
  <2> QED BY <1>2, <2>2, <2>3, <2>4, <2>5
<1> QED BY <1>3, <1>4

\* The invariant holds at first, and every step keeps it.
LEMMA TextStart == TextInit => TextInv
<1> SUFFICES ASSUME TextInit PROVE TextInv
  OBVIOUS
<1>1. EventOK
  BY DEF TextInit, EventOK
<1>2. TextShapes
  BY NoRowsYet DEF TextInit, TextShapes, Places
<1>3. ASSUME NEW c \in Destinations PROVE QueueOK(c) /\ TheListSaysWhy(c)
  <2>1. /\ channel[c] = NoChannel /\ queue[c] = <<>> /\ ready[c] = NoMessage
        /\ outcome[c] = Never /\ truth[c] = Never
    BY DEF TextInit
  <2>2. QueueOK(c)
    BY <2>1, NoRowsYet DEF QueueOK, Exists
  <2>3. TheListSaysWhy(c)
    BY <2>1 DEF TheListSaysWhy, LastSend, Never
  <2> QED BY <2>2, <2>3
<1>4. \A c \in Places : ready[c] = NoMessage
  BY DEF TextInit, Places
<1>5. AcceptedCanBePosted
  BY DEF TextInit, AcceptedCanBePosted, Never, Unknown, Failure
<1> QED BY <1>1, <1>2, <1>3, <1>4, <1>5 DEF TextInv, SendingOK

LEMMA TextStep == TextInv /\ [TextNext]_textVars => TextInv'
<1> SUFFICES ASSUME TextInv, [TextNext]_textVars PROVE TextInv'
  OBVIOUS
<1>1. ASSUME SendingOK', UNCHANGED team PROVE TextInv'
  BY <1>1 DEF TextInv, EventOK, team
<1>2. ASSUME NEW c \in Destinations, WriteNext(c) PROVE TextInv'
  BY <1>1, <1>2, WriteStep DEF WriteNext
<1>3. ASSUME NEW c \in Destinations, NEW answer \in Answers, Answer(c, answer) PROVE TextInv'
  BY <1>1, <1>3, AnswerStep DEF Answer
<1>4. ASSUME \/ \E f \in Forms : Test(f)
             \/ \E answer \in Answers : TestAnswered(answer)
      PROVE  TextInv'
  BY <1>1, <1>4, TestStep DEF Test, TestAnswered
<1>5. CASE UNCHANGED textVars
  <2>1. UNCHANGED <<event, withdrawn, channel, queue, ready, outcome, truth>>
    BY <1>5 DEF textVars
  <2> QED BY <2>1 DEF TextInv, EventOK, SendingOK, TextShapes, QueueOK, Exists, TheListSaysWhy,
                      LastSend, AcceptedCanBePosted
<1>6. CASE TextNext
  BY <1>2, <1>3, <1>4, <1>6, TeamStep, DeskStep DEF TextNext
<1> QED BY <1>5, <1>6

\* What leaves is what happened, whole, to an address that takes it, and the
\* list of destinations tells the truth about it.
THEOREM MessagesHold == TextSpec => []MessagesAreTrue
<1>1. TextInit => TextInv
  BY TextStart
<1>2. TextInv /\ [TextNext]_textVars => TextInv'
  BY TextStep
<1>3. TextInv => MessagesAreTrue
  <2> SUFFICES ASSUME TextInv PROVE MessagesAreTrue
    OBVIOUS
  <2>1. \A m \in Leaving : MessageOK(m)
    BY DEF TextInv, SendingOK, Leaving, TextShapes
  <2> QED BY <2>1 DEF TextInv, SendingOK, MessagesAreTrue, MessageOK
<1> QED BY <1>1, <1>2, <1>3, PTL DEF TextSpec
=============================================================================
