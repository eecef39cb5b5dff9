--------------------------- MODULE ServicesProofs ---------------------------
(***************************************************************************)
(* Proofs about what a service shows, what comes back on it and what is    *)
(* checked of it: StatusBoard for any services, events and workers, Series *)
(* for any calendar, sessions, inputs and instants, CheckForms for any     *)
(* editors, input and network, and Strip for any incidents, outages and    *)
(* length of the days.                                                     *)
(***************************************************************************)
EXTENDS StatusBoard, Series, Strip, CheckForms, SequenceTheorems, FiniteSetTheorems,
        FunctionTheorems, NaturalsInduction, WellFoundedInduction, TLAPS

-----------------------------------------------------------------------------
(* StatusBoard                                                             *)

\* Whatever states disagree about a service, one of them is the worst: the
\* max_by_key of recalculate_status has an answer, and it is one of them.
LEMMA WorstOfIsWorst ==
  ASSUME NEW statuses, statuses \subseteq ServiceStatus, statuses # {}
  PROVE  /\ WorstOf(statuses) \in statuses
         /\ \A other \in statuses : Priority(other) <= Priority(WorstOf(statuses))
<1>1. \E worst \in statuses :
        \A other \in statuses : Priority(other) <= Priority(worst)
  <2>1. CASE "major_outage" \in statuses
    BY <2>1 DEF Priority, ServiceStatus
  <2>2. CASE "major_outage" \notin statuses /\ "degraded" \in statuses
    BY <2>2 DEF Priority, ServiceStatus
  <2>3. CASE /\ "major_outage" \notin statuses /\ "degraded" \notin statuses
             /\ "maintenance" \in statuses
    BY <2>3 DEF Priority, ServiceStatus
  <2>4. CASE statuses \subseteq {"operational"}
    BY <2>4 DEF Priority, ServiceStatus
  <2> QED BY <2>1, <2>2, <2>3, <2>4 DEF ServiceStatus
<1> QED BY <1>1 DEF WorstOf

\* recalculate_status writes a service state.
LEMMA WorstType ==
  ASSUME NEW m \in ServiceStatus, NEW d \in Detected,
         NEW drivers \in SUBSET ServiceStatus
  PROVE  Worst(m, d, drivers) \in ServiceStatus
<1>1. /\ Candidates(m, d, drivers) \subseteq ServiceStatus
      /\ Candidates(m, d, drivers) # {}
  BY DEF Candidates, Detected, ServiceStatus
<1> QED BY <1>1, WorstOfIsWorst DEF Worst

\* Open work gives its services states a service can show.
LEMMA StatusDriversType ==
  ASSUME BoardTypeOK, NEW s
  PROVE  StatusDrivers(s) \in SUBSET ServiceStatus
BY DEF StatusDrivers, DeriveStatus, ServiceStatus

----------------------------------------------------------------------------
\* Types and control: a worker that reads or writes is at a service it owes.
LEMMA Control == BoardTypeOK /\ AtWork /\ [BoardNext]_boardVars => (BoardTypeOK /\ AtWork)'
<1> SUFFICES ASSUME BoardTypeOK, AtWork, [BoardNext]_boardVars PROVE (BoardTypeOK /\ AtWork)'
  OBVIOUS
<1>1. ASSUME NEW w \in Workers, NEW s \in Services, NEW status \in ServiceStatus,
             SetManualStatus(w, s, status)
      PROVE  (BoardTypeOK /\ AtWork)'
  BY <1>1 DEF SetManualStatus, Owes, BoardTypeOK, AtWork
<1>2. ASSUME NEW w \in Workers, NEW s \in Services, MarkDetectedDown(w, s)
      PROVE  (BoardTypeOK /\ AtWork)'
  BY <1>2 DEF MarkDetectedDown, DetectedDown, Owes, BoardTypeOK, AtWork, Detected
<1>3. ASSUME NEW w \in Workers, NEW s \in Services, DropDetected(w, s)
      PROVE  (BoardTypeOK /\ AtWork)'
  BY <1>3 DEF DropDetected, Owes, BoardTypeOK, AtWork, Detected
<1>4. ASSUME NEW w \in Workers, NEW e \in Events,
             NEW state \in EventStates \cup {NoEvent},
             NEW services \in SUBSET Services, SaveEvent(w, e, state, services)
      PROVE  (BoardTypeOK /\ AtWork)'
  BY <1>4 DEF SaveEvent, Touched, Owes, BoardTypeOK, AtWork
<1>5. ASSUME NEW w \in Workers, NEW s \in Services, FindService(w, s)
      PROVE  (BoardTypeOK /\ AtWork)'
  BY <1>5, BoardAssumption DEF FindService, BoardTypeOK, AtWork, NoRead, causes
<1>6. ASSUME NEW w \in Workers, ReadDrivers(w) PROVE (BoardTypeOK /\ AtWork)'
  <2>1. StatusDrivers(current[w]) \in SUBSET ServiceStatus
    BY StatusDriversType
  <2> DEFINE Reads == [manual : ServiceStatus, detected : Detected,
                       drivers : SUBSET ServiceStatus]
  <2>2. [read[w] EXCEPT !.drivers = StatusDrivers(current[w])] \in Reads
    BY <2>1 DEF BoardTypeOK
  <2>3. read' \in [Workers -> Reads]
    BY <1>6, <2>2 DEF ReadDrivers, BoardTypeOK
  <2> QED BY <1>6, <2>3 DEF ReadDrivers, BoardTypeOK, AtWork, causes, history
<1>7. ASSUME NEW w \in Workers, UpdateStatus(w) PROVE (BoardTypeOK /\ AtWork)'
  <2>1. Worst(read[w].manual, read[w].detected, read[w].drivers) \in ServiceStatus
    BY WorstType DEF BoardTypeOK
  <2>2. current[w] \in Services
    BY <1>7 DEF UpdateStatus, BoardTypeOK, AtWork
  <2> QED BY <1>7, <2>1, <2>2
          DEF UpdateStatus, StatusFrom, BoardTypeOK, AtWork, NoRead, causes, ServiceStatus, Detected
<1>8. ASSUME NEW w \in Workers, Abandon(w) PROVE (BoardTypeOK /\ AtWork)'
  BY <1>8 DEF Abandon, BoardTypeOK, AtWork, NoRead, causes, ServiceStatus, Detected
<1>9. CASE UNCHANGED boardVars
  BY <1>9 DEF boardVars, causes, locals, history, BoardTypeOK, AtWork
<1> QED
  BY <1>1, <1>2, <1>3, <1>4, <1>5, <1>6, <1>7, <1>8, <1>9
  DEF BoardNext, Change, RecalculateStatus

\* The columns and the workers' locals keep their types.
THEOREM BoardTypeCorrect == BoardSpec => []BoardTypeOK
<1>1. BoardInit => BoardTypeOK /\ AtWork
  BY BoardAssumption
  DEF BoardInit, BoardTypeOK, AtWork, NoRead, ServiceStatus, Detected
<1> QED BY <1>1, Control, PTL DEF BoardSpec

----------------------------------------------------------------------------
\* Saving an event leaves alone the services it named neither before nor
\* after.
LEMMA DriversUntouched ==
  ASSUME BoardTypeOK, NEW w \in Workers, NEW e \in Events, NEW state,
         NEW services \in SUBSET Services, SaveEvent(w, e, state, services),
         NEW s \in Services, s \notin named[e] \cup services
  PROVE  StatusDrivers(s)' = StatusDrivers(s)
<1>1. \A x \in Events : s \in named'[x] <=> s \in named[x]
  BY DEF SaveEvent, BoardTypeOK
<1>2. \A x \in Events : s \in named[x] => event'[x] = event[x]
  BY DEF SaveEvent, BoardTypeOK
<1> QED BY <1>1, <1>2 DEF StatusDrivers

\* Whoever changes a cause owes every service whose causes it changed.
LEMMA ChangesAreOwed ==
  ASSUME BoardTypeOK, NEW w \in Workers, Change(w)
  PROVE  \E touched \in SUBSET Services :
           /\ Owes(w, touched)
           /\ \A s \in Services \ touched :
                /\ manual'[s] = manual[s]
                /\ detected'[s] = detected[s]
                /\ StatusDrivers(s)' = StatusDrivers(s)
<1>1. ASSUME NEW s \in Services, NEW status \in ServiceStatus,
             SetManualStatus(w, s, status)
      PROVE  /\ Owes(w, {s})
             /\ \A x \in Services \ {s} :
                  /\ manual'[x] = manual[x]
                  /\ detected'[x] = detected[x]
                  /\ StatusDrivers(x)' = StatusDrivers(x)
  BY <1>1 DEF SetManualStatus, BoardTypeOK, StatusDrivers
<1>2. ASSUME NEW s \in Services, MarkDetectedDown(w, s)
      PROVE  /\ Owes(w, {s})
             /\ \A x \in Services \ {s} :
                  /\ manual'[x] = manual[x]
                  /\ detected'[x] = detected[x]
                  /\ StatusDrivers(x)' = StatusDrivers(x)
  BY <1>2 DEF MarkDetectedDown, BoardTypeOK, StatusDrivers
<1>3. ASSUME NEW e \in Events, NEW state, NEW services \in SUBSET Services,
             SaveEvent(w, e, state, services)
      PROVE  /\ named[e] \cup services \in SUBSET Services
             /\ Owes(w, named[e] \cup services)
             /\ \A x \in Services \ (named[e] \cup services) :
                  /\ manual'[x] = manual[x]
                  /\ detected'[x] = detected[x]
                  /\ StatusDrivers(x)' = StatusDrivers(x)
  BY <1>3, DriversUntouched DEF SaveEvent, Touched, BoardTypeOK
<1>4. ASSUME NEW s \in Services, DropDetected(w, s)
      PROVE  /\ Owes(w, {s})
             /\ \A x \in Services \ {s} :
                  /\ manual'[x] = manual[x]
                  /\ detected'[x] = detected[x]
                  /\ StatusDrivers(x)' = StatusDrivers(x)
  BY <1>4 DEF DropDetected, BoardTypeOK, StatusDrivers
<1>5. CASE \E s \in Services, status \in ServiceStatus :
             SetManualStatus(w, s, status)
  <2>1. PICK s \in Services, status \in ServiceStatus :
          SetManualStatus(w, s, status)
    BY <1>5
  <2>2. {s} \in SUBSET Services
    OBVIOUS
  <2> QED BY <1>1, <2>1, <2>2
<1>6. CASE \E s \in Services : MarkDetectedDown(w, s) \/ DropDetected(w, s)
  <2>1. PICK s \in Services : MarkDetectedDown(w, s) \/ DropDetected(w, s)
    BY <1>6
  <2>2. {s} \in SUBSET Services
    OBVIOUS
  <2> QED BY <1>2, <1>4, <2>1, <2>2
<1>7. CASE \E e \in Events, state \in EventStates, services \in SUBSET Services :
             SaveEvent(w, e, state, services)
  BY <1>3, <1>7
<1>8. CASE \E e \in Events : SaveEvent(w, e, NoEvent, {})
  <2>1. PICK e \in Events : SaveEvent(w, e, NoEvent, {})
    BY <1>8
  <2>2. {} \in SUBSET Services
    OBVIOUS
  <2>3. /\ named[e] \cup {} \in SUBSET Services
        /\ Owes(w, named[e] \cup {})
        /\ \A x \in Services \ (named[e] \cup {}) :
             /\ manual'[x] = manual[x]
             /\ detected'[x] = detected[x]
             /\ StatusDrivers(x)' = StatusDrivers(x)
    BY <1>3, <2>1, <2>2
  <2> QED BY <2>3
<1> QED BY <1>5, <1>6, <1>7, <1>8 DEF Change

\* The invariant is kept by a worker that changes a cause.
LEMMA ChangeStep ==
  ASSUME BoardInv, NEW w \in Workers, Change(w), (BoardTypeOK /\ AtWork)'
  PROVE  BoardInv'
<1>1. PICK touched \in SUBSET Services :
        /\ Owes(w, touched)
        /\ \A s \in Services \ touched :
             /\ manual'[s] = manual[s]
             /\ detected'[s] = detected[s]
             /\ StatusDrivers(s)' = StatusDrivers(s)
  BY ChangesAreOwed DEF BoardInv
<1>2. ReadsAreFresh'
  <2> SUFFICES ASSUME NEW v \in Workers, pc'[v] # "idle", v \notin overtaken'
      PROVE  /\ read'[v].manual = manual'[current'[v]]
             /\ read'[v].detected = detected'[current'[v]]
             /\ pc'[v] = "write" =>
                  read'[v].drivers = StatusDrivers(current[v])'
    BY DEF ReadsAreFresh
  <2>1. /\ pc' = pc /\ read' = read /\ current' = current
        /\ v \notin overtaken /\ current[v] \notin touched
    BY <1>1 DEF Owes
  <2>2. current[v] \in Services
    BY <2>1 DEF BoardInv, AtWork, BoardTypeOK
  <2>3. StatusDrivers(current[v])' = StatusDrivers(current[v])
    <3>1. \A s \in Services \ touched : StatusDrivers(s)' = StatusDrivers(s)
      BY <1>1
    <3> QED BY <2>1, <2>2, <3>1 DEF StatusDrivers
  <2> QED BY <1>1, <2>1, <2>2, <2>3 DEF BoardInv, ReadsAreFresh
<1>3. StaleOnlyWhenOvertaken'
  <2> SUFFICES ASSUME NEW s \in Services, ~Owed(s)', s \notin excused'
      PROVE  shown'[s] = Due(s)'
    BY DEF StaleOnlyWhenOvertaken
  <2>1. ~Owed(s) /\ s \notin touched
    BY <1>1 DEF Owed, Owes, BoardInv, BoardTypeOK
  <2>2. Due(s)' = Due(s)
    BY <1>1, <2>1 DEF Due
  <2> QED BY <1>1, <2>1, <2>2 DEF Owes, BoardInv, StaleOnlyWhenOvertaken
<1> QED BY <1>2, <1>3 DEF BoardInv

\* A statement that changes no cause changes nothing a service should show.
LEMMA SameCauses ==
  ASSUME UNCHANGED causes
  PROVE  /\ \A s : StatusDrivers(s)' = StatusDrivers(s)
         /\ \A s : Due(s)' = Due(s)
BY DEF causes, StatusDrivers, Due

\* The invariant is kept by the statements of recalculate_status.
LEMMA RecalculateStep ==
  ASSUME BoardInv, NEW w \in Workers, RecalculateStatus(w), (BoardTypeOK /\ AtWork)'
  PROVE  BoardInv'
<1> USE DEF BoardInv
<1>1. ASSUME NEW s \in Services, FindService(w, s) PROVE BoardInv'
  <2>1. UNCHANGED causes
    BY <1>1 DEF FindService
  <2>2. ReadsAreFresh'
    BY <1>1, <2>1, SameCauses
    DEF FindService, ReadsAreFresh, NoRead, BoardTypeOK, causes
  <2>3. StaleOnlyWhenOvertaken'
    BY <1>1, <2>1, SameCauses DEF FindService, StaleOnlyWhenOvertaken, Owed
  <2> QED BY <2>2, <2>3
<1>2. ASSUME ReadDrivers(w) PROVE BoardInv'
  <2>1. UNCHANGED causes
    BY <1>2 DEF ReadDrivers
  <2>2. ReadsAreFresh'
    BY <1>2, <2>1, SameCauses
    DEF ReadDrivers, ReadsAreFresh, BoardTypeOK, causes, history
  <2>3. StaleOnlyWhenOvertaken'
    BY <1>2, <2>1, SameCauses
    DEF ReadDrivers, StaleOnlyWhenOvertaken, Owed, history
  <2> QED BY <2>2, <2>3
<1>3. ASSUME UpdateStatus(w) PROVE BoardInv'
  <2>1. UNCHANGED causes
    BY <1>3 DEF UpdateStatus
  <2>2. ReadsAreFresh'
    BY <1>3, <2>1, SameCauses
    DEF UpdateStatus, ReadsAreFresh, BoardTypeOK, AtWork, causes
  <2>3. current[w] \in Services
    BY <1>3 DEF UpdateStatus, AtWork, BoardTypeOK
  <2>4. w \notin overtaken => shown'[current[w]] = Due(current[w])
    BY <1>3, <2>3 DEF UpdateStatus, StatusFrom, ReadsAreFresh, Due, BoardTypeOK
  <2>5. StaleOnlyWhenOvertaken'
    <3> SUFFICES ASSUME NEW s \in Services, ~Owed(s)', s \notin excused'
        PROVE  shown'[s] = Due(s)
      BY <2>1, SameCauses DEF StaleOnlyWhenOvertaken
    <3>1. CASE s = current[w]
      BY <3>1, <1>3, <2>4 DEF UpdateStatus
    <3>2. CASE s # current[w]
      BY <3>2, <1>3 DEF UpdateStatus, StaleOnlyWhenOvertaken, Owed, BoardTypeOK
    <3> QED BY <3>1, <3>2
  <2> QED BY <2>2, <2>5
<1> QED BY <1>1, <1>2, <1>3 DEF RecalculateStatus

\* The invariant is kept by a worker that stops.
LEMMA AbandonStep ==
  ASSUME BoardInv, NEW w \in Workers, Abandon(w), (BoardTypeOK /\ AtWork)'
  PROVE  BoardInv'
<1> USE DEF BoardInv
<1>1. UNCHANGED causes
  BY DEF Abandon
<1>2. ReadsAreFresh'
  BY <1>1, SameCauses DEF Abandon, ReadsAreFresh, BoardTypeOK, AtWork, causes
<1>3. StaleOnlyWhenOvertaken'
  BY <1>1, SameCauses DEF Abandon, StaleOnlyWhenOvertaken, Owed, BoardTypeOK
<1> QED BY <1>2, <1>3

\* For any number of services, events and concurrent workers: a service
\* that nobody is about to recalculate shows what its causes call for,
\* unless its last recalculation was overtaken or abandoned.
THEOREM StatusSettles == BoardSpec => []StaleOnlyWhenOvertaken
<1>1. BoardInit => BoardInv
  <2> SUFFICES ASSUME BoardInit PROVE BoardInv
    OBVIOUS
  <2>1. BoardTypeOK /\ AtWork /\ ReadsAreFresh
    BY BoardAssumption
    DEF BoardInit, BoardTypeOK, AtWork, ReadsAreFresh, NoRead, ServiceStatus, Detected
  <2>2. ASSUME NEW s \in Services PROVE shown[s] = Due(s)
    <3>1. StatusDrivers(s) = {}
      BY DEF BoardInit, StatusDrivers
    <3>2. Candidates(manual[s], detected[s], StatusDrivers(s)) = {"operational"}
      BY <3>1 DEF BoardInit, Candidates
    <3>3. WorstOf({"operational"}) = "operational"
      BY WorstOfIsWorst DEF ServiceStatus
    <3> QED BY <3>2, <3>3 DEF BoardInit, Due, Worst
  <2> QED BY <2>1, <2>2 DEF BoardInv, StaleOnlyWhenOvertaken
<1>2. BoardInv /\ [BoardNext]_boardVars => BoardInv'
  <2> SUFFICES ASSUME BoardInv, [BoardNext]_boardVars PROVE BoardInv'
    OBVIOUS
  <2>1. (BoardTypeOK /\ AtWork)'
    BY Control DEF BoardInv
  <2>2. CASE UNCHANGED boardVars
    <3>1. UNCHANGED causes
      BY <2>2 DEF boardVars
    <3>2. ReadsAreFresh'
      BY <2>2, <3>1, SameCauses
      DEF boardVars, locals, history, causes, BoardInv, ReadsAreFresh
    <3>3. StaleOnlyWhenOvertaken'
      BY <2>2, <3>1, SameCauses
      DEF boardVars, locals, history, BoardInv, StaleOnlyWhenOvertaken, Owed
    <3> QED BY <2>1, <3>2, <3>3 DEF BoardInv
  <2> QED
    BY <2>1, <2>2, ChangeStep, RecalculateStep, AbandonStep DEF BoardNext
<1>3. BoardInv => StaleOnlyWhenOvertaken
  BY DEF BoardInv
<1> QED BY <1>1, <1>2, <1>3, PTL DEF BoardSpec

\* Were recalculations serialised and never abandoned, services.status would
\* always be right once a change is done: the guarantee the comment on
\* recalculate_status gives, which the code has only for a single worker.
THEOREM SerialisedStatusIsRight ==
  ASSUME NEW worker, Workers = {worker}, MayFail = FALSE
  PROVE  BoardSpec => []SettledStatusIsWorst
<1> DEFINE Clean == overtaken = {} /\ excused = {}
<1>1. BoardInit => BoardTypeOK /\ AtWork /\ Clean
  BY BoardAssumption
  DEF BoardInit, BoardTypeOK, AtWork, NoRead, ServiceStatus, Detected
<1>2. BoardTypeOK /\ AtWork /\ Clean /\ [BoardNext]_boardVars => (BoardTypeOK /\ AtWork /\ Clean)'
  <2> SUFFICES ASSUME BoardTypeOK, AtWork, Clean, [BoardNext]_boardVars PROVE Clean'
    BY Control
  <2>1. ASSUME NEW w \in Workers, Change(w) PROVE Clean'
    <3>1. PICK touched \in SUBSET Services : Owes(w, touched)
      BY <2>1, ChangesAreOwed
    <3>2. pc[w] = "idle"
      BY <2>1 DEF Change, SetManualStatus, MarkDetectedDown, DropDetected, SaveEvent
    <3>3. \A v \in Workers : current[v] \notin touched
      BY <3>2, BoardAssumption DEF AtWork
    <3> QED BY <3>1, <3>3 DEF Owes
  <2>2. ASSUME NEW w \in Workers, RecalculateStatus(w) PROVE Clean'
    BY <2>2 DEF RecalculateStatus, FindService, ReadDrivers, UpdateStatus, history
  <2>3. ASSUME NEW w \in Workers PROVE ~Abandon(w)
    BY DEF Abandon
  <2>4. CASE UNCHANGED boardVars
    BY <2>4 DEF boardVars, history
  <2> QED BY <2>1, <2>2, <2>3, <2>4 DEF BoardNext
<1>3. Clean /\ StaleOnlyWhenOvertaken => SettledStatusIsWorst
  BY DEF StaleOnlyWhenOvertaken, SettledStatusIsWorst
<1> QED BY <1>1, <1>2, <1>3, StatusSettles, PTL DEF BoardSpec

-----------------------------------------------------------------------------
(* Series: slots and sessions.  Which days a rule means does not matter    *)
(* here (the end of the module is about them): the argument only needs     *)
(* that the start after an instant lies after it.  What it follows is the  *)
(* slot the series waits for, next_start_at, against the sessions there    *)
(* are and the series that a run of the schedule has read.                 *)

\* A set of naturals that is not empty has a least member.
LEMMA LeastNumber ==
  ASSUME NEW T \in SUBSET Nat, T # {}
  PROVE  \E m \in T : \A n \in T : m <= n
<1> DEFINE R == OpToRel(<, Nat)
<1>1. \A y, x \in Nat : y < x => <<y, x>> \in R
  BY DEF OpToRel
<1>2. IsWellFoundedOn(R, Nat)
  BY NatLessThanWellFounded
<1> HIDE DEF R
<1>3. PICK m \in T : \A n \in T : ~ (<<n, m>> \in R)
  BY <1>2, WFMin, Zenon
<1>4. \A n \in T : ~(n < m)
  BY <1>1, <1>3
<1> QED BY <1>4

\* next_after: the start it gives, if any, lies after the instant it was asked.
LEMMA NextIsAfter ==
  ASSUME NEW rule, NEW after \in Int, NextAfter(rule, after) # Never
  PROVE  NextAfter(rule, after) \in Int /\ NextAfter(rule, after) > after
<1> DEFINE starts == {StartOn(rule, d) : d \in DaysFrom(rule, DayOf(after))}
           ahead  == {t \in starts \cap Instant : t > after}
<1>1. NextAfter(rule, after) = IF ahead = {} THEN Never ELSE Earliest(ahead)
  BY DEF NextAfter
<1>2. \A t \in ahead : t \in Int /\ t > after
  BY DEF Instant
<1> HIDE DEF ahead
<1>3. ahead # {} /\ NextAfter(rule, after) = Earliest(ahead)
  BY <1>1
<1> DEFINE gaps == {t - after : t \in ahead}
<1>4. gaps \in SUBSET Nat /\ gaps # {}
  BY <1>2, <1>3
<1>5. PICK g \in gaps : \A h \in gaps : g <= h
  BY <1>4, LeastNumber
<1>6. PICK t \in ahead : g = t - after
  BY <1>5
<1>7. \A u \in ahead : t <= u
  <2> SUFFICES ASSUME NEW u \in ahead PROVE t <= u
    OBVIOUS
  <2>1. u - after \in gaps
    OBVIOUS
  <2>2. t - after <= u - after
    BY <1>5, <1>6, <2>1
  <2> QED BY <1>2, <2>2
<1>8. Earliest(ahead) \in ahead
  BY <1>7 DEF Earliest
<1> QED BY <1>2, <1>3, <1>8

-----------------------------------------------------------------------------
(* What the rows and the locals hold                                       *)

AnyLength == Lengths \cup {OneLength}
Rhythm    == {"weekly", "monthly"}
AnyRule   == {FromFirst(rhythm, t) : rhythm \in Rhythm, t \in Int}

SeriesT == [state : {"none", "on", "stopped"}, rule : AnyRule, length : AnyLength,
            next : Int, content : Version, services : Version]

SessionT == [lifecycle : Lifecycle \cup {None}, previous : Lifecycle \cup {None},
             start : Int, length : AnyLength, content : Version, services : Version]

RunT == [pc : {"idle", "read", "add"}, now : Int, read : SeriesT]

EditT == [pc : {"idle", "read", "carry"}, s : Sessions \cup {None}, version : Version,
          rhythm : Rhythm, start : Int, length : AnyLength, content : Version]

RowsTyped ==
  /\ clock \in Int /\ used \in Version
  /\ series \in SeriesT /\ session \in [Sessions -> SessionT]
  /\ run \in RunT /\ edit \in EditT
  /\ edit.pc # "idle" => edit.s \in Sessions
  /\ revived \subseteq Sessions /\ placed \subseteq Sessions /\ cut \subseteq Sessions

LEMMA Numbers ==
  /\ FirstInstant \in Int /\ 0 \in Version /\ OneLength \in AnyLength
  /\ Version \subseteq Nat /\ Lengths \subseteq AnyLength /\ Starts \subseteq Int
<1>1. FirstDays \in Seq(Nat) /\ Len(FirstDays) > 1 /\ PerDay \in Nat
  BY CalendarAssumption
<1>2. FirstDays[1] \in Nat
  BY <1>1
<1>3. FirstInstant \in Int
  BY <1>1, <1>2 DEF FirstInstant
<1>4. Starts \subseteq Int
  BY SeriesAssumption DEF Instant
<1> QED BY <1>3, <1>4, SeriesAssumption DEF Version, AnyLength

\* What is not there yet, or idle, is typed.
LEMMA Blanks ==
  /\ NoSession \in SessionT /\ NoSeries \in SeriesT
  /\ IdleRun \in RunT /\ IdleEdit \in EditT
<1>1. NoSession \in SessionT
  BY Numbers DEF NoSession, SessionT
<1>2. FromFirst("weekly", FirstInstant) \in AnyRule
  BY Numbers DEF AnyRule, Rhythm
<1>3. NoSeries \in SeriesT
  BY <1>2, Numbers DEF NoSeries, SeriesT
<1>4. IdleRun \in RunT
  BY <1>3, Numbers DEF IdleRun, RunT
<1>5. IdleEdit \in EditT
  BY Numbers DEF IdleEdit, EditT, Rhythm
<1> QED BY <1>1, <1>3, <1>4, <1>5

LEMMA RhythmOfRule == ASSUME NEW rule \in AnyRule PROVE rule.rhythm \in Rhythm
BY DEF AnyRule, FromFirst

\* The next version is one.
LEMMA SpendType == ASSUME RowsTyped, Spend PROVE used' \in Version
BY SeriesAssumption DEF RowsTyped, Spend, Version

\* One step of the typing, action by action.
LEMMA TypeStep == RowsTyped /\ [Next]_vars => RowsTyped'
<1> SUFFICES ASSUME RowsTyped, [Next]_vars PROVE RowsTyped'
  OBVIOUS
<1>1. ASSUME NEW s \in Sessions, NEW rhythm \in Rhythm, NEW start \in Starts,
             NEW length \in Lengths, Announce(s, rhythm, start, length)
      PROVE  RowsTyped'
  <2>1. start \in Int /\ length \in AnyLength
    BY Numbers
  <2>2. NextAfter(FromFirst(rhythm, start), start) \in Int
    BY <1>1, <2>1, NextIsAfter DEF Announce
  <2>3. FromFirst(rhythm, start) \in AnyRule
    BY <2>1 DEF AnyRule
  <2>4. series' \in SeriesT
    BY <1>1, <2>1, <2>2, <2>3, Numbers DEF Announce, SeriesT
  <2>5. [NoSession EXCEPT !.lifecycle = "scheduled", !.start = start, !.length = length]
          \in SessionT
    BY <2>1, Blanks DEF SessionT, Lifecycle
  <2>6. session' \in [Sessions -> SessionT]
    BY <1>1, <2>5 DEF Announce, RowsTyped
  <2> QED BY <1>1, <2>4, <2>6 DEF Announce, RowsTyped, past
<1>2. CASE Stop
  <2>1. series' \in SeriesT
    BY <1>2 DEF Stop, RowsTyped, SeriesT
  <2>2. ASSUME NEW row \in SessionT PROVE Stopped(row) \in SessionT
    BY DEF Stopped, SessionT, Lifecycle
  <2>3. session' \in [Sessions -> SessionT]
    BY <1>2, <2>2 DEF Stop, RowsTyped
  <2>4. cut' \subseteq Sessions
    BY <1>2 DEF Stop, RowsTyped, Waiting
  <2> QED BY <1>2, <2>1, <2>3, <2>4, SpendType DEF Stop, RowsTyped
<1>3. ASSUME NEW s \in Sessions, NEW next \in Lifecycle, Move(s, next) PROVE RowsTyped'
  <2>1. [session[s] EXCEPT !.previous = session[s].lifecycle, !.lifecycle = next] \in SessionT
    BY DEF RowsTyped, SessionT
  <2>2. session' = [session EXCEPT ![s] = [session[s] EXCEPT
                      !.previous = session[s].lifecycle, !.lifecycle = next]]
    BY <1>3 DEF Move, RowsTyped
  <2>3. session' \in [Sessions -> SessionT]
    BY <2>1, <2>2 DEF RowsTyped
  <2>4. placed' \subseteq Sessions
    BY <1>3 DEF Move, RowsTyped
  <2> QED BY <1>3, <2>3, <2>4, SpendType DEF Move, RowsTyped
<1>4. ASSUME NEW s \in Sessions, Revert(s) PROVE RowsTyped'
  <2>1. [session[s] EXCEPT !.previous = None, !.lifecycle = session[s].previous] \in SessionT
    BY DEF RowsTyped, SessionT
  <2>2. session' = [session EXCEPT ![s] = [session[s] EXCEPT
                      !.previous = None, !.lifecycle = session[s].previous]]
    BY <1>4 DEF Revert, RowsTyped
  <2>3. session' \in [Sessions -> SessionT]
    BY <2>1, <2>2 DEF RowsTyped
  <2> QED BY <1>4, <2>3, SpendType DEF Revert, RowsTyped
<1>5. ASSUME NEW s \in Sessions, DeleteSession(s) PROVE RowsTyped'
  <2>1. used' \in Version
    BY <1>5, SpendType DEF DeleteSession, RowsTyped
  <2> QED BY <1>5, <2>1, Blanks DEF DeleteSession, Forgotten, RowsTyped
<1>6. ASSUME NEW s \in Sessions, NEW start \in Int, NEW length \in Lengths, Spend,
             session' = [session EXCEPT ![s].start = start, ![s].length = length,
                                        ![s].content = used', ![s].services = used']
      PROVE  session' \in [Sessions -> SessionT] /\ used' \in Version
  <2>1. used' \in Version /\ length \in AnyLength
    BY <1>6, SpendType, Numbers
  <2>2. PICK version \in Version : used' = version
    BY <2>1
  <2>3. [session[s] EXCEPT !.start = start, !.length = length, !.content = version,
                           !.services = version] \in SessionT
    BY <2>1 DEF RowsTyped, SessionT
  <2>4. session' = [session EXCEPT ![s] = [session[s] EXCEPT !.start = start,
                      !.length = length, !.content = version, !.services = version]]
    BY <1>6, <2>2 DEF RowsTyped
  <2> QED BY <2>1, <2>3, <2>4 DEF RowsTyped
<1>7. ASSUME NEW s \in Sessions, NEW start \in Starts, NEW length \in Lengths,
             UpdateAlone(s, start, length)
      PROVE  RowsTyped'
  <2>1. session' \in [Sessions -> SessionT] /\ used' \in Version
    BY <1>6, <1>7, Numbers DEF UpdateAlone
  <2> QED BY <1>7, <2>1 DEF UpdateAlone, RowsTyped
<1>8. ASSUME NEW s \in Sessions, NEW start \in Int, NEW length \in Lengths,
             EditStart(s, start, length)
      PROVE  RowsTyped'
  <2>1. session' \in [Sessions -> SessionT] /\ used' \in Version
    BY <1>6, <1>8 DEF EditStart
  <2>2. PICK version \in Version : used' = version
    BY <2>1
  <2>3. edit' = [IdleEdit EXCEPT !.pc = "read", !.s = s, !.version = version]
    BY <1>8, <2>2 DEF EditStart
  <2>4. edit' \in EditT /\ edit'.s = s
    BY <2>3, Blanks DEF EditT
  <2>5. placed' \subseteq Sessions
    BY <1>8 DEF EditStart, RowsTyped
  <2> QED BY <1>8, <2>1, <2>4, <2>5 DEF EditStart, RowsTyped
<1>9. CASE EditRead
  <2>1. edit' \in EditT /\ (edit'.pc # "idle" => edit'.s \in Sessions)
    <3>1. CASE ~Exists(edit.s)
      BY <1>9, <3>1, Blanks DEF EditRead, IdleEdit
    <3>2. CASE Exists(edit.s)
      <4>1. edit.s \in Sessions /\ session[edit.s] \in SessionT
        BY <1>9 DEF EditRead, RowsTyped
      <4>2. series.rule.rhythm \in Rhythm
        BY RhythmOfRule DEF RowsTyped, SeriesT
      <4> DEFINE row == session[edit.s]
      <4>3. row.start \in Int /\ row.length \in AnyLength /\ row.content \in Version
        BY <4>1 DEF SessionT
      <4>4. edit' = [edit EXCEPT !.pc = "carry", !.rhythm = series.rule.rhythm,
                       !.start = row.start, !.length = row.length, !.content = row.content]
        BY <1>9, <3>2 DEF EditRead
      <4> HIDE DEF row
      <4> QED BY <4>1, <4>2, <4>3, <4>4 DEF RowsTyped, EditT
    <3> QED BY <3>1, <3>2
  <2> QED BY <1>9, <2>1 DEF EditRead, RowsTyped, past
<1>10. CASE CarryForward
  <2>1. CASE UNCHANGED <<series, session, placed>>
    <3>1. edit' = IdleEdit /\ UNCHANGED <<clock, run, revived, cut, used>>
      BY <1>10 DEF CarryForward
    <3> QED BY <2>1, <3>1, Blanks DEF RowsTyped, IdleEdit
  <2>2. CASE ~ UNCHANGED <<series, session, placed>>
    <3> DEFINE follow == Following
    <3>1. follow # Never
      BY <1>10, <2>2 DEF CarryForward
    <3>2. edit.start \in Int /\ clock \in Int /\ edit.length \in AnyLength
          /\ edit.content \in Version /\ edit.version \in Version /\ edit.rhythm \in Rhythm
      BY DEF RowsTyped, EditT
    <3>3. follow \in Int
      BY <3>1, <3>2, NextIsAfter DEF Following
    <3>4. CarriedRule \in AnyRule
      BY <3>2 DEF CarriedRule, AnyRule
    <3>5. Cursor(follow) \in Int
      BY <3>3, NextIsAfter DEF Cursor
    <3>6. PICK one : /\ series' = [series EXCEPT !.rule = CarriedRule, !.length = edit.length,
                              !.next = Cursor(follow), !.content = edit.content,
                              !.services = edit.version]
                     /\ session' = [s \in Sessions |->
                           IF s \notin one THEN session[s]
                           ELSE [session[s] EXCEPT !.start = follow, !.length = edit.length,
                                   !.content = edit.content, !.services = edit.version]]
                     /\ placed' = (placed \cup {s \in Sessions : session[s].start >= follow})
                                    \ one
      BY <1>10, <2>2 DEF CarryForward
    <3> HIDE DEF follow
    <3>7. series' \in SeriesT
      BY <3>2, <3>4, <3>5, <3>6 DEF RowsTyped, SeriesT
    <3>8. ASSUME NEW row \in SessionT
          PROVE  [row EXCEPT !.start = follow, !.length = edit.length,
                    !.content = edit.content, !.services = edit.version] \in SessionT
      BY <3>2, <3>3 DEF SessionT
    <3>9. session' \in [Sessions -> SessionT] /\ placed' \subseteq Sessions
      BY <3>6, <3>8 DEF RowsTyped
    <3>10. edit' = IdleEdit /\ UNCHANGED <<clock, run, revived, cut, used>>
      BY <1>10 DEF CarryForward
    <3> QED BY <3>7, <3>9, <3>10, Blanks DEF RowsTyped, IdleEdit
  <2> QED BY <2>1, <2>2
<1>11. CASE EditFails
  BY <1>11, Blanks DEF EditFails, RowsTyped, past, IdleEdit
<1>12. CASE MoveDue
  <2>1. ASSUME NEW row \in SessionT, NEW at \in Int
        PROVE  Started(row, at) \in SessionT /\ Completed(row, at) \in SessionT
    BY DEF Started, Completed, SessionT, Lifecycle
  <2>2. session' \in [Sessions -> SessionT]
    BY <1>12, <2>1 DEF MoveDue, RowsTyped
  <2>3. run' \in RunT
    BY <1>12 DEF MoveDue, RowsTyped, RunT
  <2> QED BY <1>12, <2>2, <2>3 DEF MoveDue, RowsTyped, past
<1>13. CASE AwaitingSession
  <2>1. [series EXCEPT !.services = 0] \in SeriesT
    BY Numbers DEF RowsTyped, SeriesT
  <2>2. run' \in RunT
    BY <1>13, <2>1, Blanks DEF AwaitingSession, RowsTyped, RunT
  <2> QED BY <1>13, <2>2 DEF AwaitingSession, RowsTyped, past
<1>14. ASSUME NEW s \in Sessions, AddSession(s) PROVE RowsTyped'
  <2>1. CASE UNCHANGED <<series, session>>
    BY <1>14, <2>1, Blanks DEF AddSession, RowsTyped, past
  <2>2. CASE ~ UNCHANGED <<series, session>>
    <3> DEFINE start == NextSessionStart(run.read, run.now)
               following == NextAfter(run.read.rule, start)
    <3>1. start # Never /\ following # Never
      BY <1>14, <2>2 DEF AddSession, HasDates
    <3>2. run.now \in Int /\ run.read \in SeriesT
      BY DEF RowsTyped, RunT
    <3>3. run.read.next \in Int /\ run.read.length \in AnyLength /\ run.read.content \in Version
          /\ series.services \in Version
      BY <3>2 DEF SeriesT, RowsTyped
    <3>4. start \in Int
      BY <3>1, <3>2, <3>3, NextIsAfter DEF NextSessionStart
    <3>5. following \in Int
      BY <3>1, <3>4, NextIsAfter
    <3>6. /\ series' = [series EXCEPT !.next = following]
          /\ session' = [session EXCEPT ![s] =
                   [NoSession EXCEPT !.lifecycle = "scheduled", !.start = start,
                      !.length = run.read.length, !.content = run.read.content,
                      !.services = series.services]]
      BY <1>14, <2>2 DEF AddSession
    <3> HIDE DEF start, following
    <3>7. series' \in SeriesT
      BY <3>5, <3>6 DEF RowsTyped, SeriesT
    <3>8. [NoSession EXCEPT !.lifecycle = "scheduled", !.start = start,
             !.length = run.read.length, !.content = run.read.content,
             !.services = series.services] \in SessionT
      BY <3>3, <3>4, Blanks DEF SessionT, Lifecycle
    <3>9. session' \in [Sessions -> SessionT]
      BY <3>6, <3>8 DEF RowsTyped
    <3> QED BY <1>14, <3>7, <3>9, Blanks DEF AddSession, RowsTyped, past
  <2> QED BY <2>1, <2>2
<1>15. CASE RunFails
  BY <1>15, Blanks, SpendType DEF RunFails, RowsTyped, past
<1>16. CASE Tick
  BY <1>16 DEF Tick, RowsTyped, past
<1>17. CASE UNCHANGED vars
  BY <1>17 DEF vars, RowsTyped, past
<1>18. ASSUME NEW s \in Sessions PROVE session[s].start \in Int
  BY DEF RowsTyped, SessionT
<1>19. CASE Schedule \/ RunFails \/ Tick \/ Stop \/ EditRead \/ CarryForward \/ EditFails
  BY <1>2, <1>9, <1>10, <1>11, <1>12, <1>13, <1>14, <1>15, <1>16, <1>19 DEF Schedule
<1>20. CASE \/ \E s \in Sessions, start \in Starts, length \in Lengths :
                 UpdateAlone(s, start, length) \/ EditStart(s, start, length)
            \/ \E s \in Sessions, length \in Lengths : EditStart(s, session[s].start, length)
  BY <1>7, <1>8, <1>18, <1>20, Numbers
<1> QED BY <1>1, <1>3, <1>4, <1>5, <1>17, <1>19, <1>20 DEF Next, Rhythm

-----------------------------------------------------------------------------
(* The inductive invariant                                                 *)

\* A series that was never announced has no session.
NoneBefore == series.state = "none" => \A s \in Sessions : ~Exists(s)

\* At most one session waits, those brought back aside; and once a run has
\* found none waiting, none can come but one brought back.
OneWaits  == \A s, o \in Waiting \ revived : s = o
ReadFinds == run.pc = "add" => Waiting \subseteq revived

\* What stopping cancelled is cancelled, with nothing to go back to.
CutForGood ==
  /\ \A s \in cut : session[s].lifecycle = "cancelled" /\ session[s].previous = None
  /\ series.state = "stopped" => Waiting \subseteq revived

\* The sessions that still have the slot the series gave them lie before the
\* slot it waits for; one may lie on it when the rule has no date left.
OwnSlot == {s \in Sessions \ (placed \cup revived) : Exists(s)}

Behind(rule, next) ==
  \A s \in OwnSlot : \/ session[s].start < next
                     \/ session[s].start = next /\ NextAfter(rule, next) = Never

\* So it is for the rule in the row, and for the rule a run has read while
\* add_session would still find the slot it read.
SlotsBehind ==
  /\ Behind(series.rule, series.next)
  /\ run.pc = "add" /\ series.next = run.read.next => Behind(run.read.rule, series.next)

IndInv == RowsTyped /\ NoneBefore /\ OneWaits /\ ReadFinds /\ CutForGood
            /\ SlotsBehind /\ SlotGivenOnce

\* A step that makes nothing wait, starts no run and stops no series keeps what
\* is known of the sessions to come.
LEMMA WaitKept ==
  ASSUME NoneBefore, OneWaits, ReadFinds, CutForGood,
         Waiting' \ revived' \subseteq Waiting \ revived,
         run'.pc = "add" => run.pc = "add",
         series'.state = "stopped" => series.state = "stopped",
         cut' \subseteq cut,
         \A s \in cut' : /\ session'[s].lifecycle = session[s].lifecycle
                         /\ session'[s].previous = session[s].previous,
         series'.state = "none" =>
           series.state = "none" /\ \A s \in Sessions : Exists(s)' => Exists(s)
  PROVE  NoneBefore' /\ OneWaits' /\ ReadFinds' /\ CutForGood'
<1>1. NoneBefore'
  BY DEF NoneBefore
<1>2. OneWaits'
  BY DEF OneWaits
<1>3. ReadFinds'
  BY DEF ReadFinds
<1>4. CutForGood'
  BY DEF CutForGood
<1> QED BY <1>1, <1>2, <1>3, <1>4

\* One step, as far as the sessions to come are concerned.
LEMMA WaitStep ==
  ASSUME RowsTyped, NoneBefore, OneWaits, ReadFinds, CutForGood, [Next]_vars
  PROVE  NoneBefore' /\ OneWaits' /\ ReadFinds' /\ CutForGood'
<1> DEFINE Goal == NoneBefore' /\ OneWaits' /\ ReadFinds' /\ CutForGood'
<1>0. /\ session \in [Sessions -> SessionT] /\ cut \subseteq Sessions
      /\ \A s \in Sessions : session[s].lifecycle \in Lifecycle \cup {None}
      /\ \A s \in Sessions : session[s].previous \in Lifecycle \cup {None}
  BY DEF RowsTyped, SessionT
\* One row changes, and does not become one that waits.
<1>1. ASSUME NEW s \in Sessions, NEW lifecycle, NEW previous, lifecycle # "scheduled",
             Exists(s), session'[s].lifecycle = lifecycle, session'[s].previous = previous,
             \A o \in Sessions \ {s} : session'[o] = session[o],
             series' = series, run' = run, cut' = cut, revived' = revived,
             s \notin cut
      PROVE  Goal
  <2>1. Waiting' \ revived' \subseteq Waiting \ revived
    BY <1>1 DEF Waiting
  <2>2. \A o \in cut' : session'[o] = session[o]
    BY <1>0, <1>1
  <2>3. series.state # "none"
    BY <1>1 DEF NoneBefore
  <2> QED BY <1>1, <2>1, <2>2, <2>3, WaitKept
\* The rows keep their state.
<1>2. ASSUME \A s \in Sessions : /\ session'[s].lifecycle = session[s].lifecycle
                                 /\ session'[s].previous = session[s].previous,
             run'.pc = "add" => run.pc = "add",
             series'.state = series.state, cut' = cut, revived' = revived
      PROVE  Goal
  <2>1. Waiting' \ revived' \subseteq Waiting \ revived
    BY <1>2 DEF Waiting
  <2>2. \A s \in cut' : /\ session'[s].lifecycle = session[s].lifecycle
                        /\ session'[s].previous = session[s].previous
    BY <1>0, <1>2
  <2>3. \A s \in Sessions : Exists(s)' => Exists(s)
    BY <1>2 DEF Exists
  <2> QED BY <1>2, <2>1, <2>2, <2>3, WaitKept
<1>3. ASSUME NEW s \in Sessions, NEW rhythm \in Rhythm, NEW start \in Starts,
             NEW length \in Lengths, Announce(s, rhythm, start, length)
      PROVE  Goal
  <2>1. \A o \in Sessions : ~Exists(o)
    BY <1>3 DEF Announce, NoneBefore
  <2>2. /\ series'.state = "on" /\ run' = run /\ run.pc = "idle" /\ cut' = cut
        /\ revived' = revived
        /\ \A o \in Sessions \ {s} : session'[o] = session[o]
    BY <1>0, <1>3 DEF Announce, past
  <2>3. Waiting' \subseteq {s}
    BY <2>1, <2>2 DEF Waiting, Exists, None
  <2>4. cut = {}
    BY <1>0, <2>1 DEF CutForGood, Exists, None
  <2> QED BY <2>2, <2>3, <2>4 DEF NoneBefore, OneWaits, ReadFinds, CutForGood
<1>4. CASE Stop
  <2>1. \A s \in Sessions : session'[s] = Stopped(session[s])
    BY <1>4 DEF Stop
  <2>2. Waiting' = {}
    <3> SUFFICES ASSUME NEW s \in Sessions PROVE session'[s].lifecycle # "scheduled"
      BY DEF Waiting
    <3> QED BY <1>0, <2>1 DEF Stopped, SessionT
  <2>3. \A s \in cut' : session'[s].lifecycle = "cancelled" /\ session'[s].previous = None
    <3> SUFFICES ASSUME NEW s \in cut'
                 PROVE  session'[s].lifecycle = "cancelled" /\ session'[s].previous = None
      OBVIOUS
    <3>1. CASE s \in cut
      <4>1. s \in Sessions /\ session[s].lifecycle = "cancelled" /\ session[s].previous = None
        BY <1>0, <3>1 DEF CutForGood
      <4> QED BY <2>1, <4>1 DEF Stopped
    <3>2. CASE s \in Waiting
      <4>1. s \in Sessions /\ session[s].lifecycle = "scheduled"
        BY <3>2 DEF Waiting
      <4> QED BY <1>0, <2>1, <4>1 DEF Stopped, SessionT
    <3> QED BY <1>4, <3>1, <3>2 DEF Stop
  <2>4. series'.state = "stopped"
    BY <1>4 DEF Stop, RowsTyped, SeriesT
  <2> QED BY <2>2, <2>3, <2>4 DEF NoneBefore, OneWaits, ReadFinds, CutForGood
<1>5. ASSUME NEW s \in Sessions, NEW next \in Lifecycle, Move(s, next) PROVE Goal
  <2>1. next # "scheduled" /\ session[s].lifecycle # "cancelled"
    BY <1>5 DEF Move, CanTransition, AllowedTransitions
  <2>2. s \notin cut
    BY <2>1 DEF CutForGood
  <2>3. /\ session'[s].lifecycle = next /\ session'[s].previous = session[s].lifecycle
        /\ \A o \in Sessions \ {s} : session'[o] = session[o]
    BY <1>0, <1>5 DEF Move, SessionT
  <2>4. Exists(s) /\ series' = series /\ run' = run /\ cut' = cut /\ revived' = revived
    BY <1>5 DEF Move
  <2> QED BY <1>1, <2>1, <2>2, <2>3, <2>4
<1>6. ASSUME NEW s \in Sessions, Revert(s) PROVE Goal
  <2>1. s \notin cut
    BY <1>6 DEF Revert, CutForGood
  <2>2. /\ \A o \in Sessions \ {s} : session'[o] = session[o]
        /\ revived' = revived \cup {s} /\ series' = series /\ run' = run /\ cut' = cut
    BY <1>0, <1>6 DEF Revert
  <2>3. Waiting' \ revived' \subseteq Waiting \ revived
    BY <2>2 DEF Waiting
  <2>4. \A o \in cut' : session'[o] = session[o]
    BY <1>0, <2>1, <2>2
  <2>5. series.state # "none"
    BY <1>6 DEF Revert, NoneBefore
  <2> QED BY <2>2, <2>3, <2>4, <2>5, WaitKept
<1>7. ASSUME NEW s \in Sessions, DeleteSession(s) PROVE Goal
  <2>1. /\ \A o \in Sessions \ {s} : session'[o] = session[o]
        /\ session'[s].lifecycle = None
        /\ revived' = revived \ {s} /\ cut' = cut \ {s} /\ series' = series /\ run' = run
    BY <1>0, <1>7 DEF DeleteSession, Forgotten, NoSession
  <2>2. Waiting' \ revived' \subseteq Waiting \ revived
    BY <2>1 DEF Waiting, None
  <2>3. \A o \in cut' : session'[o] = session[o]
    BY <1>0, <2>1
  <2>4. series.state # "none"
    BY <1>7 DEF DeleteSession, NoneBefore
  <2> QED BY <2>1, <2>2, <2>3, <2>4, WaitKept
<1>8. ASSUME NEW s \in Sessions, NEW start, NEW length, NEW content, NEW services,
             session' = [session EXCEPT ![s].start = start, ![s].length = length,
                           ![s].content = content, ![s].services = services]
      PROVE  \A o \in Sessions : /\ session'[o].lifecycle = session[o].lifecycle
                                 /\ session'[o].previous = session[o].previous
  BY <1>0, <1>8 DEF SessionT
<1>9. ASSUME NEW s \in Sessions, NEW start \in Int, NEW length \in Lengths,
             UpdateAlone(s, start, length) \/ EditStart(s, start, length)
      PROVE  Goal
  <2>1. PICK version : session' = [session EXCEPT ![s].start = start, ![s].length = length,
                                      ![s].content = version, ![s].services = version]
    BY <1>9 DEF UpdateAlone, EditStart
  <2>2. series' = series /\ run' = run /\ cut' = cut /\ revived' = revived
    BY <1>9 DEF UpdateAlone, EditStart
  <2> QED BY <1>2, <1>8, <2>1, <2>2
<1>10. CASE CarryForward
  <2>1. run' = run /\ cut' = cut /\ revived' = revived
    BY <1>10 DEF CarryForward
  <2>2. series'.state = series.state
    BY <1>10 DEF CarryForward, RowsTyped, SeriesT
  <2>3. \A s \in Sessions : /\ session'[s].lifecycle = session[s].lifecycle
                            /\ session'[s].previous = session[s].previous
    <3>1. CASE UNCHANGED session
      BY <3>1
    <3>2. CASE ~ UNCHANGED session
      <4> DEFINE follow == Following
      <4>1. PICK one : session' = [s \in Sessions |->
                           IF s \notin one THEN session[s]
                           ELSE [session[s] EXCEPT !.start = follow, !.length = edit.length,
                                   !.content = edit.content, !.services = edit.version]]
        BY <1>10, <3>2 DEF CarryForward
      <4> HIDE DEF follow
      <4> QED BY <1>0, <4>1 DEF SessionT
    <3> QED BY <3>1, <3>2
  <2> QED BY <1>2, <2>1, <2>2, <2>3
<1>11. CASE MoveDue
  <2> DEFINE at == clock
  <2>1. \A s \in Sessions : session'[s] = Completed(Started(session[s], at), at)
    BY <1>11 DEF MoveDue
  <2> HIDE DEF at
  <2>2. ASSUME NEW row \in SessionT
        PROVE  /\ Started(row, at) \in SessionT
               /\ Completed(row, at).lifecycle = "scheduled" => row.lifecycle = "scheduled"
               /\ Started(row, at).lifecycle = "scheduled" => row.lifecycle = "scheduled"
               /\ row.lifecycle = "cancelled" =>
                    Started(row, at) = row /\ Completed(row, at) = row
               /\ Started(row, at).lifecycle # None => row.lifecycle # None
               /\ Completed(row, at).lifecycle # None => row.lifecycle # None
    BY DEF Started, Completed, SessionT, Lifecycle, None
  <2>3. Waiting' \subseteq Waiting
    BY <1>0, <2>1, <2>2 DEF Waiting
  <2>4. \A s \in cut : session'[s] = session[s]
    BY <1>0, <2>1, <2>2 DEF CutForGood
  <2>5. \A s \in Sessions : Exists(s)' => Exists(s)
    BY <1>0, <2>1, <2>2 DEF Exists
  <2>6. series' = series /\ cut' = cut /\ revived' = revived /\ run'.pc = "read"
    BY <1>11 DEF MoveDue, past, RowsTyped, RunT
  <2> QED BY <2>3, <2>4, <2>5, <2>6, WaitKept
<1>12. CASE AwaitingSession
  <2>1. /\ series' = series /\ session' = session /\ cut' = cut /\ revived' = revived
        /\ run'.pc = "add" => Waiting = {}
    BY <1>12 DEF AwaitingSession, past, NothingScheduled, IdleRun
  <2> QED BY <2>1 DEF NoneBefore, OneWaits, ReadFinds, CutForGood, Waiting, Exists
<1>13. ASSUME NEW s \in Sessions, AddSession(s) PROVE Goal
  <2>1. run' = IdleRun /\ cut' = cut /\ revived' = revived
    BY <1>13 DEF AddSession, past
  <2>2. run'.pc = "idle"
    BY <2>1 DEF IdleRun
  <2>3. CASE UNCHANGED <<series, session>>
    BY <1>2, <2>1, <2>2, <2>3
  <2>4. CASE ~ UNCHANGED <<series, session>>
    <3>1. series.state = "on" /\ Waiting = {} /\ ~Exists(s)
      BY <1>13, <2>4 DEF AddSession, AsRead, NothingScheduled, Free
    <3>2. \A o \in Sessions \ {s} : session'[o] = session[o]
      BY <1>0, <1>13, <2>4 DEF AddSession
    <3>3. series'.state = "on"
      BY <1>13, <2>4, <3>1 DEF AddSession, RowsTyped, SeriesT
    <3>4. Waiting' \subseteq {s}
      BY <3>1, <3>2 DEF Waiting
    <3>5. s \notin cut
      BY <3>1 DEF CutForGood, Exists, None
    <3>6. CutForGood'
      BY <1>0, <2>1, <3>2, <3>3, <3>5 DEF CutForGood
    <3> QED BY <2>2, <3>3, <3>4, <3>6 DEF NoneBefore, OneWaits, ReadFinds
  <2> QED BY <2>3, <2>4
<1>14. CASE EditRead \/ EditFails \/ Tick \/ RunFails \/ UNCHANGED vars
  <2>1. /\ series' = series /\ session' = session /\ cut' = cut /\ revived' = revived
        /\ run' = run \/ run' = IdleRun
    BY <1>14 DEF EditRead, EditFails, Tick, RunFails, vars, past
  <2> QED BY <1>2, <2>1 DEF IdleRun
<1>15. CASE Schedule \/ RunFails \/ Tick \/ Stop \/ EditRead \/ CarryForward \/ EditFails
  BY <1>4, <1>10, <1>11, <1>12, <1>13, <1>14, <1>15 DEF Schedule
<1>16. CASE \/ \E s \in Sessions, start \in Starts, length \in Lengths :
                 UpdateAlone(s, start, length) \/ EditStart(s, start, length)
            \/ \E s \in Sessions, length \in Lengths : EditStart(s, session[s].start, length)
  <2>1. \A s \in Sessions : session[s].start \in Int
    BY DEF RowsTyped, SessionT
  <2> QED BY <1>9, <1>16, <2>1, Numbers
<1>17. CASE \E s \in Sessions, rhythm \in {"weekly", "monthly"}, start \in Starts, length \in Lengths :
              Announce(s, rhythm, start, length)
  BY <1>3, <1>17 DEF Rhythm
<1>18. CASE \/ \E s \in Sessions : Revert(s) \/ DeleteSession(s)
            \/ \E s \in Sessions, next \in Lifecycle : Move(s, next)
  BY <1>5, <1>6, <1>7, <1>18
<1> QED BY <1>14, <1>15, <1>16, <1>17, <1>18 DEF Next

\* A step that gives no slot, moves none that is given and starts no run keeps
\* what is known of the slots.
LEMMA SlotKept ==
  ASSUME SlotsBehind, SlotGivenOnce,
         OwnSlot' \subseteq OwnSlot,
         \A s \in OwnSlot' : session'[s].start = session[s].start,
         series'.rule = series.rule, series'.next = series.next,
         run'.pc = "add" => run' = run
  PROVE  SlotsBehind' /\ SlotGivenOnce'
<1>1. Behind(series.rule, series.next)'
  BY DEF SlotsBehind, Behind
<1>2. ASSUME run'.pc = "add", series'.next = run'.read.next
      PROVE  Behind(run.read.rule, series.next)'
  BY <1>2 DEF SlotsBehind, Behind
<1>3. SlotGivenOnce'
  BY DEF SlotGivenOnce, OwnSlot
<1> QED BY <1>1, <1>2, <1>3 DEF SlotsBehind

\* A session that takes a start above all the others keeps every slot given
\* once.
LEMMA SlotAbove ==
  ASSUME NEW one \in Sessions, NEW start \in Int,
         \A s \in Sessions : Exists(s) => session[s].start \in Int,
         SlotGivenOnce,
         OwnSlot' \ {one} \subseteq OwnSlot,
         \A s \in OwnSlot' \ {one} :
           session'[s].start = session[s].start /\ session[s].start < start,
         session'[one].start = start
  PROVE  SlotGivenOnce'
<1> SUFFICES ASSUME NEW s \in OwnSlot', NEW o \in OwnSlot', s # o
             PROVE  session'[s].start # session'[o].start
  BY DEF SlotGivenOnce, OwnSlot
<1>1. CASE s # one /\ o # one
  BY <1>1 DEF SlotGivenOnce, OwnSlot
<1>2. CASE s = one
  BY <1>2 DEF OwnSlot
<1>3. CASE o = one
  BY <1>3 DEF OwnSlot
<1> QED BY <1>1, <1>2, <1>3

\* add_session: the slot it gives lies above every other, and below the next.
LEMMA SlotAdded ==
  ASSUME RowsTyped, SlotsBehind, SlotGivenOnce,
         NEW s \in Sessions, AddSession(s), ~ UNCHANGED <<series, session>>
  PROVE  SlotsBehind' /\ SlotGivenOnce'
<1> DEFINE start == NextSessionStart(run.read, run.now)
           following == NextAfter(run.read.rule, start)
<1>1. /\ run.pc = "add" /\ s \in Free /\ start # Never /\ following # Never
      /\ series.next = run.read.next
      /\ series' = [series EXCEPT !.next = following]
      /\ session' = [session EXCEPT ![s] =
           [NoSession EXCEPT !.lifecycle = "scheduled", !.start = start,
              !.length = run.read.length, !.content = run.read.content,
              !.services = series.services]]
      /\ run' = IdleRun /\ UNCHANGED <<clock, edit, past, used>>
  BY DEF AddSession, HasDates, AsRead
<1>2. /\ run.now \in Int /\ run.read \in SeriesT /\ series.next \in Int
      /\ series \in SeriesT /\ session \in [Sessions -> SessionT]
  BY DEF RowsTyped, RunT, SeriesT
<1>3. \A o \in Sessions : session[o].start \in Int
  BY <1>2 DEF SessionT
<1>4. Behind(run.read.rule, series.next)
  BY <1>1 DEF SlotsBehind
<1>5. start \in Int /\ \A o \in OwnSlot : session[o].start < start
  <2>1. CASE series.next > run.now
    <3>1. start = series.next
      BY <1>1, <2>1 DEF NextSessionStart
    <3>2. NextAfter(run.read.rule, series.next) # Never
      BY <1>1, <3>1
    <3> QED BY <1>2, <1>4, <3>1, <3>2 DEF Behind
  <2>2. CASE ~(series.next > run.now)
    <3>1. start = NextAfter(run.read.rule, run.now)
      BY <1>1, <2>2 DEF NextSessionStart
    <3>2. start \in Int /\ start > run.now
      BY <1>1, <1>2, <3>1, NextIsAfter
    <3>3. \A o \in OwnSlot : session[o].start <= series.next
      BY <1>2, <1>3, <1>4 DEF Behind, OwnSlot
    <3> HIDE DEF start
    <3> QED BY <1>2, <1>3, <2>2, <3>2, <3>3 DEF OwnSlot
  <2> QED BY <2>1, <2>2
<1>6. following \in Int /\ following > start
  BY <1>1, <1>5, NextIsAfter
<1> HIDE DEF start, following
<1>7. session'[s].start = start /\ \A o \in Sessions \ {s} : session'[o] = session[o]
  BY <1>1, <1>2 DEF NoSession
<1>8. series'.next = following
  BY <1>1, <1>2 DEF SeriesT
<1>9. OwnSlot' \ {s} \subseteq OwnSlot
  BY <1>1, <1>7 DEF OwnSlot, Exists, past
<1>10. SlotGivenOnce'
  BY <1>3, <1>5, <1>7, <1>9, SlotAbove DEF OwnSlot
<1>11. \A o \in OwnSlot' : session'[o].start < series'.next
  <2> SUFFICES ASSUME NEW o \in OwnSlot' PROVE session'[o].start < series'.next
    OBVIOUS
  <2>1. CASE o = s
    BY <1>6, <1>7, <1>8, <2>1
  <2>2. CASE o # s
    <3>1. o \in OwnSlot /\ o \in Sessions
      BY <1>9, <2>2 DEF OwnSlot
    <3> QED BY <1>3, <1>5, <1>6, <1>7, <1>8, <2>2, <3>1
  <2> QED BY <2>1, <2>2
<1> QED BY <1>1, <1>10, <1>11 DEF SlotsBehind, Behind, IdleRun

\* carry_forward: the slots from `following` on are given again, the first to
\* the next session waiting.
LEMMA SlotsCarried ==
  ASSUME RowsTyped, ReadFinds, SlotsBehind, SlotGivenOnce,
         CarryForward, ~ UNCHANGED <<series, session, placed>>
  PROVE  SlotsBehind' /\ SlotGivenOnce'
<1> DEFINE follow == Following
           cursor == Cursor(follow)
<1>1. PICK one \in (IF NextOne = {} THEN {{}} ELSE {{s} : s \in NextOne}) :
           /\ follow # Never
           /\ series' = [series EXCEPT !.rule = CarriedRule, !.length = edit.length,
                           !.next = cursor, !.content = edit.content,
                           !.services = edit.version]
           /\ session' = [s \in Sessions |->
                IF s \notin one THEN session[s]
                ELSE [session[s] EXCEPT !.start = follow, !.length = edit.length,
                        !.content = edit.content, !.services = edit.version]]
           /\ placed' = (placed \cup {s \in Sessions : session[s].start >= follow}) \ one
           /\ UNCHANGED <<clock, run, revived, cut, used>>
  BY DEF CarryForward
<1>2. /\ edit.start \in Int /\ clock \in Int /\ series \in SeriesT
      /\ session \in [Sessions -> SessionT]
      /\ \A s \in Sessions : session[s].start \in Int
  BY DEF RowsTyped, EditT, SessionT
<1>3. follow \in Int
  BY <1>1, <1>2, NextIsAfter DEF Following
<1>4. one \subseteq Waiting /\ \A s, o \in one : s = o
  <2>1. NextOne \subseteq Waiting
    BY DEF NextOne
  <2> QED BY <1>1, <2>1
<1>5. /\ cursor \in Int /\ cursor >= follow
      /\ one # {} => \/ cursor > follow
                     \/ cursor = follow /\ NextAfter(CarriedRule, cursor) = Never
  <2>1. CASE NextOne = {} \/ NextAfter(CarriedRule, follow) = Never
    <3>1. cursor = follow
      BY <2>1 DEF Cursor
    <3>2. one # {} => NextAfter(CarriedRule, follow) = Never
      BY <1>1, <2>1
    <3> HIDE DEF cursor, follow
    <3> QED BY <1>3, <3>1, <3>2
  <2>2. CASE ~(NextOne = {} \/ NextAfter(CarriedRule, follow) = Never)
    <3>1. cursor = NextAfter(CarriedRule, follow)
      BY <2>2 DEF Cursor
    <3>2. cursor \in Int /\ cursor > follow
      BY <1>3, <2>2, <3>1, NextIsAfter
    <3> HIDE DEF cursor, follow
    <3> QED BY <1>3, <3>2
  <2> QED BY <2>1, <2>2
<1> HIDE DEF cursor, follow
<1>6. series'.next = cursor /\ series'.rule = CarriedRule
  BY <1>1, <1>2 DEF SeriesT
<1>7. \A s \in one : session'[s].start = follow
  BY <1>1, <1>2, <1>4 DEF Waiting, SessionT
<1>8. \A s \in Sessions \ one : session'[s] = session[s]
  BY <1>1
\* The others that have their own slot lie before `following`.
<1>9. ASSUME NEW s \in OwnSlot', s \notin one
      PROVE  s \in OwnSlot /\ session'[s].start = session[s].start
             /\ session[s].start < follow
  <2>1. s \in Sessions /\ s \notin placed' /\ s \notin revived /\ session'[s] = session[s]
    BY <1>1, <1>8, <1>9 DEF OwnSlot
  <2>2. s \notin placed /\ ~(session[s].start >= follow)
    BY <1>1, <1>9, <2>1
  <2>3. session[s].lifecycle # None
    BY <1>9, <2>1 DEF OwnSlot, Exists
  <2> QED BY <1>2, <1>3, <2>1, <2>2, <2>3 DEF OwnSlot, Exists
<1>10. \A s \in OwnSlot' : session'[s].start \in Int
  BY <1>2, <1>3, <1>7, <1>9 DEF OwnSlot
<1>11. Behind(series.rule, series.next)'
  <2> SUFFICES ASSUME NEW s \in OwnSlot'
               PROVE  \/ session'[s].start < cursor
                      \/ session'[s].start = cursor /\ NextAfter(CarriedRule, cursor) = Never
    BY <1>6 DEF Behind
  <2>1. CASE s \in one
    BY <1>3, <1>5, <1>7, <2>1
  <2>2. CASE s \notin one
    BY <1>3, <1>5, <1>9, <1>10, <2>2
  <2> QED BY <2>1, <2>2
\* A run that has found nothing waiting leaves only what was brought back.
<1>12. ASSUME run'.pc = "add" PROVE Behind(run.read.rule, series.next)'
  <2> SUFFICES ASSUME NEW s \in OwnSlot' PROVE session'[s].start < cursor
    BY <1>1, <1>6 DEF Behind
  <2>1. run.pc = "add" /\ s \notin revived
    BY <1>1, <1>12 DEF OwnSlot
  <2>2. s \notin one
    BY <1>4, <2>1 DEF ReadFinds
  <2> QED BY <1>3, <1>5, <1>9, <1>10, <2>2
<1>13. SlotGivenOnce'
  <2>1. CASE one = {}
    BY <1>9, <2>1 DEF SlotGivenOnce, OwnSlot
  <2>2. CASE one # {}
    <3>1. PICK s \in one : one = {s}
      BY <1>4, <2>2
    <3>2. s \in Sessions /\ session'[s].start = follow
      BY <1>4, <1>7 DEF Waiting
    <3>3. OwnSlot' \ {s} \subseteq OwnSlot
      BY <1>9, <3>1
    <3>4. \A o \in OwnSlot' \ {s} :
             session'[o].start = session[o].start /\ session[o].start < follow
      BY <1>9, <3>1
    <3> QED BY <1>2, <1>3, <3>2, <3>3, <3>4, SlotAbove
  <2> QED BY <2>1, <2>2
<1>14. run' = run
  BY <1>1
<1> QED BY <1>11, <1>12, <1>13, <1>14 DEF SlotsBehind

\* One step, as far as the slots are concerned.
LEMMA SlotStep ==
  ASSUME RowsTyped, NoneBefore, ReadFinds, SlotsBehind, SlotGivenOnce, [Next]_vars
  PROVE  SlotsBehind' /\ SlotGivenOnce'
<1> DEFINE Goal == SlotsBehind' /\ SlotGivenOnce'
<1>0. /\ session \in [Sessions -> SessionT]
      /\ \A s \in Sessions : session[s].start \in Int
  BY DEF RowsTyped, SessionT
\* One row changes, and does not come to hold a slot of its own.
<1>1. ASSUME NEW s \in Sessions, \A o \in Sessions \ {s} : session'[o] = session[o],
             s \in OwnSlot' => s \in OwnSlot /\ session'[s].start = session[s].start,
             series' = series, run' = run,
             revived \ {s} \subseteq revived', placed \ {s} \subseteq placed'
      PROVE  Goal
  <2>1. \A o \in OwnSlot' \ {s} : o \in OwnSlot /\ session'[o].start = session[o].start
    BY <1>1 DEF OwnSlot, Exists
  <2> QED BY <1>1, <2>1, SlotKept
<1>2. ASSUME NEW s \in Sessions, NEW rhythm \in Rhythm, NEW start \in Starts,
             NEW length \in Lengths, Announce(s, rhythm, start, length)
      PROVE  Goal
  <2> DEFINE next == NextAfter(FromFirst(rhythm, start), start)
  <2>1. \A o \in Sessions : ~Exists(o)
    BY <1>2 DEF Announce, NoneBefore
  <2>2. start \in Int /\ next > start
    BY <1>2, Numbers, NextIsAfter DEF Announce
  <2>3. series'.next = next
    BY <1>2 DEF Announce
  <2> HIDE DEF next
  <2>4. /\ run' = run /\ run.pc = "idle"
        /\ \A o \in Sessions \ {s} : session'[o] = session[o]
        /\ session'[s].start = start
    BY <1>0, <1>2 DEF Announce, NoSession
  <2>5. OwnSlot' \subseteq {s}
    BY <2>1, <2>4 DEF OwnSlot, Exists
  <2> QED BY <2>2, <2>3, <2>4, <2>5 DEF SlotsBehind, Behind, SlotGivenOnce, OwnSlot
<1>3. CASE Stop
  <2>1. \A s \in Sessions : session'[s] = Stopped(session[s])
    BY <1>3 DEF Stop
  <2>2. ASSUME NEW s \in Sessions
        PROVE  /\ session'[s].start = session[s].start
               /\ session'[s].lifecycle # None => session[s].lifecycle # None
    BY <1>0, <2>1 DEF Stopped, SessionT, None
  <2>3. series'.rule = series.rule /\ series'.next = series.next
    BY <1>3 DEF Stop, RowsTyped, SeriesT
  <2>4. run' = run /\ revived' = revived /\ placed' = placed
    BY <1>3 DEF Stop
  <2>5. OwnSlot' \subseteq OwnSlot
    BY <2>2, <2>4 DEF OwnSlot, Exists
  <2>6. \A s \in OwnSlot' : session'[s].start = session[s].start
    BY <2>2 DEF OwnSlot
  <2> QED BY <2>3, <2>4, <2>5, <2>6, SlotKept
<1>4. ASSUME NEW s \in Sessions, NEW next \in Lifecycle, Move(s, next) PROVE Goal
  <2>1. /\ session'[s].start = session[s].start /\ Exists(s)
        /\ \A o \in Sessions \ {s} : session'[o] = session[o]
    BY <1>0, <1>4 DEF Move, SessionT
  <2>2. series' = series /\ run' = run /\ revived' = revived /\ placed \subseteq placed'
    BY <1>4 DEF Move
  <2>3. s \in OwnSlot' => s \in OwnSlot
    BY <2>1, <2>2 DEF OwnSlot
  <2> QED BY <1>1, <2>1, <2>2, <2>3
<1>5. ASSUME NEW s \in Sessions, Revert(s) PROVE Goal
  <2>1. /\ \A o \in Sessions \ {s} : session'[o] = session[o]
        /\ series' = series /\ run' = run /\ revived' = revived \cup {s} /\ placed' = placed
    BY <1>0, <1>5 DEF Revert
  <2>2. s \notin OwnSlot'
    BY <2>1 DEF OwnSlot
  <2> QED BY <1>1, <2>1, <2>2
<1>6. ASSUME NEW s \in Sessions, DeleteSession(s) PROVE Goal
  <2>1. /\ \A o \in Sessions \ {s} : session'[o] = session[o]
        /\ session'[s].lifecycle = None
        /\ series' = series /\ run' = run
        /\ revived' = revived \ {s} /\ placed' = placed \ {s}
    BY <1>0, <1>6 DEF DeleteSession, Forgotten, NoSession
  <2>2. s \notin OwnSlot'
    BY <2>1 DEF OwnSlot, Exists
  <2> QED BY <1>1, <2>1, <2>2
<1>7. ASSUME NEW s \in Sessions, NEW start, NEW length, NEW content, NEW services,
             session' = [session EXCEPT ![s].start = start, ![s].length = length,
                           ![s].content = content, ![s].services = services]
      PROVE  /\ session'[s].start = start
             /\ \A o \in Sessions \ {s} : session'[o] = session[o]
  BY <1>0, <1>7 DEF SessionT
<1>8. ASSUME NEW s \in Sessions, NEW start \in Int, NEW length \in Lengths,
             UpdateAlone(s, start, length) \/ EditStart(s, start, length)
      PROVE  Goal
  <2>1. PICK version : session' = [session EXCEPT ![s].start = start, ![s].length = length,
                                      ![s].content = version, ![s].services = version]
    BY <1>8 DEF UpdateAlone, EditStart
  <2>2. /\ Exists(s) /\ series' = series /\ run' = run /\ revived' = revived
        /\ placed \subseteq placed'
        /\ s \in placed' \/ start = session[s].start
    BY <1>8 DEF UpdateAlone, EditStart
  <2>3. /\ session'[s].start = start
        /\ \A o \in Sessions \ {s} : session'[o] = session[o]
    BY <1>7, <2>1
  <2>4. s \in OwnSlot' => s \in OwnSlot /\ session'[s].start = session[s].start
    BY <2>2, <2>3 DEF OwnSlot
  <2> QED BY <1>1, <2>2, <2>3, <2>4
\* The rows and the series stay as they are.
<1>9. ASSUME series' = series, session' = session, revived' = revived, placed' = placed,
             run'.pc = "add" => run' = run
      PROVE  Goal
  BY <1>9, SlotKept DEF OwnSlot, Exists
<1>10. CASE CarryForward
  <2>1. CASE UNCHANGED <<series, session, placed>>
    <3>1. run' = run /\ revived' = revived
      BY <1>10 DEF CarryForward
    <3> QED BY <1>9, <2>1, <3>1
  <2> QED BY <1>10, <2>1, SlotsCarried
<1>11. CASE MoveDue
  <2> DEFINE at == clock
  <2>1. \A s \in Sessions : session'[s] = Completed(Started(session[s], at), at)
    BY <1>11 DEF MoveDue
  <2> HIDE DEF at
  <2>2. ASSUME NEW row \in SessionT
        PROVE  /\ Started(row, at) \in SessionT
               /\ Started(row, at).start = row.start
               /\ Completed(row, at).start = row.start
               /\ Started(row, at).lifecycle # None => row.lifecycle # None
               /\ Completed(row, at).lifecycle # None => row.lifecycle # None
    BY DEF Started, Completed, SessionT, Lifecycle, None
  <2>3. \A s \in Sessions : /\ session'[s].start = session[s].start
                            /\ session'[s].lifecycle # None => session[s].lifecycle # None
    BY <1>0, <2>1, <2>2
  <2>4. series' = series /\ revived' = revived /\ placed' = placed /\ run'.pc = "read"
    BY <1>11 DEF MoveDue, past, RowsTyped, RunT
  <2>5. OwnSlot' \subseteq OwnSlot
    BY <2>3, <2>4 DEF OwnSlot, Exists
  <2>6. \A s \in OwnSlot' : session'[s].start = session[s].start
    BY <2>3 DEF OwnSlot
  <2> QED BY <2>4, <2>5, <2>6, SlotKept
<1>12. CASE AwaitingSession
  <2>1. series' = series /\ session' = session /\ revived' = revived /\ placed' = placed
    BY <1>12 DEF AwaitingSession, past
  <2>2. CASE run' = IdleRun
    BY <1>9, <2>1, <2>2 DEF IdleRun
  <2>3. CASE run' # IdleRun
    <3>1. run' = [run EXCEPT !.pc = "add", !.read = [series EXCEPT !.services = 0]]
      BY <1>12, <2>3 DEF AwaitingSession
    <3>2. run'.read.rule = series.rule
      BY <3>1 DEF RowsTyped, RunT, SeriesT
    <3>3. \A s \in OwnSlot' : s \in OwnSlot /\ session'[s].start = session[s].start
      BY <2>1 DEF OwnSlot, Exists
    <3>4. Behind(series.rule, series.next)' /\ Behind(run.read.rule, series.next)'
      BY <2>1, <3>2, <3>3 DEF SlotsBehind, Behind
    <3>5. SlotGivenOnce'
      BY <3>3 DEF SlotGivenOnce, OwnSlot
    <3> QED BY <3>4, <3>5 DEF SlotsBehind
  <2> QED BY <2>2, <2>3
<1>13. ASSUME NEW s \in Sessions, AddSession(s) PROVE Goal
  <2>1. CASE UNCHANGED <<series, session>>
    BY <1>9, <1>13, <2>1 DEF AddSession, IdleRun, past
  <2> QED BY <1>13, <2>1, SlotAdded
<1>14. CASE EditRead \/ EditFails \/ Tick \/ RunFails \/ UNCHANGED vars
  <2>1. /\ series' = series /\ session' = session /\ revived' = revived /\ placed' = placed
        /\ run' = run \/ run' = IdleRun
    BY <1>14 DEF EditRead, EditFails, Tick, RunFails, vars, past
  <2> QED BY <1>9, <2>1 DEF IdleRun
<1>15. CASE Schedule \/ RunFails \/ Tick \/ Stop \/ EditRead \/ CarryForward \/ EditFails
  BY <1>3, <1>10, <1>11, <1>12, <1>13, <1>14, <1>15 DEF Schedule
<1>16. CASE \/ \E s \in Sessions, start \in Starts, length \in Lengths :
                 UpdateAlone(s, start, length) \/ EditStart(s, start, length)
            \/ \E s \in Sessions, length \in Lengths : EditStart(s, session[s].start, length)
  BY <1>0, <1>8, <1>16, Numbers
<1>17. CASE \E s \in Sessions, rhythm \in {"weekly", "monthly"}, start \in Starts, length \in Lengths :
              Announce(s, rhythm, start, length)
  BY <1>2, <1>17 DEF Rhythm
<1>18. CASE \/ \E s \in Sessions : Revert(s) \/ DeleteSession(s)
            \/ \E s \in Sessions, next \in Lifecycle : Move(s, next)
  BY <1>4, <1>5, <1>6, <1>18
<1> QED BY <1>14, <1>15, <1>16, <1>17, <1>18 DEF Next

-----------------------------------------------------------------------------
(* The theorems                                                            *)

LEMMA IndInvInit == Init => IndInv
<1> SUFFICES ASSUME Init PROVE IndInv
  OBVIOUS
<1>1. \A s \in Sessions : session[s] = NoSession
  BY DEF Init
<1>2. \A s \in Sessions : session[s].lifecycle = None
  BY <1>1 DEF NoSession
<1>3. RowsTyped
  <2>1. session \in [Sessions -> SessionT] /\ series \in SeriesT
    BY Blanks DEF Init
  <2>2. run \in RunT /\ edit \in EditT /\ edit.pc = "idle"
    BY Blanks DEF Init, IdleEdit
  <2> QED BY <2>1, <2>2, Numbers DEF Init, RowsTyped
<1>4. Waiting = {} /\ OwnSlot = {}
  BY <1>2 DEF Waiting, OwnSlot, Exists, None
<1>5. run.pc = "idle" /\ series.state = "none" /\ cut = {}
  BY DEF Init, IdleRun, NoSeries
<1>6. NoneBefore /\ OneWaits /\ ReadFinds /\ CutForGood
  BY <1>2, <1>4, <1>5 DEF NoneBefore, OneWaits, ReadFinds, CutForGood, Exists
<1>7. SlotsBehind /\ SlotGivenOnce
  BY <1>4, <1>5 DEF SlotsBehind, Behind, SlotGivenOnce, OwnSlot
<1> QED BY <1>3, <1>6, <1>7 DEF IndInv

LEMMA IndInvStep == IndInv /\ [Next]_vars => IndInv'
BY TypeStep, WaitStep, SlotStep DEF IndInv

\* However many sessions there are, whatever the calendar, the clock's changes,
\* the edits and the failures, the schedule gives each slot once, leaves one
\* session to come, and none once the series is stopped (add_session,
\* carry_forward, stop).
THEOREM SeriesGivesSlotsOnce == Spec => []OneSessionPerSlot
<1>1. IndInv => OneSessionPerSlot
  <2> SUFFICES ASSUME IndInv PROVE OneSessionPerSlot
    OBVIOUS
  <2>1. OneToCome
    <3>1. CASE Waiting \ revived = {}
      BY <3>1, FS_EmptySet DEF OneToCome
    <3>2. CASE Waiting \ revived # {}
      <4>1. PICK s \in Waiting \ revived : TRUE
        BY <3>2
      <4>2. Waiting \ revived = {s}
        BY <4>1 DEF IndInv, OneWaits
      <4> QED BY <4>2, FS_Singleton DEF OneToCome
    <3> QED BY <3>1, <3>2
  <2>2. StoppedForGood
    BY DEF IndInv, CutForGood, StoppedForGood
  <2> QED BY <2>1, <2>2 DEF IndInv, OneSessionPerSlot
<1> QED BY <1>1, IndInvInit, IndInvStep, PTL DEF Spec

-----------------------------------------------------------------------------
(* Series: the dates.  A day is so many weeks after the first of its month *)
(* like it, which turns the ranks of a rule into numbers; the rest follows *)
(* from the order of the days.                                             *)

\* Quotient and rest.
LEMMA DivMod ==
  ASSUME NEW n \in Int, NEW k \in Nat \ {0}
  PROVE  /\ n \div k \in Int /\ n % k \in 0..(k - 1)
         /\ n = k * (n \div k) + (n % k)
  OBVIOUS

\* They are the only ones.
LEMMA RestOf ==
  ASSUME NEW k \in Nat \ {0}, NEW a \in Int, NEW r \in 0..(k - 1), NEW n, n = k * a + r
  PROVE  n % k = r /\ n \div k = a
  OBVIOUS

\* A rest does not change with whole multiples.
LEMMA Shifted ==
  ASSUME NEW k \in Nat \ {0}, NEW a \in Int, NEW c \in Int
  PROVE  (a + k * c) % k = a % k
<1> DEFINE q == a \div k
           r == a % k
<1>1. a = k * q + r /\ q \in Int /\ r \in 0..(k - 1)
  BY DivMod
<1> HIDE DEF q, r
<1>2. a + k * c = k * (q + c) + r /\ q + c \in Int
  BY <1>1
<1>3. (a + k * c) % k = r
  BY <1>1, <1>2, RestOf
<1> QED
  BY <1>3 DEF r

\* The next number, from there on, that leaves a given rest.
LEMMA Ahead ==
  ASSUME NEW k \in Nat \ {0}, NEW a \in Int, NEW w \in 0..(k - 1)
  PROVE  (a + ((w - a) % k)) % k = w
<1> DEFINE q == (w - a) \div k
           r == (w - a) % k
<1>1. w - a = k * q + r /\ q \in Int /\ r \in 0..(k - 1)
  <2>1. w - a \in Int
    OBVIOUS
  <2> QED
    BY <2>1, DivMod
<1> HIDE DEF q, r
<1>2. a + r = k * (0 - q) + w /\ 0 - q \in Int
  BY <1>1
<1>3. (a + r) % k = w
  BY <1>2, RestOf
<1> QED
  BY <1>3 DEF r

\* A multiple of a larger number is larger by one whole at least.
LEMMA Multiples ==
  ASSUME NEW k \in Nat \ {0}, NEW a \in Int, NEW b \in Int
  PROVE  /\ a < b => k * a + k <= k * b
         /\ a <= b => k * a <= k * b
         /\ a * k = k * a
  OBVIOUS

\* What the calendar is made of.
LEMMA Calendar ==
  /\ Week \in Nat \ {0} /\ PerDay \in Nat \ {0}
  /\ Len(FirstDays) \in Nat /\ Len(FirstDays) > 1
  /\ \A k \in 1..Len(FirstDays) : FirstDays[k] \in Nat
  /\ \A m \in Months : /\ m \in 1..Len(FirstDays) /\ m + 1 \in 1..Len(FirstDays)
                       /\ FirstDays[m] + 4 * Week <= FirstDays[m + 1]
                       /\ FirstDays[m + 1] < FirstDays[m] + 5 * Week
<1>1. FirstDays \in Seq(Nat) /\ Len(FirstDays) > 1
  BY CalendarAssumption
<1>2. Len(FirstDays) \in Nat /\ \A k \in 1..Len(FirstDays) : FirstDays[k] \in Nat
  BY <1>1
<1>3. ASSUME NEW m \in Months
      PROVE  /\ m \in 1..Len(FirstDays) /\ m + 1 \in 1..Len(FirstDays)
             /\ FirstDays[m] + 4 * Week <= FirstDays[m + 1]
             /\ FirstDays[m + 1] < FirstDays[m] + 5 * Week
  <2>1. m \in 1..Len(FirstDays) /\ m + 1 \in 1..Len(FirstDays)
    BY <1>2 DEF Months
  <2>2. FirstDays[m] \in Nat /\ FirstDays[m + 1] \in Nat /\ Week \in Nat
    BY <1>2, <2>1, CalendarAssumption
  <2>3. FirstDays[m + 1] - FirstDays[m] \in (4 * Week)..(5 * Week - 1)
    BY CalendarAssumption DEF Months
  <2> QED BY <2>1, <2>2, <2>3
<1> QED BY <1>1, <1>2, <1>3, CalendarAssumption

\* Every month ends before a later one begins.
LEMMA Later ==
  ASSUME NEW m \in Months, NEW k \in 1..Len(FirstDays), m < k
  PROVE  FirstDays[m + 1] <= FirstDays[k]
<1> DEFINE T == {j \in 1..Len(FirstDays) : m < j /\ FirstDays[j] < FirstDays[m + 1]}
<1> SUFFICES ASSUME T # {} PROVE FALSE
  <2>1. k \notin T => ~(FirstDays[k] < FirstDays[m + 1])
    OBVIOUS
  <2> QED BY <2>1, Calendar
<1>1. T \in SUBSET Nat
  OBVIOUS
<1>2. PICK j \in T : \A i \in T : j <= i
  BY <1>1, LeastNumber
<1>3. j # m + 1 /\ j > m + 1 /\ j - 1 \in Months /\ j - 1 \in 1..Len(FirstDays) /\ m < j - 1
  BY <1>2, Calendar DEF Months
<1>4. j - 1 \notin T
  BY <1>2, <1>3
<1>5. ~(FirstDays[j - 1] < FirstDays[m + 1])
  BY <1>3, <1>4
<1>6. FirstDays[j - 1] + 4 * Week <= FirstDays[(j - 1) + 1] /\ (j - 1) + 1 = j
  BY <1>3, Calendar
<1>7. /\ FirstDays[j] < FirstDays[m + 1] /\ j \in 1..Len(FirstDays)
      /\ m + 1 \in 1..Len(FirstDays)
  BY <1>2, Calendar
<1>8. /\ FirstDays[j - 1] \in Nat /\ FirstDays[j] \in Nat /\ FirstDays[m + 1] \in Nat
      /\ Week \in Nat \ {0}
  BY <1>3, <1>7, Calendar
<1> QED BY <1>5, <1>6, <1>7, <1>8

\* A day is of one month: the one it lies in.
LEMMA MonthIs ==
  ASSUME NEW d \in Int, NEW m \in Months, d \in FirstDays[m]..(FirstDays[m + 1] - 1)
  PROVE  MonthOf(d) = m /\ d \in Days
<1>1. ASSUME NEW k \in Months, d \in FirstDays[k]..(FirstDays[k + 1] - 1) PROVE k = m
  <2>1. /\ FirstDays[k] \in Nat /\ FirstDays[k + 1] \in Nat /\ FirstDays[m] \in Nat
        /\ FirstDays[m + 1] \in Nat /\ k \in 1..Len(FirstDays) /\ m \in 1..Len(FirstDays)
    BY Calendar
  <2>2. k < m => FirstDays[k + 1] <= FirstDays[m]
    BY <2>1, Later
  <2>3. m < k => FirstDays[m + 1] <= FirstDays[k]
    BY <2>1, Later
  <2>4. FirstDays[k] <= d /\ d < FirstDays[k + 1] /\ FirstDays[m] <= d /\ d < FirstDays[m + 1]
    BY <1>1, <2>1
  <2> QED BY <2>1, <2>2, <2>3, <2>4 DEF Months
<1>2. MonthOf(d) = m
  BY <1>1 DEF MonthOf
<1>3. 1 \in Months /\ 1 \in 1..Len(FirstDays) /\ Len(FirstDays) \in 1..Len(FirstDays)
  BY Calendar DEF Months
<1>4. /\ FirstDays[1] \in Nat /\ FirstDays[m] \in Nat /\ FirstDays[m + 1] \in Nat
      /\ FirstDays[Len(FirstDays)] \in Nat /\ FirstDays[1 + 1] \in Nat
      /\ m \in 1..Len(FirstDays)
  BY <1>3, Calendar
<1>5. FirstDays[1] <= FirstDays[m]
  <2>1. CASE m = 1
    BY <1>4, <2>1
  <2>2. CASE m # 1
    <3>1. FirstDays[1 + 1] <= FirstDays[m]
      BY <1>3, <1>4, <2>2, Later
    <3>2. FirstDays[1] + 4 * Week <= FirstDays[1 + 1] /\ Week \in Nat
      BY <1>3, Calendar
    <3> QED BY <1>4, <3>1, <3>2
  <2> QED BY <2>1, <2>2
<1>6. FirstDays[m + 1] <= FirstDays[Len(FirstDays)]
  BY <1>3, Later DEF Months
<1> QED BY <1>2, <1>4, <1>5, <1>6 DEF Days

\* Every day of the calendar has its month.
LEMMA MonthOfDay ==
  ASSUME NEW d \in Days
  PROVE  /\ d \in Nat /\ MonthOf(d) \in Months
         /\ d \in FirstDays[MonthOf(d)]..(FirstDays[MonthOf(d) + 1] - 1)
<1> DEFINE T == {k \in 2..Len(FirstDays) : d < FirstDays[k]}
<1>1. /\ Len(FirstDays) \in Nat /\ Len(FirstDays) > 1 /\ FirstDays[1] \in Nat
      /\ FirstDays[Len(FirstDays)] \in Nat
  BY Calendar
<1>2. d \in Nat /\ FirstDays[1] <= d /\ d < FirstDays[Len(FirstDays)]
  BY <1>1 DEF Days
<1>3. Len(FirstDays) \in T /\ T \in SUBSET Nat
  BY <1>1, <1>2
<1>4. PICK k \in T : \A i \in T : k <= i
  BY <1>3, LeastNumber
<1>5. k - 1 \in Months /\ k - 1 \in 1..Len(FirstDays) /\ k \in 1..Len(FirstDays) /\ (k - 1) + 1 = k
  BY <1>1, <1>4 DEF Months
<1>6. FirstDays[k - 1] \in Nat /\ FirstDays[k] \in Nat
  BY <1>5, Calendar
<1>7. FirstDays[k - 1] <= d
  <2>1. CASE k - 1 = 1
    BY <1>2, <2>1
  <2>2. CASE k - 1 # 1
    <3>1. k - 1 \notin T /\ k - 1 \in 2..Len(FirstDays)
      BY <1>1, <1>4, <1>5, <2>2
    <3> QED BY <1>2, <1>6, <3>1
  <2> QED BY <2>1, <2>2
<1>8. d \in FirstDays[k - 1]..(FirstDays[(k - 1) + 1] - 1)
  BY <1>2, <1>4, <1>5, <1>6, <1>7
<1>9. MonthOf(d) = k - 1
  BY <1>2, <1>5, <1>8, MonthIs
<1> QED BY <1>2, <1>5, <1>8, <1>9

\* Months follow each other as their days do.
LEMMA MonthsInOrder ==
  ASSUME NEW d \in Days, NEW e \in Days
  PROVE  /\ d <= e => MonthOf(d) <= MonthOf(e)
         /\ MonthOf(d) < MonthOf(e) => d < e
<1> DEFINE m == MonthOf(d)
           k == MonthOf(e)
<1>1. /\ m \in Months /\ k \in Months /\ d \in Nat /\ e \in Nat
      /\ d \in FirstDays[m]..(FirstDays[m + 1] - 1)
      /\ e \in FirstDays[k]..(FirstDays[k + 1] - 1)
  BY MonthOfDay
<1> HIDE DEF m, k
<1>2. /\ FirstDays[m] \in Nat /\ FirstDays[m + 1] \in Nat /\ FirstDays[k] \in Nat
      /\ FirstDays[k + 1] \in Nat /\ m \in 1..Len(FirstDays) /\ k \in 1..Len(FirstDays)
  BY <1>1, Calendar
<1>3. m < k => FirstDays[m + 1] <= FirstDays[k]
  BY <1>1, <1>2, Later
<1>4. k < m => FirstDays[k + 1] <= FirstDays[m]
  BY <1>1, <1>2, Later
<1>5. (d <= e => m <= k) /\ (m < k => d < e)
  BY <1>1, <1>2, <1>3, <1>4 DEF Months
<1> QED BY <1>5 DEF m, k

-----------------------------------------------------------------------------
(* Which days a rule means                                                 *)

\* The first such weekday of a month; the others follow it week by week.
FirstAlike(m, weekday) == FirstDays[m] + ((weekday - FirstDays[m]) % Week)

\* It lies in the first week of the month.
LEMMA FirstAlikeIs ==
  ASSUME NEW m \in Months, NEW w \in 0..(Week - 1)
  PROVE  /\ FirstAlike(m, w) \in FirstDays[m]..(FirstDays[m] + Week - 1)
         /\ FirstAlike(m, w) % Week = w
<1>1. FirstDays[m] \in Nat /\ Week \in Nat \ {0} /\ w - FirstDays[m] \in Int
  BY Calendar
<1>2. (w - FirstDays[m]) % Week \in 0..(Week - 1)
  BY <1>1, DivMod
<1>3. (FirstDays[m] + ((w - FirstDays[m]) % Week)) % Week = w
  BY <1>1, Ahead
<1> QED BY <1>1, <1>2, <1>3 DEF FirstAlike

\* Such a weekday after j weeks is in the month, if it lies before its end,
\* as the first four always do.
LEMMA AlikeIs ==
  ASSUME NEW m \in Months, NEW w \in 0..(Week - 1), NEW j \in 0..4,
         j = 4 => FirstAlike(m, w) + Week * j < FirstDays[m + 1]
  PROVE  /\ FirstAlike(m, w) + Week * j \in Days
         /\ MonthOf(FirstAlike(m, w) + Week * j) = m
         /\ Weekday(FirstAlike(m, w) + Week * j) = w
<1> DEFINE f == FirstAlike(m, w)
           e == f + Week * j
<1>1. f \in FirstDays[m]..(FirstDays[m] + Week - 1) /\ f % Week = w
  BY FirstAlikeIs
<1>2. /\ FirstDays[m] \in Nat /\ FirstDays[m + 1] \in Nat /\ Week \in Nat \ {0}
      /\ FirstDays[m] + 4 * Week <= FirstDays[m + 1]
  BY Calendar
<1>3. j = 4 => e < FirstDays[m + 1]
  OBVIOUS
<1>4. j \in 0..3 => Week * j <= 3 * Week
  BY <1>2
<1>5. e \in Int /\ f <= e
  BY <1>1, <1>2
<1>6. e \in FirstDays[m]..(FirstDays[m + 1] - 1)
  BY <1>1, <1>2, <1>3, <1>4, <1>5
<1>7. e % Week = w
  <2> HIDE DEF f
  <2>1. f \in Int /\ j \in Int
    BY <1>1, <1>2
  <2>2. (f + Week * j) % Week = f % Week
    BY <1>2, <2>1, Shifted
  <2> QED BY <1>1, <2>2
<1>8. MonthOf(e) = m /\ e \in Days
  BY <1>5, <1>6, MonthIs
<1> QED BY <1>7, <1>8 DEF Weekday

\* Every day is some weeks after the first of its month like it, and that many
\* weeks are past in the month.
LEMMA DayIsAlike ==
  ASSUME NEW d \in Days
  PROVE  \E j \in 0..4 : /\ d = FirstAlike(MonthOf(d), Weekday(d)) + Week * j
                         /\ (d - FirstDays[MonthOf(d)]) \div Week = j
<1> DEFINE m == MonthOf(d)
           x == d - FirstDays[m]
           q == x \div Week
           r == x % Week
           a == d \div Week
<1>1. m \in Months /\ d \in Nat /\ d \in FirstDays[m]..(FirstDays[m + 1] - 1)
  BY MonthOfDay
<1> HIDE DEF m
<1>2. /\ FirstDays[m] \in Nat /\ FirstDays[m + 1] \in Nat /\ Week \in Nat \ {0}
      /\ FirstDays[m + 1] < FirstDays[m] + 5 * Week
  BY <1>1, Calendar
<1>3. x \in Int /\ x < 5 * Week - 1 /\ x >= 0
  BY <1>1, <1>2
<1>4. x = Week * q + r /\ q \in Int /\ r \in 0..(Week - 1)
  BY <1>2, <1>3, DivMod
<1>5. d = Week * a + (d % Week) /\ a \in Int /\ d % Week \in 0..(Week - 1)
  <2>1. d \in Int
    BY <1>1
  <2> QED BY <1>2, <2>1, DivMod
<1>6. Weekday(d) - FirstDays[m] = x + Week * (0 - a)
  BY <1>1, <1>2, <1>5 DEF Weekday
<1>7. (x + Week * (0 - a)) % Week = r
  <2> HIDE DEF x, a
  <2>1. 0 - a \in Int
    BY <1>5
  <2> QED BY <1>2, <1>3, <2>1, Shifted
<1>8. FirstAlike(m, Weekday(d)) = FirstDays[m] + r
  BY <1>6, <1>7 DEF FirstAlike
<1>9. q \in 0..4
  <2> HIDE DEF x, q, r
  <2>1. q < 0 => Week * q + Week <= Week * 0
    BY <1>2, <1>4, Multiples
  <2>2. 4 < q => Week * 4 + Week <= Week * q
    BY <1>2, <1>4, Multiples
  <2> QED BY <1>2, <1>3, <1>4, <2>1, <2>2
<1>10. d = FirstAlike(m, Weekday(d)) + Week * q
  <2> DEFINE y == Week * q
  <2>1. x = y + r /\ y \in Int /\ r \in Int
    BY <1>2, <1>4
  <2> HIDE DEF q, r, y
  <2>2. d = FirstDays[m] + r + y
    BY <1>1, <1>2, <2>1
  <2> QED BY <1>8, <2>2 DEF y
<1> QED BY <1>9, <1>10 DEF m

\* Days alike up to the one after i weeks: there are i + 1.
LEMMA DaysCounted ==
  ASSUME NEW f \in Int, NEW i \in Nat
  PROVE  Cardinality({f + Week * j : j \in 0..i}) = i + 1
<1> DEFINE S == 0..i
           T == {f + Week * j : j \in 0..i}
           g == [j \in S |-> f + Week * j]
<1>1. Week \in Nat \ {0}
  BY Calendar
<1>2. \A a, b \in S : g[a] = g[b] => a = b
  <2> SUFFICES ASSUME NEW a \in S, NEW b \in S, g[a] = g[b] PROVE a = b
    OBVIOUS
  <2>1. Week * a = Week * b
    BY <1>1
  <2>2. (a < b => Week * a + Week <= Week * b) /\ (b < a => Week * b + Week <= Week * a)
    BY <1>1, Multiples
  <2> QED BY <1>1, <2>1, <2>2
<1>3. g \in [S -> T] /\ \A t \in T : \E s \in S : g[s] = t
  OBVIOUS
<1>4. g \in Bijection(S, T)
  BY <1>2, <1>3, Fun_IsBij
<1>5. ExistsBijection(S, T)
  BY <1>4, Fun_ExistsBij
<1>6. IsFiniteSet(S) /\ Cardinality(S) = i + 1
  BY FS_Interval
<1> QED BY <1>5, <1>6, FS_Bijection

\* The weekdays of a month before one of its days, that day with them.
LEMMA AlikeUpTo ==
  ASSUME NEW d \in Days, NEW i \in 0..4,
         d = FirstAlike(MonthOf(d), Weekday(d)) + Week * i
  PROVE  Cardinality({e \in Days : MonthOf(e) = MonthOf(d) /\ Weekday(e) = Weekday(d) /\ e <= d})
           = i + 1
<1> DEFINE m == MonthOf(d)
           w == Weekday(d)
           f == FirstAlike(m, w)
           A == {e \in Days : MonthOf(e) = m /\ Weekday(e) = w /\ e <= d}
<1>1. m \in Months /\ d \in Nat /\ d \in FirstDays[m]..(FirstDays[m + 1] - 1)
  BY MonthOfDay
<1>2. Week \in Nat \ {0} /\ FirstDays[m + 1] \in Nat /\ FirstDays[m] \in Nat
  BY <1>1, Calendar
<1>3. w \in 0..(Week - 1)
  BY <1>1, <1>2, DivMod DEF Weekday
<1>4. f \in Int
  BY <1>1, <1>2, <1>3, FirstAlikeIs
<1>5. ASSUME NEW e \in A PROVE \E j \in 0..i : e = f + Week * j
  <2>1. PICK j \in 0..4 : e = f + Week * j
    BY <1>5, DayIsAlike
  <2>2. f + Week * j <= f + Week * i
    BY <1>5, <2>1
  <2>3. i < j => Week * i + Week <= Week * j
    BY <1>2, Multiples
  <2>4. j <= i
    BY <1>2, <1>4, <2>2, <2>3
  <2> QED BY <2>1, <2>4
<1>6. ASSUME NEW j \in 0..i PROVE f + Week * j \in A
  <2>1. j <= i => Week * j <= Week * i
    BY <1>2, Multiples
  <2>2. f + Week * j <= d /\ d < FirstDays[m + 1] /\ j \in 0..4
    BY <1>1, <1>2, <1>4, <2>1
  <2>3. f + Week * j < FirstDays[m + 1]
    BY <1>1, <1>2, <1>4, <2>2
  <2> QED BY <1>1, <1>3, <2>2, <2>3, AlikeIs
<1>7. A = {f + Week * j : j \in 0..i}
  BY <1>5, <1>6
<1>8. Cardinality(A) = i + 1
  BY <1>4, <1>7, DaysCounted
<1> QED BY <1>8

\* day_in, read week by week: it is a day of that month, of that weekday.
LEMMA DayInIs ==
  ASSUME NEW m \in Months, NEW w \in 0..(Week - 1), NEW rank \in Rank
  PROVE  /\ rank # LastRank => DayIn(rank, m, w) = FirstAlike(m, w) + Week * (rank - 1)
         /\ rank = LastRank => DayIn(rank, m, w) =
              IF FirstAlike(m, w) + Week * 4 < FirstDays[m + 1]
              THEN FirstAlike(m, w) + Week * 4 ELSE FirstAlike(m, w) + Week * 3
         /\ DayIn(rank, m, w) \in Days /\ MonthOf(DayIn(rank, m, w)) = m
         /\ Weekday(DayIn(rank, m, w)) = w
<1> DEFINE f == FirstAlike(m, w)
<1>1. Week \in Nat \ {0} /\ f \in Int /\ FirstDays[m + 1] \in Nat
  BY Calendar, FirstAlikeIs
<1>2. rank # LastRank => DayIn(rank, m, w) = f + Week * (rank - 1)
  BY DEF DayIn, FirstAlike
<1>3. rank = LastRank => DayIn(rank, m, w) =
        IF f + 4 * Week < FirstDays[m + 1] THEN f + 4 * Week ELSE f + 3 * Week
  BY DEF DayIn, FirstAlike
<1>4. 4 * Week = Week * 4 /\ 3 * Week = Week * 3
  BY <1>1
<1>5. rank = LastRank => DayIn(rank, m, w) =
        IF f + Week * 4 < FirstDays[m + 1] THEN f + Week * 4 ELSE f + Week * 3
  BY <1>3, <1>4
<1>6. \E j \in 0..4 : /\ DayIn(rank, m, w) = f + Week * j
                      /\ j = 4 => f + Week * j < FirstDays[m + 1]
  <2>1. CASE rank # LastRank
    <3>1. rank - 1 \in 0..3
      BY <2>1 DEF Rank, LastRank
    <3> QED BY <1>2, <2>1, <3>1
  <2>2. CASE rank = LastRank /\ f + Week * 4 < FirstDays[m + 1]
    BY <1>5, <2>2
  <2>3. CASE rank = LastRank /\ ~(f + Week * 4 < FirstDays[m + 1])
    BY <1>5, <2>3
  <2> QED BY <2>1, <2>2, <2>3
<1>7. PICK j \in 0..4 : /\ DayIn(rank, m, w) = f + Week * j
                        /\ j = 4 => f + Week * j < FirstDays[m + 1]
  BY <1>6
<1>8. f + Week * j \in Days /\ MonthOf(f + Week * j) = m /\ Weekday(f + Week * j) = w
  BY <1>7, AlikeIs
<1> QED BY <1>2, <1>5, <1>7, <1>8

\* A monthly rule means one day of a month: the one day_in gives.
LEMMA MeansDayIn ==
  ASSUME NEW rule, rule.rhythm # "weekly", rule.rank \in Rank,
         rule.weekday \in 0..(Week - 1), NEW d \in Days
  PROVE  Means(rule, d) <=> d = DayIn(rule.rank, MonthOf(d), rule.weekday)
<1> DEFINE m == MonthOf(d)
           w == rule.weekday
           f == FirstAlike(m, w)
           alike == {e \in Days : MonthOf(e) = MonthOf(d) /\ Weekday(e) = Weekday(d)}
<1>1. m \in Months /\ d \in Nat /\ d \in FirstDays[m]..(FirstDays[m + 1] - 1)
  BY MonthOfDay
<1>2. Week \in Nat \ {0} /\ FirstDays[m + 1] \in Nat /\ f \in Int
  <2> HIDE DEF m
  <2>1. FirstDays[m] \in Nat /\ FirstDays[m + 1] \in Nat /\ Week \in Nat \ {0}
    BY <1>1, Calendar
  <2>2. f \in FirstDays[m]..(FirstDays[m] + Week - 1)
    BY <1>1, FirstAlikeIs
  <2> QED BY <2>1, <2>2
<1>3. d = DayIn(rule.rank, m, w) => Weekday(d) = w
  BY <1>1, DayInIs
<1>4. Means(rule, d) <=>
        /\ Weekday(d) = w
        /\ IF rule.rank = LastRank THEN \A e \in alike : e <= d
           ELSE Cardinality({e \in alike : e <= d}) = rule.rank
  BY DEF Means
<1>5. ASSUME Weekday(d) = w
      PROVE  (IF rule.rank = LastRank THEN \A e \in alike : e <= d
              ELSE Cardinality({e \in alike : e <= d}) = rule.rank)
             <=> d = DayIn(rule.rank, m, w)
  <2>1. PICK i \in 0..4 : d = f + Week * i
    BY <1>5, DayIsAlike
  <2>2. CASE rule.rank # LastRank
    <3>1. {e \in alike : e <= d}
            = {e \in Days : MonthOf(e) = MonthOf(d) /\ Weekday(e) = Weekday(d) /\ e <= d}
      OBVIOUS
    <3>2. Cardinality({e \in alike : e <= d}) = i + 1
      BY <1>5, <2>1, <3>1, AlikeUpTo
    <3>3. DayIn(rule.rank, m, w) = f + Week * (rule.rank - 1)
      BY <1>1, <2>2, DayInIs
    <3>4. rule.rank \in Int
      BY DEF Rank, LastRank
    <3> DEFINE n == rule.rank - 1
    <3>5. n \in Int /\ (i + 1 = rule.rank <=> i = n)
      BY <3>4
    <3> HIDE DEF n
    <3>6. f + Week * i = f + Week * n <=> i = n
      <4>1. (i < n => Week * i + Week <= Week * n) /\ (n < i => Week * n + Week <= Week * i)
        BY <1>2, <3>5, Multiples
      <4> HIDE DEF f
      <4> QED BY <1>2, <3>5, <4>1
    <3>7. d = DayIn(rule.rank, m, w) <=> i = n
      BY <2>1, <3>3, <3>6 DEF n
    <3> QED BY <2>2, <3>2, <3>5, <3>7
  <2>3. CASE rule.rank = LastRank
    <3>1. DayIn(rule.rank, m, w) =
            IF f + Week * 4 < FirstDays[m + 1] THEN f + Week * 4 ELSE f + Week * 3
      BY <1>1, <2>3, DayInIs
    <3>2. ASSUME NEW j \in 0..4, j = 4 => f + Week * j < FirstDays[m + 1]
          PROVE  f + Week * j \in alike
      BY <1>1, <1>5, <3>2, AlikeIs
    <3>3. ASSUME NEW e \in alike PROVE \E j \in 0..4 : e = f + Week * j
      BY <1>5, <3>3, DayIsAlike
    <3>4. \A j \in 0..4 : j <= i <=> Week * j <= Week * i
      <4> SUFFICES ASSUME NEW j \in 0..4 PROVE j <= i <=> Week * j <= Week * i
        OBVIOUS
      <4>1. (j <= i => Week * j <= Week * i) /\ (i < j => Week * i + Week <= Week * j)
        BY <1>2, Multiples
      <4> QED BY <1>2, <4>1
    <3> HIDE DEF f
    <3>5. CASE f + Week * 4 < FirstDays[m + 1]
      <4>1. f + Week * 4 \in alike
        BY <3>2, <3>5
      <4>2. (\A e \in alike : e <= d) => i = 4
        <5> SUFFICES ASSUME \A e \in alike : e <= d PROVE i = 4
          OBVIOUS
        <5>1. f + Week * 4 <= f + Week * i
          BY <2>1, <4>1
        <5>2. Week * 4 <= Week * i
          BY <1>2, <5>1
        <5> QED BY <3>4, <5>2
      <4>3. i = 4 => \A e \in alike : e <= d
        <5> SUFFICES ASSUME i = 4, NEW e \in alike PROVE e <= d
          OBVIOUS
        <5>1. PICK j \in 0..4 : e = f + Week * j
          BY <3>3
        <5>2. Week * j <= Week * i
          BY <3>4
        <5> QED BY <1>2, <2>1, <5>1, <5>2
      <4>4. d = f + Week * 4 <=> i = 4
        <5>1. 4 < i => FALSE
          OBVIOUS
        <5>2. i < 4 => Week * i + Week <= Week * 4
          BY <1>2, Multiples
        <5> QED BY <1>2, <2>1, <5>2
      <4> QED BY <2>3, <3>1, <3>5, <4>2, <4>3, <4>4
    <3>6. CASE ~(f + Week * 4 < FirstDays[m + 1])
      <4>1. d < FirstDays[m + 1]
        BY <1>1, <1>2
      <4>2. i # 4 /\ i \in 0..3
        BY <2>1, <3>6, <4>1
      <4>3. f + Week * 3 \in alike
        BY <3>2
      <4>4. (\A e \in alike : e <= d) => i = 3
        <5> SUFFICES ASSUME \A e \in alike : e <= d PROVE i = 3
          OBVIOUS
        <5>1. f + Week * 3 <= f + Week * i
          BY <2>1, <4>3
        <5>2. Week * 3 <= Week * i
          BY <1>2, <5>1
        <5> QED BY <3>4, <4>2, <5>2
      <4>5. i = 3 => \A e \in alike : e <= d
        <5> SUFFICES ASSUME i = 3, NEW e \in alike PROVE e <= d
          OBVIOUS
        <5>1. PICK j \in 0..4 : e = f + Week * j
          BY <3>3
        <5>2. e \in Nat /\ e < FirstDays[m + 1]
          <6>1. e \in Days /\ MonthOf(e) = m
            OBVIOUS
          <6>2. e \in Nat /\ e \in FirstDays[m]..(FirstDays[m + 1] - 1)
            BY <6>1, MonthOfDay
          <6> QED BY <1>2, <6>2
        <5>3. j # 4 /\ j <= i
          BY <3>6, <5>1, <5>2
        <5>4. Week * j <= Week * i
          BY <3>4, <5>3
        <5> QED BY <1>2, <2>1, <5>1, <5>4
      <4>6. d = f + Week * 3 <=> i = 3
        <5>1. i < 3 => Week * i + Week <= Week * 3
          BY <1>2, Multiples
        <5> QED BY <1>2, <2>1, <4>2, <5>1
      <4> QED BY <2>3, <3>1, <3>6, <4>4, <4>5, <4>6
    <3> QED BY <3>5, <3>6
  <2> QED BY <2>2, <2>3
<1> QED BY <1>3, <1>4, <1>5

\* An instant is of one day of the calendar.
LEMMA DayOfInstant ==
  ASSUME NEW t \in Instant
  PROVE  /\ t \in Nat /\ DayOf(t) \in Days /\ DayOf(t) \in Int
         /\ DayOf(t) * PerDay <= t /\ t < DayOf(t) * PerDay + PerDay
         /\ TimeOf(t) \in 0..(PerDay - 1)
<1> DEFINE a == FirstDays[1]
           b == FirstDays[Len(FirstDays)]
           q == t \div PerDay
           r == t % PerDay
<1>1. a \in Nat /\ b \in Nat /\ PerDay \in Nat \ {0}
  <2>1. 1 \in 1..Len(FirstDays) /\ Len(FirstDays) \in 1..Len(FirstDays)
    BY Calendar
  <2> QED BY <2>1, Calendar
<1> HIDE DEF a, b
<1>2. t \in Int /\ a * PerDay <= t /\ t < b * PerDay /\ t >= 0
  <2>1. a * PerDay \in Nat /\ b * PerDay \in Nat
    BY <1>1
  <2>2. t \in (a * PerDay)..(b * PerDay - 1)
    BY DEF Instant, a, b
  <2> QED BY <2>1, <2>2
<1>3. t = PerDay * q + r /\ q \in Int /\ r \in 0..(PerDay - 1)
  BY <1>1, <1>2, DivMod
<1> HIDE DEF q, r
<1>4. q * PerDay = PerDay * q /\ a * PerDay = PerDay * a /\ b * PerDay = PerDay * b
  BY <1>1, <1>3, Multiples
<1>5. (q < a => PerDay * q + PerDay <= PerDay * a) /\ (b <= q => PerDay * b <= PerDay * q)
  BY <1>1, <1>3, Multiples
<1>6. a <= q /\ q < b
  BY <1>1, <1>2, <1>3, <1>4, <1>5
<1>7. q \in Days
  BY <1>1, <1>3, <1>6 DEF Days, a, b
<1>8. q * PerDay <= t /\ t < q * PerDay + PerDay
  BY <1>1, <1>2, <1>3, <1>4
<1> QED BY <1>2, <1>3, <1>7, <1>8 DEF DayOf, TimeOf, q, r

\* from_first: the rule a first start sets means the day of that start.
LEMMA FirstIsMeant ==
  ASSUME NEW t \in Instant, NEW rhythm
  PROVE  Means(FromFirst(rhythm, t), DayOf(t))
<1> DEFINE d == DayOf(t)
           m == MonthOf(d)
           f == FirstAlike(m, Weekday(d))
           rule == FromFirst(rhythm, t)
<1>1. d \in Days
  BY DayOfInstant
<1>2. m \in Months /\ d \in Nat /\ d \in FirstDays[m]..(FirstDays[m + 1] - 1)
  BY <1>1, MonthOfDay
<1>3. /\ rule.rhythm = rhythm /\ rule.weekday = Weekday(d)
      /\ rhythm # "weekly" => rule.rank = RankOfDay(DayOfMonth(d))
  BY DEF FromFirst
<1>4. CASE rhythm = "weekly"
  BY <1>3, <1>4 DEF Means
<1>5. CASE rhythm # "weekly"
  <2>1. Week \in Nat \ {0} /\ FirstDays[m] \in Nat /\ FirstDays[m + 1] \in Nat
    BY <1>2, Calendar
  <2>2. Weekday(d) \in 0..(Week - 1)
    <3>1. d \in Int
      BY <1>2
    <3> QED BY <2>1, <3>1, DivMod DEF Weekday
  <2>3. PICK j \in 0..4 : d = f + Week * j /\ (d - FirstDays[m]) \div Week = j
    BY <1>1, DayIsAlike
  <2>4. rule.rank = j + 1
    <3>1. (d - FirstDays[m] + 1) - 1 = d - FirstDays[m]
      BY <1>2, <2>1
    <3>2. RankOfDay(DayOfMonth(d)) = j + 1
      BY <2>3, <3>1 DEF RankOfDay, DayOfMonth
    <3> QED BY <1>3, <1>5, <3>2
  <2>5. rule.rank \in Rank /\ rule.weekday \in 0..(Week - 1)
    BY <1>3, <2>2, <2>4 DEF Rank, LastRank
  <2>6. d = DayIn(rule.rank, m, Weekday(d))
    <3>1. CASE j # 4
      <4>1. rule.rank # LastRank /\ rule.rank - 1 = j
        BY <2>4, <3>1 DEF LastRank
      <4>2. DayIn(rule.rank, m, Weekday(d)) = f + Week * (rule.rank - 1)
        BY <1>2, <2>2, <2>5, <4>1, DayInIs
      <4> QED BY <2>3, <4>1, <4>2
    <3>2. CASE j = 4
      <4>1. rule.rank = LastRank
        BY <2>4, <3>2 DEF LastRank
      <4>2. f + Week * 4 < FirstDays[m + 1]
        BY <1>2, <2>1, <2>3, <3>2
      <4>3. DayIn(rule.rank, m, Weekday(d)) = f + Week * 4
        BY <1>2, <2>2, <2>5, <4>1, <4>2, DayInIs
      <4> QED BY <2>3, <3>2, <4>3
    <3> QED BY <3>1, <3>2
  <2> HIDE DEF rule
  <2> QED BY <1>1, <1>3, <1>5, <2>5, <2>6, MeansDayIn DEF rule
<1> QED BY <1>4, <1>5

-----------------------------------------------------------------------------
(* When a session starts                                                   *)

\* The least of some instants is one of them.
LEMMA EarliestIs ==
  ASSUME NEW T \in SUBSET Nat, T # {}
  PROVE  Earliest(T) \in T /\ \A u \in T : Earliest(T) <= u
<1>1. \E t \in T : \A u \in T : t <= u
  BY LeastNumber
<1> QED BY <1>1 DEF Earliest

\* A day and a time of day make an instant.
LEMMA InstantOf ==
  ASSUME NEW d \in Days, NEW time \in 0..(PerDay - 1)
  PROVE  d \in Nat /\ d * PerDay \in Nat /\ d * PerDay + time \in Instant
<1> DEFINE a == FirstDays[1]
           b == FirstDays[Len(FirstDays)]
<1>1. a \in Nat /\ b \in Nat /\ PerDay \in Nat \ {0}
  <2>1. 1 \in 1..Len(FirstDays) /\ Len(FirstDays) \in 1..Len(FirstDays)
    BY Calendar
  <2> QED BY <2>1, Calendar
<1>2. d \in Nat /\ a <= d /\ d < b
  BY <1>1 DEF Days
<1> HIDE DEF a, b
<1>3. (a <= d => PerDay * a <= PerDay * d) /\ (d < b => PerDay * d + PerDay <= PerDay * b)
  BY <1>1, <1>2, Multiples
<1>4. d * PerDay = PerDay * d /\ a * PerDay = PerDay * a /\ b * PerDay = PerDay * b
  BY <1>1, <1>2, Multiples
<1>5. d * PerDay \in Nat /\ a * PerDay \in Nat /\ b * PerDay \in Nat
  BY <1>1, <1>2
<1>6. d * PerDay + time \in (a * PerDay)..(b * PerDay - 1)
  BY <1>1, <1>2, <1>3, <1>4, <1>5
<1> QED BY <1>2, <1>5, <1>6 DEF Instant, a, b

\* to_utc_or_later: the first instant from there on that the clock shows.
LEMMA FirstShown ==
  ASSUME ClockChangesAreShort, NEW t \in Instant
  PROVE  /\ ToUtcOrLater(t) \in Nat /\ t <= ToUtcOrLater(t) /\ ToUtcOrLater(t) \notin Skipped
         /\ \A u \in Nat : t <= u /\ u \notin Skipped => ToUtcOrLater(t) <= u
<1> DEFINE T == {u \in t..(t + MAX_SKIPPED) : u \notin Skipped}
           v == Earliest(T)
<1>1. t \in Nat /\ MAX_SKIPPED \in Nat
  BY DayOfInstant, CalendarAssumption
<1>2. T # {} /\ T \in SUBSET Nat
  BY <1>1 DEF ClockChangesAreShort
<1>3. v \in T /\ \A u \in T : v <= u
  BY <1>2, EarliestIs
<1>4. ToUtcOrLater(t) = v
  BY <1>2 DEF ToUtcOrLater
<1> HIDE DEF v
<1>5. v \in Nat /\ t <= v /\ v <= t + MAX_SKIPPED /\ v \notin Skipped
  BY <1>1, <1>3
<1>6. ASSUME NEW u \in Nat, t <= u, u \notin Skipped PROVE v <= u
  <2>1. CASE u <= t + MAX_SKIPPED
    <3>1. u \in T
      BY <1>1, <1>6, <2>1
    <3> QED BY <1>3, <3>1
  <2>2. CASE ~(u <= t + MAX_SKIPPED)
    BY <1>1, <1>5, <1>6, <2>2
  <2> QED BY <2>1, <2>2
<1> QED BY <1>4, <1>5, <1>6

\* The start on a later day is never before the one on an earlier day.
LEMMA StartsInOrder ==
  ASSUME ClockChangesAreShort, NEW rule, rule.time \in 0..(PerDay - 1),
         NEW d \in Days, NEW e \in Days
  PROVE  /\ StartOn(rule, d) \in Nat /\ d * PerDay <= StartOn(rule, d)
         /\ d <= e => StartOn(rule, d) <= StartOn(rule, e)
<1> DEFINE t == d * PerDay + rule.time
           u == e * PerDay + rule.time
<1>1. /\ d \in Nat /\ d * PerDay \in Nat /\ t \in Instant
      /\ e \in Nat /\ e * PerDay \in Nat /\ u \in Instant
  BY InstantOf
<1>2. PerDay \in Nat \ {0} /\ rule.time \in Nat
  BY Calendar
<1>3. StartOn(rule, d) = ToUtcOrLater(t) /\ StartOn(rule, e) = ToUtcOrLater(u)
  BY DEF StartOn
<1>4. d <= e => t <= u
  <2>1. d <= e => PerDay * d <= PerDay * e
    BY <1>1, <1>2, Multiples
  <2>2. d * PerDay = PerDay * d /\ e * PerDay = PerDay * e
    BY <1>1, <1>2, Multiples
  <2> QED BY <1>1, <1>2, <2>1, <2>2
<1>5. d * PerDay <= t /\ t \in Nat /\ u \in Nat
  BY <1>1, <1>2
<1> HIDE DEF t, u
<1>6. /\ ToUtcOrLater(t) \in Nat /\ t <= ToUtcOrLater(t)
      /\ \A n \in Nat : t <= n /\ n \notin Skipped => ToUtcOrLater(t) <= n
  BY <1>1, FirstShown
<1>7. ToUtcOrLater(u) \in Nat /\ u <= ToUtcOrLater(u) /\ ToUtcOrLater(u) \notin Skipped
  BY <1>1, FirstShown
<1>8. t <= u => ToUtcOrLater(t) <= ToUtcOrLater(u)
  BY <1>5, <1>6, <1>7
<1> QED BY <1>1, <1>3, <1>4, <1>5, <1>6, <1>8

\* No day before today has a start to come: a change of the clock pushes a
\* start to the end of its day at most.
LEMMA PastDaysAreOver ==
  ASSUME ClockChangesAreShort, NEW rule, rule.time \in 0..(PerDay - 1),
         NEW after \in Instant, NEW d \in Days, StartOn(rule, d) > after
  PROVE  DayOf(after) <= d
<1> DEFINE a == DayOf(after)
           t == d * PerDay + rule.time
<1> SUFFICES ASSUME ~(a <= d) PROVE FALSE
  OBVIOUS
<1>1. after \in Nat /\ a \in Days /\ a \in Nat /\ a * PerDay <= after /\ a * PerDay \in Nat
  <2>1. /\ after \in Nat /\ a \in Days /\ a * PerDay <= after
    BY DayOfInstant
  <2>2. 0 \in 0..(PerDay - 1)
    BY Calendar
  <2> QED BY <2>1, <2>2, InstantOf
<1>2. PerDay \in Nat \ {0} /\ rule.time \in 0..(PerDay - 1)
  BY Calendar
<1>3. d \in Nat /\ d * PerDay \in Nat /\ t \in Instant
  BY InstantOf
<1>4. StartOn(rule, d) = ToUtcOrLater(t)
  BY DEF StartOn
<1> HIDE DEF a
<1>5. d < a
  BY <1>1, <1>3
<1>6. d * PerDay + PerDay <= a * PerDay
  <2>1. d < a => PerDay * d + PerDay <= PerDay * a
    BY <1>1, <1>2, <1>3, Multiples
  <2>2. d * PerDay = PerDay * d /\ a * PerDay = PerDay * a
    BY <1>1, <1>2, <1>3, Multiples
  <2> QED BY <1>5, <2>1, <2>2
<1>7. a * PerDay \notin Skipped \/ a * PerDay - 1 \notin Skipped
  BY <1>1 DEF ClockChangesAreShort
<1>8. t <= a * PerDay - 1 /\ a * PerDay - 1 \in Nat
  BY <1>1, <1>2, <1>3, <1>6
<1>9. t \in Nat /\ t <= a * PerDay
  BY <1>1, <1>2, <1>3, <1>8
<1> HIDE DEF t
<1>10. \A n \in Nat : t <= n /\ n \notin Skipped => ToUtcOrLater(t) <= n
  BY <1>3, FirstShown
<1>11. ToUtcOrLater(t) \in Nat
  BY <1>3, FirstShown
<1>12. ToUtcOrLater(t) <= a * PerDay
  <2>1. CASE a * PerDay \notin Skipped
    BY <1>1, <1>9, <1>10, <2>1
  <2>2. CASE a * PerDay - 1 \notin Skipped
    <3>1. ToUtcOrLater(t) <= a * PerDay - 1
      BY <1>8, <1>10, <2>2
    <3> QED BY <1>1, <1>11, <3>1
  <2> QED BY <1>7, <2>1, <2>2
<1> QED BY <1>1, <1>4, <1>11, <1>12

-----------------------------------------------------------------------------
(* next_after finds the first start the rule means                         *)

\* A rule that some first start set.
SetRule == {FromFirst(rhythm, t) : rhythm \in {"weekly", "monthly"}, t \in Instant}

\* Such a rule has a weekday, a time of day and, by the month, a rank.
LEMMA SetRuleIs ==
  ASSUME NEW rule \in SetRule
  PROVE  /\ rule.time \in 0..(PerDay - 1) /\ rule.weekday \in 0..(Week - 1)
         /\ rule.rhythm # "weekly" => rule.rank \in Rank
<1>1. PICK rhythm \in {"weekly", "monthly"}, t \in Instant : rule = FromFirst(rhythm, t)
  BY DEF SetRule
<1> DEFINE d == DayOf(t)
           m == MonthOf(d)
<1>2. d \in Days /\ TimeOf(t) \in 0..(PerDay - 1)
  BY DayOfInstant
<1>3. d \in Nat /\ m \in Months
  BY <1>2, MonthOfDay
<1>4. Weekday(d) \in 0..(Week - 1)
  <2>1. d \in Int /\ Week \in Nat \ {0}
    BY <1>3, Calendar
  <2> QED BY <2>1, DivMod DEF Weekday
<1>5. /\ rule.time = TimeOf(t) /\ rule.weekday = Weekday(d)
      /\ rule.rhythm = rhythm
      /\ rhythm # "weekly" => rule.rank = RankOfDay(DayOfMonth(d))
  BY <1>1 DEF FromFirst
<1>6. RankOfDay(DayOfMonth(d)) \in Rank
  <2>1. PICK j \in 0..4 : (d - FirstDays[m]) \div Week = j
    BY <1>2, DayIsAlike
  <2>2. (d - FirstDays[m] + 1) - 1 = d - FirstDays[m]
    BY <1>3, Calendar
  <2>3. RankOfDay(DayOfMonth(d)) = j + 1
    BY <2>1, <2>2 DEF RankOfDay, DayOfMonth
  <2> QED BY <2>3 DEF Rank, LastRank
<1> QED BY <1>2, <1>4, <1>5, <1>6

\* Every day a search looks at is one the rule means.
LEMMA SearchIsMeant ==
  ASSUME NEW rule \in SetRule, NEW today \in Days, NEW d \in DaysFrom(rule, today)
  PROVE  d \in Days /\ Means(rule, d)
<1>1. d \in Days
  BY DEF DaysFrom
<1>2. /\ rule.weekday \in 0..(Week - 1) /\ (rule.rhythm # "weekly" => rule.rank \in Rank)
      /\ today \in Nat /\ Week \in Nat \ {0}
  BY SetRuleIs, MonthOfDay, Calendar
<1>3. CASE rule.rhythm = "weekly"
  <2> DEFINE f == today + ((rule.weekday - today) % Week)
  <2>1. PICK w \in 0..(WEEKS_AHEAD - 1) : d = f + Week * w
    BY <1>3 DEF DaysFrom
  <2>2. f % Week = rule.weekday
    <3> DEFINE v == rule.weekday
    <3>1. v \in 0..(Week - 1) /\ today \in Int
      BY <1>2
    <3> HIDE DEF v
    <3>2. (today + ((v - today) % Week)) % Week = v
      BY <1>2, <3>1, Ahead
    <3> QED BY <3>2 DEF v
  <2>3. f \in Int /\ w \in Int
    <3>1. rule.weekday - today \in Int
      BY <1>2
    <3>2. (rule.weekday - today) % Week \in 0..(Week - 1)
      BY <1>2, <3>1, DivMod
    <3> QED BY <1>2, <3>2, CalendarAssumption
  <2> HIDE DEF f
  <2>4. (f + Week * w) % Week = f % Week
    BY <1>2, <2>3, Shifted
  <2> QED BY <1>1, <1>3, <2>1, <2>2, <2>4 DEF Means, Weekday
<1>4. CASE rule.rhythm # "weekly"
  <2>1. PICK m \in Months : d = DayIn(rule.rank, m, rule.weekday)
    BY <1>4 DEF DaysFrom
  <2>2. MonthOf(d) = m
    BY <1>2, <1>4, <2>1, DayInIs
  <2> QED BY <1>1, <1>2, <1>4, <2>1, <2>2, MeansDayIn
<1> QED BY <1>3, <1>4

\* No day the rule means is nearer than the search's: for one that is today or
\* later, there is today, or a later one no later than it.
LEMMA SearchIsEnough ==
  ASSUME SearchesReach, NEW rule \in SetRule, NEW today \in Days,
         NEW d \in Days, Means(rule, d), today <= d
  PROVE  \/ d \in DaysFrom(rule, today)
         \/ \E e \in DaysFrom(rule, today) : today < e /\ e <= d
<1>1. /\ rule.weekday \in 0..(Week - 1) /\ (rule.rhythm # "weekly" => rule.rank \in Rank)
      /\ today \in Nat /\ d \in Nat /\ Week \in Nat \ {0}
  BY SetRuleIs, MonthOfDay, Calendar
<1>2. CASE rule.rhythm = "weekly"
  <2> DEFINE x == rule.weekday - today
             r == x % Week
             f == today + r
  <2>1. x \in Int
    BY <1>1
  <2>2. r \in 0..(Week - 1)
    BY <1>1, <2>1, DivMod
  <2>3. f % Week = rule.weekday
    <3> DEFINE v == rule.weekday
    <3>1. v \in 0..(Week - 1) /\ today \in Int
      BY <1>1
    <3> HIDE DEF v
    <3>2. (today + ((v - today) % Week)) % Week = v
      BY <1>1, <3>1, Ahead
    <3> QED BY <3>2 DEF v
  <2>4. d % Week = rule.weekday
    BY DEF Means, Weekday
  <2> DEFINE p == f \div Week
             q == d \div Week
  <2> HIDE DEF r, x
  <2>5. f \in Int
    BY <1>1, <2>2
  <2>6. f = Week * p + rule.weekday /\ p \in Int
    <3> HIDE DEF f
    <3> QED BY <1>1, <2>3, <2>5, DivMod
  <2>7. d = Week * q + rule.weekday /\ q \in Int
    <3>1. d \in Int
      BY <1>1
    <3> QED BY <1>1, <2>4, <3>1, DivMod
  <2> HIDE DEF p, q
  <2>8. f <= d
    <3>1. q < p => Week * q + Week <= Week * p
      BY <1>1, <2>6, <2>7, Multiples
    <3>2. p <= q => Week * p <= Week * q
      BY <1>1, <2>6, <2>7, Multiples
    <3> QED BY <1>1, <2>2, <2>5, <2>6, <2>7, <3>1, <3>2
  <2>9. d = f \/ f + Week <= d
    <3>1. p < q => Week * p + Week <= Week * q
      BY <1>1, <2>6, <2>7, Multiples
    <3>2. q < p => Week * q + Week <= Week * p
      BY <1>1, <2>6, <2>7, Multiples
    <3>3. p = q => d = f
      BY <2>6, <2>7
    <3>4. p < q => f + Week <= d
      <4> HIDE DEF f
      <4> QED BY <1>1, <2>5, <2>6, <2>7, <3>1
    <3>5. ~(q < p)
      <4> HIDE DEF f
      <4> QED BY <1>1, <2>5, <2>6, <2>7, <2>8, <3>2
    <3> QED BY <2>6, <2>7, <3>3, <3>4, <3>5
  <2>10. \A w \in {0, 1} : f + Week * w \in Days => f + Week * w \in DaysFrom(rule, today)
    <3>1. 0 \in 0..(WEEKS_AHEAD - 1) /\ 1 \in 0..(WEEKS_AHEAD - 1)
      BY CalendarAssumption DEF SearchesReach
    <3> QED BY <1>2, <3>1 DEF DaysFrom, f, r, x
  <2>11. CASE d = f
    <3>1. f + Week * 0 = f
      BY <1>1, <2>5
    <3> QED BY <2>10, <2>11, <3>1
  <2>12. CASE f + Week <= d
    <3>1. f + Week * 1 = f + Week
      BY <1>1, <2>5
    <3>2. today < f + Week /\ f + Week \in Int
      BY <1>1, <2>2, <2>5
    <3>3. f + Week \in Days
      <4>1. 1 \in 1..Len(FirstDays) /\ Len(FirstDays) \in 1..Len(FirstDays)
        BY Calendar
      <4>2. FirstDays[1] \in Nat /\ FirstDays[Len(FirstDays)] \in Nat
        BY <4>1, Calendar
      <4>3. FirstDays[1] <= today /\ d < FirstDays[Len(FirstDays)]
        BY <1>1, <4>2 DEF Days
      <4> QED BY <1>1, <2>12, <3>2, <4>2, <4>3 DEF Days
    <3> QED BY <2>10, <2>12, <3>1, <3>2, <3>3
  <2> QED BY <2>9, <2>11, <2>12
<1>3. CASE rule.rhythm # "weekly"
  <2> DEFINE m == MonthOf(d)
             k == MonthOf(today)
             near == Months \cap (k..(k + MAX_MONTHS_AHEAD - 1))
  <2>1. m \in Months /\ k \in Months /\ k <= m
    BY MonthOfDay, MonthsInOrder
  <2>2. d = DayIn(rule.rank, m, rule.weekday)
    BY <1>1, <1>3, MeansDayIn
  <2>3. \A n \in near : DayIn(rule.rank, n, rule.weekday) \in Days
                          => DayIn(rule.rank, n, rule.weekday) \in DaysFrom(rule, today)
    BY <1>3 DEF DaysFrom
  <2>4. MAX_MONTHS_AHEAD \in Nat /\ MAX_MONTHS_AHEAD >= 2 /\ Months \subseteq Nat
    BY CalendarAssumption DEF SearchesReach, Months
  <2> HIDE DEF m, k
  <2>5. CASE m <= k + 1
    <3>1. m \in near
      BY <2>1, <2>4, <2>5
    <3> QED BY <2>2, <2>3, <3>1
  <2>6. CASE ~(m <= k + 1)
    <3> DEFINE e == DayIn(rule.rank, k + 1, rule.weekday)
    <3>1. k + 1 \in near
      <4>1. k + 1 \in Months
        BY <2>1, <2>4, <2>6, Calendar DEF Months
      <4> QED BY <2>1, <2>4, <4>1
    <3>2. e \in Days /\ MonthOf(e) = k + 1
      BY <1>1, <1>3, <3>1, DayInIs
    <3> HIDE DEF e
    <3>3. today < e
      <4>1. k < k + 1
        BY <2>1, <2>4
      <4> QED BY <3>2, <4>1, MonthsInOrder DEF k
    <3>4. e < d
      <4>1. k + 1 < m
        BY <2>1, <2>4, <2>6
      <4> QED BY <3>2, <4>1, MonthsInOrder DEF m
    <3>5. e \in Nat
      BY <3>2, MonthOfDay
    <3> QED BY <1>1, <2>3, <3>1, <3>2, <3>3, <3>4, <3>5 DEF e
  <2> QED BY <2>5, <2>6
<1> QED BY <1>2, <1>3

\* next_after: the first start on a day the rule means, after an instant.
LEMMA FirstMeant ==
  ASSUME ClockChangesAreShort, SearchesReach, NEW rule \in SetRule, NEW after \in Instant
  PROVE  LET starts == Instant \cap {StartOn(rule, d) : d \in {e \in Days : Means(rule, e)}}
             ahead  == {t \in starts : t > after}
         IN  NextAfter(rule, after) = IF ahead = {} THEN Never ELSE Earliest(ahead)
<1> DEFINE starts == Instant \cap {StartOn(rule, d) : d \in {e \in Days : Means(rule, e)}}
           ahead  == {t \in starts : t > after}
           found  == {t \in {StartOn(rule, d) : d \in DaysFrom(rule, DayOf(after))} \cap Instant :
                        t > after}
           today  == DayOf(after)
<1>1. NextAfter(rule, after) = IF found = {} THEN Never ELSE Earliest(found)
  BY DEF NextAfter
<1>2. today \in Days /\ after \in Nat /\ after < today * PerDay + PerDay
  BY DayOfInstant
<1>3. rule.time \in 0..(PerDay - 1)
  BY SetRuleIs
<1>4. found \subseteq ahead
  BY <1>2, SearchIsMeant
<1>5. ASSUME NEW t \in ahead PROVE \E u \in found : u <= t
  <2>1. PICK d \in Days : Means(rule, d) /\ t = StartOn(rule, d)
    OBVIOUS
  <2>2. t \in Instant /\ t > after
    OBVIOUS
  <2>3. today <= d
    BY <1>3, <2>1, <2>2, PastDaysAreOver
  <2>4. CASE d \in DaysFrom(rule, today)
    <3>1. t \in Nat
      BY <2>2, DayOfInstant
    <3>2. t \in found
      BY <2>1, <2>2, <2>4
    <3> QED BY <3>1, <3>2
  <2>5. CASE \E e \in DaysFrom(rule, today) : today < e /\ e <= d
    <3>1. PICK e \in DaysFrom(rule, today) : today < e /\ e <= d
      BY <2>5
    <3>2. e \in Days
      BY <3>1 DEF DaysFrom
    <3>3. /\ StartOn(rule, e) \in Nat /\ e * PerDay <= StartOn(rule, e)
          /\ StartOn(rule, e) <= t
      BY <1>3, <2>1, <3>1, <3>2, StartsInOrder
    <3>4. after < e * PerDay
      <4>1. today \in Nat /\ e \in Nat /\ PerDay \in Nat \ {0}
        BY <1>2, <3>2, MonthOfDay, Calendar
      <4> HIDE DEF today
      <4>2. today < e => PerDay * today + PerDay <= PerDay * e
        BY <4>1, Multiples
      <4>3. PerDay * today = today * PerDay /\ PerDay * e = e * PerDay
        BY <4>1, Multiples
      <4> QED BY <1>2, <3>1, <4>1, <4>2, <4>3
    <3>5. StartOn(rule, e) \in Instant
      <4>1. t \in Nat /\ after \in Nat
        BY <2>2, DayOfInstant
      <4>2. e * PerDay \in Nat
        BY <1>3, <3>2, InstantOf
      <4>3. StartOn(rule, e) > after
        BY <3>3, <3>4, <4>1, <4>2
      <4>4. \A n \in Nat : after < n /\ n <= t => n \in Instant
        <5>1. /\ FirstDays[1] * PerDay \in Int
              /\ FirstDays[Len(FirstDays)] * PerDay \in Int
          <6>1. 1 \in 1..Len(FirstDays) /\ Len(FirstDays) \in 1..Len(FirstDays)
            BY Calendar
          <6>2. /\ FirstDays[1] \in Nat /\ FirstDays[Len(FirstDays)] \in Nat
                /\ PerDay \in Nat
            BY <6>1, Calendar
          <6> QED BY <6>2
        <5> QED BY <2>2, <4>1, <5>1 DEF Instant
      <4> QED BY <3>3, <4>3, <4>4
    <3>6. StartOn(rule, e) > after
      <4>1. e * PerDay \in Nat
        BY <1>3, <3>2, InstantOf
      <4> QED BY <1>2, <3>3, <3>4, <4>1
    <3>7. StartOn(rule, e) \in found
      BY <3>1, <3>5, <3>6
    <3> QED BY <3>3, <3>7
  <2> QED BY <2>1, <2>3, <2>4, <2>5, <1>2, SearchIsEnough
<1>6. ahead \in SUBSET Nat
  <2>1. \A t \in Instant : t \in Nat
    BY DayOfInstant
  <2> QED BY <2>1
<1> HIDE DEF ahead, found
<1>7. NextAfter(rule, after) = IF ahead = {} THEN Never ELSE Earliest(ahead)
  <2>1. CASE ahead = {}
    BY <1>1, <1>4, <2>1
  <2>2. CASE ahead # {}
    <3>1. found # {} /\ found \in SUBSET Nat
      BY <1>4, <1>5, <1>6, <2>2
    <3>2. Earliest(found) \in found /\ \A u \in found : Earliest(found) <= u
      BY <3>1, EarliestIs
    <3>3. Earliest(ahead) \in ahead /\ \A u \in ahead : Earliest(ahead) <= u
      BY <1>6, <2>2, EarliestIs
    <3>4. PICK u \in found : u <= Earliest(ahead)
      BY <1>5, <3>3
    <3>5. Earliest(ahead) <= Earliest(found) /\ Earliest(found) <= u /\ u \in Nat
      BY <1>4, <3>1, <3>2, <3>3, <3>4
    <3>6. Earliest(found) \in Nat /\ Earliest(ahead) \in Nat
      BY <1>6, <3>1, <3>2, <3>3
    <3>7. Earliest(found) = Earliest(ahead)
      BY <3>4, <3>5, <3>6
    <3> QED BY <1>1, <2>2, <3>1, <3>7
  <2> QED BY <2>1, <2>2
<1> QED BY <1>7 DEF ahead

-----------------------------------------------------------------------------
(* The times a series meets                                                *)

\* The times there are lie on the calendar, and the rule is one a start set.
OnCalendar ==
  /\ clock \in Instant /\ series.next \in Instant /\ series.rule \in SetRule
  /\ run.read.next \in Instant /\ edit.start \in Instant
  /\ \A s \in Sessions : session[s].start \in Instant

\* next_after gives an instant of the calendar, or none.
LEMMA NextOnCalendar ==
  ASSUME NEW rule, NEW after, NextAfter(rule, after) # Never
  PROVE  NextAfter(rule, after) \in Instant
<1> DEFINE found == {t \in {StartOn(rule, d) : d \in DaysFrom(rule, DayOf(after))} \cap Instant :
                       t > after}
<1>1. NextAfter(rule, after) = IF found = {} THEN Never ELSE Earliest(found)
  BY DEF NextAfter
<1>2. found \in SUBSET Nat /\ found \subseteq Instant
  <2>1. \A t \in Instant : t \in Nat
    BY DayOfInstant
  <2> QED BY <2>1
<1> HIDE DEF found
<1>3. found # {}
  BY <1>1
<1> QED BY <1>1, <1>2, <1>3, EarliestIs

\* What is not there yet starts with the calendar.
LEMMA FirstOnCalendar == FirstInstant \in Instant
<1>1. 1 \in Months /\ 1 \in 1..Len(FirstDays)
  BY Calendar DEF Months
<1>2. FirstDays[1] \in FirstDays[1]..(FirstDays[1 + 1] - 1) /\ FirstDays[1] \in Nat
  <2>1. /\ FirstDays[1] \in Nat /\ FirstDays[1 + 1] \in Nat /\ Week \in Nat \ {0}
        /\ FirstDays[1] + 4 * Week <= FirstDays[1 + 1]
    BY <1>1, Calendar
  <2> QED BY <2>1
<1>3. FirstDays[1] \in Days
  BY <1>1, <1>2, MonthIs
<1>4. 0 \in 0..(PerDay - 1)
  BY Calendar
<1>5. FirstDays[1] * PerDay \in Nat /\ FirstDays[1] * PerDay + 0 \in Instant
  BY <1>3, <1>4, InstantOf
<1> QED BY <1>5 DEF FirstInstant

\* The calendar is taken from its first instant on.
LEMMA CalendarInit == Init => OnCalendar
<1> SUFFICES ASSUME Init PROVE OnCalendar
  OBVIOUS
<1>1. FirstInstant \in Instant
  BY FirstOnCalendar
<1>2. \A s \in Sessions : session[s].start = FirstInstant
  BY DEF Init, NoSession
<1>3. NoSeries.next = FirstInstant /\ NoSeries.rule \in SetRule
  BY <1>1 DEF NoSeries, SetRule
<1>4. series = NoSeries /\ run.read = NoSeries /\ edit.start = FirstInstant /\ clock = FirstInstant
  BY DEF Init, IdleRun, IdleEdit
<1> QED BY <1>1, <1>2, <1>3, <1>4 DEF OnCalendar

\* One step, action by action.
LEMMA CalendarStep == RowsTyped /\ OnCalendar /\ [Next]_vars => OnCalendar'
<1> SUFFICES ASSUME RowsTyped, OnCalendar, [Next]_vars PROVE OnCalendar'
  OBVIOUS
<1>a. /\ IdleRun.read.next \in Instant /\ IdleEdit.start \in Instant
      /\ NoSession.start \in Instant
  BY FirstOnCalendar DEF IdleRun, IdleEdit, NoSeries, NoSession
<1>b. Starts \subseteq Instant /\ Horizon \in Instant
  BY SeriesAssumption
<1>c. session \in [Sessions -> SessionT] /\ series \in SeriesT /\ run \in RunT /\ edit \in EditT
  BY DEF RowsTyped
<1>1. ASSUME NEW s \in Sessions, NEW rhythm \in {"weekly", "monthly"}, NEW start \in Starts,
             NEW length \in Lengths, Announce(s, rhythm, start, length)
      PROVE  OnCalendar'
  <2>1. NextAfter(FromFirst(rhythm, start), start) \in Instant
    BY <1>1, NextOnCalendar DEF Announce
  <2>2. FromFirst(rhythm, start) \in SetRule
    BY <1>b DEF SetRule
  <2>3. series'.next \in Instant /\ series'.rule \in SetRule
    BY <1>1, <2>1, <2>2 DEF Announce
  <2>4. [NoSession EXCEPT !.lifecycle = "scheduled", !.start = start, !.length = length].start = start
    BY DEF NoSession
  <2>5. \A o \in Sessions : session'[o].start \in Instant
    BY <1>1, <1>b, <1>c, <2>4 DEF Announce, OnCalendar
  <2> QED BY <1>1, <2>3, <2>5 DEF Announce, OnCalendar
<1>2. ASSUME Stop PROVE OnCalendar'
  <2>1. series'.next = series.next /\ series'.rule = series.rule
    BY <1>2, <1>c DEF Stop, SeriesT
  <2>2. \A s \in Sessions : Stopped(session[s]).start = session[s].start
    BY <1>c DEF Stopped, SessionT
  <2>3. \A s \in Sessions : session'[s].start \in Instant
    BY <1>2, <2>2 DEF Stop, OnCalendar
  <2> QED BY <1>2, <2>1, <2>3 DEF Stop, OnCalendar
<1>3. ASSUME NEW s \in Sessions, NEW next, Move(s, next) PROVE OnCalendar'
  <2>1. \A o \in Sessions : session'[o].start = session[o].start
    BY <1>3, <1>c DEF Move, SessionT
  <2> QED BY <1>3, <2>1 DEF Move, OnCalendar
<1>4. ASSUME NEW s \in Sessions, Revert(s) PROVE OnCalendar'
  <2>1. \A o \in Sessions : session'[o].start = session[o].start
    BY <1>4, <1>c DEF Revert, SessionT
  <2> QED BY <1>4, <2>1 DEF Revert, OnCalendar
<1>5. ASSUME NEW s \in Sessions, DeleteSession(s) PROVE OnCalendar'
  <2>1. \A o \in Sessions : session'[o].start \in Instant
    BY <1>5, <1>a, <1>c DEF DeleteSession, OnCalendar
  <2> QED BY <1>5, <2>1 DEF DeleteSession, OnCalendar
<1>6. ASSUME NEW s \in Sessions, NEW start \in Instant, NEW length,
             UpdateAlone(s, start, length)
      PROVE  OnCalendar'
  <2>1. \A o \in Sessions : session'[o].start \in Instant
    BY <1>6, <1>c DEF UpdateAlone, OnCalendar, SessionT
  <2> QED BY <1>6, <2>1 DEF UpdateAlone, OnCalendar
<1>7. ASSUME NEW s \in Sessions, NEW start \in Instant, NEW length,
             EditStart(s, start, length)
      PROVE  OnCalendar'
  <2>1. \A o \in Sessions : session'[o].start \in Instant
    BY <1>7, <1>c DEF EditStart, OnCalendar, SessionT
  <2>2. edit'.start \in Instant
    BY <1>7, <1>a DEF EditStart, IdleEdit
  <2> QED BY <1>7, <2>1, <2>2 DEF EditStart, OnCalendar
<1>8. ASSUME EditRead PROVE OnCalendar'
  <2>1. edit.s \in Sessions
    BY <1>8 DEF EditRead, RowsTyped
  <2>2. edit'.start \in Instant
    BY <1>8, <1>a, <1>c, <2>1 DEF EditRead, EditT, OnCalendar
  <2> QED BY <1>8, <2>2 DEF EditRead, OnCalendar
<1>9. ASSUME CarryForward PROVE OnCalendar'
  <2>1. clock' = clock /\ run' = run /\ edit'.start \in Instant
    BY <1>9, <1>a DEF CarryForward
  <2>2. CASE series.state = "on" /\ Following # Never
    <3>1. Following \in Instant
      BY <2>2, NextOnCalendar DEF Following
    <3>2. Cursor(Following) \in Instant
      BY <3>1, NextOnCalendar DEF Cursor
    <3>3. CarriedRule \in SetRule
      BY <1>c DEF CarriedRule, SetRule, OnCalendar, EditT, Rhythm
    <3>4. series'.next \in Instant /\ series'.rule \in SetRule
      BY <1>9, <1>c, <2>2, <3>2, <3>3 DEF CarryForward, SeriesT
    <3>5. PICK one \in SUBSET Sessions :
            session' = [s \in Sessions |->
              IF s \notin one THEN session[s]
              ELSE [session[s] EXCEPT !.start = Following, !.length = edit.length,
                      !.content = edit.content, !.services = edit.version]]
      <4>1. NextOne \subseteq Sessions
        BY DEF NextOne, Waiting
      <4> QED BY <1>9, <2>2, <4>1 DEF CarryForward
    <3>6. \A s \in Sessions : session'[s].start \in Instant
      BY <1>c, <3>1, <3>5 DEF SessionT, OnCalendar
    <3> QED BY <2>1, <3>4, <3>6 DEF OnCalendar
  <2>3. CASE ~(series.state = "on" /\ Following # Never)
    <3>1. series' = series /\ session' = session
      BY <1>9, <2>3 DEF CarryForward
    <3> QED BY <2>1, <3>1 DEF OnCalendar
  <2> QED BY <2>2, <2>3
<1>10. ASSUME EditFails PROVE OnCalendar'
  BY <1>10, <1>a DEF EditFails, OnCalendar
<1>11. ASSUME MoveDue PROVE OnCalendar'
  <2>1. \A s \in Sessions : Completed(Started(session[s], clock), clock).start = session[s].start
    BY <1>c DEF Completed, Started, SessionT
  <2>2. \A s \in Sessions : session'[s].start \in Instant
    BY <1>11, <2>1 DEF MoveDue, OnCalendar
  <2>3. run'.read = run.read
    BY <1>11, <1>c DEF MoveDue, RunT
  <2> QED BY <1>11, <2>2, <2>3 DEF MoveDue, OnCalendar
<1>12. ASSUME AwaitingSession PROVE OnCalendar'
  <2>1. [series EXCEPT !.services = 0].next = series.next
    BY <1>c DEF SeriesT
  <2>2. run'.read.next \in Instant
    BY <1>12, <1>a, <1>c, <2>1 DEF AwaitingSession, RunT, OnCalendar
  <2> QED BY <1>12, <2>2 DEF AwaitingSession, OnCalendar
<1>13. ASSUME NEW s \in Sessions, AddSession(s) PROVE OnCalendar'
  <2> DEFINE start == NextSessionStart(run.read, run.now)
             following == NextAfter(run.read.rule, start)
  <2>1. /\ clock' = clock /\ edit' = edit /\ run' = IdleRun
        /\ IF HasDates(start, following) /\ AsRead(run.read)
           THEN /\ series' = [series EXCEPT !.next = following]
                /\ session' = [session EXCEPT ![s] =
                     [NoSession EXCEPT !.lifecycle = "scheduled", !.start = start,
                        !.length = run.read.length, !.content = run.read.content,
                        !.services = series.services]]
           ELSE series' = series /\ session' = session
    BY <1>13 DEF AddSession
  <2>2. CASE HasDates(start, following) /\ AsRead(run.read)
    <3>1. start \in Instant
      BY <2>2, NextOnCalendar DEF HasDates, NextSessionStart, OnCalendar
    <3>2. following \in Instant
      BY <2>2, NextOnCalendar DEF HasDates
    <3> HIDE DEF start, following
    <3>3. series'.next \in Instant /\ series'.rule \in SetRule
      BY <1>c, <2>1, <2>2, <3>2 DEF SeriesT, OnCalendar
    <3>4. [NoSession EXCEPT !.lifecycle = "scheduled", !.start = start,
             !.length = run.read.length, !.content = run.read.content,
             !.services = series.services].start = start
      BY DEF NoSession
    <3>5. \A o \in Sessions : session'[o].start \in Instant
      BY <1>c, <2>1, <2>2, <3>1, <3>4 DEF OnCalendar
    <3> QED BY <1>a, <2>1, <3>3, <3>5 DEF OnCalendar
  <2>3. CASE ~(HasDates(start, following) /\ AsRead(run.read))
    <3>1. series' = series /\ session' = session
      BY <2>1, <2>3
    <3> QED BY <1>a, <2>1, <3>1 DEF OnCalendar
  <2> QED BY <2>2, <2>3
<1>14. ASSUME RunFails PROVE OnCalendar'
  BY <1>14, <1>a DEF RunFails, OnCalendar
<1>15. ASSUME Tick PROVE OnCalendar'
  <2>1. clock' \in Instant
    <3>1. clock \in Nat /\ Horizon \in Nat /\ clock < Horizon /\ clock' = clock + 1
      BY <1>15, <1>b, DayOfInstant DEF OnCalendar, Tick
    <3>2. /\ FirstDays[1] * PerDay \in Int /\ FirstDays[Len(FirstDays)] * PerDay \in Int
      <4>1. 1 \in 1..Len(FirstDays) /\ Len(FirstDays) \in 1..Len(FirstDays)
        BY Calendar
      <4>2. /\ FirstDays[1] \in Nat /\ FirstDays[Len(FirstDays)] \in Nat /\ PerDay \in Nat
        BY <4>1, Calendar
      <4> QED BY <4>2
    <3> QED BY <1>b, <3>1, <3>2 DEF OnCalendar, Instant
  <2> QED BY <1>15, <2>1 DEF Tick, OnCalendar
<1>16. ASSUME UNCHANGED vars PROVE OnCalendar'
  BY <1>16 DEF vars, OnCalendar
<1>17. ASSUME NEW s \in Sessions, NEW start \in Starts, NEW length \in Lengths,
              UpdateAlone(s, start, length) \/ EditStart(s, start, length)
       PROVE  OnCalendar'
  BY <1>17, <1>b, <1>6, <1>7
<1>18. ASSUME NEW s \in Sessions, NEW length \in Lengths,
              EditStart(s, session[s].start, length)
       PROVE  OnCalendar'
  BY <1>18, <1>7 DEF OnCalendar
<1>19. ASSUME Schedule PROVE OnCalendar'
  BY <1>19, <1>11, <1>12, <1>13 DEF Schedule
<1> QED
  BY <1>1, <1>2, <1>3, <1>4, <1>5, <1>8, <1>9, <1>10, <1>14, <1>15, <1>16, <1>17, <1>18, <1>19
     DEF Next

\* Whatever the calendar and the rule, monthly or weekly, the last weekday of
\* a month or another, and whatever the team and the clock do, next_after gives
\* the first start the rule means, after now and after the slot the series
\* waits for, and the rule from_first reads from a session's start means that
\* day.  The clock is only set forward by less than to_utc_or_later looks past,
\* and never across a midnight, and a search reaches the next week and month.
THEOREM RuleDatesHold ==
  ASSUME ClockChangesAreShort, SearchesReach
  PROVE  Spec => []DatesFollowTheRule
<1>1. IndInv /\ OnCalendar => DatesFollowTheRule
  <2> SUFFICES ASSUME IndInv, OnCalendar PROVE DatesFollowTheRule
    OBVIOUS
  <2>1. RuleMeansItsFirst
    BY FirstIsMeant DEF RuleMeansItsFirst, OnCalendar
  <2>2. NextIsTheFirst
    <3>1. series.rule \in SetRule /\ {clock, series.next} \subseteq Instant
      BY DEF OnCalendar
    <3>2. ASSUME NEW after \in {clock, series.next}
          PROVE  NextAfter(series.rule, after) =
                   IF {t \in Instant \cap {StartOn(series.rule, d) :
                         d \in {e \in Days : Means(series.rule, e)}} : t > after} = {}
                   THEN Never
                   ELSE Earliest({t \in Instant \cap {StartOn(series.rule, d) :
                         d \in {e \in Days : Means(series.rule, e)}} : t > after})
      BY <3>1, FirstMeant
    <3> QED BY <3>2 DEF NextIsTheFirst
  <2> QED BY <2>1, <2>2 DEF DatesFollowTheRule
<1>2. Init => IndInv /\ OnCalendar
  BY IndInvInit, CalendarInit
<1>3. IndInv /\ OnCalendar /\ [Next]_vars => (IndInv /\ OnCalendar)'
  BY IndInvStep, CalendarStep DEF IndInv
<1> QED BY <1>1, <1>2, <1>3, PTL DEF Spec

-----------------------------------------------------------------------------
(* CheckForms.  A host is cut out of a stored target and joined again.     *)

\* A set of naturals within a bound that is not empty has a greatest member.
LEMMA GreatestNumber ==
  ASSUME NEW n \in Nat, NEW T \in SUBSET (1..n), T # {}
  PROVE  \E m \in T : \A k \in T : k <= m
<1> DEFINE back == {n - k : k \in T}
<1>1. back \in SUBSET Nat /\ back # {}
  <2>1. \A k \in 1..n : n - k \in Nat
    OBVIOUS
  <2> QED BY <2>1
<1>2. PICK g \in back : \A h \in back : g <= h
  BY <1>1, LeastNumber
<1>3. PICK m \in T : g = n - m
  BY <1>2
<1>4. \A k \in T : k <= m
  <2> SUFFICES ASSUME NEW k \in T PROVE k <= m
    OBVIOUS
  <2>1. n - m <= n - k
    BY <1>2, <1>3
  <2> QED BY <2>1
<1> QED BY <1>4

\* What is left of a host: from the first part that is no opening bracket to
\* the last that is no closing one.
LEMMA BracketsGo ==
  ASSUME NEW S, NEW host \in Seq(S), NEW p \in 1..Len(host), NEW q \in p..Len(host),
         host[p] # "[", \A j \in 1..(p - 1) : host[j] = "[",
         host[q] # "]", \A j \in (q + 1)..Len(host) : host[j] = "]"
  PROVE  WithoutBrackets(host) = SubSeq(host, p, q)
<1> DEFINE n == Len(host)
           kept == {i \in DOMAIN host : /\ \E j \in 1..i : host[j] # "["
                                        /\ \E j \in i..Len(host) : host[j] # "]"}
<1>1. n \in Nat /\ DOMAIN host = 1..n
  OBVIOUS
<1>2. \A i \in 1..n : (\E j \in 1..i : host[j] # "[") <=> p <= i
  <2> SUFFICES ASSUME NEW i \in 1..n PROVE (\E j \in 1..i : host[j] # "[") <=> p <= i
    OBVIOUS
  <2>1. p <= i => p \in 1..i
    OBVIOUS
  <2>2. ~(p <= i) => \A j \in 1..i : j \in 1..(p - 1)
    OBVIOUS
  <2> QED BY <2>1, <2>2
<1>3. \A i \in 1..n : (\E j \in i..Len(host) : host[j] # "]") <=> i <= q
  <2> SUFFICES ASSUME NEW i \in 1..n
               PROVE  (\E j \in i..Len(host) : host[j] # "]") <=> i <= q
    OBVIOUS
  <2>1. i <= q => q \in i..Len(host)
    BY <1>1
  <2>2. ~(i <= q) => \A j \in i..Len(host) : j \in (q + 1)..Len(host)
    BY <1>1
  <2> QED BY <2>1, <2>2
<1>4. \A i : i \in kept <=> i \in 1..n /\ p <= i /\ i <= q
  BY <1>1, <1>2, <1>3
<1>5. kept = p..q
  <2>1. \A i : i \in kept <=> i \in p..q
    BY <1>1, <1>4
  <2> HIDE DEF kept
  <2> QED BY <2>1
<1>6. WithoutBrackets(host) =
        IF kept = {} THEN <<>>
        ELSE SubSeq(host, CHOOSE i \in kept : \A j \in kept : i <= j,
                          CHOOSE i \in kept : \A j \in kept : j <= i)
  BY DEF WithoutBrackets
<1> HIDE DEF kept
<1>7. kept # {}
  <2>1. p \in p..q
    OBVIOUS
  <2> QED BY <1>5, <2>1
<1>8. (CHOOSE i \in kept : \A j \in kept : i <= j) = p
  <2>1. \A i : (i \in kept /\ \A j \in kept : i <= j) <=> i = p
    BY <1>5
  <2> QED BY <2>1
<1>9. (CHOOSE i \in kept : \A j \in kept : j <= i) = q
  <2>1. \A i : (i \in kept /\ \A j \in kept : j <= i) <=> i = q
    BY <1>5
  <2> QED BY <2>1
<1> QED BY <1>6, <1>7, <1>8, <1>9

\* A host has no brackets left around it.
LEMMA BracketsGone ==
  ASSUME NEW S, NEW host \in Seq(S)
  PROVE  /\ WithoutBrackets(host) \in Seq(S)
         /\ WithoutBrackets(host) # <<>> =>
              /\ WithoutBrackets(host)[1] # "["
              /\ WithoutBrackets(host)[Len(WithoutBrackets(host))] # "]"
<1> DEFINE n == Len(host)
           kept == {i \in DOMAIN host : /\ \E j \in 1..i : host[j] # "["
                                        /\ \E j \in i..Len(host) : host[j] # "]"}
           bare == WithoutBrackets(host)
<1>1. n \in Nat /\ DOMAIN host = 1..n
  OBVIOUS
<1>2. CASE kept = {}
  <2>1. bare = <<>>
    BY <1>2, Zenon DEF WithoutBrackets
  <2>2. <<>> \in Seq(S)
    OBVIOUS
  <2> QED BY <2>1, <2>2
<1>3. CASE kept # {}
  <2>1. PICK i \in 1..n : /\ \E j \in 1..i : host[j] # "["
                          /\ \E j \in i..Len(host) : host[j] # "]"
    BY <1>1, <1>3
  <2> DEFINE opens == {j \in 1..n : host[j] # "["}
             closes == {j \in 1..n : host[j] # "]"}
  <2>2. PICK a \in 1..i : host[a] # "["
    BY <2>1
  <2>3. PICK b \in i..n : host[b] # "]"
    BY <2>1
  <2>4. a \in opens /\ b \in closes
    BY <1>1, <2>2, <2>3
  <2>5. opens \in SUBSET Nat /\ closes \in SUBSET (1..n)
    BY <1>1
  <2>6. PICK p \in opens : \A k \in opens : p <= k
    BY <2>4, <2>5, LeastNumber
  <2>7. PICK q \in closes : \A k \in closes : k <= q
    BY <1>1, <2>4, <2>5, GreatestNumber
  <2>8. p <= a /\ b <= q
    BY <2>4, <2>6, <2>7
  <2>9. /\ p \in 1..n /\ q \in 1..n /\ host[p] # "[" /\ host[q] # "]"
    BY <2>6, <2>7
  <2>10. q \in p..n
    BY <1>1, <2>8, <2>9
  <2>11. \A j \in 1..(p - 1) : host[j] = "["
    <3> SUFFICES ASSUME NEW j \in 1..(p - 1), host[j] # "[" PROVE FALSE
      OBVIOUS
    <3>1. j \in 1..n /\ ~(p <= j)
      BY <1>1, <2>9
    <3> QED BY <2>6, <3>1
  <2>12. \A j \in (q + 1)..n : host[j] = "]"
    <3> SUFFICES ASSUME NEW j \in (q + 1)..n, host[j] # "]" PROVE FALSE
      OBVIOUS
    <3>1. j \in 1..n /\ ~(j <= q)
      BY <1>1, <2>9
    <3> QED BY <2>7, <3>1
  <2>13. bare = SubSeq(host, p, q)
    BY <2>9, <2>10, <2>11, <2>12, BracketsGo
  <2>14. /\ SubSeq(host, p, q) \in Seq(S) /\ Len(SubSeq(host, p, q)) = q - p + 1
         /\ SubSeq(host, p, q)[1] = host[p] /\ SubSeq(host, p, q)[q - p + 1] = host[q]
    BY <1>1, <2>9, <2>10
  <2> HIDE DEF bare
  <2>15. bare \in Seq(S) /\ bare[1] # "[" /\ bare[Len(bare)] # "]"
    BY <2>9, <2>13, <2>14
  <2> USE DEF bare
  <2> QED BY <2>15
<1> QED BY <1>2, <1>3

\* A host with no brackets around it is itself, and so is one in brackets.
LEMMA BareStays ==
  ASSUME NEW S, NEW bare \in Seq(S), {"[", "]"} \subseteq S,
         bare # <<>> => bare[1] # "[" /\ bare[Len(bare)] # "]"
  PROVE  /\ WithoutBrackets(bare) = bare
         /\ bare # <<>> => WithoutBrackets(<<"[">> \o bare \o <<"]">>) = bare
<1>1. CASE bare = <<>>
  <2>1. DOMAIN bare = {}
    BY <1>1
  <2> QED BY <1>1, <2>1 DEF WithoutBrackets
<1>2. CASE bare # <<>>
  <2> DEFINE n == Len(bare)
             full == <<"[">> \o bare \o <<"]">>
  <2>1. n \in Nat \ {0}
    BY <1>2
  <2>2. WithoutBrackets(bare) = bare
    <3>1. /\ 1 \in 1..n /\ n \in 1..n
          /\ \A j \in 1..(1 - 1) : bare[j] = "["
          /\ \A j \in (n + 1)..n : bare[j] = "]"
      BY <2>1
    <3>2. WithoutBrackets(bare) = SubSeq(bare, 1, n)
      BY <1>2, <2>1, <3>1, BracketsGo
    <3> QED BY <3>2, SubSeqFull
  <2>3. /\ full \in Seq(S) /\ Len(full) = n + 2 /\ full[1] = "[" /\ full[n + 2] = "]"
        /\ \A j \in 1..n : full[j + 1] = bare[j]
    BY <2>1
  <2> HIDE DEF full
  <2>4. WithoutBrackets(full) = SubSeq(full, 2, n + 1)
    <3>1. 2 \in 1..(n + 2) /\ n + 1 \in 2..(n + 2)
      BY <2>1
    <3>2. full[2] # "[" /\ full[n + 1] # "]"
      <4>1. 1 \in 1..n /\ n \in 1..n
        BY <2>1
      <4>2. full[1 + 1] = bare[1] /\ full[n + 1] = bare[n]
        BY <2>3, <4>1
      <4> QED BY <1>2, <4>2
    <3>3. \A j \in 1..(2 - 1) : full[j] = "["
      BY <2>3
    <3>4. \A j \in (n + 1 + 1)..(n + 2) : full[j] = "]"
      BY <2>1, <2>3
    <3> QED BY <2>3, <3>1, <3>2, <3>3, <3>4, BracketsGo
  <2>5. SubSeq(full, 2, n + 1) = bare
    <3> DEFINE middle == SubSeq(full, 2, n + 1)
    <3>1. middle \in Seq(S) /\ Len(middle) = Len(bare)
      BY <2>1, <2>3
    <3>2. \A j \in 1..Len(middle) : middle[j] = bare[j]
      BY <2>1, <2>3
    <3> HIDE DEF middle
    <3>3. middle = bare
      BY <3>1, <3>2, SeqEqual
    <3> QED BY <3>3 DEF middle
  <2> USE DEF full
  <2>6. WithoutBrackets(<<"[">> \o bare \o <<"]">>) = bare
    BY <2>4, <2>5
  <2> QED BY <2>2, <2>6
<1> QED BY <1>1, <1>2

\* A stored target split and joined again is the same target.
LEMMA RoundTrip ==
  ASSUME NEW S, {"[", "]", ":"} \subseteq S, NEW host \in Seq(S), NEW port \in S,
         PortTargetAllowed(JoinTarget(host, port))
  PROVE  LET target == JoinTarget(host, port)
             parts == SplitTarget(target)
         IN  /\ parts.host \in Seq(S) /\ parts.host # <<>> /\ parts.port = port
             /\ JoinTarget(parts.host, parts.port) = target
<1> DEFINE bare == WithoutBrackets(host)
           kept == IF Contains(bare, ":") THEN <<"[">> \o bare \o <<"]">> ELSE bare
           target == JoinTarget(host, port)
           n == Len(kept)
<1>1. bare \in Seq(S) /\ (bare # <<>> => bare[1] # "[" /\ bare[Len(bare)] # "]")
  BY BracketsGone
<1>2. target = kept \o <<":", port>>
  BY DEF JoinTarget
<1> HIDE DEF bare
<1>3. kept \in Seq(S)
  BY <1>1
<1> HIDE DEF kept
<1>4. /\ target \in Seq(S) /\ Len(target) = n + 2 /\ target[n + 2] = port
      /\ \A j \in 1..n : target[j] = kept[j]
      /\ n \in Nat
  BY <1>2, <1>3
<1> HIDE DEF target
<1>5. SubSeq(target, 1, Len(target) - 2) = kept
  <2> DEFINE middle == SubSeq(target, 1, n)
  <2>1. middle \in Seq(S) /\ Len(middle) = Len(kept)
    BY <1>4
  <2>2. \A j \in 1..Len(middle) : middle[j] = kept[j]
    BY <1>4
  <2> HIDE DEF middle
  <2>3. middle = kept
    BY <1>3, <2>1, <2>2, SeqEqual
  <2> USE DEF middle
  <2>4. Len(target) - 2 = n
    BY <1>4
  <2> QED BY <2>3, <2>4
<1>6. kept # <<>>
  BY <1>5 DEF PortTargetAllowed, target
<1>7. bare # <<>>
  <2> SUFFICES ASSUME bare = <<>> PROVE FALSE
    OBVIOUS
  <2>1. ~Contains(bare, ":")
    BY DEF Contains
  <2> QED BY <1>6, <2>1 DEF kept
<1>8. WithoutBrackets(bare) = bare /\ WithoutBrackets(<<"[">> \o bare \o <<"]">>) = bare
  BY <1>1, <1>7, BareStays
<1>9. WithoutBrackets(kept) = bare
  BY <1>8 DEF kept
<1>10. SplitTarget(target) = [host |-> bare, port |-> port]
  <2>1. target[Len(target)] = port
    BY <1>4
  <2> QED BY <1>5, <1>9, <2>1 DEF SplitTarget
<1>11. JoinTarget(bare, port) = target
  <2>1. JoinTarget(bare, port) = kept \o <<":", port>>
    BY <1>8, Zenon DEF JoinTarget, kept
  <2> QED BY <1>2, <2>1
<1>12. /\ SplitTarget(JoinTarget(host, port)).host = bare
       /\ SplitTarget(JoinTarget(host, port)).port = port
  BY <1>10 DEF target
<1> QED BY <1>1, <1>7, <1>11, <1>12, Zenon DEF target

\* What the chain of errors says is a loss of the network is one.
LEMMA ChainTellsTheLoss ==
  ASSUME NEW w \in Worlds
  PROVE  /\ ClassifyChain(w.web) = "no_route" <=> w.truth = "no_route"
         /\ ClassifyChain(w.web) = "name_server_silent" <=> w.truth = "resolver_silent"
<1> DEFINE chain == w.web
           saying == {i \in DOMAIN chain : Says(chain[i])}
           least == CHOOSE i \in saying : \A j \in saying : i <= j
<1>1. /\ Len(chain) \in Nat /\ DOMAIN chain = 1..Len(chain)
      /\ w.truth = "no_route" =>
           \E i \in DOMAIN chain :
             LosesTheNetwork(chain[i]) /\ \A j \in 1..(i - 1) : ~Says(chain[j])
      /\ w.truth # "no_route" => \A i \in DOMAIN chain : ~LosesTheNetwork(chain[i])
      /\ w.truth = "resolver_silent" <=>
           SaysSilence(Texts(chain)) /\ \A i \in DOMAIN chain : ~Says(chain[i])
  BY WorldsAreWorded
<1>2. ClassifyChain(chain) =
        IF saying = {} THEN ClassifyLookup(Texts(chain))
        ELSE IF ClassifyIoKind(chain[least].io) # "none" THEN ClassifyIoKind(chain[least].io)
        ELSE "certificate"
  BY Zenon DEF ClassifyChain
<1>3. \A link : LosesTheNetwork(link) => Says(link)
  BY DEF LosesTheNetwork, Says
<1>4. \A io : ClassifyIoKind(io) # "name_server_silent"
  BY DEF ClassifyIoKind
<1>5. CASE saying = {}
  <2>1. \A i \in DOMAIN chain : ~Says(chain[i])
    BY <1>5
  <2>2. w.truth # "no_route"
    BY <1>1, <1>3, <2>1
  <2>3. ClassifyChain(chain) = ClassifyLookup(Texts(chain))
    BY <1>2, <1>5
  <2>4. /\ ClassifyLookup(Texts(chain)) = "name_server_silent" <=> SaysSilence(Texts(chain))
        /\ ClassifyLookup(Texts(chain)) # "no_route"
    BY DEF ClassifyLookup, SaysSilence
  <2> QED BY <1>1, <2>1, <2>2, <2>3, <2>4
<1>6. CASE saying # {}
  <2>1. PICK m \in saying : \A j \in saying : m <= j
    <3>1. saying \in SUBSET Nat
      BY <1>1
    <3> HIDE DEF saying
    <3> QED BY <1>6, <3>1, LeastNumber
  <2>2. least \in saying /\ \A j \in saying : least <= j
    BY <2>1, Zenon
  <2> HIDE DEF least
  <2>3. ClassifyChain(chain) # "name_server_silent" /\ w.truth # "resolver_silent"
    BY <1>1, <1>2, <1>4, <1>6, <2>2
  <2>4. ClassifyChain(chain) = "no_route" <=> LosesTheNetwork(chain[least])
    BY <1>2, <1>6 DEF LosesTheNetwork
  <2>5. w.truth # "no_route" => ~LosesTheNetwork(chain[least])
    BY <1>1, <2>2
  <2>6. ASSUME w.truth = "no_route" PROVE LosesTheNetwork(chain[least])
    <3>1. PICK i \in DOMAIN chain :
            LosesTheNetwork(chain[i]) /\ \A j \in 1..(i - 1) : ~Says(chain[j])
      BY <1>1, <2>6
    <3>2. i \in saying
      BY <1>3, <3>1
    <3>3. least <= i /\ ~(least \in 1..(i - 1))
      BY <2>2, <3>1, <3>2
    <3>4. least = i
      BY <1>1, <2>2, <3>3
    <3> QED BY <3>1, <3>4
  <2> QED BY <2>3, <2>4, <2>5, <2>6
<1> QED BY <1>5, <1>6

\* What a check of either kind finds is a loss of the network when it is one.
LEMMA CheckTellsTheLoss ==
  ASSUME NEW w \in Worlds, NEW check
  PROVE  IsNetworkLoss(Examine(check, w)) <=> w.truth \in {"resolver_silent", "no_route"}
<1>1. /\ ClassifyChain(w.web) = "no_route" <=> w.truth = "no_route"
      /\ ClassifyChain(w.web) = "name_server_silent" <=> w.truth = "resolver_silent"
  BY ChainTellsTheLoss
<1>2. IsNetworkLoss(ProbeHttp(check.cert, w)) <=> w.truth \in {"resolver_silent", "no_route"}
  <2>1. \A status : ~IsNetworkLoss(ClassifyStatus(status))
    BY DEF IsNetworkLoss, ClassifyStatus
  <2>2. IsNetworkLoss(ClassifyHttp(w)) <=> w.truth \in {"resolver_silent", "no_route"}
    BY <1>1 DEF ClassifyHttp, IsNetworkLoss
  <2>3. CASE w.truth = "answers" \/ (w.truth = "certificate" /\ check.cert)
    <3>1. ProbeHttp(check.cert, w) = ClassifyStatus(w.status)
      BY <2>3, Zenon DEF ProbeHttp
    <3> QED BY <2>1, <2>3, <3>1
  <2>4. CASE ~(w.truth = "answers" \/ (w.truth = "certificate" /\ check.cert))
    <3>1. ProbeHttp(check.cert, w) = ClassifyHttp(w)
      BY <2>4, Zenon DEF ProbeHttp
    <3> QED BY <2>2, <3>1
  <2> QED BY <2>3, <2>4
<1>3. IsNetworkLoss(ProbeTcp(w)) <=> w.truth \in {"resolver_silent", "no_route"}
  <2>1. /\ w.truth = "no_route" <=> ClassifyIoKind(w.port.io) = "no_route"
        /\ w.truth = "resolver_silent" <=>
             SaysSilence(w.port.text) /\ ClassifyIoKind(w.port.io) = "none"
    BY WorldsAreWorded DEF LosesTheNetwork
  <2>2. IsNetworkLoss(ClassifyIo(w.port)) <=> w.truth \in {"resolver_silent", "no_route"}
    <3>1. /\ ClassifyLookup(w.port.text) = "name_server_silent" <=> SaysSilence(w.port.text)
          /\ ClassifyLookup(w.port.text) # "no_route"
      BY DEF ClassifyLookup, SaysSilence
    <3>2. ClassifyIoKind(w.port.io) # "name_server_silent"
      BY DEF ClassifyIoKind
    <3> QED BY <2>1, <3>1, <3>2 DEF ClassifyIo, IsNetworkLoss
  <2> QED BY <2>2 DEF ProbeTcp, IsNetworkLoss
<1> QED BY <1>2, <1>3, Zenon DEF Examine

-----------------------------------------------------------------------------
(* CheckForms.  What is saved is a check the form shows and reads again.   *)

CheckOK(check) ==
  \/ check = NoCheck
  \/ check = Check("http", check.target, check.cert) /\ WebTargetAllowed(check.target)
  \/ LET parts == SplitTarget(check.target) IN
     /\ check = Check("tcp", check.target, FALSE) /\ PortTargetAllowed(check.target)
     /\ parts.host \in Seq(Parts) /\ parts.host # <<>> /\ PortAllowed(parts.port)
     /\ JoinTarget(parts.host, parts.port) = check.target
SavedOK(s) ==
  /\ DOMAIN s = {"name", "check", "after"}
  /\ s.name # "" /\ CheckOK(s.check) /\ s.after \in 1..MaxAfter
ShownOK(f) == DOMAIN f = DOMAIN Blank /\ f.host \in Seq(Parts)
FormOK(f) ==
  \/ f = NoForm
  \/ /\ DOMAIN f = {"step", "fields", "of", "touched", "refused"}
     /\ f.step \in {"open", "named", "checked", "saved"} /\ f.touched \in BOOLEAN
     /\ ShownOK(f.fields) /\ SavedOK(f.of)
     /\ f.touched = FALSE => f.fields = FromSaved(f.of)
     /\ f.step \in {"named", "checked"} => Allowed(f.fields)
     /\ f.step = "checked" => f.fields.kind # "none"
AnswerOK(answer) ==
  answer = Nothing \/ answer.tone = Verdict(Examine(answer.asked, world))
FieldsInv ==
  /\ world \in Worlds
  /\ SavedOK(saved)
  /\ form = [e \in Editors |-> form[e]] /\ \A e \in Editors : FormOK(form[e])
  /\ told = [e \in Editors |-> told[e]] /\ \A e \in Editors : AnswerOK(told[e])

\* What the form typed is let in as is a check the form shows again.
LEMMA ReadIsStored ==
  ASSUME NEW f, ShownOK(f), CheckAllowed(f)
  PROVE  CheckOK(ParseCheck(f))
<1>1. CASE f.kind = "http"
  BY <1>1 DEF CheckAllowed, ParseCheck, CheckOK, Check
<1>2. CASE f.kind = "tcp"
  <2> DEFINE target == JoinTarget(f.host, f.port)
             parts == SplitTarget(target)
  <2>1. PortAllowed(f.port) /\ PortTargetAllowed(target)
    BY <1>2 DEF CheckAllowed
  <2>2. f.port \in Parts
    BY <2>1, FieldsAssumption DEF PortAllowed
  <2>3. {"[", "]", ":"} \subseteq Parts
    BY FieldsAssumption
  <2>4. /\ parts.host \in Seq(Parts) /\ parts.host # <<>> /\ parts.port = f.port
        /\ JoinTarget(parts.host, parts.port) = target
    BY <2>1, <2>2, <2>3, RoundTrip DEF ShownOK
  <2>5. ParseCheck(f) = Check("tcp", target, FALSE)
    BY <1>2 DEF ParseCheck
  <2> HIDE DEF target
  <2>6. Check("tcp", target, FALSE).target = target
    BY DEF Check
  <2> QED BY <2>1, <2>4, <2>5, <2>6 DEF CheckOK
<1>3. CASE f.kind \notin {"http", "tcp"}
  BY <1>3 DEF ParseCheck, CheckOK
<1> QED BY <1>1, <1>2, <1>3

\* The fields a saved service is shown in are let in as they are, and read
\* as what was saved.
LEMMA ShownAsSaved ==
  ASSUME NEW s, SavedOK(s)
  PROVE  LET f == FromSaved(s) IN
         /\ ShownOK(f) /\ Allowed(f)
         /\ ParseCheck(f) = s.check /\ OutageAfter(f) = s.after
<1> DEFINE f == FromSaved(s)
           delay == [Blank EXCEPT !.name = s.name, !.kind = s.check.kind, !.after = <<s.after>>]
           check == s.check
           parts == SplitTarget(check.target)
<1>1. /\ DOMAIN delay = DOMAIN Blank /\ delay.host = <<>> /\ delay.name = s.name
      /\ delay.kind = check.kind /\ delay.after = <<s.after>>
  BY DEF Blank
<1>2. <<>> \in Seq(Parts)
  OBVIOUS
<1>3. <<s.after>> # <<>> /\ Head(<<s.after>>) = s.after
  OBVIOUS
<1>4. /\ DOMAIN f = DOMAIN Blank /\ f.name = s.name /\ f.kind = check.kind
      /\ f.after = <<s.after>>
  BY DEF FromSaved, Blank
<1>5. f.host \in Seq(Parts) /\ CheckAllowed(f) /\ ParseCheck(f) = check
  <2>1. CASE check = NoCheck
    <3>1. check.kind = "none"
      BY <2>1 DEF NoCheck
    <3>2. f = delay
      BY <3>1 DEF FromSaved
    <3> QED BY <1>1, <1>2, <2>1, <3>1, <3>2 DEF CheckAllowed, ParseCheck
  <2>2. CASE check = Check("http", check.target, check.cert) /\ WebTargetAllowed(check.target)
    <3>1. check.kind = "http"
      BY <2>2 DEF Check
    <3>2. f = [delay EXCEPT !.url = check.target, !.cert = check.cert]
      BY <3>1 DEF FromSaved
    <3>3. f.kind = "http" /\ f.url = check.target /\ f.cert = check.cert /\ f.host = <<>>
      BY <3>1, <3>2 DEF Blank
    <3> QED BY <1>2, <2>2, <3>3 DEF CheckAllowed, ParseCheck
  <2>3. CASE /\ check = Check("tcp", check.target, FALSE) /\ PortTargetAllowed(check.target)
             /\ parts.host \in Seq(Parts) /\ parts.host # <<>> /\ PortAllowed(parts.port)
             /\ JoinTarget(parts.host, parts.port) = check.target
    <3>1. check.kind = "tcp"
      BY <2>3 DEF Check
    <3>2. f = [delay EXCEPT !.host = parts.host, !.port = parts.port]
      BY <3>1 DEF FromSaved
    <3>3. f.kind = "tcp" /\ f.host = parts.host /\ f.port = parts.port
      BY <3>1, <3>2 DEF Blank
    <3> HIDE DEF f, parts
    <3> QED BY <2>3, <3>3 DEF CheckAllowed, ParseCheck
  <2> QED BY <2>1, <2>2, <2>3 DEF SavedOK, CheckOK
<1> HIDE DEF f
<1>6. OutageAfter(f) = s.after
  BY <1>3, <1>4 DEF OutageAfter
<1>7. Allowed(f)
  BY <1>3, <1>4, <1>5 DEF Allowed, MonitoringAllowed, DelayAllowed, SavedOK
<1>8. ShownOK(f)
  BY <1>4, <1>5 DEF ShownOK
<1> QED BY <1>5, <1>6, <1>7, <1>8, Zenon DEF f

LEMMA FieldsStart == FieldsInit => FieldsInv
<1> SUFFICES ASSUME FieldsInit PROVE FieldsInv
  OBVIOUS
<1>1. SavedOK(saved)
  BY FieldsAssumption DEF FieldsInit, SavedOK, CheckOK
<1> QED BY <1>1 DEF FieldsInit, FieldsInv, FormOK, AnswerOK

\* A form that steps on keeps what it shows.
LEMMA FormSteps ==
  ASSUME NEW f, FormOK(f), f # NoForm,
         NEW step \in {"named", "checked", "saved"},
         step \in {"named", "checked"} => Allowed(f.fields),
         step = "checked" => f.fields.kind # "none"
  PROVE  FormOK([f EXCEPT !.step = step])
<1> DEFINE g == [f EXCEPT !.step = step]
<1>1. DOMAIN f = {"step", "fields", "of", "touched", "refused"}
  BY DEF FormOK
<1>2. /\ DOMAIN g = {"step", "fields", "of", "touched", "refused"}
      /\ g.step = step /\ g.fields = f.fields /\ g.of = f.of /\ g.touched = f.touched
  BY <1>1
<1> HIDE DEF g
<1>3. FormOK(g)
  BY <1>2 DEF FormOK
<1> QED BY <1>3 DEF g

LEMMA FieldsStep == FieldsInv /\ [FieldsNext]_fieldVars => FieldsInv'
<1> SUFFICES ASSUME FieldsInv, [FieldsNext]_fieldVars PROVE FieldsInv'
  OBVIOUS
<1>1. /\ world \in Worlds /\ SavedOK(saved)
      /\ form = [e \in Editors |-> form[e]] /\ \A e \in Editors : FormOK(form[e])
      /\ told = [e \in Editors |-> told[e]] /\ \A e \in Editors : AnswerOK(told[e])
  BY DEF FieldsInv
\* One editor's step: what it must keep, and what it leaves.
<1>2. ASSUME NEW e \in Editors, world' = world, SavedOK(saved)',
             NEW newForm, FormOK(newForm), form' = [form EXCEPT ![e] = newForm],
             NEW newTold,
             newTold = Nothing \/ newTold.tone = Verdict(Examine(newTold.asked, world)),
             told' = [told EXCEPT ![e] = newTold]
      PROVE  FieldsInv'
  <2>1. /\ form' = [d \in Editors |-> form'[d]]
        /\ \A d \in Editors : form'[d] = IF d = e THEN newForm ELSE form[d]
    BY <1>1, <1>2
  <2>2. /\ told' = [d \in Editors |-> told'[d]]
        /\ \A d \in Editors : told'[d] = IF d = e THEN newTold ELSE told[d]
    BY <1>1, <1>2
  <2>3. \A d \in Editors : FormOK(form[d])'
    BY <1>1, <1>2, <2>1 DEF FormOK
  <2>4. \A d \in Editors : AnswerOK(told[d])'
    BY <1>1, <1>2, <2>2 DEF AnswerOK
  <2> QED BY <1>1, <1>2, <2>1, <2>2, <2>3, <2>4 DEF FieldsInv
<1>3. \A e \in Editors : form = [form EXCEPT ![e] = form[e]] /\ told = [told EXCEPT ![e] = told[e]]
  BY <1>1
<1>4. \A e \in Editors : told[e] = Nothing \/ told[e].tone = Verdict(Examine(told[e].asked, world))
  BY <1>1 DEF AnswerOK
<1>5. CASE UNCHANGED fieldVars
  <2>1. saved' = saved /\ form' = form /\ told' = told /\ world' = world
    BY <1>5 DEF fieldVars
  <2>2. \A e \in Editors : FormOK(form[e])'
    BY <1>1, <2>1
  <2>3. \A e \in Editors : AnswerOK(told[e])'
    BY <1>1, <2>1 DEF AnswerOK
  <2>4. SavedOK(saved)' /\ (world \in Worlds)'
    BY <1>1, <2>1
  <2>5. (form = [e \in Editors |-> form[e]])' /\ (told = [e \in Editors |-> told[e]])'
    BY <1>1, <2>1
  <2> QED BY <2>2, <2>3, <2>4, <2>5 DEF FieldsInv
<1>6. ASSUME NEW e \in Editors, EditForm(e) PROVE FieldsInv'
  <2> DEFINE f == [step |-> "open", fields |-> FromSaved(saved), of |-> saved,
                   touched |-> FALSE, refused |-> FALSE]
  <2>1. FormOK(f)
    <3>1. ShownOK(FromSaved(saved))
      BY <1>1, ShownAsSaved
    <3> QED BY <1>1, <3>1 DEF FormOK
  <2>2. /\ form' = [form EXCEPT ![e] = f] /\ saved' = saved /\ told' = told /\ world' = world
    BY <1>6 DEF EditForm
  <2> HIDE DEF f
  <2>3. SavedOK(saved)'
    BY <1>1, <2>2
  <2>4. told' = [told EXCEPT ![e] = told[e]]
    BY <1>3, <2>2
  <2> QED BY <1>2, <1>4, <2>1, <2>2, <2>3, <2>4
<1>7. ASSUME NEW e \in Editors, NEW change \in Typing, Type(e, change) PROVE FieldsInv'
  <2> DEFINE f == [form[e] EXCEPT !.fields[change.field] = change.value, !.touched = TRUE,
                                  !.refused = FALSE]
             typed == [form[e].fields EXCEPT ![change.field] = change.value]
  <2>1. /\ form[e].step = "open" /\ saved' = saved /\ told' = told /\ world' = world
        /\ form' = [form EXCEPT ![e].fields[change.field] = change.value, ![e].touched = TRUE,
                                ![e].refused = FALSE]
    BY <1>7 DEF Type
  <2>2. form' = [form EXCEPT ![e] = f]
    BY <1>1, <2>1
  <2>3. FormOK(form[e]) /\ form[e] # NoForm
    BY <1>1, <2>1 DEF NoForm
  <2>4. /\ DOMAIN form[e] = {"step", "fields", "of", "touched", "refused"}
        /\ ShownOK(form[e].fields) /\ SavedOK(form[e].of)
    BY <2>3 DEF FormOK
  <2>5. ShownOK(typed)
    BY <2>4, FieldsAssumption DEF ShownOK, Blank
  <2>6. /\ DOMAIN f = {"step", "fields", "of", "touched", "refused"} /\ f.step = "open"
        /\ f.touched = TRUE /\ f.of = form[e].of /\ f.fields = typed
    BY <2>1, <2>4
  <2> HIDE DEF f
  <2>7. FormOK(f)
    BY <2>4, <2>5, <2>6 DEF FormOK
  <2>8. SavedOK(saved)'
    BY <1>1, <2>1
  <2>9. told' = [told EXCEPT ![e] = told[e]]
    BY <1>3, <2>1
  <2> QED BY <1>2, <1>4, <2>1, <2>2, <2>7, <2>8, <2>9
<1>8. ASSUME NEW e \in Editors, TestCheck(e) PROVE FieldsInv'
  <2> DEFINE check == ParseCheck(form[e].fields)
             answer == [asked |-> check, tone |-> Verdict(Examine(check, world)),
                        after |-> OutageAfter(form[e].fields)]
  <2>1. told' = [told EXCEPT ![e] = answer] /\ saved' = saved /\ form' = form /\ world' = world
    BY <1>8 DEF TestCheck
  <2>2. answer.tone = Verdict(Examine(answer.asked, world))
    OBVIOUS
  <2> HIDE DEF answer
  <2>3. SavedOK(saved)' /\ FormOK(form[e])
    BY <1>1, <2>1
  <2>4. form' = [form EXCEPT ![e] = form[e]]
    BY <1>3, <2>1
  <2> QED BY <1>2, <2>1, <2>2, <2>3, <2>4
<1>9. ASSUME NEW e \in Editors, Save(e) PROVE FieldsInv'
  <2> DEFINE f == form[e].fields
  <2>1. form[e].step = "open" /\ told' = told /\ world' = world
    BY <1>9 DEF Save
  <2>2. FormOK(form[e]) /\ form[e] # NoForm
    BY <1>1, <2>1 DEF NoForm
  <2>3. told' = [told EXCEPT ![e] = told[e]]
    BY <1>3, <2>1
  <2>4. CASE Allowed(f)
    <3>1. saved' = [saved EXCEPT !.name = f.name] /\ form' = [form EXCEPT ![e].step = "named"]
      BY <1>9, <2>4 DEF Save
    <3>2. form' = [form EXCEPT ![e] = [form[e] EXCEPT !.step = "named"]]
      BY <1>1, <3>1
    <3>3. FormOK([form[e] EXCEPT !.step = "named"])
      BY <2>2, <2>4, FormSteps
    <3>4. SavedOK(saved')
      <4>1. DOMAIN saved = {"name", "check", "after"}
        BY <1>1 DEF SavedOK
      <4>2. /\ DOMAIN saved' = {"name", "check", "after"} /\ saved'.name = f.name
            /\ saved'.check = saved.check /\ saved'.after = saved.after
        BY <3>1, <4>1
      <4> QED BY <1>1, <2>4, <4>2 DEF SavedOK, Allowed
    <3> QED BY <1>2, <1>4, <2>1, <2>3, <3>2, <3>3, <3>4
  <2>5. CASE ~Allowed(f)
    <3> DEFINE g == [form[e] EXCEPT !.refused = TRUE]
    <3>1. saved' = saved /\ form' = [form EXCEPT ![e].refused = TRUE]
      BY <1>9, <2>5 DEF Save
    <3>2. form' = [form EXCEPT ![e] = g]
      BY <1>1, <3>1
    <3>3. DOMAIN form[e] = {"step", "fields", "of", "touched", "refused"}
      BY <2>2 DEF FormOK
    <3>4. /\ DOMAIN g = {"step", "fields", "of", "touched", "refused"} /\ g.step = form[e].step
          /\ g.touched = form[e].touched /\ g.of = form[e].of /\ g.fields = form[e].fields
      BY <3>3
    <3> HIDE DEF g
    <3>5. FormOK(g)
      BY <2>2, <3>4 DEF FormOK
    <3>6. SavedOK(saved)'
      BY <1>1, <3>1
    <3> QED BY <1>2, <1>4, <2>1, <2>3, <3>2, <3>5, <3>6
  <2> QED BY <2>4, <2>5
<1>10. ASSUME NEW e \in Editors, SetCheck(e) PROVE FieldsInv'
  <2> DEFINE f == form[e].fields
             step == IF f.kind = "none" THEN "saved" ELSE "checked"
  <2>1. /\ form[e].step = "named" /\ told' = told /\ world' = world
        /\ saved' = [saved EXCEPT !.check = ParseCheck(f)]
        /\ form' = [form EXCEPT ![e].step = step]
    BY <1>10 DEF SetCheck
  <2>2. FormOK(form[e]) /\ form[e] # NoForm
    BY <1>1, <2>1 DEF NoForm
  <2>3. Allowed(f) /\ ShownOK(f)
    BY <2>1, <2>2 DEF FormOK
  <2>4. CheckOK(ParseCheck(f))
    BY <2>3, ReadIsStored DEF Allowed, MonitoringAllowed
  <2>5. SavedOK(saved')
    <3>1. DOMAIN saved = {"name", "check", "after"}
      BY <1>1 DEF SavedOK
    <3>2. /\ DOMAIN saved' = {"name", "check", "after"} /\ saved'.name = saved.name
          /\ saved'.check = ParseCheck(f) /\ saved'.after = saved.after
      BY <2>1, <3>1
    <3> QED BY <1>1, <2>4, <3>2 DEF SavedOK
  <2>6. form' = [form EXCEPT ![e] = [form[e] EXCEPT !.step = step]]
    BY <1>1, <2>1
  <2>7. step \in {"named", "checked", "saved"} /\ (step = "checked" => f.kind # "none")
    OBVIOUS
  <2> HIDE DEF step
  <2>8. FormOK([form[e] EXCEPT !.step = step])
    BY <2>2, <2>3, <2>7, FormSteps
  <2>9. told' = [told EXCEPT ![e] = told[e]]
    BY <1>3, <2>1
  <2> QED BY <1>2, <1>4, <2>1, <2>5, <2>6, <2>8, <2>9
<1>11. ASSUME NEW e \in Editors, SetOutageAfter(e) PROVE FieldsInv'
  <2> DEFINE f == form[e].fields
  <2>1. /\ form[e].step = "checked" /\ told' = told /\ world' = world
        /\ saved' = [saved EXCEPT !.after = OutageAfter(f)]
        /\ form' = [form EXCEPT ![e].step = "saved"]
    BY <1>11 DEF SetOutageAfter
  <2>2. FormOK(form[e]) /\ form[e] # NoForm
    BY <1>1, <2>1 DEF NoForm
  <2>3. Allowed(f) /\ f.kind # "none"
    BY <2>1, <2>2 DEF FormOK
  <2>4. OutageAfter(f) \in 1..MaxAfter
    BY <2>3, FieldsAssumption DEF Allowed, MonitoringAllowed, DelayAllowed, OutageAfter
  <2>5. SavedOK(saved')
    <3>1. DOMAIN saved = {"name", "check", "after"}
      BY <1>1 DEF SavedOK
    <3>2. /\ DOMAIN saved' = {"name", "check", "after"} /\ saved'.name = saved.name
          /\ saved'.check = saved.check /\ saved'.after = OutageAfter(f)
      BY <2>1, <3>1
    <3> QED BY <1>1, <2>4, <3>2 DEF SavedOK
  <2>6. form' = [form EXCEPT ![e] = [form[e] EXCEPT !.step = "saved"]]
    BY <1>1, <2>1
  <2>7. FormOK([form[e] EXCEPT !.step = "saved"])
    BY <2>2, FormSteps
  <2>8. told' = [told EXCEPT ![e] = told[e]]
    BY <1>3, <2>1
  <2> QED BY <1>2, <1>4, <2>1, <2>5, <2>6, <2>7, <2>8
<1>12. ASSUME NEW e \in Editors, Leave(e) PROVE FieldsInv'
  <2>1. /\ form' = [form EXCEPT ![e] = NoForm] /\ told' = [told EXCEPT ![e] = Nothing]
        /\ saved' = saved /\ world' = world
    BY <1>12 DEF Leave
  <2>2. FormOK(NoForm) /\ SavedOK(saved)'
    BY <1>1, <2>1 DEF FormOK
  <2> QED BY <1>2, <2>1, <2>2
<1> QED BY <1>5, <1>6, <1>7, <1>8, <1>9, <1>10, <1>11, <1>12 DEF FieldsNext

LEMMA FieldsAreRight == FieldsInv => MonitoringFieldsAreRight
<1> SUFFICES ASSUME FieldsInv PROVE MonitoringFieldsAreRight
  OBVIOUS
<1>1. UntouchedFormSavesTheSame
  <2> SUFFICES ASSUME NEW e \in Editors, form[e] # NoForm, ~form[e].touched
               PROVE  /\ Allowed(form[e].fields)
                      /\ ParseCheck(form[e].fields) = form[e].of.check
                      /\ OutageAfter(form[e].fields) = form[e].of.after
    BY DEF UntouchedFormSavesTheSame
  <2>1. FormOK(form[e])
    BY DEF FieldsInv
  <2>2. SavedOK(form[e].of) /\ form[e].fields = FromSaved(form[e].of)
    BY <2>1 DEF FormOK
  <2> QED BY <2>2, ShownAsSaved
<1>2. TestSaysWhatRoundsCount
  <2> SUFFICES ASSUME NEW e \in Editors, told[e] # Nothing, told[e].asked = saved.check
               PROVE  told[e].tone = "ok" <=> Outcome(Examine(saved.check, world)) = "answered"
    BY DEF TestSaysWhatRoundsCount
  <2>1. told[e].tone = Verdict(Examine(saved.check, world))
    BY DEF FieldsInv, AnswerOK
  <2> QED BY <2>1 DEF Verdict, Outcome
<1>3. OwnNetworkIsKnown
  BY CheckTellsTheLoss DEF FieldsInv, OwnNetworkIsKnown
<1> QED BY <1>1, <1>2, <1>3 DEF MonitoringFieldsAreRight

THEOREM FieldsHold == FieldsSpec => []MonitoringFieldsAreRight
<1>1. FieldsInit => FieldsInv
  BY FieldsStart
<1>2. FieldsInv /\ [FieldsNext]_fieldVars => FieldsInv'
  BY FieldsStep
<1>3. FieldsInv => MonitoringFieldsAreRight
  BY FieldsAreRight
<1> QED BY <1>1, <1>2, <1>3, PTL DEF FieldsSpec

-----------------------------------------------------------------------------
(* Strip.  A sum over the outages, the days of a time, the worst of a day. *)

\* What `total` is of the subsets of S, one element at a time.
SumsUp(S, v, total) ==
  total = [part \in SUBSET S |->
             IF part = {} THEN 0
             ELSE v[CHOOSE x \in part : TRUE] + total[part \ {CHOOSE x \in part : TRUE}]]

LEMMA OneLess ==
  ASSUME NEW S, IsFiniteSet(S), NEW part \in SUBSET S, part # {}
  PROVE  LET x == CHOOSE y \in part : TRUE IN
         /\ x \in part /\ part \ {x} \in SUBSET S
         /\ Cardinality(part) \in Nat \ {0}
         /\ Cardinality(part \ {x}) = Cardinality(part) - 1
<1> DEFINE x == CHOOSE y \in part : TRUE
<1>1. x \in part
  OBVIOUS
<1>2. IsFiniteSet(part)
  BY FS_Subset
<1> HIDE DEF x
<1>3. Cardinality(part \ {x}) = Cardinality(part) - 1
  BY <1>1, <1>2, FS_RemoveElement
<1>4. Cardinality(part) \in Nat \ {0}
  BY <1>2, FS_CardinalityType, FS_EmptySet
<1>5. part \ {x} \in SUBSET S
  OBVIOUS
<1> USE DEF x
<1> QED BY <1>1, <1>3, <1>4, <1>5

\* There is such a sum: of the subsets up to a size, and so of all of them.
LEMMA SumExists ==
  ASSUME NEW S, IsFiniteSet(S), NEW v
  PROVE  \E total : SumsUp(S, v, total)
<1> DEFINE Small(n) == {part \in SUBSET S : Cardinality(part) <= n}
           One(total, part) ==
             IF part = {} THEN 0
             ELSE v[CHOOSE x \in part : TRUE] + total[part \ {CHOOSE x \in part : TRUE}]
           UpTo(total, n) == total = [part \in Small(n) |-> One(total, part)]
           bad == {n \in Nat : ~\E total : UpTo(total, n)}
<1>1. \A part \in SUBSET S : Cardinality(part) \in Nat /\ Cardinality(part) <= Cardinality(S)
  BY FS_Subset, FS_CardinalityType
<1>2. bad = {}
  <2> SUFFICES ASSUME bad # {} PROVE FALSE
    OBVIOUS
  <2>1. PICK m \in bad : \A n \in bad : m <= n
    <3>1. bad \in SUBSET Nat
      OBVIOUS
    <3> HIDE DEF bad
    <3> QED BY <3>1, LeastNumber
  <2>2. CASE m = 0
    <3> DEFINE total == [part \in Small(0) |-> 0]
    <3>1. \A part \in Small(0) : part = {}
      BY <1>1, FS_Subset, FS_EmptySet
    <3>2. UpTo(total, 0)
      BY <3>1
    <3> QED BY <2>1, <2>2, <3>2
  <2>3. CASE m # 0
    <3>1. m \in Nat /\ m - 1 \in Nat /\ ~(m <= m - 1)
      BY <2>1, <2>3
    <3>2. m - 1 \notin bad
      BY <2>1, <3>1
    <3>3. PICK before : UpTo(before, m - 1)
      BY <3>1, <3>2
    <3> DEFINE total == [part \in Small(m) |-> One(before, part)]
    <3>4. \A part \in Small(m - 1) : part \in Small(m) /\ total[part] = before[part]
      <4>1. \A part \in Small(m - 1) : part \in Small(m)
        BY <1>1, <3>1
      <4>2. \A part \in Small(m - 1) : before[part] = One(before, part)
        BY <3>3
      <4> QED BY <4>1, <4>2
    <3>5. \A part \in Small(m) : One(before, part) = One(total, part)
      <4> SUFFICES ASSUME NEW part \in Small(m), part # {}
                   PROVE  One(before, part) = One(total, part)
        OBVIOUS
      <4>1. part \ {CHOOSE x \in part : TRUE} \in Small(m - 1)
        BY <1>1, <3>1, OneLess
      <4>2. total[part \ {CHOOSE x \in part : TRUE}] = before[part \ {CHOOSE x \in part : TRUE}]
        BY <3>4, <4>1
      <4> HIDE DEF total
      <4> QED BY <4>2
    <3>6. UpTo(total, m)
      BY <3>5
    <3> QED BY <2>1, <3>6
  <2> QED BY <2>2, <2>3
<1>3. PICK total : UpTo(total, Cardinality(S))
  <2>1. Cardinality(S) \in Nat
    BY FS_CardinalityType
  <2> QED BY <1>2, <2>1
<1>4. Small(Cardinality(S)) = SUBSET S
  BY <1>1
<1> QED BY <1>3, <1>4 DEF SumsUp

\* A sum of naturals is positive when one of them is.
LEMMA SumIsPositive ==
  ASSUME NEW S, IsFiniteSet(S), NEW v, \A x \in S : v[x] \in Nat, NEW total, SumsUp(S, v, total)
  PROVE  total[S] \in Nat /\ (total[S] > 0 <=> \E x \in S : v[x] > 0)
<1> DEFINE Right(part) == total[part] \in Nat /\ (total[part] > 0 <=> \E x \in part : v[x] > 0)
           bad == {n \in Nat : \E part \in SUBSET S : Cardinality(part) = n /\ ~Right(part)}
<1>1. bad = {}
  <2> SUFFICES ASSUME bad # {} PROVE FALSE
    OBVIOUS
  <2>1. PICK m \in bad : \A n \in bad : m <= n
    <3>1. bad \in SUBSET Nat
      OBVIOUS
    <3> HIDE DEF bad
    <3> QED BY <3>1, LeastNumber
  <2>2. PICK part \in SUBSET S : Cardinality(part) = m /\ ~Right(part)
    BY <2>1
  <2>3. CASE part = {}
    <3>1. total[part] = 0
      BY <2>3 DEF SumsUp
    <3> QED BY <2>2, <2>3, <3>1
  <2>4. CASE part # {}
    <3> DEFINE x == CHOOSE y \in part : TRUE
    <3>1. /\ x \in part /\ part \ {x} \in SUBSET S
          /\ Cardinality(part) \in Nat \ {0}
          /\ Cardinality(part \ {x}) = Cardinality(part) - 1
      BY <2>4, OneLess
    <3>2. total[part] = v[x] + total[part \ {x}]
      BY <2>4 DEF SumsUp
    <3> HIDE DEF x
    <3>3. Right(part \ {x})
      <4>1. m - 1 \in Nat /\ ~(m <= m - 1) /\ Cardinality(part \ {x}) = m - 1
        BY <2>2, <3>1
      <4>2. m - 1 \notin bad
        BY <2>1, <4>1
      <4> HIDE DEF Right
      <4> QED BY <3>1, <4>1, <4>2
    <3>4. v[x] \in Nat
      BY <3>1
    <3>5. (\E y \in part : v[y] > 0) <=> v[x] > 0 \/ \E y \in part \ {x} : v[y] > 0
      BY <3>1
    <3>6. Right(part)
      BY <3>2, <3>3, <3>4, <3>5
    <3> QED BY <2>2, <3>6
  <2> QED BY <2>3, <2>4
<1>2. IsFiniteSet(S) /\ Cardinality(S) \in Nat /\ S \in SUBSET S
  BY FS_CardinalityType
<1>3. Right(S)
  <2> HIDE DEF Right
  <2> QED BY <1>1, <1>2
<1> QED BY <1>3

\* The strip counts detected time exactly when an outage that lasted has some.
LEMMA DetectedIsPositive ==
  ASSUME NEW rows, IsFiniteSet(rows), NEW day, NEW time,
         \A o \in rows : TimeWithin(o, day, time) \in Nat
  PROVE  /\ DetectedOn(rows, day, time) \in Nat
         /\ DetectedOn(rows, day, time) > 0 <=>
              \E o \in rows : LastedLongEnough(o, time) /\ TimeWithin(o, day, time) > 0
<1> DEFINE S == {o \in rows : LastedLongEnough(o, time)}
           v == [o \in S |-> TimeWithin(o, day, time)]
           Total(total) ==
             total = [part \in SUBSET S |->
                        IF part = {} THEN 0
                        ELSE TimeWithin(CHOOSE x \in part : TRUE, day, time)
                             + total[part \ {CHOOSE x \in part : TRUE}]]
           total == CHOOSE g : Total(g)
<1>1. DetectedOn(rows, day, time) = total[S]
  BY DEF DetectedOn, MapThenSumSet, MapThenFoldSet
<1>2. IsFiniteSet(S)
  <2>1. S \in SUBSET rows
    OBVIOUS
  <2> HIDE DEF S
  <2> QED BY <2>1, FS_Subset
<1>3. \A x \in S : v[x] = TimeWithin(x, day, time) /\ v[x] \in Nat
  OBVIOUS
<1>4. \A g : SumsUp(S, v, g) <=> Total(g)
  <2>1. \A part \in SUBSET S : part # {} => (CHOOSE x \in part : TRUE) \in S
    OBVIOUS
  <2>2. \A part \in SUBSET S : part # {} =>
          v[CHOOSE x \in part : TRUE] = TimeWithin(CHOOSE x \in part : TRUE, day, time)
    BY <2>1
  <2> HIDE DEF S, v
  <2> SUFFICES ASSUME NEW g PROVE SumsUp(S, v, g) <=> Total(g)
    OBVIOUS
  <2> DEFINE left == [part \in SUBSET S |->
               IF part = {} THEN 0
               ELSE v[CHOOSE x \in part : TRUE] + g[part \ {CHOOSE x \in part : TRUE}]]
             right == [part \in SUBSET S |->
               IF part = {} THEN 0
               ELSE TimeWithin(CHOOSE x \in part : TRUE, day, time)
                    + g[part \ {CHOOSE x \in part : TRUE}]]
  <2>3. left = right
    BY <2>2
  <2>4. (SumsUp(S, v, g) <=> g = left) /\ (Total(g) <=> g = right)
    BY Zenon DEF SumsUp
  <2> HIDE DEF left, right, Total
  <2> QED BY <2>3, <2>4
<1>5. \E g : SumsUp(S, v, g)
  <2> HIDE DEF S, v
  <2> QED BY <1>2, SumExists
<1>6. SumsUp(S, v, total)
  <2> HIDE DEF S, v
  <2> HIDE DEF Total
  <2>1. \E g : Total(g)
    BY <1>4, <1>5
  <2>2. Total(total)
    BY <2>1
  <2> QED BY <1>4, <2>2
<1> HIDE DEF total
<1>7. total[S] \in Nat /\ (total[S] > 0 <=> \E x \in S : v[x] > 0)
  <2> HIDE DEF S, v
  <2> QED BY <1>2, <1>3, <1>6, SumIsPositive
<1>8. (\E x \in S : v[x] > 0) <=>
        \E o \in rows : LastedLongEnough(o, time) /\ TimeWithin(o, day, time) > 0
  BY <1>3
<1> QED BY <1>1, <1>7, <1>8

LEMMA DayOfTime ==
  ASSUME NEW t \in Int, NEW day \in Int
  PROVE  /\ LocalDate(t) \in Int /\ DayStart(day) \in Int
         /\ LocalDate(t) = day <=> DayStart(day) <= t /\ t < DayStart(day + 1)
         /\ LocalDate(t) <= day <=> t < DayStart(day + 1)
<1> DEFINE k == DayLength
           q == t \div k
           r == t % k
<1>1. k \in Nat \ {0}
  BY HistoryAssumption
<1>2. q \in Int /\ r \in 0..(k - 1) /\ t = k * q + r
  BY <1>1, DivMod
<1>3. LocalDate(t) = q /\ DayStart(day) = day * k /\ DayStart(day + 1) = (day + 1) * k
  BY DEF LocalDate, DayStart
<1> HIDE DEF q, r
<1>4. /\ day * k = k * day /\ (day + 1) * k = k * (day + 1)
      /\ q < day => k * q + k <= k * day
      /\ q < day + 1 => k * q + k <= k * (day + 1)
      /\ day < q => k * day + k <= k * q
      /\ day + 1 <= q => k * (day + 1) <= k * q
      /\ day <= q => k * day <= k * q
      /\ k * day \in Int /\ k * (day + 1) \in Int /\ k * q \in Int
  BY <1>1, <1>2, Multiples
<1> HIDE DEF k
<1>5. day * k \in Int
  BY <1>4
<1>6. q = day <=> k * day <= t /\ t < k * (day + 1)
  BY <1>1, <1>2, <1>4
<1>7. q <= day <=> t < k * (day + 1)
  BY <1>1, <1>2, <1>4
<1> QED BY <1>2, <1>3, <1>4, <1>5, <1>6, <1>7

LEMMA DaysInOrder ==
  ASSUME NEW s \in Int, NEW t \in Int, s <= t
  PROVE  LocalDate(s) <= LocalDate(t) /\ LocalDate(s) \in Int /\ LocalDate(t) \in Int
<1>1. LocalDate(t) \in Int /\ LocalDate(s) \in Int
  BY DayOfTime
<1>2. t < DayStart(LocalDate(t) + 1) /\ DayStart(LocalDate(t) + 1) \in Int
  <2> DEFINE d == LocalDate(t)
  <2>1. d \in Int /\ d + 1 \in Int /\ LocalDate(t) = d
    BY <1>1
  <2> HIDE DEF d
  <2>2. t < DayStart(d + 1) /\ DayStart(d + 1) \in Int
    BY <2>1, DayOfTime
  <2> QED BY <2>2 DEF d
<1>3. LocalDate(s) <= LocalDate(t) <=> s < DayStart(LocalDate(t) + 1)
  BY <1>1, DayOfTime
<1> QED BY <1>1, <1>2, <1>3

LEMMA StartsOfDays ==
  ASSUME NEW d \in Int, NEW e \in Int, d <= e
  PROVE  DayStart(d) <= DayStart(e) /\ DayStart(d) \in Int /\ DayStart(e) \in Int
<1>1. DayLength \in Nat \ {0}
  BY HistoryAssumption
<1>2. /\ DayLength * d <= DayLength * e
      /\ d * DayLength = DayLength * d /\ e * DayLength = DayLength * e
  BY <1>1, Multiples
<1>3. d * DayLength \in Int /\ e * DayLength \in Int
  BY <1>1
<1> QED BY <1>2, <1>3 DEF DayStart

LEMMA OfTwo ==
  ASSUME NEW a \in Int, NEW b \in Int
  PROVE  Max({a, b}) = (IF a >= b THEN a ELSE b) /\ Min({a, b}) = (IF a <= b THEN a ELSE b)
<1>1. \A x : (x \in {a, b} /\ \A y \in {a, b} : x >= y) <=> x = (IF a >= b THEN a ELSE b)
  OBVIOUS
<1>2. \A x : (x \in {a, b} /\ \A y \in {a, b} : x <= y) <=> x = (IF a <= b THEN a ELSE b)
  OBVIOUS
<1>3. Max({a, b}) = CHOOSE x : x \in {a, b} /\ \A y \in {a, b} : x >= y
  BY DEF Max
<1>4. Min({a, b}) = CHOOSE x : x \in {a, b} /\ \A y \in {a, b} : x <= y
  BY DEF Min
<1> QED BY <1>1, <1>2, <1>3, <1>4

\* An outage has time in a day when one of its instants falls in it.
LEMMA TimeInDay ==
  ASSUME NEW o, NEW day \in Int, NEW time, o.start \in Int, EndOrNow(o, time) \in Int
  PROVE  /\ TimeWithin(o, day, time) \in Nat
         /\ TimeWithin(o, day, time) > 0 <=>
              \E t \in (o.start)..(EndOrNow(o, time) - 1) : LocalDate(t) = day
<1> DEFINE s == o.start
           e == EndOrNow(o, time)
           a == DayStart(day)
           b == DayStart(day + 1)
           from == IF s >= a THEN s ELSE a
           to == IF e <= b THEN e ELSE b
<1>1. a \in Int /\ b \in Int /\ s \in Int /\ e \in Int
  <2>1. day + 1 \in Int /\ day <= day + 1
    OBVIOUS
  <2> QED BY <2>1, StartsOfDays
<1>2. \A t \in Int : LocalDate(t) = day <=> a <= t /\ t < b
  BY DayOfTime
<1>3. TimeWithin(o, day, time) = IF to - from >= 0 THEN to - from ELSE 0
  <2>1. Max({s, a}) = from /\ Min({e, b}) = to
    BY <1>1, OfTwo
  <2>2. from \in Int /\ to \in Int
    BY <1>1
  <2>3. TimeWithin(o, day, time) = Max({Min({e, b}) - Max({s, a}), 0})
    BY DEF TimeWithin
  <2> HIDE DEF from, to
  <2>4. TimeWithin(o, day, time) = Max({to - from, 0})
    BY <2>1, <2>3
  <2>5. to - from \in Int
    BY <2>2
  <2> QED BY <2>4, <2>5, OfTwo
<1> HIDE DEF s, e, a, b
<1>4. TimeWithin(o, day, time) \in Nat /\ (TimeWithin(o, day, time) > 0 <=> from < to)
  BY <1>1, <1>3
<1>5. from < to <=> \E t \in s..(e - 1) : a <= t /\ t < b
  <2>1. from < to => from \in s..(e - 1) /\ a <= from /\ from < b
    BY <1>1
  <2>2. \A t \in s..(e - 1) : a <= t /\ t < b => from < to
    BY <1>1
  <2> HIDE DEF from, to
  <2> QED BY <2>1, <2>2
<1>6. (\E t \in s..(e - 1) : a <= t /\ t < b) <=> \E t \in s..(e - 1) : LocalDate(t) = day
  BY <1>1, <1>2
<1> QED BY <1>4, <1>5, <1>6 DEF s, e

\* The worst incident of a day is one of those on it, and no other is worse.
LEMMA WorstOfDay ==
  ASSUME NEW spans, NEW day, NEW time
  PROVE  /\ WorstLevelOn(spans, day, time) \in 0..2
         /\ \A t \in spans : OnDay(t, day, time) =>
              WorstLevelOn(spans, day, time) >= SeverityLevel(t.severity)
         /\ WorstLevelOn(spans, day, time) > 0 => \E t \in spans : OnDay(t, day, time)
<1> DEFINE levels == {SeverityLevel(s.severity) : s \in {t \in spans : OnDay(t, day, time)}}
           A == {0} \cup levels
<1>1. levels \subseteq {1, 2}
  BY DEF SeverityLevel
<1>2. WorstLevelOn(spans, day, time) = CHOOSE x \in A : \A y \in A : x >= y
  BY DEF WorstLevelOn, Max
<1>3. \A t \in spans : OnDay(t, day, time) => SeverityLevel(t.severity) \in levels
  OBVIOUS
<1>4. levels # {} => \E t \in spans : OnDay(t, day, time)
  OBVIOUS
<1> HIDE DEF levels
<1>5. \E x \in A : \A y \in A : x >= y
  <2>1. CASE 2 \in A
    BY <1>1, <2>1
  <2>2. CASE 2 \notin A /\ 1 \in A
    BY <1>1, <2>2
  <2>3. CASE 2 \notin A /\ 1 \notin A
    BY <1>1, <2>3
  <2> QED BY <2>1, <2>2, <2>3
<1>6. /\ WorstLevelOn(spans, day, time) \in A
      /\ \A y \in A : WorstLevelOn(spans, day, time) >= y
  BY <1>2, <1>5
<1> DEFINE worst == WorstLevelOn(spans, day, time)
<1>7. worst \in 0..2 /\ (worst > 0 => levels # {})
  <2>1. worst \in A
    BY <1>6
  <2> HIDE DEF worst
  <2> QED BY <1>1, <2>1
<1>8. \A t \in spans : OnDay(t, day, time) => worst >= SeverityLevel(t.severity)
  BY <1>3, <1>6
<1> QED BY <1>4, <1>7, <1>8

-----------------------------------------------------------------------------
(* Strip.  What the rows say of the days that were lived.                  *)

OutageOK(o) == o.start \in 0..now /\ (o.end = Unset \/ o.end \in (o.start)..now)

\* A row says when its incident ended exactly when it did, and not that the
\* service came back while it is down, nor once an undo brings that back.
RowOK(row) ==
  /\ DOMAIN row = DOMAIN NoIncident
  /\ row.lifecycle \in {"investigating", "in_progress", "monitoring", "resolved", "cancelled"}
  /\ row.previous \in {None, "investigating", "in_progress", "monitoring"}
  /\ row.severity \in Severities
  /\ row.started \in 0..now
  /\ row.restored = Unset \/ row.restored \in 0..now
  /\ row.ended = Unset \/ row.ended \in 0..now
  /\ row.lifecycle = "resolved" <=> row.ended # Unset
  /\ HasServiceDown(row) => row.restored = Unset
  /\ row.previous \in {"investigating", "in_progress"} /\ row.lifecycle # "monitoring"
       => row.restored = Unset
  /\ row.restored # Unset /\ row.ended # Unset => row.restored <= row.ended

\* The days it had the service down lie within its dates, and it was open on
\* every day between them.
DaysOK(row, down, days) ==
  /\ \A d \in down :
       /\ d \in LocalDate(row.started)..LocalDate(now)
       /\ row.restored # Unset => d <= LocalDate(row.restored)
       /\ row.ended # Unset => d <= LocalDate(row.ended)
  /\ IsOpen(row) => DaysBetween(row.started, now) \subseteq days
  /\ row.lifecycle = "resolved" => DaysBetween(row.started, row.ended) \subseteq days

IncidentOK(i) ==
  \/ incident[i] = NoIncident /\ broken[i] = {} /\ open[i] = {}
  \/ RowOK(incident[i]) /\ DaysOK(incident[i], broken[i], open[i])

StripInv ==
  /\ now \in Nat
  /\ incident = [i \in Incidents |-> incident[i]]
  /\ broken = [i \in Incidents |-> broken[i]] /\ open = [i \in Incidents |-> open[i]]
  /\ \A i \in Incidents : IncidentOK(i)
  /\ IsFiniteSet(outages) /\ \A o \in outages : OutageOK(o)

LEMMA StripStarts == StripInit => StripInv
<1> SUFFICES ASSUME StripInit PROVE StripInv
  OBVIOUS
<1>1. IsFiniteSet(outages)
  BY FS_EmptySet DEF StripInit
<1> QED BY <1>1, StripAssumption DEF StripInit, StripInv, IncidentOK

\* A row written keeps its dates, or takes the time it is for one of them.
LEMMA LivesStep ==
  ASSUME StripInv, NEW i \in Incidents, NEW row, RowOK(row), Lives(i, row),
         now' = now, outages' = outages,
         IF OnRecord(i)
         THEN /\ row.started = incident[i].started
              /\ row.restored # Unset =>
                   row.restored = incident[i].restored \/ row.restored = now
              /\ row.lifecycle = "resolved" =>
                   \/ incident[i].lifecycle = "resolved" /\ row.ended = incident[i].ended
                   \/ IsOpen(incident[i]) /\ row.ended = now
         ELSE row.restored = Unset /\ row.ended = Unset
  PROVE  StripInv'
<1> DEFINE was == incident[i]
           since == IF IsOpen(was) THEN now ELSE row.started
           days == IF IsOpen(row) THEN open[i] \cup DaysBetween(since, now) ELSE open[i]
           down == IF HasServiceDown(row)
                   THEN broken[i] \cup DaysBetween(IF OnRecord(i) THEN now ELSE row.started, now)
                   ELSE broken[i]
<1>1. /\ now \in Nat
      /\ incident = [j \in Incidents |-> incident[j]]
      /\ broken = [j \in Incidents |-> broken[j]] /\ open = [j \in Incidents |-> open[j]]
      /\ \A j \in Incidents : IncidentOK(j)
      /\ IsFiniteSet(outages) /\ \A o \in outages : OutageOK(o)
  BY DEF StripInv
<1>2. /\ incident' = [incident EXCEPT ![i] = row]
      /\ open' = [open EXCEPT ![i] = days]
      /\ broken' = [broken EXCEPT ![i] = down]
  BY DEF Lives
<1>3. /\ row.started \in 0..now /\ (row.restored = Unset \/ row.restored \in 0..now)
      /\ (row.ended = Unset \/ row.ended \in 0..now)
      /\ row.lifecycle = "resolved" <=> row.ended # Unset
      /\ HasServiceDown(row) => row.restored = Unset /\ row.lifecycle # "resolved"
  BY DEF RowOK, HasServiceDown, DrivesServices
<1>4. \A s, u \in Int : s <= u =>
        LocalDate(s) <= LocalDate(u) /\ LocalDate(s) \in Int /\ LocalDate(u) \in Int
  BY DaysInOrder
<1>5. DaysOK(row, down, days)
  <2>1. CASE ~OnRecord(i)
    <3>1. was = NoIncident /\ broken[i] = {} /\ open[i] = {}
      BY <1>1, <2>1 DEF IncidentOK, RowOK, OnRecord, None
    <3>2. ~IsOpen(was)
      BY <3>1 DEF IsOpen, NoIncident
    <3>3. row.restored = Unset /\ row.ended = Unset
      BY <2>1
    <3>4. days = IF IsOpen(row) THEN DaysBetween(row.started, now) ELSE {}
      BY <3>1, <3>2
    <3>5. down = IF HasServiceDown(row) THEN DaysBetween(row.started, now) ELSE {}
      BY <2>1, <3>1
    <3> HIDE DEF days, down
    <3> QED BY <1>3, <3>3, <3>4, <3>5 DEF DaysOK, DaysBetween
  <2>2. CASE OnRecord(i)
    <3>1. RowOK(was) /\ DaysOK(was, broken[i], open[i])
      BY <1>1, <2>2 DEF IncidentOK, OnRecord, NoIncident
    <3>2. /\ row.started = was.started
          /\ row.restored # Unset => row.restored = was.restored \/ row.restored = now
          /\ row.lifecycle = "resolved" =>
               \/ was.lifecycle = "resolved" /\ row.ended = was.ended
               \/ IsOpen(was) /\ row.ended = now
      BY <2>2
    <3>3. \A d \in broken[i] :
            /\ d \in LocalDate(was.started)..LocalDate(now)
            /\ was.restored # Unset => d <= LocalDate(was.restored)
            /\ was.ended # Unset => d <= LocalDate(was.ended)
      BY <3>1 DEF DaysOK
    <3>4. was.lifecycle = "resolved" <=> was.ended # Unset
      BY <3>1 DEF RowOK
    <3>5. \A d \in broken[i] :
            /\ d \in LocalDate(row.started)..LocalDate(now)
            /\ row.restored # Unset => d <= LocalDate(row.restored)
            /\ row.ended # Unset => d <= LocalDate(row.ended)
      <4> SUFFICES ASSUME NEW d \in broken[i]
                   PROVE  /\ d \in LocalDate(row.started)..LocalDate(now)
                          /\ row.restored # Unset => d <= LocalDate(row.restored)
                          /\ row.ended # Unset => d <= LocalDate(row.ended)
        OBVIOUS
      <4>1. d \in LocalDate(was.started)..LocalDate(now) /\ d <= LocalDate(now)
        BY <1>1, <1>3, <1>4, <3>2, <3>3
      <4>2. row.restored # Unset => d <= LocalDate(row.restored)
        BY <3>2, <3>3, <4>1
      <4>3. row.ended # Unset => d <= LocalDate(row.ended)
        BY <1>3, <3>2, <3>3, <3>4, <4>1
      <4> QED BY <3>2, <4>1, <4>2, <4>3
    <3>6. \A d \in DaysBetween(now, now) : d \in LocalDate(row.started)..LocalDate(now)
      BY <1>1, <1>3, <1>4 DEF DaysBetween
    <3>7. down = IF HasServiceDown(row) THEN broken[i] \cup DaysBetween(now, now) ELSE broken[i]
      BY <2>2
    <3>8. IsOpen(row) => DaysBetween(row.started, now) \subseteq days
      <4>1. IsOpen(was) => DaysBetween(row.started, now) \subseteq open[i]
        BY <3>1, <3>2 DEF DaysOK
      <4> QED BY <4>1
    <3>9. row.lifecycle = "resolved" => DaysBetween(row.started, row.ended) \subseteq days
      <4>1. IsOpen(was) => DaysBetween(row.started, now) \subseteq open[i]
        BY <3>1, <3>2 DEF DaysOK
      <4>2. was.lifecycle = "resolved" => DaysBetween(row.started, was.ended) \subseteq open[i]
        BY <3>1, <3>2 DEF DaysOK
      <4>3. open[i] \subseteq days
        OBVIOUS
      <4> HIDE DEF days
      <4> QED BY <3>2, <4>1, <4>2, <4>3
    <3> HIDE DEF days, down
    <3>10. \A d \in down :
            /\ d \in LocalDate(row.started)..LocalDate(now)
            /\ row.restored # Unset => d <= LocalDate(row.restored)
            /\ row.ended # Unset => d <= LocalDate(row.ended)
      BY <1>3, <3>5, <3>6, <3>7
    <3> QED BY <3>8, <3>9, <3>10 DEF DaysOK
  <2> QED BY <2>1, <2>2
<1> HIDE DEF days, down
<1>6. (\A j \in Incidents : IncidentOK(j))'
  <2> SUFFICES ASSUME NEW j \in Incidents PROVE IncidentOK(j)'
    OBVIOUS
  <2>1. CASE j = i
    <3>1. incident'[i] = row /\ broken'[i] = down /\ open'[i] = days
      BY <1>1, <1>2
    <3>2. RowOK(incident[i])'
      BY <3>1 DEF RowOK, HasServiceDown
    <3>3. DaysOK(incident[i], broken[i], open[i])'
      BY <1>5, <3>1 DEF DaysOK, IsOpen, DaysBetween
    <3> QED BY <2>1, <3>2, <3>3 DEF IncidentOK
  <2>2. CASE j # i
    <3>1. incident'[j] = incident[j] /\ broken'[j] = broken[j] /\ open'[j] = open[j]
      BY <1>1, <1>2, <2>2
    <3>2. IncidentOK(j)
      BY <1>1
    <3> QED BY <3>1, <3>2 DEF IncidentOK, RowOK, DaysOK
  <2> QED BY <2>1, <2>2
<1>7. (incident = [j \in Incidents |-> incident[j]])'
      /\ (broken = [j \in Incidents |-> broken[j]])' /\ (open = [j \in Incidents |-> open[j]])'
  BY <1>1, <1>2
<1>8. (IsFiniteSet(outages) /\ \A o \in outages : OutageOK(o))' /\ (now \in Nat)'
  BY <1>1 DEF OutageOK
<1> QED BY <1>6, <1>7, <1>8 DEF StripInv

\* A row with some fields replaced is a row, and the others stay.
LEMMA DeclareStep ==
  ASSUME StripInv, NEW i \in Incidents, NEW step \in Lifecycle, NEW severity \in Severities,
         NEW began, Declare(i, step, severity, began)
  PROVE  StripInv'
<1> DEFINE row == Declared(step, severity, began)
<1>1. /\ ~OnRecord(i) /\ OpensIncident(step) /\ began \in 0..now
      /\ Lives(i, row) /\ now' = now /\ outages' = outages
  BY DEF Declare
<1>2. /\ DOMAIN row = DOMAIN NoIncident /\ row.lifecycle = step /\ row.previous = None
      /\ row.severity = severity /\ row.started = began /\ row.restored = Unset
      /\ row.ended = Unset
  BY DEF Declared, NoIncident
<1> HIDE DEF row
<1>3. RowOK(row)
  BY <1>1, <1>2 DEF RowOK, OpensIncident, None
<1> QED BY <1>1, <1>2, <1>3, LivesStep

\* What is known of a row that is there.
LEMMA RowThere ==
  ASSUME StripInv, NEW i \in Incidents, OnRecord(i)
  PROVE  RowOK(incident[i]) /\ DaysOK(incident[i], broken[i], open[i]) /\ now \in Nat
BY DEF StripInv, IncidentOK, OnRecord, NoIncident

LEMMA TransitionStep ==
  ASSUME StripInv, NEW i \in Incidents, NEW next \in Lifecycle, Transition(i, next)
  PROVE  StripInv'
<1> DEFINE was == incident[i]
           row == Moved(was, next)
<1>1. /\ OnRecord(i) /\ CanTransition("incident", was.lifecycle, next)
      /\ Lives(i, row) /\ now' = now /\ outages' = outages
  BY DEF Transition
<1>2. RowOK(was) /\ now \in Nat
  BY <1>1, RowThere
<1>3. /\ was.lifecycle \in {"investigating", "in_progress", "monitoring"}
      /\ next \in {"in_progress", "monitoring", "resolved", "cancelled"}
      /\ was.lifecycle = "monitoring" => next \in {"in_progress", "resolved"}
  BY <1>1 DEF CanTransition, AllowedTransitions
<1>4. DOMAIN was = {"lifecycle", "previous", "severity", "started", "restored", "ended"}
  BY <1>2 DEF RowOK, NoIncident
<1>5. /\ DOMAIN row = DOMAIN NoIncident /\ row.lifecycle = next /\ row.previous = was.lifecycle
      /\ row.severity = was.severity /\ row.started = was.started
      /\ row.ended = IF next = "resolved" THEN now ELSE was.ended
      /\ row.restored = CASE next = "monitoring" ->
                               (IF was.restored = Unset THEN now ELSE was.restored)
                          [] next \in {"investigating", "in_progress"} -> Unset
                          [] OTHER -> was.restored
  BY <1>4 DEF Moved, NoIncident
<1> HIDE DEF row
<1>6. was.ended = Unset
  BY <1>2, <1>3 DEF RowOK
<1>7. RowOK(row)
  <2>1. /\ row.started \in 0..now /\ row.severity \in Severities
        /\ row.restored = Unset \/ row.restored \in 0..now
        /\ row.ended = Unset \/ row.ended \in 0..now
    BY <1>2, <1>3, <1>5, <1>6 DEF RowOK
  <2>2. row.lifecycle = "resolved" <=> row.ended # Unset
    BY <1>2, <1>5, <1>6 DEF Unset
  <2>3. HasServiceDown(row) => row.restored = Unset
    BY <1>3, <1>5 DEF HasServiceDown, DrivesServices
  <2>4. row.previous \in {"investigating", "in_progress"} /\ row.lifecycle # "monitoring"
          => row.restored = Unset
    BY <1>2, <1>3, <1>5 DEF RowOK, HasServiceDown, DrivesServices
  <2>5. row.restored # Unset /\ row.ended # Unset => row.restored <= row.ended
    BY <1>2, <1>3, <1>5, <1>6, <2>1 DEF Unset
  <2> QED BY <1>3, <1>5, <2>1, <2>2, <2>3, <2>4, <2>5 DEF RowOK
<1>8. IsOpen(was)
  BY <1>3 DEF IsOpen, IsTerminal, None
<1>9. /\ row.started = was.started
      /\ row.restored # Unset => row.restored = was.restored \/ row.restored = now
      /\ row.lifecycle = "resolved" => IsOpen(was) /\ row.ended = now
  BY <1>3, <1>5, <1>8
<1> QED BY <1>1, <1>7, <1>9, LivesStep

LEMMA UndoStep ==
  ASSUME StripInv, NEW i \in Incidents, UndoMove(i)
  PROVE  StripInv'
<1> DEFINE was == incident[i]
           row == Reverted(was)
<1>1. /\ OnRecord(i) /\ was.previous # None
      /\ Lives(i, row) /\ now' = now /\ outages' = outages
  BY DEF UndoMove
<1>2. RowOK(was)
  BY <1>1, RowThere
<1>3. DOMAIN was = {"lifecycle", "previous", "severity", "started", "restored", "ended"}
  BY <1>2 DEF RowOK, NoIncident
<1>4. was.previous \in {"investigating", "in_progress", "monitoring"}
  BY <1>1, <1>2 DEF RowOK
<1>5. /\ DOMAIN row = DOMAIN NoIncident /\ row.lifecycle = was.previous /\ row.previous = None
      /\ row.severity = was.severity /\ row.started = was.started /\ row.ended = Unset
      /\ row.restored = IF was.lifecycle = "monitoring" THEN Unset ELSE was.restored
  BY <1>3 DEF Reverted, NoIncident
<1> HIDE DEF row
<1>6. RowOK(row)
  <2>1. HasServiceDown(row) => row.restored = Unset
    BY <1>2, <1>4, <1>5 DEF RowOK, HasServiceDown, DrivesServices
  <2> QED BY <1>2, <1>4, <1>5, <2>1 DEF RowOK, None
<1>7. /\ row.started = was.started
      /\ row.restored # Unset => row.restored = was.restored \/ row.restored = now
      /\ row.lifecycle # "resolved"
  BY <1>4, <1>5
<1> QED BY <1>1, <1>6, <1>7, LivesStep

LEMMA EditStep ==
  ASSUME StripInv, NEW i \in Incidents, NEW severity \in Severities, Edit(i, severity)
  PROVE  StripInv'
<1> DEFINE was == incident[i]
           row == [was EXCEPT !.severity = severity]
<1>1. OnRecord(i) /\ Lives(i, row) /\ now' = now /\ outages' = outages
  BY DEF Edit
<1>2. RowOK(was)
  BY <1>1, RowThere
<1>3. DOMAIN was = {"lifecycle", "previous", "severity", "started", "restored", "ended"}
  BY <1>2 DEF RowOK, NoIncident
<1>4. /\ DOMAIN row = DOMAIN was /\ row.lifecycle = was.lifecycle /\ row.previous = was.previous
      /\ row.severity = severity /\ row.started = was.started /\ row.ended = was.ended
      /\ row.restored = was.restored
  BY <1>3
<1> HIDE DEF row
<1>5. RowOK(row)
  BY <1>2, <1>4 DEF RowOK, HasServiceDown
<1> QED BY <1>1, <1>4, <1>5, LivesStep

LEMMA DeleteStep ==
  ASSUME StripInv, NEW i \in Incidents, Delete(i)
  PROVE  StripInv'
<1>1. /\ incident' = [incident EXCEPT ![i] = NoIncident]
      /\ open' = [open EXCEPT ![i] = {}] /\ broken' = [broken EXCEPT ![i] = {}]
      /\ now' = now /\ outages' = outages
  BY DEF Delete
<1>2. /\ incident = [j \in Incidents |-> incident[j]]
      /\ broken = [j \in Incidents |-> broken[j]] /\ open = [j \in Incidents |-> open[j]]
      /\ now \in Nat /\ IsFiniteSet(outages) /\ \A o \in outages : OutageOK(o)
  BY DEF StripInv
<1>3. ASSUME NEW j \in Incidents PROVE IncidentOK(j)'
  <2>1. CASE j = i
    <3>1. incident'[i] = NoIncident /\ broken'[i] = {} /\ open'[i] = {}
      BY <1>1, <1>2
    <3> QED BY <2>1, <3>1 DEF IncidentOK
  <2>2. CASE j # i
    <3>1. incident'[j] = incident[j] /\ broken'[j] = broken[j] /\ open'[j] = open[j]
      BY <1>1, <1>2, <2>2
    <3>2. IncidentOK(j)
      BY DEF StripInv
    <3> QED BY <1>1, <3>1, <3>2 DEF IncidentOK, RowOK, DaysOK
  <2> QED BY <2>1, <2>2
<1>4. /\ (incident = [j \in Incidents |-> incident[j]])'
      /\ (broken = [j \in Incidents |-> broken[j]])' /\ (open = [j \in Incidents |-> open[j]])'
  BY <1>1, <1>2
<1>5. (now \in Nat /\ IsFiniteSet(outages) /\ \A o \in outages : OutageOK(o))'
  BY <1>1, <1>2 DEF OutageOK
<1> QED BY <1>3, <1>4, <1>5 DEF StripInv

\* The outages change and nothing else.
LEMMA OutagesStep ==
  ASSUME StripInv, UNCHANGED <<now, incident, broken, open>>,
         IsFiniteSet(outages'), \A o \in outages' : OutageOK(o)
  PROVE  StripInv'
<1>1. /\ incident = [j \in Incidents |-> incident[j]]
      /\ broken = [j \in Incidents |-> broken[j]] /\ open = [j \in Incidents |-> open[j]]
      /\ now \in Nat
  BY DEF StripInv
<1>2. now' = now /\ incident' = incident /\ broken' = broken /\ open' = open
  OBVIOUS
<1>3. (\A j \in Incidents : IncidentOK(j))'
  <2>1. \A j \in Incidents : IncidentOK(j)
    BY DEF StripInv
  <2> QED BY <1>2, <2>1 DEF IncidentOK, RowOK, DaysOK
<1>4. (\A o \in outages : OutageOK(o))'
  BY <1>2 DEF OutageOK
<1>5. /\ (incident = [j \in Incidents |-> incident[j]])'
      /\ (broken = [j \in Incidents |-> broken[j]])' /\ (open = [j \in Incidents |-> open[j]])'
      /\ (now \in Nat)'
  BY <1>1, <1>2
<1> QED BY <1>3, <1>4, <1>5 DEF StripInv

LEMMA OutageSteps ==
  ASSUME StripInv, OpenOutage \/ CloseOutage \/ Erase
  PROVE  StripInv'
<1>1. now \in Nat /\ IsFiniteSet(outages) /\ \A o \in outages : OutageOK(o)
  BY DEF StripInv
<1>2. UNCHANGED <<now, incident, broken, open>>
  BY DEF OpenOutage, CloseOutage, Erase, Untouched
<1>3. CASE OpenOutage
  <2>1. PICK n \in 1..MaxOutages, start \in {now, now - 1} :
          /\ start >= Created
          /\ outages' = outages \cup {[n |-> n, start |-> start, end |-> Unset]}
    BY <1>3 DEF OpenOutage
  <2>2. OutageOK([n |-> n, start |-> start, end |-> Unset])
    BY <1>1, <2>1, StripAssumption DEF OutageOK
  <2>3. IsFiniteSet(outages')
    BY <1>1, <2>1, FS_AddElement
  <2> QED BY <1>1, <1>2, <2>1, <2>2, <2>3, OutagesStep
<1>4. CASE CloseOutage
  <2>1. PICK o \in outages : /\ o.end = Unset
                             /\ outages' = (outages \ {o}) \cup {[o EXCEPT !.end = now]}
    BY <1>4 DEF CloseOutage
  <2>2. OutageOK([o EXCEPT !.end = now])
    <3>1. o.start \in 0..now
      BY <1>1 DEF OutageOK
    <3> QED BY <1>1, <3>1 DEF OutageOK
  <2>3. IsFiniteSet(outages')
    BY <1>1, <2>1, FS_AddElement, FS_RemoveElement
  <2> QED BY <1>1, <1>2, <2>1, <2>2, <2>3, OutagesStep
<1>5. CASE Erase
  <2>1. PICK o \in outages : outages' = outages \ {o}
    BY <1>5 DEF Erase
  <2>2. IsFiniteSet(outages')
    BY <1>1, <2>1, FS_RemoveElement
  <2> QED BY <1>1, <1>2, <2>1, <2>2, OutagesStep
<1> QED BY <1>3, <1>4, <1>5

LEMMA TimeStep ==
  ASSUME StripInv, TimePasses
  PROVE  StripInv'
<1>1. /\ now \in Nat
      /\ incident = [i \in Incidents |-> incident[i]]
      /\ IsFiniteSet(outages) /\ \A o \in outages : OutageOK(o)
  BY DEF StripInv
<1>2. /\ now' = now + 1 /\ incident' = incident /\ outages' = outages
      /\ open' = [i \in Incidents |->
           IF IsOpen(incident[i]) THEN open[i] \cup DaysBetween(now', now') ELSE open[i]]
      /\ broken' = [i \in Incidents |->
           IF HasServiceDown(incident[i]) THEN broken[i] \cup DaysBetween(now', now')
           ELSE broken[i]]
  BY DEF TimePasses
<1> DEFINE day == LocalDate(now)
           later == LocalDate(now + 1)
<1>3. day \in Int /\ later \in Int /\ day <= later /\ later <= day + 1
  <2>1. day \in Int /\ later \in Int /\ day <= later
    BY <1>1, DaysInOrder
  <2>2. now < DayStart(day + 1) /\ DayStart(day + 1) + 1 <= DayStart(day + 2)
    <3> DEFINE d == day
    <3>1. d \in Int /\ d + 1 \in Int /\ d + 2 \in Int /\ now \in Int /\ LocalDate(now) = d
      BY <1>1, <2>1
    <3> HIDE DEF d
    <3>2. now < DayStart(d + 1)
      BY <3>1, DayOfTime
    <3>3. DayStart(d + 1) \in Int /\ DayStart(d + 2) \in Int
      BY <3>1, StartsOfDays
    <3>4. DayStart(d + 1) + 1 <= DayStart(d + 2)
      <4>1. DayLength \in Nat \ {0}
        BY HistoryAssumption
      <4>2. /\ DayLength * (d + 1) + DayLength <= DayLength * (d + 2)
            /\ (d + 1) * DayLength = DayLength * (d + 1)
            /\ (d + 2) * DayLength = DayLength * (d + 2)
        BY <3>1, <4>1, Multiples
      <4>3. DayLength * (d + 1) \in Int /\ DayLength * (d + 2) \in Int
        BY <3>1, <4>1
      <4> QED BY <4>1, <4>2, <4>3 DEF DayStart
    <3> QED BY <3>2, <3>4 DEF d
  <2>3. now + 1 < DayStart(day + 2) => later <= day + 1
    <3> DEFINE d == day
    <3>1. d \in Int /\ d + 1 \in Int /\ now + 1 \in Int /\ (d + 1) + 1 = d + 2
      BY <1>1, <2>1
    <3> HIDE DEF d
    <3>2. LocalDate(now + 1) <= d + 1 <=> now + 1 < DayStart((d + 1) + 1)
      BY <3>1, DayOfTime
    <3> QED BY <3>1, <3>2 DEF d
  <2>4. DayStart(day + 1) \in Int /\ DayStart(day + 2) \in Int
    <3>1. day + 1 \in Int /\ day + 2 \in Int /\ day + 1 <= day + 2
      BY <2>1
    <3> QED BY <3>1, StartsOfDays
  <2> QED BY <1>1, <2>1, <2>2, <2>3, <2>4
<1>4. ASSUME NEW i \in Incidents PROVE IncidentOK(i)'
  <2> DEFINE row == incident[i]
             down == IF HasServiceDown(row) THEN broken[i] \cup DaysBetween(now', now')
                     ELSE broken[i]
             days == IF IsOpen(row) THEN open[i] \cup DaysBetween(now', now') ELSE open[i]
  <2>1. incident'[i] = row /\ broken'[i] = down /\ open'[i] = days
    BY <1>2
  <2>2. IncidentOK(i)
    BY DEF StripInv
  <2>3. CASE row = NoIncident /\ broken[i] = {} /\ open[i] = {}
    <3>1. ~IsOpen(row) /\ ~HasServiceDown(row)
      BY <2>3 DEF IsOpen, HasServiceDown, DrivesServices, NoIncident, None
    <3> QED BY <2>1, <2>3, <3>1 DEF IncidentOK
  <2>4. CASE RowOK(row) /\ DaysOK(row, broken[i], open[i])
    <3>1. /\ row.started \in 0..now /\ (row.restored = Unset \/ row.restored \in 0..now)
          /\ (row.ended = Unset \/ row.ended \in 0..now)
          /\ HasServiceDown(row) => row.restored = Unset /\ row.ended = Unset
      BY <2>4 DEF RowOK, HasServiceDown, DrivesServices
    <3>2. DaysBetween(now', now') = later..later
      BY <1>2 DEF DaysBetween
    <3>3. LocalDate(row.started) \in Int /\ LocalDate(row.started) <= day
      BY <1>1, <3>1, DaysInOrder
    <3>4. DaysBetween(row.started, now) = LocalDate(row.started)..day
          /\ DaysBetween(row.started, now + 1) = LocalDate(row.started)..later
      BY DEF DaysBetween
    <3> HIDE DEF day, later
    <3>5. RowOK(incident[i])'
      <4>1. RowOK(incident[i])
        BY <2>4
      <4> QED BY <1>1, <1>2, <4>1 DEF RowOK
    <3>6. \A d \in down :
            /\ d \in LocalDate(row.started)..later
            /\ row.restored # Unset => d <= LocalDate(row.restored)
            /\ row.ended # Unset => d <= LocalDate(row.ended)
      <4>1. \A d \in broken[i] :
              /\ d \in LocalDate(row.started)..day
              /\ row.restored # Unset => d <= LocalDate(row.restored)
              /\ row.ended # Unset => d <= LocalDate(row.ended)
        BY <2>4 DEF DaysOK, day
      <4> QED BY <1>3, <3>1, <3>2, <3>3, <4>1
    <3>7. IsOpen(row) => DaysBetween(row.started, now + 1) \subseteq days
      <4>1. IsOpen(row) => DaysBetween(row.started, now) \subseteq open[i]
        BY <2>4 DEF DaysOK
      <4> QED BY <1>3, <3>2, <3>3, <3>4, <4>1
    <3>8. row.lifecycle = "resolved" => DaysBetween(row.started, row.ended) \subseteq days
      <4>1. row.lifecycle = "resolved" => DaysBetween(row.started, row.ended) \subseteq open[i]
        BY <2>4 DEF DaysOK
      <4> QED BY <4>1
    <3> HIDE DEF down, days
    <3>9. DaysOK(incident[i], broken[i], open[i])'
      BY <1>2, <2>1, <3>6, <3>7, <3>8 DEF DaysOK, later
    <3> QED BY <3>5, <3>9 DEF IncidentOK
  <2> QED BY <2>2, <2>3, <2>4 DEF IncidentOK
<1>5. /\ (incident = [j \in Incidents |-> incident[j]])'
      /\ (broken = [j \in Incidents |-> broken[j]])' /\ (open = [j \in Incidents |-> open[j]])'
  BY <1>1, <1>2
<1>6. (now \in Nat /\ IsFiniteSet(outages) /\ \A o \in outages : OutageOK(o))'
  BY <1>1, <1>2 DEF OutageOK
<1> QED BY <1>4, <1>5, <1>6 DEF StripInv

LEMMA StripStep == StripInv /\ [StripNext]_stripVars => StripInv'
<1> SUFFICES ASSUME StripInv, [StripNext]_stripVars PROVE StripInv'
  OBVIOUS
<1>1. CASE UNCHANGED stripVars
  <2>1. UNCHANGED <<now, incident, broken, open>> /\ outages' = outages
    BY <1>1 DEF stripVars
  <2>2. IsFiniteSet(outages') /\ \A o \in outages' : OutageOK(o)
    BY <2>1 DEF StripInv
  <2> QED BY <2>1, <2>2, OutagesStep
<1>2. CASE OpenOutage \/ CloseOutage \/ Erase
  BY <1>2, OutageSteps
<1>3. CASE TimePasses
  BY <1>3, TimeStep
<1>4. ASSUME NEW i \in Incidents,
             \/ \E step \in Lifecycle, severity \in Severities, began \in {now, now - 1} :
                  Declare(i, step, severity, began)
             \/ \E next \in Lifecycle : Transition(i, next)
             \/ \E severity \in Severities : Edit(i, severity)
             \/ UndoMove(i) \/ Delete(i)
      PROVE  StripInv'
  BY <1>4, DeclareStep, TransitionStep, EditStep, UndoStep, DeleteStep
<1> QED BY <1>1, <1>2, <1>3, <1>4 DEF StripNext

LEMMA BegunBy ==
  ASSUME NEW day \in Int, NEW t \in Int, day <= LocalDate(t)
  PROVE  DayStart(day) <= t
<1> DEFINE d == LocalDate(t)
<1>1. d \in Int /\ LocalDate(t) = d /\ day <= d
  BY DayOfTime
<1> HIDE DEF d
<1>2. DayStart(d) <= t
  BY <1>1, DayOfTime
<1>3. DayStart(day) <= DayStart(d) /\ DayStart(day) \in Int /\ DayStart(d) \in Int
  BY <1>1, StartsOfDays
<1> QED BY <1>2, <1>3

\* An outage that fell on a day of the strip is among those read for it.
LEMMA FellIsRead ==
  ASSUME StripInv, NEW o \in outages, NEW day \in Int, FirstDay(now) <= day, Fell(o, day)
  PROVE  o \in OutagesSince(outages, now) /\ day \in DaysCovered(o, FirstDay(now), now)
<1>1. now \in Nat /\ o.start \in 0..now /\ (o.end = Unset \/ o.end \in (o.start)..now)
  BY DEF StripInv, OutageOK
<1>2. EndOrNow(o, now) \in 0..now /\ (o.end # Unset => o.end = EndOrNow(o, now))
  BY <1>1 DEF EndOrNow
<1> DEFINE end == EndOrNow(o, now)
<1>3. PICK t \in (o.start)..(end - 1) : LocalDate(t) = day
  BY DEF Fell
<1> HIDE DEF end
<1>4. t \in Int /\ o.start <= t /\ t < end /\ end \in Int /\ o.start \in Int
  BY <1>1, <1>2, <1>3 DEF end
<1>5. DayStart(day) <= t
  BY <1>3, <1>4, DayOfTime
<1>6. FirstDay(now) \in Int
  <2>1. LocalDate(now) \in Int
    BY <1>1, DayOfTime
  <2> QED BY <2>1, HistoryAssumption DEF FirstDay
<1>7. /\ DayStart(FirstDay(now)) <= DayStart(day)
      /\ DayStart(FirstDay(now)) \in Int /\ DayStart(day) \in Int
  BY <1>6, StartsOfDays
<1>8. o.end # Unset => o.end >= DayStart(FirstDay(now))
  BY <1>2, <1>4, <1>5, <1>7 DEF end
<1>9. LocalDate(o.start) <= LocalDate(t) /\ LocalDate(t) <= LocalDate(end)
      /\ LocalDate(o.start) \in Int /\ LocalDate(end) \in Int
  BY <1>4, DaysInOrder
<1> QED BY <1>3, <1>8, <1>9 DEF OutagesSince, DaysCovered, end

\* What a day of the strip shows, and when outages colour it.
LEMMA ShownDay ==
  ASSUME StripInv, NEW day \in Tracked
  PROVE  LET worst == WorstLevelOn(IncidentSpans(Rows, now), day, now)
             found == DetectedOn(OutagesSince(outages, now), day, now)
         IN  /\ day \in FirstDay(now)..LocalDate(now) /\ day \in Int
             /\ Shown[day].level = IF worst = 0 /\ found > 0 THEN 1 ELSE worst
             /\ Shown[day].detected = IF worst = 0 THEN found ELSE 0
             /\ worst \in 0..2 /\ found \in Nat
             /\ found > 0 <=> \E o \in outages : Fell(o, day)
<1> DEFINE spans == IncidentSpans(Rows, now)
           since == OutagesSince(outages, now)
           worst == WorstLevelOn(spans, day, now)
           found == DetectedOn(since, day, now)
<1>1. now \in Nat /\ IsFiniteSet(outages) /\ \A o \in outages : OutageOK(o)
  BY DEF StripInv
<1>2. /\ day \in FirstDay(now)..LocalDate(now) /\ day \in WindowDays(now)
      /\ ~(day < LocalDate(Created))
  <2>1. LocalDate(now) \in Int /\ LocalDate(Created) \in Int
    BY <1>1, StripAssumption, DayOfTime
  <2> QED BY <2>1, HistoryAssumption DEF Tracked, WindowDays, FirstDay
<1>3. day \in Int
  <2>1. LocalDate(now) \in Int
    BY <1>1, DayOfTime
  <2> QED BY <1>2, <2>1, HistoryAssumption DEF FirstDay
<1>4. worst \in 0..2
  BY WorstOfDay
<1>5. IsFiniteSet(since)
  <2>1. since \in SUBSET outages
    BY DEF OutagesSince
  <2> HIDE DEF since
  <2> QED BY <1>1, <2>1, FS_Subset
<1>6. \A o \in outages : o.start \in Int /\ EndOrNow(o, now) \in Int
  BY <1>1 DEF OutageOK, EndOrNow
<1>7. \A o \in outages :
        /\ TimeWithin(o, day, now) \in Nat
        /\ LastedLongEnough(o, now) /\ TimeWithin(o, day, now) > 0 <=> Fell(o, day)
  <2> SUFFICES ASSUME NEW o \in outages
               PROVE  /\ TimeWithin(o, day, now) \in Nat
                      /\ LastedLongEnough(o, now) /\ TimeWithin(o, day, now) > 0 <=> Fell(o, day)
    OBVIOUS
  <2>1. /\ TimeWithin(o, day, now) \in Nat
        /\ TimeWithin(o, day, now) > 0 <=>
             \E t \in (o.start)..(EndOrNow(o, now) - 1) : LocalDate(t) = day
    BY <1>3, <1>6, TimeInDay
  <2> QED BY <2>1 DEF Fell, LastedLongEnough
<1>8. \A o \in since : o \in outages
  BY DEF OutagesSince
<1>9. \A o \in outages : Fell(o, day) => o \in since
  <2>1. FirstDay(now) <= day
    BY <1>2
  <2> QED BY <1>3, <2>1, FellIsRead
<1> HIDE DEF spans, since
<1>10. /\ found \in Nat
       /\ found > 0 <=> \E o \in since : LastedLongEnough(o, now) /\ TimeWithin(o, day, now) > 0
  BY <1>5, <1>7, <1>8, DetectedIsPositive
<1>11. found > 0 <=> \E o \in outages : Fell(o, day)
  BY <1>7, <1>8, <1>9, <1>10
<1>12. Shown[day] = TrackedDay(spans, since, day, now)
  BY <1>2 DEF Shown, StripOf, spans, since
<1>13. /\ Shown[day].level = IF worst = 0 /\ found > 0 THEN 1 ELSE worst
       /\ Shown[day].detected = IF worst = 0 THEN found ELSE 0
  BY <1>12, <1>4, <1>10 DEF TrackedDay
<1> QED BY <1>2, <1>3, <1>4, <1>10, <1>11, <1>13 DEF spans, since

LEMMA DownShown == StripInv => DaysDownAreShown
<1> SUFFICES ASSUME StripInv, NEW i \in Incidents, NEW day \in broken[i] \cap Tracked,
                    incident[i].lifecycle # "cancelled"
             PROVE  Shown[day].level >= SeverityLevel(incident[i].severity)
  BY DEF DaysDownAreShown
<1> DEFINE row == incident[i]
           spans == IncidentSpans(Rows, now)
           span == [severity |-> row.severity, start |-> row.started, end |-> SpanEnd(row)]
           worst == WorstLevelOn(spans, day, now)
<1>1. RowOK(row) /\ DaysOK(row, broken[i], open[i]) /\ now \in Nat
  BY DEF StripInv, IncidentOK
<1>2. /\ day \in Int /\ FirstDay(now) <= day /\ day <= LocalDate(now)
      /\ worst \in 0..2 /\ (worst > 0 => Shown[day].level = worst)
  <2>1. FirstDay(now) \in Int /\ LocalDate(now) \in Int
    <3>1. LocalDate(now) \in Int
      BY <1>1, DayOfTime
    <3> QED BY <3>1, HistoryAssumption DEF FirstDay
  <2>2. /\ day \in FirstDay(now)..LocalDate(now) /\ day \in Int /\ worst \in 0..2
        /\ \E found \in Nat : Shown[day].level = IF worst = 0 /\ found > 0 THEN 1 ELSE worst
    BY ShownDay
  <2> HIDE DEF worst
  <2> QED BY <2>1, <2>2
<1>3. /\ LocalDate(row.started) <= day
      /\ SpanEnd(row) # Unset => SpanEnd(row) \in Nat /\ day <= LocalDate(SpanEnd(row))
  <2>1. LocalDate(row.started) <= day /\ day \in Int
    <3>1. row.started \in Int /\ row.started <= row.started
      BY <1>1 DEF RowOK
    <3>2. LocalDate(row.started) \in Int
      BY <3>1, DaysInOrder
    <3>3. LocalDate(now) \in Int
      BY <1>1, DayOfTime
    <3>4. day \in LocalDate(row.started)..LocalDate(now)
      BY <1>1 DEF DaysOK
    <3> QED BY <3>2, <3>3, <3>4
  <2>2. /\ row.restored # Unset => row.restored \in Nat /\ day <= LocalDate(row.restored)
        /\ row.ended # Unset => row.ended \in Nat /\ day <= LocalDate(row.ended)
    BY <1>1 DEF DaysOK, RowOK
  <2> QED BY <2>1, <2>2 DEF SpanEnd
<1>4. SpanEnd(row) = Unset \/ SpanEnd(row) >= DayStart(FirstDay(now))
  <2> SUFFICES ASSUME SpanEnd(row) # Unset PROVE SpanEnd(row) >= DayStart(FirstDay(now))
    OBVIOUS
  <2>1. SpanEnd(row) \in Int /\ day <= LocalDate(SpanEnd(row))
    BY <1>3
  <2>2. DayStart(day) <= SpanEnd(row)
    BY <1>2, <2>1, BegunBy
  <2>3. FirstDay(now) \in Int
    <3>1. LocalDate(now) \in Int
      BY <1>1, DayOfTime
    <3> QED BY <3>1, HistoryAssumption DEF FirstDay
  <2>4. /\ DayStart(FirstDay(now)) <= DayStart(day)
        /\ DayStart(FirstDay(now)) \in Int /\ DayStart(day) \in Int
    BY <1>2, <2>3, StartsOfDays
  <2> QED BY <2>1, <2>2, <2>4
<1>5. row \in Rows
  <2>1. OnRecord(i)
    BY <1>1 DEF RowOK, OnRecord, None
  <2> QED BY <2>1 DEF Rows
<1>6. span \in spans
  <2> HIDE DEF row
  <2> QED BY <1>4, <1>5, Zenon DEF IncidentSpans, row
<1>7. OnDay(span, day, now)
  BY <1>2, <1>3 DEF OnDay
<1>8. worst >= SeverityLevel(span.severity) /\ SeverityLevel(span.severity) \in {1, 2}
  <2>1. SeverityLevel(span.severity) \in {1, 2}
    BY DEF SeverityLevel
  <2> HIDE DEF span, spans
  <2> QED BY <1>6, <1>7, <2>1, WorstOfDay
<1>9. span.severity = row.severity
  OBVIOUS
<1> HIDE DEF worst, span
<1> QED BY <1>2, <1>8, <1>9

LEMMA NoneBlamed == StripInv => NoDayBlamedForNothing
<1> SUFFICES ASSUME StripInv, NEW day \in Tracked, Shown[day].level > 0
             PROVE  \/ \E i \in Incidents : incident[i].lifecycle # "cancelled" /\ day \in open[i]
                    \/ \E o \in outages : Fell(o, day)
  BY DEF NoDayBlamedForNothing
<1> DEFINE spans == IncidentSpans(Rows, now)
           worst == WorstLevelOn(spans, day, now)
<1>1. /\ day \in FirstDay(now)..LocalDate(now) /\ day \in Int /\ worst \in 0..2
      /\ worst > 0 \/ \E o \in outages : Fell(o, day)
  BY ShownDay
<1>2. CASE worst > 0
  <2>1. PICK span \in spans : OnDay(span, day, now)
    BY <1>2, WorstOfDay
  <2>2. PICK row \in Rows : /\ row.lifecycle # "cancelled"
                            /\ span = [severity |-> row.severity, start |-> row.started,
                                       end |-> SpanEnd(row)]
    BY <2>1 DEF IncidentSpans
  <2>3. PICK i \in Incidents : OnRecord(i) /\ row = incident[i]
    BY <2>2 DEF Rows
  <2>4. RowOK(row) /\ DaysOK(row, broken[i], open[i]) /\ now \in Nat
    BY <2>3, RowThere
  <2>5. /\ LocalDate(row.started) <= day
        /\ SpanEnd(row) # Unset => day <= LocalDate(SpanEnd(row))
    BY <2>1, <2>2 DEF OnDay
  <2>6. day <= LocalDate(now) /\ LocalDate(now) \in Int
    <3>1. LocalDate(now) \in Int
      BY <2>4, DayOfTime
    <3>2. FirstDay(now) \in Int
      BY <3>1, HistoryAssumption DEF FirstDay
    <3> QED BY <1>1, <3>1, <3>2
  <2>7. LocalDate(row.started) \in Int
    <3>1. row.started \in Int /\ row.started <= row.started
      BY <2>4 DEF RowOK
    <3> QED BY <3>1, DaysInOrder
  <2>8. CASE IsOpen(row)
    <3>1. day \in DaysBetween(row.started, now)
      BY <1>1, <2>5, <2>6, <2>7 DEF DaysBetween
    <3> QED BY <2>2, <2>3, <2>4, <2>8, <3>1 DEF DaysOK
  <2>9. CASE row.lifecycle = "resolved"
    <3>1. /\ row.ended \in Nat /\ row.ended # Unset
          /\ row.restored # Unset => row.restored \in Nat /\ row.restored <= row.ended
      BY <2>4, <2>9 DEF RowOK
    <3>2. day <= LocalDate(row.ended) /\ LocalDate(row.ended) \in Int
      <4>1. CASE row.restored = Unset
        <5>1. SpanEnd(row) = row.ended
          BY <4>1 DEF SpanEnd
        <5>2. row.ended \in Int /\ row.ended <= row.ended
          BY <3>1
        <5>3. LocalDate(row.ended) \in Int
          BY <5>2, DaysInOrder
        <5> QED BY <2>5, <3>1, <5>1, <5>3
      <4>2. CASE row.restored # Unset
        <5>1. day <= LocalDate(row.restored)
          BY <2>5, <4>2 DEF SpanEnd
        <5>2. /\ LocalDate(row.restored) <= LocalDate(row.ended)
              /\ LocalDate(row.restored) \in Int /\ LocalDate(row.ended) \in Int
          BY <3>1, <4>2, DaysInOrder
        <5> QED BY <1>1, <5>1, <5>2
      <4> QED BY <4>1, <4>2
    <3>3. day \in DaysBetween(row.started, row.ended)
      BY <1>1, <2>5, <2>7, <3>2 DEF DaysBetween
    <3> QED BY <2>2, <2>3, <2>4, <2>9, <3>3 DEF DaysOK
  <2> QED BY <2>2, <2>4, <2>8, <2>9 DEF RowOK, IsOpen, IsTerminal, None
<1> QED BY <1>1, <1>2

LEMMA OutagesShown == StripInv => OutagesAreShownAndListed
<1> SUFFICES ASSUME StripInv, NEW day \in Tracked
             PROVE  /\ (\E o \in outages : Fell(o, day)) => Shown[day].level > 0
                    /\ Shown[day].detected > 0 =>
                         \E o \in OutagesSince(outages, now) :
                           day \in DaysCovered(o, FirstDay(now), now)
  BY DEF OutagesAreShownAndListed
<1>1. /\ day \in FirstDay(now)..LocalDate(now) /\ day \in Int
      /\ (\E o \in outages : Fell(o, day)) => Shown[day].level > 0
      /\ Shown[day].detected > 0 => \E o \in outages : Fell(o, day)
  BY ShownDay
<1>2. FirstDay(now) <= day
  <2>1. now \in Nat
    BY DEF StripInv
  <2>2. LocalDate(now) \in Int
    BY <2>1, DayOfTime
  <2>3. FirstDay(now) \in Int
    BY <2>2, HistoryAssumption DEF FirstDay
  <2> QED BY <1>1, <2>2, <2>3
<1> QED BY <1>1, <1>2, FellIsRead

THEOREM StripHolds == StripSpec => []StripTellsWhatHappened
<1>1. StripInit => StripInv
  BY StripStarts
<1>2. StripInv /\ [StripNext]_stripVars => StripInv'
  BY StripStep
<1>3. StripInv => StripTellsWhatHappened
  BY DownShown, NoneBlamed, OutagesShown DEF StripTellsWhatHappened
<1> QED BY <1>1, <1>2, <1>3, PTL DEF StripSpec
=============================================================================
