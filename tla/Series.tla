------------------------------- MODULE Series -------------------------------
(***************************************************************************)
(* Repeating maintenances: announced once, each session added by the       *)
(* schedule when nothing is to come.                                       *)
(*                                                                         *)
(* The schedule reads the series that wait for a session and then adds     *)
(* one to each, in a transaction that checks that the series is still as   *)
(* it was read.  Meanwhile the team stops the series, moves, cancels,      *)
(* brings back or deletes a session, or edits one and carries the edit to  *)
(* the sessions after it, which takes several statements.                  *)
(*                                                                         *)
(* One series.  What its sessions repeat, title, text and length, is one   *)
(* number that every edit changes, and so are its services.                *)
(***************************************************************************)
EXTENDS Recurrence, StatusRules

CONSTANTS
  Sessions,   \* rows of the events table
  Lengths,    \* how long a session may be
  Starts,     \* the starts that the forms give
  Horizon,    \* the last instant the clock shows
  MaxInputs   \* bound on what the team does

ASSUME SeriesAssumption ==
  /\ Lengths \subseteq Nat \ {0} /\ Starts \subseteq Instant
  /\ Horizon \in Instant /\ MaxInputs \in Nat

VARIABLES
  clock,
  series,     \* the row of maintenance_series
  session,    \* the sessions; no lifecycle stands for no row
  run,        \* where apply_schedule is, and the series it read
  edit,       \* where update_with_following is, and what it read
  revived,    \* history: sessions that somebody brought back
  placed,     \* history: sessions somebody moved or began by hand, or whose slot an
              \* edit carried forward gives again
  cut,        \* history: sessions that stopping the series cancelled
  used        \* how much of MaxInputs is used, and the last version written

vars == <<clock, series, session, run, edit, revived, placed, cut, used>>
past == <<revived, placed, cut>>

Version == 0..MaxInputs

SeriesRow == [state : {"none", "on", "stopped"}, rule : Rule, length : Lengths,
              next : Instant, content : Version, services : Version]

Session == [lifecycle : Lifecycle \cup {None}, previous : Lifecycle \cup {None},
            start : Instant, length : Lengths, content : Version, services : Version]

FirstInstant == FirstDays[1] * PerDay
OneLength    == CHOOSE l \in Lengths : TRUE

NoSession == [lifecycle |-> None, previous |-> None, start |-> FirstInstant,
              length |-> OneLength, content |-> 0, services |-> 0]

NoSeries == [state |-> "none", rule |-> FromFirst("weekly", FirstInstant), length |-> OneLength,
             next |-> FirstInstant, content |-> 0, services |-> 0]

IdleRun  == [pc |-> "idle", now |-> FirstInstant, read |-> NoSeries]
IdleEdit == [pc |-> "idle", s |-> None, version |-> 0, rhythm |-> "weekly",
             start |-> FirstInstant, length |-> OneLength, content |-> 0]

Init ==
  /\ clock = FirstInstant
  /\ series = NoSeries
  /\ session = [s \in Sessions |-> NoSession]
  /\ run = IdleRun /\ edit = IdleEdit
  /\ revived = {} /\ placed = {} /\ cut = {}
  /\ used = 0

Exists(s)  == session[s].lifecycle # None
Waiting    == {s \in Sessions : session[s].lifecycle = "scheduled"}
Free       == {s \in Sessions : ~Exists(s) /\ edit.s # s}

\* NOTHING_SCHEDULED
NothingScheduled == Waiting = {}

Spend == used < MaxInputs /\ used' = used + 1

\* The number of a deleted row never comes back: nothing is known of a new one.
Forgotten(s) ==
  /\ revived' = revived \ {s} /\ placed' = placed \ {s} /\ cut' = cut \ {s}

-----------------------------------------------------------------------------
(* What the team does *)

\* announce with a rhythm: the series and its first session in one transaction.
\* The calendar is taken from that day on.
Announce(s, rhythm, start, length) ==
  LET rule == FromFirst(rhythm, start)
  IN  /\ series.state = "none" /\ clock = FirstInstant /\ run.pc = "idle"
      /\ NextAfter(rule, start) # Never
      /\ series' = [state |-> "on", rule |-> rule, length |-> length,
                    next |-> NextAfter(rule, start), content |-> 0, services |-> 0]
      /\ session' = [session EXCEPT ![s] = [NoSession EXCEPT !.lifecycle = "scheduled",
                                              !.start = start, !.length = length]]
      /\ UNCHANGED <<clock, run, edit, past, used>>

\* stop, one transaction: the sessions waiting to begin are cancelled with it,
\* and their cancellation cannot be undone.
Stopped(row) ==
  IF row.lifecycle = "scheduled"
  THEN [row EXCEPT !.previous = None, !.lifecycle = "cancelled"] ELSE row

Stop ==
  /\ series.state = "on" /\ \E s \in Sessions : Exists(s)
  /\ Spend
  /\ series' = [series EXCEPT !.state = "stopped"]
  /\ session' = [s \in Sessions |-> Stopped(session[s])]
  /\ cut' = cut \cup Waiting
  /\ UNCHANGED <<clock, run, edit, revived, placed>>

\* post_update: a session begun, ended or cancelled by hand
Move(s, next) ==
  /\ Exists(s) /\ CanTransition("maintenance", session[s].lifecycle, next)
  /\ Spend
  /\ session' = [session EXCEPT ![s].previous = session[s].lifecycle, ![s].lifecycle = next]
  /\ placed' = IF next = "in_progress" THEN placed \cup {s} ELSE placed
  /\ UNCHANGED <<clock, series, run, edit, revived, cut>>

\* revert: the last change of state undone
Revert(s) ==
  /\ Exists(s) /\ session[s].previous # None
  /\ Spend
  /\ session' = [session EXCEPT ![s].previous = None, ![s].lifecycle = session[s].previous]
  /\ revived' = revived \cup {s}
  /\ UNCHANGED <<clock, series, run, edit, placed, cut>>

\* delete; when the sessions are all taken, one that is over goes for nothing
DeleteSession(s) ==
  /\ Exists(s)
  /\ IF IsTerminal(session[s].lifecycle) /\ Free = {} THEN UNCHANGED used ELSE Spend
  /\ session' = [session EXCEPT ![s] = NoSession]
  /\ Forgotten(s)
  /\ UNCHANGED <<clock, series, run, edit>>

\* update: this session alone
UpdateAlone(s, start, length) ==
  /\ Exists(s)
  /\ Spend
  /\ session' = [session EXCEPT ![s].start = start, ![s].length = length,
                                ![s].content = used', ![s].services = used']
  /\ placed' = placed \cup {s}
  /\ UNCHANGED <<clock, series, run, edit, revived, cut>>

\* update_with_following: the session is saved first
EditStart(s, start, length) ==
  /\ edit.pc = "idle" /\ series.state = "on" /\ Exists(s)
  /\ Spend
  /\ session' = [session EXCEPT ![s].start = start, ![s].length = length,
                                ![s].content = used', ![s].services = used']
  /\ edit' = [IdleEdit EXCEPT !.pc = "read", !.s = s, !.version = used']
  /\ placed' = IF start = session[s].start THEN placed ELSE placed \cup {s}
  /\ UNCHANGED <<clock, series, run, revived, cut>>

\* Then it is read again, with its series.
EditRead ==
  /\ edit.pc = "read"
  /\ edit' = IF ~Exists(edit.s) THEN IdleEdit
             ELSE [edit EXCEPT !.pc = "carry", !.rhythm = series.rule.rhythm,
                               !.start = session[edit.s].start,
                               !.length = session[edit.s].length,
                               !.content = session[edit.s].content]
  /\ UNCHANGED <<clock, series, session, run, past, used>>

\* carried_rule: the rule the session's window sets, and the start after it
CarriedRule == FromFirst(edit.rhythm, edit.start)

Following ==
  NextAfter(CarriedRule, IF edit.start > clock THEN edit.start ELSE clock)

\* carry_forward, one transaction: the next session waiting moves and takes
\* the text and services; without one the series waits for `following`.
NextOne ==
  LET others == Waiting \ {edit.s}
  IN  {s \in others : session[s].start = Earliest({session[o].start : o \in others})}

SkippingNothing(following) == following
Cursor(following) ==
  IF NextOne = {} \/ NextAfter(CarriedRule, following) = Never THEN following
  ELSE NextAfter(CarriedRule, following)

CarryForward ==
  LET follow == Following IN
      \E one \in IF NextOne = {} THEN {{}} ELSE {{s} : s \in NextOne} :
      /\ edit.pc = "carry"
      /\ IF series.state = "on" /\ follow # Never
         THEN /\ series' = [series EXCEPT !.rule = CarriedRule, !.length = edit.length,
                              !.next = Cursor(follow), !.content = edit.content,
                              !.services = edit.version]
              /\ session' = [s \in Sessions |->
                   IF s \notin one THEN session[s]
                   ELSE [session[s] EXCEPT !.start = follow, !.length = edit.length,
                           !.content = edit.content, !.services = edit.version]]
              /\ placed' = (placed \cup {s \in Sessions : session[s].start >= follow}) \ one
         ELSE UNCHANGED <<series, session, placed>>
      /\ edit' = IdleEdit
      /\ UNCHANGED <<clock, run, revived, cut, used>>

\* The request stops on an error, between two of its statements.
EditFails == edit.pc # "idle" /\ edit' = IdleEdit
             /\ UNCHANGED <<clock, series, session, run, past, used>>

-----------------------------------------------------------------------------
(* apply_schedule *)

\* start_due_maintenance and complete_due_maintenance; a session begins and
\* ends in silence.
Started(row, now) ==
  IF row.lifecycle = "scheduled" /\ row.start <= now
  THEN [row EXCEPT !.previous = None, !.lifecycle = "in_progress"] ELSE row

Completed(row, now) ==
  IF row.lifecycle = "in_progress" /\ row.start + row.length <= now
  THEN [row EXCEPT !.previous = None, !.lifecycle = "completed"] ELSE row

MoveDue ==
  /\ run.pc = "idle"
  /\ run' = [run EXCEPT !.pc = "read", !.now = clock]
  /\ session' = [s \in Sessions |-> Completed(Started(session[s], clock), clock)]
  /\ UNCHANGED <<clock, series, edit, past, used>>

\* awaiting_session: the series as it is now, if it has nothing to come
AwaitingSession ==
  /\ run.pc = "read"
  /\ run' = IF series.state = "on" /\ NothingScheduled
            THEN [run EXCEPT !.pc = "add", !.read = [series EXCEPT !.services = 0]]
            ELSE IdleRun
  /\ UNCHANGED <<clock, series, session, edit, past, used>>

\* next_session_start: the slot the series waits for, or the first one after
\* now when it went by while the server was off
NextSessionStart(row, now) ==
  IF row.next > now THEN row.next ELSE NextAfter(row.rule, now)

\* add_next_session: a rule with no date left adds nothing
HasDates(start, following) == start # Never /\ following # Never

\* add_session: written only if the series is as it was read
AsRead(row) == series.next = row.next /\ series.state = "on" /\ NothingScheduled

AddSession(s) ==
  LET start == NextSessionStart(run.read, run.now)
      following == NextAfter(run.read.rule, start)
  IN  /\ run.pc = "add" /\ s \in Free
      /\ IF HasDates(start, following) /\ AsRead(run.read)
         THEN /\ series' = [series EXCEPT !.next = following]
              /\ session' = [session EXCEPT ![s] =
                   [NoSession EXCEPT !.lifecycle = "scheduled", !.start = start,
                      !.length = run.read.length, !.content = run.read.content,
                      !.services = series.services]]
         ELSE UNCHANGED <<series, session>>
      /\ run' = IdleRun
      /\ UNCHANGED <<clock, edit, past, used>>

\* A failure, or a restart, ends the run.
RunFails == run.pc # "idle" /\ Spend /\ run' = IdleRun
            /\ UNCHANGED <<clock, series, session, edit, past>>

\* Time passes, while a run or a request is under way too.
Tick ==
  /\ clock < Horizon
  /\ clock' = clock + 1
  /\ UNCHANGED <<series, session, run, edit, past, used>>

-----------------------------------------------------------------------------
Schedule == MoveDue \/ AwaitingSession \/ \E s \in Sessions : AddSession(s)

Next ==
  \/ Schedule \/ RunFails \/ Tick
  \/ \E s \in Sessions, rhythm \in {"weekly", "monthly"}, start \in Starts, length \in Lengths :
       Announce(s, rhythm, start, length)
  \/ \E s \in Sessions, start \in Starts, length \in Lengths :
       UpdateAlone(s, start, length) \/ EditStart(s, start, length)
  \/ \E s \in Sessions, length \in Lengths : EditStart(s, session[s].start, length)
  \/ \E s \in Sessions : Revert(s) \/ DeleteSession(s)
  \/ \E s \in Sessions, next \in Lifecycle : Move(s, next)
  \/ Stop \/ EditRead \/ CarryForward \/ EditFails

Spec == Init /\ [][Next]_vars

-----------------------------------------------------------------------------
(* Properties *)

TypeOK ==
  /\ clock \in Instant /\ series \in SeriesRow /\ session \in [Sessions -> Session]
  /\ run.pc \in {"idle", "read", "add"} /\ edit.pc \in {"idle", "read", "carry"}
  /\ used \in Version

\* The days a rule means, said once more: every such weekday, or the one of
\* its rank in each month, the last being the one no other follows.
Means(rule, d) ==
  /\ Weekday(d) = rule.weekday
  /\ \/ rule.rhythm = "weekly"
     \/ LET alike == {e \in Days : MonthOf(e) = MonthOf(d) /\ Weekday(e) = Weekday(d)}
        IN  IF rule.rank = LastRank THEN \A e \in alike : e <= d
            ELSE Cardinality({e \in alike : e <= d}) = rule.rank

\* next_after finds the first start the rule means after any instant: no month
\* is skipped, whatever its length, and today counts while its time is ahead.
NextIsTheFirst ==
  LET starts == Instant \cap {StartOn(series.rule, d) : d \in {e \in Days : Means(series.rule, e)}}
      ahead(after) == {t \in starts : t > after}
  IN  series.state # "none" => \A after \in {clock, series.next} :
        NextAfter(series.rule, after) =
          IF ahead(after) = {} THEN Never ELSE Earliest(ahead(after))

\* The rule read from a session's start means that start: a series edited from
\* its session keeps the day it was given.
RuleMeansItsFirst ==
  \A s \in Sessions, rhythm \in {"weekly", "monthly"} :
    Exists(s) => Means(FromFirst(rhythm, session[s].start), DayOf(session[s].start))

\* Whatever is stopped, cancelled, edited or deleted while the schedule runs, a
\* series has at most one session to come, those somebody brought back aside.
OneToCome == Cardinality(Waiting \ revived) <= 1

\* No slot is given twice, even one whose session was cancelled by hand: two
\* sessions begin at the same instant only when somebody moved, began or
\* brought one back, or carried an edit to the slots after it.
SlotGivenOnce ==
  \A s, o \in Sessions \ (placed \cup revived) :
    s # o /\ Exists(s) /\ Exists(o) => session[s].start # session[o].start

\* "the schedule adds no session once it is stopped, and the cancellation cannot
\* be undone into a session nobody repeats"
StoppedForGood ==
  /\ \A s \in cut : session[s].lifecycle = "cancelled"
  /\ series.state = "stopped" => Waiting \subseteq revived

\* The dates of a series are the ones its rule means, whichever way the rule
\* is read (next_after, from_first).
DatesFollowTheRule == NextIsTheFirst /\ RuleMeansItsFirst

\* Whatever the schedule meets, a series gives each slot once, has one session
\* to come, and none once it is stopped (add_session, stop).
OneSessionPerSlot == OneToCome /\ SlotGivenOnce /\ StoppedForGood
=============================================================================
