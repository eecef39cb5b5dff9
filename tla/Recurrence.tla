----------------------------- MODULE Recurrence -----------------------------
(***************************************************************************)
(* The rhythm of a repeating maintenance: every week, or every month on    *)
(* the Nth weekday, read from a first start on the instance's clock.       *)
(*                                                                         *)
(* Days are numbered from 0 and a day has PerDay instants, so an instant   *)
(* is a day and a time of day.  The calendar is a constant: a small one    *)
(* has every case of the real one, months of four weeks and a few days.    *)
(* Skipped are the instants that daylight saving takes out of the clock.   *)
(***************************************************************************)
EXTENDS Integers, Sequences, FiniteSets

CONSTANTS
  Week,              \* days in a week, 7
  FirstDays,         \* the first day of each month, and of the one after the last
  PerDay,            \* instants in a day
  Skipped,           \* instants a change of the clock skips
  WEEKS_AHEAD,       \* how many weeks ahead a search goes, 3
  MAX_MONTHS_AHEAD,  \* how many months ahead
  MAX_SKIPPED        \* how many instants a skipped time is moved at most

ASSUME CalendarAssumption ==
  /\ Week \in Nat \ {0} /\ PerDay \in Nat \ {0}
  /\ WEEKS_AHEAD \in Nat /\ MAX_MONTHS_AHEAD \in Nat /\ MAX_SKIPPED \in Nat
  /\ FirstDays \in Seq(Nat) /\ Len(FirstDays) > 1
  /\ \A m \in 1..(Len(FirstDays) - 1) :
       FirstDays[m + 1] - FirstDays[m] \in (4 * Week)..(5 * Week - 1)

Months  == 1..(Len(FirstDays) - 1)
Days    == FirstDays[1]..(FirstDays[Len(FirstDays)] - 1)
Instant == (FirstDays[1] * PerDay)..(FirstDays[Len(FirstDays)] * PerDay - 1)

Never == -1  \* the None of an optional instant

DayOf(t)   == t \div PerDay
TimeOf(t)  == t % PerDay
Weekday(d) == d % Week

MonthOf(d)    == CHOOSE m \in Months : d \in FirstDays[m]..(FirstDays[m + 1] - 1)
DayOfMonth(d) == d - FirstDays[MonthOf(d)] + 1

Earliest(ts) == CHOOSE t \in ts : \A u \in ts : t <= u

\* Rank, first to fourth and Last.  of_day: the days past the fourth week are
\* always the last one, so a month with a fifth never skips.
LastRank == 5
Rank == 1..LastRank
RankOfDay(n) == (n - 1) \div Week + 1

\* day_in: the Nth such weekday of a month; the last is the fifth or the fourth
DayInAlwaysFourth(rank, m, weekday) ==
  FirstDays[m] + ((weekday - FirstDays[m]) % Week)
  + Week * (IF rank = LastRank THEN 3 ELSE rank - 1)
DayIn(rank, m, weekday) ==
  LET first == FirstDays[m] + ((weekday - FirstDays[m]) % Week)
      fifth == first + 4 * Week
  IN  IF rank # LastRank THEN first + Week * (rank - 1)
      ELSE IF fifth < FirstDays[m + 1] THEN fifth ELSE first + 3 * Week

\* A repeat rule; a weekly one has no rank.
Rule == [rhythm : {"weekly"}, weekday : 0..(Week - 1), rank : {0}, time : 0..(PerDay - 1)]
          \cup
        [rhythm : {"monthly"}, weekday : 0..(Week - 1), rank : Rank, time : 0..(PerDay - 1)]

\* from_first: the rule a first start sets
FromFirst(rhythm, start) ==
  [rhythm |-> rhythm, weekday |-> Weekday(DayOf(start)), time |-> TimeOf(start),
   rank |-> IF rhythm = "weekly" THEN 0 ELSE RankOfDay(DayOfMonth(DayOf(start)))]

\* days_from: the days the rule lands on from today on, as far as the search goes
DaysFrom(rule, today) ==
  (IF rule.rhythm = "weekly"
   THEN {today + ((rule.weekday - today) % Week) + Week * w : w \in 0..(WEEKS_AHEAD - 1)}
   ELSE {DayIn(rule.rank, m, rule.weekday) :
           m \in Months \cap (MonthOf(today)..(MonthOf(today) + MAX_MONTHS_AHEAD - 1))})
    \cap Days

\* to_utc_or_later: a time the clock skips moves to the first one that exists,
\* if it is near enough
ToUtcOrLater(t) ==
  LET shown == {u \in t..(t + MAX_SKIPPED) : u \notin Skipped}
  IN  IF shown = {} THEN Never ELSE Earliest(shown)

StartOn(rule, day) == ToUtcOrLater(day * PerDay + rule.time)

\* next_after_in: the first start strictly after an instant, or Never
NextAfter(rule, after) ==
  LET starts == {StartOn(rule, d) : d \in DaysFrom(rule, DayOf(after))}
      ahead  == {t \in starts \cap Instant : t > after}
  IN  IF ahead = {} THEN Never ELSE Earliest(ahead)

-----------------------------------------------------------------------------
(* What makes a search find every start *)

\* The clock is set forward by less than a search looks past, and never across
\* a midnight.
ClockChangesAreShort ==
  /\ \A t \in Instant : \E u \in t..(t + MAX_SKIPPED) : u \notin Skipped
  /\ \A d \in Days : d * PerDay \in Skipped => d * PerDay - 1 \notin Skipped

\* A search looks at this week or month, and at the next one at least.
SearchesReach == WEEKS_AHEAD >= 2 /\ MAX_MONTHS_AHEAD >= 2
=============================================================================
