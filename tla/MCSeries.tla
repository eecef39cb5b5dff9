------------------------------ MODULE MCSeries ------------------------------
EXTENDS Series, TLC

\* Three months, the second of four weeks and a day, the others of four; the weeks of two days.
MCFirstDays == <<0, 8, 17, 25>>

\* What RuleDatesHold supposes of the calendar is so here.
ASSUME SmallCalendar == ClockChangesAreShort /\ SearchesReach

Symmetry == Permutations(Sessions)
=============================================================================
