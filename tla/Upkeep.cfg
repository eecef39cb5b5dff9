\* Three lines, two days and one restart or saved setting; an incident, two
\* members and three acts.
SPECIFICATION MCSpec
CONSTANTS
  Queue = 2
  Batch = 2
  PageSize = 2
  Export = 2
  Retention = {1, 2}
  DefaultRetention = 1
  Words = {1}
  MaxLines = 3
  MaxDay = 2
  MaxChanges = 1
  Members = {"ana", "bob"}
  Admin = "ana"
  Margin = 1
  KeepNotices = 1
  Steps = {"in_progress", "resolved"}
  Delays = {1}
  MaxTime = 4
  MaxActs = 3
INVARIANTS NoLineLostInSilence  NothingIsToldTwice
PROPERTIES LinesMoveOn OverdueIsReminded
CHECK_DEADLOCK FALSE
