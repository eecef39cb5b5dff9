SPECIFICATION Spec
CONSTANTS
  Week = 2
  FirstDays <- MCFirstDays
  PerDay = 1
  Skipped = {4}
  WEEKS_AHEAD = 3
  MAX_MONTHS_AHEAD = 2
  MAX_SKIPPED = 1
  Sessions = {s1, s2, s3}
  Lengths = {1}
  Starts = {0, 3, 14, 16}
  Horizon = 6
  MaxInputs = 2
INVARIANTS DatesFollowTheRule OneSessionPerSlot
CHECK_DEADLOCK FALSE
SYMMETRY Symmetry
