\* Two services checked for ever; one maintenance and one request at a time.
SPECIFICATION MCSpec
CONSTANTS
  Services = {s1, s2}
  Checks = {c1}
  Delays = {1, 2}
  Reporters = {}
  MaxFailures = 2
  MAX_SKIPPED_ROUNDS = 1
  MIN_SIMULTANEOUS_FALLS = 2
  MaxClock = 2
  MaxEdits = 1
  ClockStops = FALSE
  MayFail = FALSE
  LiveMessages = 1
INVARIANTS ReturnIsTold
PROPERTIES DetectionFollowsTheChecks DueMaintenanceMoves
CHECK_DEADLOCK FALSE
