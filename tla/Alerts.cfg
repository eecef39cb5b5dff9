\* Monitoring: one service, its checks, one report, errors and restarts.
\* Deliveries: two interchangeable services, three rows, one error or restart.
\* Messages: seven destinations, three answers, three acts of the team.
SPECIFICATION MCSpec
CONSTANTS
  Services = {s1}
  Checks = {c1}
  Delays = {1, 2}
  Reporters = {r1}
  MaxFailures = 2
  MAX_SKIPPED_ROUNDS = 1
  MIN_SIMULTANEOUS_FALLS = 3
  MaxClock = 4
  MaxEdits = 1
  ClockStops = TRUE
  MayFail = TRUE
  Channels = {ch1}
  Watched = {q1, q2}
  Events = {}
  RETRY_DELAYS <- MCRetryDelays
  ASKED_WAIT = 2
  WAVE_WAIT = 1
  KEEP_HISTORY = 1
  MaxRows = 3
  MaxInstant = 3
  MaxCommands = 0
  SameSecond = FALSE
  MaxErrors = 1
  Destinations = {"c1"}
  Forms <- MCForms
  Answers <- MCAnswers
  Names = {"<!"}
  MailReady = TRUE
  MaxActs = 3
  MaxSettings = 2
  MaxAttempts = 2
SYMMETRY QueueSymmetry
INVARIANTS DetectedIffOneOpenOutage OutageAfterFailuresInARow  SentOnce MessagesAreTrue
PROPERTIES MaintenanceDatesNothing
CHECK_DEADLOCK FALSE
