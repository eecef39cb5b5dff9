\* One channel, one service and one event; a visitor and a member.
SPECIFICATION MCSpec
CONSTANTS
  Channels = {c1}
  Watched = {s1}
  Events = {e1}
  RETRY_DELAYS <- MCRetryDelays
  ASKED_WAIT = 2
  WAVE_WAIT = 1
  KEEP_HISTORY = 0
  MaxRows = 2
  MaxInstant = 2
  MaxCommands = 1
  SameSecond = FALSE
  MaxErrors = 1
  LiveEmails = 1
  LiveInputs = 1
PROPERTIES EveryMessageSettles EveryEmailSettles
CHECK_DEADLOCK FALSE
