SPECIFICATION Spec
CONSTANTS
  Events = {e1}
  Kinds = {"incident"}
  Roles = {"publisher", "admin"}
  Workers = {w1, w2}
  MaxClock = 1
  MaxMessages = 0
  MayFail = FALSE
INVARIANTS
  OnlyAdminsReopen
CHECK_DEADLOCK FALSE
