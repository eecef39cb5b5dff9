\* One event, two requests at once, errors and restarts; two authors and one
\* key over two events and a template.
SPECIFICATION MCSpec
CONSTANTS
  Events = {e1}
  Kinds <- MCKinds
  Roles = {"admin"}
  Workers = {w1, w2}
  MaxClock = 2
  MaxMessages = 0
  MayFail = TRUE
  Editors = {ed1, ed2}
  Typed <- MCTyped
  Bodies <- MCBodies
  MaxEvents = 2
  MaxTemplates = 1
  MaxActs = 5
SYMMETRY ActorSymmetry
INVARIANTS DatesFitState UndoIsLegal EndIsTold FormsAreFaithful
CHECK_DEADLOCK FALSE
