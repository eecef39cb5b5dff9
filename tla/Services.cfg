\* The board: two workers, one service, one event, failures allowed.
\* The strip: two interchangeable incidents over three days.
\* The form: two editors, twelve behaviours of the network.
SPECIFICATION MCSpec
CONSTANTS
  Services = {s1}
  Events = {e1}
  EventStates <- MCEventStates
  Workers = {w1, w2}
  MayFail = TRUE
  Incidents = {i1, i2}
  Severities = {"minor", "critical"}
  Created = 1
  DayLength = 2
  StripDays = 2
  MinDetected = 2
  MaxTime = 6
  MaxTurns = 4
  MaxOutages = 2
  Editors = {"ed", "bo"}
  Typing <- MCTyping
  Parts <- MCParts
  Worlds <- MCWorlds
  DefaultAfter = 3
  MaxAfter = 60
  MaxActs = 6
SYMMETRY StripSymmetry
INVARIANTS StaleOnlyWhenOvertaken  MonitoringFieldsAreRight
CHECK_DEADLOCK FALSE
