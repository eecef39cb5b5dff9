\* Two releases, two files, two backups and four inputs; two workers, two
\* administrators and a call over four names, three operations in all.
SPECIFICATION MCSpec
CONSTANTS
  WeekLength = 2
  KeepRange = {1, 2}
  Versions = {1, 2}
  DefaultPublic = TRUE
  UpgradeKeep = 1
  Schedules <- SmallSchedules
  Savers = {1}
  MaxFiles = 2
  MaxDay = 1
  MaxInputs = 4
  IntakeWorkers = {w1, w2}
  IntakeAdmins = {a1, a2}
SYMMETRY HostSymmetry
INVARIANTS ReplacedDataIsKept InstanceStaysWhole 
CHECK_DEADLOCK FALSE
