CONSTANTS
  Uids = {"u1", "u2"}
  AppNames = {"a1"}
  JobNames <- MCJobNames
  JobName <- MCJobName
  Versions = {"v1"}
  CachedReads = FALSE
  Faulty = {}
  MaxEdits = 1
  MaxFaults = 0
  MaxDisruptions = 0
SPECIFICATION Spec
INVARIANTS LoopInv
PROPERTIES SweepSparesRunningApps
CHECK_DEADLOCK FALSE
