CONSTANTS
  Uids = {"u1"}
  AppNames = {"a1"}
  JobNames <- MCJobNames
  JobName <- MCJobName
  Versions = {"v1"}
  CachedReads = TRUE
  Faulty = {"createDeployment"}
  MaxEdits = 0
  MaxFaults = 1
  MaxDisruptions = 1
SPECIFICATION Spec
INVARIANTS RestsConverged
CHECK_DEADLOCK FALSE
