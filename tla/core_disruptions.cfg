CONSTANTS
  Uids = {"u1"}
  AppNames = {"a1"}
  JobNames <- MCJobNames
  JobName <- MCJobName
  Versions = {"v1"}
  CachedReads = FALSE
  Faulty = {}
  MaxEdits = 0
  MaxFaults = 0
  MaxDisruptions = 2
SPECIFICATION FairSpec
PROPERTIES Convergence ReadyAccurate
CHECK_DEADLOCK FALSE
