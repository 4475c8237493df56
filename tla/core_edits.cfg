CONSTANTS
  Uids = {"u1"}
  AppNames = {"a1"}
  JobNames <- MCJobNames
  JobName <- MCJobName
  Versions = {"v1"}
  CachedReads = TRUE
  Faulty = {"updateJob", "deleteJobs", "deleteDeployments"}
  MaxEdits = 2
  MaxFaults = 1
  MaxDisruptions = 0
SPECIFICATION Spec
INVARIANTS TeardownInv RestsConverged
PROPERTIES NothingLeftBehind AppsBeforeServer StopSuspends KeepsItsPromises
CHECK_DEADLOCK FALSE
