CONSTANTS
  Uids = {"u1"}
  AppNames = {"a1"}
  JobNames <- MCJobNames
  JobName <- MCJobName
  Versions = {"v1"}
  CachedReads = TRUE
  Faulty <- MCLoudSites
  MaxEdits = 1
  MaxFaults = 1
  MaxDisruptions = 0
SPECIFICATION FairSpec
INVARIANTS RestInv RestsAccurate RestsOpen
PROPERTIES Convergence StatusConvergence DeletionCompletes
CHECK_DEADLOCK FALSE
