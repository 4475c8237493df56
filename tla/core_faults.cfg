CONSTANTS
  Uids = {"u1"}
  AppNames = {a1, a2}
  JobNames <- MCJobNames
  JobName <- MCJobName
  Versions = {v1, v2}
  CachedReads = TRUE
  Faulty <- MCMostSites
  MaxEdits = 1
  MaxFaults = 1
  MaxDisruptions = 0
SPECIFICATION Spec
SYMMETRY MCSymmetry
INVARIANTS TypeOK IInv RestInv FinalizerFirst RestsConverged
PROPERTIES NoResurrection SpecIsTheUsers KeepsItsPromises
CHECK_DEADLOCK FALSE
