CONSTANTS
  Refusals = TRUE
  MaxRollouts = 1
  MaxPods = 2
  MaxFailures = 1
SPECIFICATION FairSpec
INVARIANTS TypeOK
PROPERTIES ReportsReadiness ReadyIsSeen
CHECK_DEADLOCK FALSE
