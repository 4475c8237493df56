CONSTANTS
  Refusals = TRUE
  MaxRollouts = 1
  MaxPods = 2
  MaxFailures = 1
SPECIFICATION FairSpec
PROPERTIES FailureIsShown
CHECK_DEADLOCK FALSE
