CONSTANTS
  Workbenches = {"w1", "w2"}
  Names = {"n1"}
  Namespaces = {"x", "y"}
  Apps = {"a", "b"}
  JobNames <- MCJobNames
  JobName <- MCJobName
  Name <- MCNameShared
  Home <- MCHomeDistinct
  MaxEdits = 0
SPECIFICATION Spec
PROPERTIES OwnJobsOnly
CHECK_DEADLOCK FALSE
