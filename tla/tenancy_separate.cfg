CONSTANTS
  Workbenches = {"w1", "w2"}
  Names = {"n1", "n2"}
  Namespaces = {"x"}
  Apps = {"a"}
  JobNames <- MCJobNames
  JobName <- MCJobName
  Name <- MCNameDistinct
  Home <- MCHomeShared
  MaxEdits = 1
SPECIFICATION FairSpec
INVARIANT TenancyInv
PROPERTIES OwnJobsOnly DeletionCompletes Settles
CHECK_DEADLOCK FALSE
