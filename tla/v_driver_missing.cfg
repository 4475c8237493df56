SPECIFICATION FairSpec
CONSTANTS
    Workbenches = {w1}
    Storages <- MCDefault
    Asked <- MCDefault
    Clusters <- MCDriverMissing
    LocalEnabled = FALSE
    MaxFaults = 0
    MaxChanges = 0
PROPERTY WorksWithoutStorage
CHECK_DEADLOCK FALSE
