SPECIFICATION FairSpec
CONSTANTS
    Workbenches = {w1, w2}
    Storages <- MCStorages
    Asked <- MCDefault
    Clusters <- MCClusters
    LocalEnabled = TRUE
    MaxFaults = 1
    MaxChanges = 1
INVARIANT StorageInv
PROPERTIES DirectoryFirst OthersDirectories OwnDirectoriesGo AppsCome DeletionCompletes
CHECK_DEADLOCK FALSE
