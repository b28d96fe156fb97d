CONSTANTS
    N = 1
    Tiles = {a}
    Big = 100
    MaxTasks = 1
    MaxSyncs = 1
SPECIFICATION FairSpec
CHECK_DEADLOCK FALSE
PROPERTIES SyncAllReturns
