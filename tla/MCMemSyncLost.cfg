CONSTANTS
    N = 1
    Tiles = {a}
    Big = 100
    MaxTasks = 0
    MaxSyncs = 2
SPECIFICATION Spec
CHECK_DEADLOCK FALSE
PROPERTIES RequestKept
