CONSTANTS
    N = 2
    Tiles = {a, b}
    Big = 100
    MaxTasks = 4
    MaxSyncs = 2
SPECIFICATION Spec
SYMMETRY TileSymmetry
CHECK_DEADLOCK FALSE
INVARIANTS CounterSound NoEarlyReply
PROPERTY HostCoherent
