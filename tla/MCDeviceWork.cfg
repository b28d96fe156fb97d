CONSTANTS
    tileA = tileA
    tileB = tileB
    tileC = tileC
    N = 2
    Tiles = {tileA, tileB, tileC}
    Capacities <- MCCapacities
    Shapes <- MCShapes
    MaxTasks <- MCMaxTasks
    Clients = {c1, c2}
    Owner = Owner
    ClientTasks = {t1, t2, t3}
    OwnerTasks = {o1, o2}
    NoTask = NoTask
    Size = 2
    Stealing = TRUE
    Calls <- MCCalls
SPECIFICATION WorkSpec
CHECK_DEADLOCK FALSE
INVARIANTS
    KernelReadsCurrent
    ValidIsCurrent
    CopyKeepsBlocks
    TransfersSound
    DirtyIsInRw
    QueueInv
    ResultRight
    NoSelfWait
    RaceFree
    ArgumentsSound
PROPERTIES
    TasksEnd
    ImplementsTaskLine
    LonePushCompletes
