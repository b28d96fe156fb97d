CONSTANTS
    Thieves = {1, 2}
    Prios = {0, 1}
    Size0 = 2
    MaxTasks = 4
    HeapTotal = 5
    HeapSizes = {1, 2, 3}
    HeapIds = {1, 2, 3, 4, 5}
    MapKeys = {1, 2, 3}
    MapHash <- MCHash
    MapBlocSize = 2
    MapMaxBlocs = 3
    WorkClients = {1, 2, 3}
    WorkTotal = 8
    WorkAlign = 2
    WorkElement = 4
    WorkRequests = {1, 3, 8}
    StackCap = 7
    StackHeader = 1
    StackBaseSize = 3
    StackFrameSize = 2
    StackSizes = {1, 2}
    StackMaxBlocs = 3
    FrontClients = {1, 2}
    FrontDim <- MCDim
    FrontNbParams = {0, 1000}
    FrontSysGpus = 4
    FrontGpuCounts = {2, 3}
    FrontMaxArrays = 3
    FrontMaxCalls = 5
    BlasCalls <- MCBlasCalls
    MapCalls <- MCMapCalls
SPECIFICATION StructuresSpec
CHECK_DEADLOCK FALSE
INVARIANTS
    HeapSound
    MapSound
    WorkSound
    QueueSound
    StackSound
    FrontSound
PROPERTY AutoMapUsesAllGpus
