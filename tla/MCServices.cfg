CONSTANTS
    Conc = 3
    MaxTasks = 5
    MaxXfers = 2
    Pushers = {1, 2}
    IoDevice = 1
    Plugins <- MCPlugins
    RegClients = {1, 2}
    RegSize = 2
    MaxReq = 4
    TeamThreads = {0, 1, 2}
    BarRounds = 4
    TraceDevices = {1}
    TraceTasks = {1}
    TraceRounds = 2
    BufSize = 3
    MaxBufs = 3
    NumGpus = {1, 2}
    GpuSets <- MCGpuSets
    LifeRounds = 2
    LifeTasks = 2
    HostFirst = TRUE
SPECIFICATION ServicesSpec
CHECK_DEADLOCK FALSE
INVARIANTS
    KernelsInOrder
    LeaderNotForgotten
    SlotKeptUntilFinished
    StreamsSound
    RegisterInv
    BarrierSound
    TraceSound
    LifeSound
PROPERTY ServicesProgress
