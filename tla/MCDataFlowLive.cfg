CONSTANTS
    Tasks = {t1, t2}
    Handles = {h1, h2}
    Devices = {d1, d2}
    Main = Main
    NoTask = NoTask
    Modes = {"R", "W", "CW"}
    MaxAccesses = 2
    MaxRounds = 2
SPECIFICATION FairSpec
INVARIANTS
    CountersExact
PROPERTY SyncReturns
CHECK_DEADLOCK FALSE
