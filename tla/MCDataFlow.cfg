CONSTANTS
    Tasks = {t1, t2, t3}
    Handles = {h1, h2}
    Devices = {d1, d2}
    Main = Main
    NoTask = NoTask
    Modes = {"R", "RW"}
    MaxAccesses = 4
    MaxRounds = 1
SPECIFICATION Spec
SYMMETRY Symmetry
INVARIANTS
    ConflictOrder
    SyncQuiescent
    WalksMeetWaitingTasks
PROPERTIES
    PushedOnceThenRecycled
    ImplementsTaskOrder
