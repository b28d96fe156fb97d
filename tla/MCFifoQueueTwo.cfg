CONSTANTS
    Clients = {c1, c2}
    Owner = Owner
    ClientTasks = {t1, t2, t3, t4}
    OwnerTasks = {}
    NoTask = NoTask
    Size = 2
    Stealing = FALSE
SPECIFICATION FairSpec
PROPERTY PushCompletes
CHECK_DEADLOCK FALSE
