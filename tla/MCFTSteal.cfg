SPECIFICATION FTSpec
CONSTANTS
    FTServers = {a1, a2, a3}
    sqlLockLostCount = 2
    UpdateInterval = 2
    CheckInterval = 3
    FTMaxRestarts = 0
    FTMaxPauses = 0
INVARIANT OneActive
CHECK_DEADLOCK FALSE
