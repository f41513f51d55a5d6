SPECIFICATION MCSpec
CONSTANTS
    FileMaxPubs = 3
    FileMaxCrashes = 1
    Gaps = {0, 1}
    SliceMaxMsgs = 2
    FileMaxMsgs = 3
    BufferSize = 2
    ReadAhead = 2
    Closes = {"both", "dat", "idx"}
    Damage = {"ahead", "orphan"}
    MemMaxPubs = 5
    MemMaxEmpties = 1
    MemMaxGap = 1
    MemMaxMsgs = 3
    SQLMaxPubs = 4
    SQLMaxCrashes = 1
    SQLMaxEmpties = 1
    SQLMaxGap = 1
    SQLMaxMsgs = 2
    CacheLimit = 2
    SQLFaults = {"flush"}
    FSMaxSubs = 2
    FSMaxSeq = 2
    FSMaxRecs = 5
    FSMaxCrashes = 1
    FSBufferSize = 2
    Fragmentation = 50
    MaxSubscriptions = 2
    SSMaxSubs = 2
    SSMaxSeq = 2
    SSMaxOps = 3
    SSMaxCrashes = 1
    SSMaxFails = 1
    Files = {f1, f2, f3}
    FDLimit = 1
    StoreClients = {a, b}
    StoreChannels = {foo, bar}
    ParallelRecovery = 2
    MaxChannels = 2
    CliFragmentation = 60
    CliMaxRecs = 3
    RootMaxCrashes = 2
    RootFaults = {"write", "channel", "close", "remove"}
INVARIANT TimestampsFirst
CHECK_DEADLOCK FALSE
