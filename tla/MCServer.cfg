SPECIFICATION MCSpec
CONSTANTS
    Conns = {k1, k2}
    CliSubs = {s1}
    Waiters = {k2}
    HBFailCount = 1
    MaxKnownInvalid = 1
    MaxRestarts = 1
    MaxChecks = 2
    MaxCloseReqs = 1
    NoConn = NoConn
    MaxCreates = 2
    ChanSubs = {c1, c2}
    IOChanSize = 2
    MaxPubs = 2
    ChanFaults = {"create", "delete", "sub", "flush"}
    Members = {m1, m2}
    maxSentOrAckSequences = 2
    SAMaxSeq = 2
    SAMaxMoves = 1
    SAMaxLog = 1
    RsMaxSeq = 4
    RestoreBatch = 2
    restoreMsgsAttempts = 2
    ProceedOnRestoreFailure = TRUE
    RsMaxLost = 1
    RLMaxIndex = 3
    RLMaxTerm = 2
    cacheSize = 2
    RLMaxCrashes = 1
    RLFaults = {"store", "delete"}
    FTServers = {a1, a2}
    sqlLockLostCount = 2
    UpdateInterval = 2
    CheckInterval = 3
    FTMaxRestarts = 1
    FTMaxPauses = 1
    SLSubjects <- MCSubjects
    SLInvalid <- MCInvalid
    SLKeys <- MCKeys
    SLUniverse <- MCUniverse
    slCacheMax = 2
    SLMaxCount = 3
    PtServers = {p1, p2}
    PtLists <- MCLists
    PtUniverse <- MCUniverse
    PtMaxStarts = 2
    MaxPayload = 2
    ReadSizes = {1, 2}
    RTMaxBytes = 3
    RTMaxLost = 1
    CPNodes = {n1, n2}
    NoNode = NoNode
    CPMaxPubs = 2
    CPMaxElections = 3
INVARIANTS
    ServerTypeOK
    SubsOwned
    HeartbeatArmed
    SubOnLiveChannel
    DeletionArmed
    EventsScheduled
    LostOnlyByClose
    RestoredAll
    GetLogRight
    OneActiveUnlessStale
    MatchRight
    PartitionsDisjoint
    StreamRight
    AckedKept
CHECK_DEADLOCK FALSE
