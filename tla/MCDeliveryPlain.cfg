SPECIFICATION Spec
CONSTANTS
    Plain = {p1}
    Durables = {}
    QSubs = {}
    Group = Group
    QDurable = FALSE
    RThreads = {r1}
    IO = IO
    Starter = Starter
    Nobody = Nobody
    Positions = {"NewOnly", "LastReceived", "TimeDeltaStart", "SequenceStart", "First"}
    InFlights = {1, 2}
    MaxMsgs = 2
    Events = {"publishFails", "addPendingFails", "ackFails", "expireMsgs", "heartbeatFails"}
    MaxSeq = 3
    MaxStarts = 1
    MaxRequests = 1
CHECK_DEADLOCK FALSE
INVARIANTS TypeOK NoMsgLost RedeliveryScheduled
