SPECIFICATION Spec
CONSTANTS
    Plain = {}
    Durables = {d1}
    QSubs = {}
    Group = Group
    QDurable = FALSE
    RThreads = {r1}
    IO = IO
    Starter = Starter
    Nobody = Nobody
    Positions = {"First", "NewOnly"}
    InFlights = {1, 2}
    MaxMsgs = 0
    Events = {"expireMsgs"}
    MaxSeq = 2
    MaxStarts = 2
    MaxRequests = 3
CHECK_DEADLOCK FALSE
INVARIANTS NoLostWakeUp HoldReleased
