SPECIFICATION MCSpec
CONSTANTS
    Plain = {}
    Durables = {d1}
    QSubs = {}
    QDurable = FALSE
    RThreads = {r1}
    Group = Group
    IO = IO
    Starter = Starter
    Nobody = Nobody
    Positions = {"First"}
    InFlights = {1}
    MaxMsgs = 0
    Events = {}
    MaxSeq = 2
    MaxStarts = 1
    MaxRequests = 2
    NMMaxMsgs = 2
    NMMaxAge = TRUE
    NMMaxSeq = 5
INVARIANT NoSkipUnlessEmptied
PROPERTIES EventuallyDelivered RedeliveredUntilAcked EventuallySent
CHECK_DEADLOCK FALSE
