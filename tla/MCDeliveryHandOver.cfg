SPECIFICATION Spec
CONSTANTS
    Plain = {}
    Durables = {}
    QSubs = {m1, m2}
    QDurable = FALSE
    RThreads = {r1}
    Group = Group
    IO = IO
    Starter = Starter
    Nobody = Nobody
    Positions = {"First"}
    InFlights = {1}
    MaxMsgs = 0
    Events = {}
    MaxSeq = 2
    MaxStarts = 1
    MaxRequests = 2
SYMMETRY Symmetry
INVARIANT QueueNoMsgLost
CHECK_DEADLOCK FALSE
