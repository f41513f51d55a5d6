SPECIFICATION Spec
CONSTANTS
    Plain = {}
    Durables = {d1}
    QSubs = {}
    QDurable = FALSE
    RThreads = {r1}
    Group = Group
    IO = IO
    Starter = Starter
    Nobody = Nobody
    Positions = {"First"}
    InFlights = {2}
    MaxMsgs = 0
    Events = {}
    MaxSeq = 2
    MaxStarts = 2
    MaxRequests = 3
INVARIANT OldBeforeNew
CHECK_DEADLOCK FALSE
