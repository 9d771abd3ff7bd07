CONSTANTS
    p = p
    q = q
    r = r
    e1 = e1
    e2 = e2
    e3 = e3
    e4 = e4
    e5 = e5
    NoProc = NoProc
    Proc = {p, q}
    Event = {e1, e2, e3}
    OfferEvent = {}
    SyncEvery = 2
    SegLines = 3
    MaxLog = 3
    TornWrites = TRUE
    SyncFails = FALSE
    Snapshots = FALSE
SPECIFICATION OneStore
INVARIANT DurableSurvives
CHECK_DEADLOCK FALSE
