CONSTANTS
    p = p
    q = q
    r = r
    e1 = e1
    e2 = e2
    e3 = e3
    e4 = e4
    e5 = e5
    NoProc = NoProc
    Proc = {p, q, r}
    Event = {e1, e2, e3, e4, e5}
    OfferEvent = {}
    SyncEvery = 2
    SegLines = 3
    MaxLog = 5
    TornWrites = FALSE
    SyncFails = FALSE
    Snapshots = FALSE
SPECIFICATION Stores
INVARIANTS DurableSurvives ProjectionsTrue
PROPERTIES Implements StandbyTakesOver
CHECK_DEADLOCK FALSE
