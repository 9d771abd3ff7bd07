CONSTANTS
    Parts = {"evidence", "files", "views", "bundles", "log", "cuts"}
    Kinds = {"Mint", "Revoke"}
    SinkList <- MCSinks
    Interval = 1
    Window = 0
    Keys = {"anchor", "other"}
    AnchorKey = "anchor"
    NoKey = "none"
    MaxRows = 3
    MaxClock = 1
    MaxTrouble = 1
    FCut = {a, b}
    FMediator = {m1, m2}
    FMaxLog = 2
    FMaxLines = 3
    FFaulty = TRUE
    TenantName = {"default", "bank", "Bad"}
    TenantDefs <- MCTenantDefs
    IssuerId <- MCIssuerId
    Site = {"m1", "m2"}
    Deal = {"d1", "d2"}
    DealOf <- MCDealOf
    DealFor <- MCDealFor
    Unnamed = Unnamed
    MaxTtl = 1
    Ahead = 0
    MaxNow = 2
    MaxBundles = 1
    Proc = {p1}
    NoProc = Nobody
    Event = {e1, e2}
    OfferEvent = {e2}
    SyncEvery = 2
    SegLines = 2
    MaxLog = 2
    TornWrites = TRUE
    SyncFails = TRUE
    Snapshots = TRUE
    Mediator = {m3}
    Contract = {c1}
    Party = {a, b}
    Ends <- MCEnds
    Audience <- MCAudience
    Kid = {k1}
    Thread = {t1, t2}
    MaxSeq = 3
    Outages = FALSE
    Rotations = FALSE
    Retirements = TRUE
    Clears = TRUE
    a = a
    b = b
    c1 = c1
    m1 = m1
    m2 = m2
    m3 = m3
    k1 = k1
    t1 = t1
    t2 = t2
    e1 = e1
    e2 = e2
    ma = ma
    mb = mb
    mc = mc
    Unrecorded = Unrecorded
    Member = {ma, mb, mc}
    Founders <- MCFounders
    Profile <- MCProfile
    Welcome <- MCWelcome
    Queries <- MCQueries
    MaxMatches = 1
    Depths = {0, 2}
    Cap = 2
    MaxDeals = 3
    MaxEvents = 8
    LastDay = 2
    MaxWait = 1
SPECIFICATION RecordsSpec
INVARIANTS EvidenceSound ViewsSound BundleBounded SeqsIncrease FeedHolds
PROPERTY FilesSound
CONSTRAINT Bounded
CHECK_DEADLOCK FALSE
