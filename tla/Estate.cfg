SPECIFICATION EstateSpec
CONSTANTS
    Parts = {"admission", "plane", "commands", "discovery", "consent", "proposals", "offers", "policy", "settings"}
    x1 = x1
    x2 = x2
    Party <- MCParty
    Human = {1, 2}
    TierOne = {}
    Cid = {}
    MaxPin = 0
    Command = {x1, x2}
    Surface <- MCSurface
    Option <- MCOption
    MaxClock = 1
    MaxRuns = 2
    PThread = {x1, x2}
    Ask <- MCAsk
    TokenRoles <- MCRoles
    Transport <- MCTransport
    PReadOnly = FALSE
    Ttl = 2
    PMaxClock = 2
    MaxInflight = 2
    PMaxAsks = 3
    PMaxRestarts = 1
    Process = {x1, x2}
    Nobody = nobody
    Repo = {x1, x2, "r3"}
    Undated = {"r3"}
    Target = {"k1"}
    MaxSecond = 2
    MaxOpen = 1
    Person = {"own", "ann"}
    AssetOwner = "own"
    Terms = {x1, x2}
    ApproverLists = {{}, {"ann"}}
    Mins = {1}
    MaxCommits = 2
    MaxOffers = 1
    r1 = r1
    s1 = s1
    s2 = s2
    a1 = a1
    own = own
    dev = dev
    Service = {s1, s2}
    Consumer = {r1}
    Finds <- MCFinds
    ZoneMaps <- MCZoneMaps
    Staff = {own, dev}
    OwnerSaid <- MCOwners
    Tools = {"t1"}
    Unreadable = "bad"
    Applier = {a1}
    MaxHistory = 2
    OItem = {"read", "pay"}
    Declared = {"read", "pay"}
    Shape = {"in", "out"}
    Manifests <- MCManifests
    NeedSet <- MCNeeds
    PolicyTtl = {1, 3}
    TtlCeiling = 3
    RequestLife = 2
    MaxVersion = 2
    MaxDay = 3
    LastDate = 4
    ZoneOf <- MCZoneOf
    TierOf <- MCTierOf
    Policies <- MCPolicies
    Asks <- MCAsks
    MaxAge = 2
    MaxMinted = 3
    CommandFlags <- MCFlags
    Table <- MCTable
    RefusedKeys = {"policy.hot_reload"}
    Typo = {"keys.extrenal"}
    Owned = {"retention.days"}
    Switches = {"external"}
    Rereads = {"root"}
    Later <- MCLater
    Value = {"true", "false"}
    MaxKeys = 2
    Unset = Unset
    LockedFile = LockedFile
INVARIANTS
    CursorMissesNothing NoSelfEntitlement WholeTreeConsented OffersSound RunsAsWritten
PROPERTIES
    AdmissionSound AnswersHold CommandsSound PolicySound
CONSTRAINT Bounded
SYMMETRY Symmetry
CHECK_DEADLOCK FALSE
