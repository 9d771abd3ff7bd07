CONSTANTS
    Parts = {"gateway"}
    Adrift = TRUE
    Human = {"ann", "bob"}
    KeyFile <- MCKeyFile
    KeyHelper <- MCKeyHelper
    Kid = {"on", "off"}
    None = "none"
    Asked <- MCAsked
    Absent = Absent
    Nil = Nil
    Call = {"c1", "c2"}
    Feature = TRUE
    Inode = {1, 2, 3}
    MaxTicks = 1
    Transmitters <- MCTransmitters
    Drafts <- MCDrafts
    NoSubject = "nobody"
    Capacity = 2
    Skew = 0
    MaxMinute = 2
    MaxTokens = 3
    Unset = Unset
    AnchorOrg = anc
    Honest = {anc, mid, bank}
    Claims <- MCClaims
    AnchorMeta <- MCAnchorMeta
    Inside <- MCInside
    MaxChain = 3
    Leeway = 0
    Lifetime = 1
    Reverify = 1
    MaxStatements = 3
    MaxHour = 2
    Stream = {s1, s2}
    Me = "gw"
    Issuer = "plane"
    Settings <- MCSettings
    Publications <- MCPublications
    Orders = {"k1", "k2", "db"}
    FeedEntries <- MCFeedEntries
    KeyDocs <- MCKeyDocs
    Presentations <- MCPresentations
    Frames <- MCFrames
    Surfaces <- MCSurfaces
    RouteFiles <- MCRouteFiles
    MaxClock = 2
    MaxCalls = 1
    s1 = s1
    s2 = s2
    anc = anc
    mid = mid
    bank = bank
    foe = foe
    capA = capA
    capB = capB
    LKid = {"k1", "k2"}
    LMediator = {"m1"}
    KeyTtl = 1
    MaxStale = 2
    Margin = 1
    LMaxExp = 1
    LMaxClock = 4
SPECIFICATION EdgeSpec
INVARIANT ExpiryContains
CONSTRAINT Bounded
SYMMETRY Symmetry
CHECK_DEADLOCK FALSE
