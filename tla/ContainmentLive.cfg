CONSTANTS
    a = a
    b = b
    c1 = c1
    k1 = k1
    k2 = k2
    Mediator = {m1}
    Contract = {c1}
    Party = {a}
    Ends <- OneContract
    Audience <- Everyone
    Kid = {k1, k2}
    Thread = {t1}
    MaxSeq = 4
    Outages = TRUE
    Rotations = TRUE
    Retirements = TRUE
    Clears = TRUE
SPECIFICATION Estates
INVARIANT ConfirmedCut
PROPERTIES CutArrives ServiceRecovers
