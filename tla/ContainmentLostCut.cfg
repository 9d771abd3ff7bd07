CONSTANTS
    a = a
    b = b
    c1 = c1
    k1 = k1
    k2 = k2
    Mediator = {m1}
    Contract = {c1}
    Party = {a, b}
    Ends <- OneContract
    Audience <- Everyone
    Kid = {k1, k2}
    Thread = {t1}
    MaxSeq = 3
    Outages = FALSE
    Rotations = TRUE
    Retirements = FALSE
    Clears = FALSE
SPECIFICATION OneEstate
INVARIANT CursorCovers
