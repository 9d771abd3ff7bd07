CONSTANTS
    a = a
    b = b
    c1 = c1
    c2 = c2
    j1 = j1
    j2 = j2
    j3 = j3
    t1 = t1
    t2 = t2
    Jti = {j1, j2, j3}
    Cid = {c1, c2}
    Party = {a, b}
    Tool = {t1, t2}
    Of <- MCOf
    Caller = a
    Callee = b
    TokenCid <- NoToken
    Snapshots <- MCSnapshots
    Cuts = {c1}
    Expiring = {j1}
    Modes = {"Enforce", "Observe"}
    Surfaces <- MCSurfaces
    PipeRoom = 1
SPECIFICATION Spec
INVARIANT NeverPoisoned
