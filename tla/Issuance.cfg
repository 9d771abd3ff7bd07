\* The largest of the estates' constants; MCIssuance narrows them.
CONSTANTS
    r1 = r1
    r2 = r2
    Party = {a, b}
    Human = {1, 2}
    TierOne = {b}
    Cid <- MCCid
    MaxPin = 1
    Req = {r1, r2}
    Pipeline = {j}
    Provider = {b}
    AdmittedOwner = {1, 2}
    RoleHolder = {2}
    Mode = "Enforce"
    Rule <- AllRules
    Stops = {0, 1, 2, 3, 4}
    RequestTtl = 1
    StandingPerWindow = 1
    BgPerWindow = 1
    Window = 1
    MaxTime = 1
    MaxPolicy = 2
    Steady = {a}
    MaxOffer = 1
SPECIFICATION Estates
INVARIANTS QuarantineCuts AuthorityTraced BudgetsKept
PROPERTIES SettledIsFinal ConsentComplete MintsOnCurrentState
SYMMETRY ReqSymmetry
CHECK_DEADLOCK FALSE
CONSTRAINT SteadyParties
