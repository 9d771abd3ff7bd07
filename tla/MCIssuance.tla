----------------------------- MODULE MCIssuance -----------------------------
(***************************************************************************)
(* Three small estates in one run, chosen at the start: a mint cut off at   *)
(* every point beside a need pipeline; owners and surfaces that change      *)
(* under a request; two requests against both rate caps.  Each is Issuance  *)
(* with constants of its own, within those of the configuration.            *)
(***************************************************************************)
EXTENDS Issuance, TLC

\* Requests, and the pairs `need apply' derives its connections from.
MCCid == Req \cup (Party \X Party)

StandingRule ==
    [decision |-> "Allow", approval |-> "Standing", role |-> FALSE,
     distinct |-> FALSE, ownerMerge |-> FALSE]
RoleRule ==
    [decision |-> "RequireApproval", approval |-> "Human", role |-> TRUE,
     distinct |-> TRUE, ownerMerge |-> FALSE]
MergeRule ==
    [decision |-> "RequireApproval", approval |-> "Human", role |-> TRUE,
     distinct |-> TRUE, ownerMerge |-> TRUE]
DualRule ==
    [decision |-> "Allow", approval |-> "DualControl", role |-> FALSE,
     distinct |-> FALSE, ownerMerge |-> FALSE]
DenyRule ==
    [decision |-> "Deny", approval |-> "Standing", role |-> FALSE,
     distinct |-> FALSE, ownerMerge |-> FALSE]

AllRules == {StandingRule, RoleRule, MergeRule, DualRule, DenyRule}
OnlyStanding == {StandingRule}
FaultRules == {StandingRule, MergeRule}
ConsentRules == {RoleRule, MergeRule, DualRule, DenyRule}

CONSTANTS r1, r2
VARIABLE estate

Faults == INSTANCE Issuance WITH
    Req <- {r1}, Rule <- FaultRules, MaxPin <- 0, AdmittedOwner <- {1}, MaxTime <- 0, MaxPolicy <- 1
Consents == INSTANCE Issuance WITH
    Req <- {r1}, Pipeline <- {}, Provider <- {}, Rule <- ConsentRules, Stops <- {4},
    BgPerWindow <- 0, MaxTime <- 0, MaxOffer <- 0
Budgets == INSTANCE Issuance WITH
    MaxPin <- 0, Pipeline <- {}, Provider <- {}, AdmittedOwner <- {1},
    Rule <- OnlyStanding, Stops <- {4}, MaxPolicy <- 1, MaxOffer <- 0

EstatesInit == estate \in {"faults", "consents", "budgets"} /\ Init
EstatesNext ==
    /\ UNCHANGED estate
    /\ \/ estate = "faults" /\ Faults!Next
       \/ estate = "consents" /\ Consents!Next
       \/ estate = "budgets" /\ Budgets!Next
Estates == EstatesInit /\ [][EstatesNext]_<<vars, estate>>

CONSTANT Steady  \* bound: the parties the registry leaves alone once active

\* State constraint: a steady party is admitted attested, activated, and then
\* neither suspended, retired, degraded nor quarantined; so is every party of
\* the estate the rate caps are checked in.  Where mints are cut off, a party
\* that cannot be connected is suspended or unattested: the mint treats one that
\* is retired or degraded the same, and the second estate has those too.
SteadyParties ==
    \A p \in DOMAIN entities :
        /\ p \in Steady \/ estate = "budgets" =>
              /\ entities[p].lifecycle \in {"Pending", "Active"}
              /\ entities[p].posture = "Attested"
        /\ estate = "faults" =>
              entities[p].lifecycle # "Retired" /\ entities[p].posture # "Degraded"

\* Sound: an estate with one request never names the other.
ReqSymmetry == Permutations(Req)
=============================================================================
