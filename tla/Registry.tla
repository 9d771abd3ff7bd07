------------------------------ MODULE Registry ------------------------------
(***************************************************************************)
(* The register of parties and contracts: the part of the store's          *)
(* projection that wc-control/src/registry.rs guards.  Every operation     *)
(* here is a checked write: the code validates against the projection,     *)
(* appends one event and applies it, all under the store's mutex, so one   *)
(* operation is one step.                                                  *)
(***************************************************************************)
EXTENDS Naturals

CONSTANTS Party,     \* entity identifiers
          Human,     \* human identities (approvers, owners)
          TierOne,   \* the parties whose tier requires dual control
          Cid,       \* connection identifiers
          MaxPin     \* bound: how often a party's surface may be re-pinned

ASSUME RegistryAssumption ==
    /\ Human \subseteq Nat         \* ordered, as the code sorts identities
    /\ TierOne \subseteq Party
    /\ MaxPin \in Nat

VARIABLES entities,  \* admitted party -> its Entity
          contracts  \* known connection -> its record

registryVars == <<entities, contracts>>

Lifecycle == {"Pending", "Active", "Suspended", "Retired"}
Posture == {"Attested", "Degraded", "Unattested", "Quarantined"}
Status == {"Active", "Suspended", "Revoked"}

\* What the properties need of an Entity.
Entity == [lifecycle: Lifecycle, posture: Posture, pin: 0 .. MaxPin, owner: Human]

(***************************************************************************)
(* Map insertion and removal.                                              *)
(***************************************************************************)
Insert(f, k, v) == [x \in DOMAIN f \cup {k} |-> IF x = k THEN v ELSE f[x]]
Remove(f, k) == [x \in DOMAIN f \ {k} |-> f[x]]

(***************************************************************************)
(* The lifecycle table, and who may be connected in which mode.            *)
(***************************************************************************)
CanTransition(from, to) ==
    <<from, to>> \in { <<"Pending", "Active">>,   <<"Pending", "Retired">>,
                       <<"Active", "Suspended">>, <<"Active", "Retired">>,
                       <<"Suspended", "Active">>, <<"Suspended", "Retired">> }

MayConnect(posture, mode) ==
    \/ posture = "Attested"
    \/ posture \in {"Degraded", "Unattested"} /\ mode = "Observe"

\* Entity::assert_connectable.
Connectable(e, mode) ==
    /\ e.posture # "Quarantined"
    /\ e.lifecycle = "Active"
    /\ MayConnect(e.posture, mode)

\* Two different members: what every dual-control check in the code asks for.
TwoDistinct(H) == \E g, h \in H : g # h

(***************************************************************************)
(* Writes on parties.                                                      *)
(***************************************************************************)
\* (a mutant) The lifecycle is not looked at.
PutAnyState(p, posture, pin, owner) ==
    /\ posture \in {"Attested", "Unattested"}
    /\ entities' = Insert(entities, p,
                     [lifecycle |-> "Pending", posture |-> posture, pin |-> pin,
                      owner |-> owner])
    /\ UNCHANGED contracts

\* put: admission creates a Pending entity, or replaces one still Pending.
\* Admission grants Attested or Unattested, nothing else.
Put(p, posture, pin, owner) ==
    /\ p \in DOMAIN entities => entities[p].lifecycle = "Pending"
    /\ posture \in {"Attested", "Unattested"}
    /\ entities' = Insert(entities, p,
                     [lifecycle |-> "Pending", posture |-> posture, pin |-> pin,
                      owner |-> owner])
    /\ UNCHANGED contracts

Transition(p, to) ==
    /\ p \in DOMAIN entities
    /\ entities[p].posture # "Quarantined"
    /\ CanTransition(entities[p].lifecycle, to)
    /\ entities' = [entities EXCEPT ![p].lifecycle = to]
    /\ UNCHANGED contracts

SetPosture(p, posture) ==
    /\ p \in DOMAIN entities
    /\ posture # "Quarantined"
    /\ entities[p].posture # "Quarantined"
    /\ entities' = [entities EXCEPT ![p].posture = posture]
    /\ UNCHANGED contracts

\* repin accepts a party in any state; contracts keep the manifest they were
\* minted against, and the affected ones are only reported.
Repin(p, pin) ==
    /\ p \in DOMAIN entities
    /\ pin # entities[p].pin
    /\ entities' = [entities EXCEPT ![p].pin = pin]
    /\ UNCHANGED contracts

(***************************************************************************)
(* Writes on contracts.                                                    *)
(***************************************************************************)
ContractsFor(p) == {c \in DOMAIN contracts :
                        p \in {contracts[c].caller, contracts[c].callee}}

SuspendContract(c) ==
    /\ c \in DOMAIN contracts
    /\ contracts[c].status # "Revoked"
    /\ contracts' = [contracts EXCEPT ![c].status = "Suspended"]
    /\ UNCHANGED entities

RevokeContract(c) ==
    /\ c \in DOMAIN contracts
    /\ contracts' = [contracts EXCEPT ![c].status = "Revoked"]
    /\ UNCHANGED entities

(***************************************************************************)
(* Containment.  The order names the party; applying it revokes every      *)
(* contract indexed under the party in either direction, and suspends the  *)
(* party whatever its lifecycle was.                                       *)
(***************************************************************************)
DualControlFor(p, H) == p \in TierOne => TwoDistinct(H)

\* Mutant: containment written to the lifecycle as if it were a posture.
QuarantineAsLifecycle(p, H) ==
    /\ p \in DOMAIN entities
    /\ DualControlFor(p, H)
    /\ entities' = [entities EXCEPT ![p].lifecycle = "Quarantined"]
    /\ UNCHANGED contracts

Quarantine(p, H) ==
    /\ p \in DOMAIN entities
    /\ DualControlFor(p, H)
    /\ entities' = [entities EXCEPT ![p].posture = "Quarantined",
                                    ![p].lifecycle = "Suspended"]
    /\ contracts' = [c \in DOMAIN contracts |->
                        IF c \in ContractsFor(p)
                        THEN [contracts[c] EXCEPT !.status = "Revoked"]
                        ELSE contracts[c]]

\* Clearing always needs two people, returns the party to Pending, and
\* restores no contract.
ClearQuarantine(p, H) ==
    /\ p \in DOMAIN entities
    /\ entities[p].posture = "Quarantined"
    /\ TwoDistinct(H)
    /\ entities' = [entities EXCEPT ![p].posture = "Unattested",
                                    ![p].lifecycle = "Pending"]
    /\ UNCHANGED contracts
=============================================================================
