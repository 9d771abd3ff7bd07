------------------------------ MODULE Issuance ------------------------------
(***************************************************************************)
(* Issuance: how a connection request becomes a contract                   *)
(* (wc-control/src/issuance.rs, with the policy evaluation it calls and    *)
(* the `need apply` pipeline that drives it).                              *)
(*                                                                         *)
(* An issuer holds the store and the evidence chain for the whole of one   *)
(* operation, so an operation is one step; but it is several writes, and   *)
(* a failing evidence sink, a failing append or a crash may end it between *)
(* two of them.  `stop' says how far a mint got:                           *)
(*    0  nothing     1  evidence recorded     2  ContractMint committed    *)
(*    3  ContractIssued committed             4  artifacts written         *)
(***************************************************************************)
EXTENDS Registry, FiniteSets

CONSTANTS
    Req,            \* request identifiers
    Pipeline,       \* build pipelines that run `need apply'
    Provider,       \* the parties that publish offers
    AdmittedOwner,  \* the humans admission may register as an owner
    RoleHolder,     \* the humans holding the approver role rules may demand
    Mode,           \* "Enforce" or "Observe"
    Rule,           \* what the policy's rules and zone bars can answer
    Stops,          \* where a mint may end: {4}, or 0 .. 4 with faults
    RequestTtl,     \* seconds until a pending request lapses
    StandingPerWindow,  \* standing issuances per window
    BgPerWindow,    \* break-glass budget per window
    Window,         \* the length of both windows
    MaxTime,        \* bound on the clock
    MaxPolicy,      \* bound on policy versions
    MaxOffer        \* bound on offer publications per provider

Approval == {"Standing", "Human", "DualControl"}
RuleType == [decision: {"Allow", "RequireApproval", "Deny"},
             approval: Approval, role: BOOLEAN,
             distinct: BOOLEAN, ownerMerge: BOOLEAN]

ASSUME IssuanceAssumption ==
    /\ Req \cup (Party \X Party) \subseteq Cid
    /\ Req \cap (Party \X Party) = {}
    /\ Provider \subseteq Party
    /\ AdmittedOwner \subseteq Human
    /\ RoleHolder \subseteq Human
    /\ Mode \in {"Enforce", "Observe"}
    /\ Rule \subseteq RuleType
    /\ Stops \subseteq 0 .. 4
    /\ RequestTtl \in Nat \ {0}
    /\ StandingPerWindow \in Nat /\ BgPerWindow \in Nat /\ Window \in Nat \ {0}
    /\ MaxTime \in Nat /\ MaxPolicy \in Nat /\ MaxOffer \in Nat

VARIABLES
    requests,   \* committed request -> PendingRequest
    evidence,   \* the <<cid, jti>> pairs with a Mint record in the chain
    artifacts,  \* cid -> the jti of the signed artifact on disk
    anomalies,  \* request ids a decision was applied to without a request
    policy,     \* version of the live connect-policy
    offers,     \* [Party -> version of its published offer, 0 for none]
    plans,      \* pipeline -> the match it holds while it holds no lock
    now

issuanceVars ==
    <<requests, evidence, artifacts, anomalies, policy, offers, plans, now>>
vars == <<entities, contracts, requests, evidence, artifacts, anomalies, policy,
          offers, plans, now>>

RequestStatus == {"Pending", "Minted", "Denied", "Lapsed"}
ApprovalMode == {"StandingPolicy", "Human", "ReviewedMerge", "BreakGlass"}

\* A ContractRecord with its ApprovalRef: `by' holds the one or two humans it
\* names, source and target the approvers of its merges.  Expiry is a matter
\* for the mediator and is left out.
Contract ==
    [status: Status, caller: Party, callee: Party, manifest: 0 .. MaxPin,
     mode: ApprovalMode, by: SUBSET Human, source: SUBSET Human,
     target: SUBSET Human, req: Req, jti: Nat, iat: Nat]

\* approvers: the humans its ContractApprove event names, {} before that.
PendingRequest ==
    [caller: Party, callee: Party, decision: {"Allow", "RequireApproval", "Deny"},
     role: BOOLEAN, dual: BOOLEAN, distinct: BOOLEAN, ownerMerge: BOOLEAN,
     ownerMust: BOOLEAN, version: Nat, expires: Nat, approvers: SUBSET Human,
     status: RequestStatus]

Plan == [caller: Party, callee: Party, ver: Nat, ready: BOOLEAN,
         manifest: 0 .. MaxPin, source: SUBSET Human, target: SUBSET Human]

(***************************************************************************)
(* Identity.  A request's contract takes its cid from the request          *)
(* (mint_cid), a need's from the pair alone (derive_cid), so every later   *)
(* need of the pair supersedes the same connection.  A need's jti depends  *)
(* on the offer version only, here: scope and ttl are fixed.  For mint_jti *)
(* the clock stands for the clock and the log position.                    *)
(***************************************************************************)
MintCid(r) == r
DeriveCid(a, b) == <<a, b>>
MintJti == now
DeriveJti(ver) == ver

\* The first two approvers in sorted order: all an ApprovalRef has room for.
FirstTwo(H) == {h \in H : ~ \E f, g \in H : f < g /\ g < h}

(***************************************************************************)
(* ConnectPolicy::evaluate after its structural checks: the rule's answer, *)
(* raised by the approval floor, by an unattested party and by the         *)
(* standing caps, none of which ever lowers it.  The rate cap is computed; *)
(* `capped' is the verdict of the other caps (switched off, tier, writes,  *)
(* size, share, overdue review).                                           *)
(***************************************************************************)
\* Mutant: the parties' state is left to the mint to check.
StructuralPairOnly(a, b) == a # b

Structural(a, b) ==
    /\ a # b
    /\ \A p \in {a, b} : /\ entities[p].posture # "Quarantined"
                         /\ entities[p].lifecycle = "Active"

\* Mutant: the window's first second is left out.
StandingAfterFloor ==
    {c \in DOMAIN contracts : /\ contracts[c].mode = "StandingPolicy"
                              /\ contracts[c].status = "Active"
                              /\ contracts[c].iat + Window > now}

\* standing_state, issued_in_window: standing contracts still Active.
StandingInWindow ==
    {c \in DOMAIN contracts : /\ contracts[c].mode = "StandingPolicy"
                              /\ contracts[c].status = "Active"
                              /\ contracts[c].iat + Window >= now}

Decision(rule, a, b, capped) ==
    IF /\ rule.decision = "Allow"
       /\ \/ rule.approval # "Standing"
          \/ \E p \in {a, b} : ~ MayConnect(entities[p].posture, "Enforce")
          \/ Cardinality(StandingInWindow) >= StandingPerWindow
          \/ capped
    THEN "RequireApproval"
    ELSE rule.decision

\* build_pending: what the committed request remembers of the evaluation.
BuildPending(a, b, rule, capped, ownerMust) ==
    [caller |-> a, callee |-> b, decision |-> Decision(rule, a, b, capped),
     role |-> rule.role, dual |-> rule.approval = "DualControl",
     distinct |-> rule.distinct, ownerMerge |-> rule.ownerMerge,
     ownerMust |-> ownerMust, version |-> policy,
     expires |-> now + RequestTtl, approvers |-> {}, status |-> "Pending"]

HasLapsed(r) == now >= requests[r].expires

\* Mutant: any known request may be decided.
IsKnown(r) == r \in DOMAIN requests
IsPending(r) == r \in DOMAIN requests /\ requests[r].status = "Pending"

\* Projection::apply on the events that settle a request.
Settle(reqs, r, status) ==
    IF r \in DOMAIN reqs THEN [reqs EXCEPT ![r].status = status] ELSE reqs

\* Mutant: only ContractIssued settles the request.
ApplyApproveLater(r, H) == [requests EXCEPT ![r].approvers = H]
ApplyApprove(r, H) ==
    [requests EXCEPT ![r].status = "Minted", ![r].approvers = H]

\* Request ids are digests over the clock and the log position, so no request
\* and no contract has taken them.
Fresh(r) == r \notin DOMAIN requests /\ MintCid(r) \notin DOMAIN contracts

(***************************************************************************)
(* mint_unchecked: evidence first, then the two commits, then the signed   *)
(* artifacts.  `reqs' is the request map as the operation left it so far.  *)
(***************************************************************************)
Record(a, b, manifest, mode, by, source, target, r, jti) ==
    [status |-> "Active", caller |-> a, callee |-> b, manifest |-> manifest,
     mode |-> mode, by |-> by, source |-> source, target |-> target,
     req |-> r, jti |-> jti, iat |-> now]

\* Mutant: the record before its evidence.
MintUncheckedRecordFirst(c, rec, reqs, stop) ==
    /\ contracts' = IF stop >= 1 THEN Insert(contracts, c, rec) ELSE contracts
    /\ evidence' = IF stop >= 2 THEN evidence \cup {<<c, rec.jti>>} ELSE evidence
    /\ requests' = IF stop >= 3 THEN Settle(reqs, rec.req, "Minted") ELSE reqs
    /\ UNCHANGED <<anomalies, artifacts>>

MintUnchecked(c, rec, reqs, stop) ==
    /\ evidence' = IF stop >= 1 THEN evidence \cup {<<c, rec.jti>>} ELSE evidence
    /\ contracts' = IF stop >= 2 THEN Insert(contracts, c, rec) ELSE contracts
    /\ requests' = IF stop >= 3 THEN Settle(reqs, rec.req, "Minted") ELSE reqs
    /\ anomalies' = IF stop >= 3 /\ rec.req \notin DOMAIN reqs
                    THEN anomalies \cup {rec.req} ELSE anomalies
    /\ artifacts' = IF stop >= 4 THEN Insert(artifacts, c, rec.jti) ELSE artifacts

NoMint(reqs) ==
    /\ requests' = reqs
    /\ UNCHANGED <<evidence, contracts, anomalies, artifacts>>

\* Mutant: the request's evaluation is trusted at mint time.
MintTrusting(c, rec, reqs, stop) == MintUnchecked(c, rec, reqs, stop)

\* mint: the preconditions are asserted again, on the entities as they are.
Mint(c, rec, reqs, stop) ==
    IF Connectable(entities[rec.caller], Mode) /\ Connectable(entities[rec.callee], Mode)
    THEN MintUnchecked(c, rec, reqs, stop)
    ELSE NoMint(reqs)

\* Mutants: a merge passes for two approvers; one person may sit on both sides.
MergeForDual(q, source, target) ==
    /\ q.distinct => source \cap target = {}
    /\ q.ownerMerge \/ ~ q.role
MergeOneHat(q, source, target) == ~ q.dual /\ (q.ownerMerge \/ ~ q.role)

\* merge_evidence_cannot_stand_in_for.
MergeSuffices(q, source, target) ==
    /\ q.distinct => source \cap target = {}
    /\ ~ q.dual
    /\ q.ownerMerge \/ ~ q.role

(***************************************************************************)
(* request: the request is committed as Pending before the decision is     *)
(* looked at.  A denial is only evidence; Allow mints at once unless the   *)
(* provider's owner must sign.                                             *)
(***************************************************************************)
StandingRecord(a, b, r) ==
    Record(a, b, entities[b].pin, "StandingPolicy", {}, {}, {}, r, MintJti)

Request(r, a, b, rule, capped, ownerMust, stop) ==
    LET q == BuildPending(a, b, rule, capped, ownerMust)
        reqs == Insert(requests, r, q)
    IN /\ Fresh(r)
       /\ {a, b} \subseteq DOMAIN entities
       /\ Structural(a, b)
       /\ IF q.decision = "Allow" /\ ~ ownerMust
          THEN Mint(MintCid(r), StandingRecord(a, b, r), reqs, stop)
          ELSE NoMint(reqs)
       /\ UNCHANGED <<entities, policy, offers, plans, now>>

(***************************************************************************)
(* approve: H is the set of humans whose signed approvals verify.  An      *)
(* approval is signed over the policy version the request carries and must *)
(* match the live one.                                                     *)
(***************************************************************************)
Approve(r, H, stop) ==
    /\ IsPending(r)
    /\ ~ HasLapsed(r)
    /\ requests[r].version = policy
    /\ requests[r].role => H \cap RoleHolder # {}
    /\ requests[r].ownerMust => entities[requests[r].callee].owner \in H
    /\ requests[r].dual => TwoDistinct(H)
    /\ H # {}
    /\ LET q == requests[r]
       IN Mint(MintCid(r),
               Record(q.caller, q.callee, entities[q.callee].pin, "Human",
                      FirstTwo(H), {}, {}, r, MintJti),
               ApplyApprove(r, H), stop)
    /\ UNCHANGED <<entities, policy, offers, plans, now>>

\* approve_by_merge: the owner's reviewed merge, H its approvers.  The approval
\* is committed before the check that a merge may settle this request at all.
ApproveByMerge(r, H, stop) ==
    /\ IsPending(r)
    /\ ~ HasLapsed(r)
    /\ entities[requests[r].callee].owner \in H
    /\ LET q == requests[r]
           owner == entities[q.callee].owner
           reqs == ApplyApprove(r, {owner})
       IN IF MergeSuffices(q, {}, H)
          THEN Mint(MintCid(r),
                    Record(q.caller, q.callee, entities[q.callee].pin, "Human",
                           {owner}, {}, H, r, MintJti),
                    reqs, stop)
          ELSE NoMint(reqs)
    /\ UNCHANGED <<entities, policy, offers, plans, now>>

\* An approval that comes too late, or the sweep: the request lapses.
Lapse(r) ==
    /\ IsPending(r)
    /\ HasLapsed(r)
    /\ NoMint(Settle(requests, r, "Lapsed"))
    /\ UNCHANGED <<entities, policy, offers, plans, now>>

Deny(r) ==
    /\ IsPending(r)
    /\ NoMint(Settle(requests, r, "Denied"))
    /\ UNCHANGED <<entities, policy, offers, plans, now>>

(***************************************************************************)
(* breakglass: no policy, no connectability; but never a quarantined       *)
(* party, always two approvers, and a budget over a sliding window.  Its   *)
(* request is built for the digest and never committed; its id is a digest *)
(* of the input and the clock, so the same ask in the same second gets the *)
(* same id and replaces its own contract.                                  *)
(***************************************************************************)
\* Mutant: the window's first second is left out.
BgAfterFloor ==
    {c \in DOMAIN contracts : /\ contracts[c].mode = "BreakGlass"
                              /\ contracts[c].iat + Window > now}

BgInWindow ==
    {c \in DOMAIN contracts : /\ contracts[c].mode = "BreakGlass"
                              /\ contracts[c].iat + Window >= now}

BreakglassId(r, a, b) ==
    /\ r \notin DOMAIN requests
    /\ MintCid(r) \in DOMAIN contracts =>
          /\ contracts[MintCid(r)].caller = a
          /\ contracts[MintCid(r)].callee = b
          /\ contracts[MintCid(r)].iat = now

BreakGlass(r, a, b, H, stop) ==
    /\ BreakglassId(r, a, b)
    /\ Cardinality(BgInWindow) < BgPerWindow
    /\ {a, b} \subseteq DOMAIN entities
    /\ \A p \in {a, b} : entities[p].posture # "Quarantined"
    /\ a # b
    /\ TwoDistinct(H)
    /\ MintUnchecked(MintCid(r),
                     Record(a, b, entities[b].pin, "BreakGlass", FirstTwo(H),
                            {}, {}, r, MintJti),
                     requests, stop)
    /\ UNCHANGED <<entities, policy, offers, plans, now>>

(***************************************************************************)
(* need apply.  The match is planned with the store open, which is then    *)
(* closed; minting opens it again.  The plan keeps copies of both parties, *)
(* and mint_with_identity asserts on those copies.                         *)
(***************************************************************************)
NeedPlan(j, a, b, source, target) ==
    /\ j \notin DOMAIN plans
    /\ {a, b} \subseteq DOMAIN entities
    /\ offers[b] > 0
    /\ DeriveCid(a, b) \in DOMAIN contracts =>
          contracts[DeriveCid(a, b)].jti # DeriveJti(offers[b])
    /\ plans' = Insert(plans, j,
         [caller |-> a, callee |-> b, ver |-> offers[b],
          ready |-> Connectable(entities[a], Mode) /\ Connectable(entities[b], Mode),
          manifest |-> entities[b].pin, source |-> source, target |-> target])
    /\ UNCHANGED <<entities, contracts, requests, evidence, artifacts, anomalies,
                   policy, offers, now>>

\* mint_with_identity on the plan's copies.
MintWithIdentity(plan, q, r, reqs, stop) ==
    IF MergeSuffices(q, plan.source, plan.target) /\ plan.ready
    THEN MintUnchecked(DeriveCid(plan.caller, plan.callee),
                       Record(plan.caller, plan.callee, plan.manifest,
                              "ReviewedMerge", {}, plan.source, plan.target, r,
                              DeriveJti(plan.ver)),
                       reqs, stop)
    ELSE NoMint(reqs)

NeedMint(j, r, rule, capped, stop) ==
    /\ j \in DOMAIN plans
    /\ Fresh(r)
    /\ Structural(plans[j].caller, plans[j].callee)
    /\ LET plan == plans[j]
           q == BuildPending(plan.caller, plan.callee, rule, capped, FALSE)
           reqs == Insert(requests, r, q)
       IN CASE q.decision = "Allow" ->
                 Mint(MintCid(r), StandingRecord(plan.caller, plan.callee, r),
                      reqs, stop)
            [] q.decision = "RequireApproval" ->
                 MintWithIdentity(plan, q, r, reqs, stop)
            [] q.decision = "Deny" -> NoMint(reqs)
    /\ plans' = Remove(plans, j)
    /\ UNCHANGED <<entities, policy, offers, now>>

\* The pipeline ends without minting: the policy refused structurally, or it
\* was killed.
NeedAbandon(j) ==
    /\ j \in DOMAIN plans
    /\ plans' = Remove(plans, j)
    /\ UNCHANGED <<entities, contracts, requests, evidence, artifacts, anomalies,
                   policy, offers, now>>

(***************************************************************************)
(* The surroundings: a provider publishes, an operator edits or rolls back *)
(* the policy, time passes.                                                *)
(***************************************************************************)
OfferPublish(p) ==
    /\ p \in DOMAIN entities
    /\ offers[p] < MaxOffer
    /\ offers' = [offers EXCEPT ![p] = @ + 1]
    /\ UNCHANGED <<entities, contracts, requests, evidence, artifacts, anomalies,
                   policy, plans, now>>

ReloadPolicy(v) ==
    /\ policy' = v
    /\ UNCHANGED <<entities, contracts, requests, evidence, artifacts, anomalies,
                   offers, plans, now>>

Tick ==
    /\ now < MaxTime
    /\ now' = now + 1
    /\ UNCHANGED <<entities, contracts, requests, evidence, artifacts, anomalies,
                   policy, offers, plans>>

RegistryStep ==
    /\ \/ \E p \in Party, x \in Posture, m \in 0 .. MaxPin, h \in AdmittedOwner :
             Put(p, x, m, h)
       \/ \E p \in Party, to \in Lifecycle : Transition(p, to)
       \/ \E p \in Party, x \in Posture : SetPosture(p, x)
       \/ \E p \in Party, m \in 0 .. MaxPin : Repin(p, m)
       \/ \E c \in Cid : SuspendContract(c)
       \/ \E c \in Cid : RevokeContract(c)
       \/ \E p \in Party, H \in SUBSET Human : Quarantine(p, H)
       \/ \E p \in Party, H \in SUBSET Human : ClearQuarantine(p, H)
    /\ UNCHANGED issuanceVars

IssuanceStep ==
    \/ \E r \in Req, a, b \in Party, rule \in Rule, capped, must \in BOOLEAN,
          stop \in Stops : Request(r, a, b, rule, capped, must, stop)
    \/ \E r \in Req, H \in SUBSET Human, stop \in Stops : Approve(r, H, stop)
    \/ \E r \in Req, H \in SUBSET Human, stop \in Stops : ApproveByMerge(r, H, stop)
    \/ \E r \in Req : Lapse(r)
    \/ \E r \in Req : Deny(r)
    \/ \E r \in Req, a, b \in Party, H \in SUBSET Human, stop \in Stops :
          BreakGlass(r, a, b, H, stop)
    \/ \E j \in Pipeline, a, b \in Party, source, target \in (SUBSET Human) \ {{}} :
          NeedPlan(j, a, b, source, target)
    \/ \E j \in Pipeline, r \in Req, rule \in Rule, capped \in BOOLEAN,
          stop \in Stops : NeedMint(j, r, rule, capped, stop)
    \/ \E j \in Pipeline : NeedAbandon(j)
    \/ \E p \in Provider : OfferPublish(p)
    \/ \E v \in 1 .. MaxPolicy : ReloadPolicy(v)
    \/ Tick

Init ==
    /\ entities = <<>>
    /\ contracts = <<>>
    /\ requests = <<>>
    /\ evidence = {}
    /\ artifacts = <<>>
    /\ anomalies = {}
    /\ policy = 1
    /\ offers = [p \in Party |-> 0]
    /\ plans = <<>>
    /\ now = 0

Next == RegistryStep \/ IssuanceStep

Spec == Init /\ [][Next]_vars

(***************************************************************************)
(* Properties.                                                             *)
(***************************************************************************)
TypeOK ==
    /\ DOMAIN entities \subseteq Party
    /\ \A p \in DOMAIN entities : entities[p] \in Entity
    /\ DOMAIN contracts \subseteq Cid
    /\ \A c \in DOMAIN contracts : contracts[c] \in Contract
    /\ DOMAIN requests \subseteq Req
    /\ \A r \in DOMAIN requests : requests[r] \in PendingRequest
    /\ evidence \subseteq Cid \X Nat
    /\ DOMAIN artifacts \subseteq Cid
    /\ \A c \in DOMAIN artifacts : artifacts[c] \in Nat
    /\ anomalies \subseteq Req
    /\ policy \in Nat /\ now \in Nat
    /\ offers \in [Party -> Nat]
    /\ DOMAIN plans \subseteq Pipeline
    /\ \A j \in DOMAIN plans : plans[j] \in Plan

\* Containment holds in the register: no contract of a quarantined party is
\* anything but revoked, whatever was requested, approved, planned or broken
\* open around the order (registry.rs quarantine; mint's re-assertion).
QuarantineCuts ==
    \A c \in DOMAIN contracts : \A p \in {contracts[c].caller, contracts[c].callee} :
        entities[p].posture = "Quarantined" => contracts[c].status = "Revoked"

\* No authority without a trace: every contract record, and every artifact that
\* could be handed to a mediator, has its Mint record in the evidence chain,
\* wherever the mint was interrupted (mint_unchecked, "Evidence before the
\* record").
AuthorityEvidenced ==
    /\ \A c \in DOMAIN contracts : <<c, contracts[c].jti>> \in evidence
    /\ \A c \in DOMAIN artifacts : <<c, artifacts[c]>> \in evidence

\* An approval is spent once: a contract approved by humans names a request
\* that is settled as Minted, so no second decision can follow it, even if the
\* issuer died between its commits (approve commits before it mints).
ApprovalSpent ==
    \A c \in DOMAIN contracts :
        contracts[c].mode = "Human" =>
            /\ contracts[c].req \in DOMAIN requests
            /\ requests[contracts[c].req].status = "Minted"

\* What was granted can be accounted for, wherever an issuer died: it is in the
\* evidence chain, and it used up the decision it rests on (mint_unchecked,
\* approve).
AuthorityTraced == AuthorityEvidenced /\ ApprovalSpent

\* Any window holds at most the budget of break-glass contracts, not only the
\* windows that end at an issuance, and revoking one gives nothing back
\* (breakglass_in_window counts records, whatever their status); and the standing
\* contracts alive that were issued in one window never exceed the rate cap
\* (StandingLimits::blocks).
BudgetsKept ==
    \A t \in 0 .. MaxTime :
        LET issued == {c \in DOMAIN contracts : contracts[c].iat \in t .. t + Window}
        IN  /\ Cardinality({c \in issued : contracts[c].mode = "BreakGlass"}) <= BgPerWindow
            /\ Cardinality({c \in issued : contracts[c].mode = "StandingPolicy"
                                            /\ contracts[c].status = "Active"})
                    <= StandingPerWindow

\* A settled request never changes its status again: no lapse, denial or second
\* approval undoes a decision.
SettledIsFinal ==
    [][\A r \in DOMAIN requests :
          requests[r].status # "Pending" => requests'[r].status = requests[r].status]_vars

\* The contract c is issued in this step.
Minted(c) == /\ c \in DOMAIN contracts'
             /\ c \in DOMAIN contracts => contracts'[c] # contracts[c]
             /\ contracts'[c].status = "Active"

\* A contract minted on a request (by policy, by approvers or by the owner's
\* merge) joins two parties that are connectable at that moment and is bound
\* to the callee's current surface.
MintsOnCurrentState ==
    [][\A c \in Req :
          Minted(c) /\ contracts'[c].mode # "BreakGlass" =>
             /\ Connectable(entities[contracts'[c].caller], Mode)
             /\ Connectable(entities[contracts'[c].callee], Mode)
             /\ contracts'[c].manifest = entities[contracts'[c].callee].pin]_vars

\* A contract carries the consents its request demanded, given by the people
\* who hold the roles when it is minted: two approvers under dual control, a
\* role holder unless the rule let the owner's merge stand in, the callee's
\* present owner where the offer asked for the owner, and nobody on both sides
\* of a merge where the zone bar forbids it.
ConsentComplete ==
    [][\A c \in Cid :
          Minted(c) /\ contracts'[c].mode # "BreakGlass" =>
             LET k == contracts'[c]
                 q == requests'[k.req]
             IN /\ k.req \in DOMAIN requests'
                /\ q.dual => TwoDistinct(q.approvers)
                /\ q.role /\ k.mode # "StandingPolicy" =>
                     q.approvers \cap RoleHolder # {} \/ q.ownerMerge
                /\ q.ownerMust => entities[q.callee].owner \in q.approvers
                /\ q.distinct => k.source \cap k.target = {}]_vars
=============================================================================
