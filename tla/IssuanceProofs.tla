--------------------------- MODULE IssuanceProofs ---------------------------
(***************************************************************************)
(* Proofs about Issuance, for any parties, humans, requests, rules and     *)
(* bounds, and wherever a mint may be cut off.                             *)
(***************************************************************************)
EXTENDS Issuance, FiniteSetTheorems, TLAPS

(***************************************************************************)
(* The type invariant in two halves: what a mint writes, and the rest.     *)
(***************************************************************************)
RequestMap(reqs) == /\ DOMAIN reqs \subseteq Req
                    /\ \A r \in DOMAIN reqs : reqs[r] \in PendingRequest

MintTypes ==
    /\ DOMAIN contracts \subseteq Cid
    /\ \A c \in DOMAIN contracts : contracts[c] \in Contract
    /\ RequestMap(requests)
    /\ evidence \subseteq Cid \X Nat
    /\ DOMAIN artifacts \subseteq Cid
    /\ \A c \in DOMAIN artifacts : artifacts[c] \in Nat
    /\ anomalies \subseteq Req

RestTypes ==
    /\ DOMAIN entities \subseteq Party
    /\ \A p \in DOMAIN entities : entities[p] \in Entity
    /\ policy \in Nat /\ now \in Nat
    /\ offers \in [Party -> Nat]
    /\ DOMAIN plans \subseteq Pipeline
    /\ \A j \in DOMAIN plans : plans[j] \in Plan

\* The parties that contracts, requests and plans name stay registered.
ContractsKnown == \A c \in DOMAIN contracts :
    {contracts[c].caller, contracts[c].callee} \subseteq DOMAIN entities
KnownIn(reqs) == \A r \in DOMAIN reqs :
    {reqs[r].caller, reqs[r].callee} \subseteq DOMAIN entities
PlansKnown == \A j \in DOMAIN plans :
    {plans[j].caller, plans[j].callee} \subseteq DOMAIN entities

\* What minting and the registry must preserve together.
Ledger == /\ MintTypes
          /\ ContractsKnown
          /\ KnownIn(requests)
          /\ QuarantineCuts
          /\ AuthorityEvidenced
          /\ ApprovalSpent

\* The inductive invariant.
IInv == RestTypes /\ PlansKnown /\ Ledger

\* Settling a request keeps the map a map of requests.
LEMMA SettleType ==
    ASSUME NEW reqs, RequestMap(reqs), NEW r, NEW status \in RequestStatus
    PROVE  /\ RequestMap(Settle(reqs, r, status))
           /\ DOMAIN Settle(reqs, r, status) = DOMAIN reqs
           /\ \A x \in DOMAIN reqs :
                 /\ Settle(reqs, r, status)[x].caller = reqs[x].caller
                 /\ Settle(reqs, r, status)[x].callee = reqs[x].callee
  BY DEF RequestMap, Settle, PendingRequest

\* Approving a request likewise.
LEMMA ApplyApproveType ==
    ASSUME MintTypes, NEW r \in DOMAIN requests, NEW H \in SUBSET Human
    PROVE  /\ RequestMap(ApplyApprove(r, H))
           /\ DOMAIN ApplyApprove(r, H) = DOMAIN requests
           /\ \A x \in DOMAIN requests :
                 /\ ApplyApprove(r, H)[x].caller = requests[x].caller
                 /\ ApplyApprove(r, H)[x].callee = requests[x].callee
  <1> DEFINE q == [requests[r] EXCEPT !.status = "Minted", !.approvers = H]
  <1>1. requests[r] \in PendingRequest
    BY DEF MintTypes, RequestMap
  <1>2. q \in PendingRequest /\ q.caller = requests[r].caller /\ q.callee = requests[r].callee
    BY <1>1 DEF PendingRequest, RequestStatus
  <1>3. /\ DOMAIN ApplyApprove(r, H) = DOMAIN requests
        /\ ApplyApprove(r, H)[r] = q
        /\ \A x \in DOMAIN requests : x # r => ApplyApprove(r, H)[x] = requests[x]
    BY DEF ApplyApprove
  <1> HIDE DEF q
  <1> QED
    BY <1>2, <1>3 DEF MintTypes, RequestMap

\* A new request is well typed, whatever the rule.
LEMMA BuildPendingType ==
    ASSUME RestTypes, NEW a \in Party, NEW b \in Party, NEW rule \in Rule,
           NEW capped \in BOOLEAN, NEW must \in BOOLEAN
    PROVE  BuildPending(a, b, rule, capped, must) \in PendingRequest
  <1>1. rule \in RuleType
    BY IssuanceAssumption
  <1>2. Decision(rule, a, b, capped) \in {"Allow", "RequireApproval", "Deny"}
    BY <1>1 DEF Decision, RuleType
  <1>3. now + RequestTtl \in Nat
    BY IssuanceAssumption DEF RestTypes
  <1> QED
    BY <1>1, <1>2, <1>3 DEF BuildPending, PendingRequest, RuleType,
       RestTypes, RequestStatus

\* A record is well typed.
LEMMA RecordType ==
    ASSUME RestTypes, NEW a \in Party, NEW b \in Party, NEW m \in 0 .. MaxPin,
           NEW mode \in ApprovalMode, NEW by \in SUBSET Human,
           NEW source \in SUBSET Human, NEW target \in SUBSET Human,
           NEW r \in Req, NEW jti \in Nat
    PROVE  Record(a, b, m, mode, by, source, target, r, jti) \in Contract
  BY DEF Record, Contract, Status, RestTypes

\* mint_unchecked writes well typed state wherever it is cut off.
LEMMA MintUncheckedType ==
    ASSUME MintTypes, NEW c \in Cid, NEW rec \in Contract, NEW reqs,
           RequestMap(reqs), NEW stop \in Stops, MintUnchecked(c, rec, reqs, stop)
    PROVE  MintTypes'
  <1>1. rec.req \in Req /\ rec.jti \in Nat
    BY DEF Contract
  <1>2. /\ DOMAIN contracts' \subseteq Cid
        /\ \A x \in DOMAIN contracts' : contracts'[x] \in Contract
    <2>1. CASE contracts' = contracts
      BY <2>1 DEF MintTypes
    <2>2. CASE contracts' = Insert(contracts, c, rec)
      BY <2>2 DEF MintTypes, Insert
    <2> QED
      BY <2>1, <2>2 DEF MintUnchecked
  <1>3. RequestMap(requests')
    BY SettleType DEF MintUnchecked, RequestStatus
  <1>4. evidence' \subseteq Cid \X Nat
    BY <1>1 DEF MintTypes, MintUnchecked
  <1>5. /\ DOMAIN artifacts' \subseteq Cid
        /\ \A x \in DOMAIN artifacts' : artifacts'[x] \in Nat
    <2>1. CASE artifacts' = artifacts
      BY <2>1 DEF MintTypes
    <2>2. CASE artifacts' = Insert(artifacts, c, rec.jti)
      BY <1>1, <2>2 DEF MintTypes, Insert
    <2> QED
      BY <2>1, <2>2 DEF MintUnchecked
  <1>6. anomalies' \subseteq Req
    BY <1>1 DEF MintTypes, MintUnchecked
  <1> QED
    BY <1>2, <1>3, <1>4, <1>5, <1>6 DEF MintTypes, RequestMap

\* So does an operation that ends without minting.
LEMMA NoMintType ==
    ASSUME MintTypes, NEW reqs, RequestMap(reqs), NoMint(reqs)
    PROVE  MintTypes'
  BY DEF MintTypes, RequestMap, NoMint

LEMMA MintType ==
    ASSUME MintTypes, NEW c \in Cid, NEW rec \in Contract, NEW reqs,
           RequestMap(reqs), NEW stop \in Stops, Mint(c, rec, reqs, stop)
    PROVE  MintTypes'
  BY MintUncheckedType, NoMintType DEF Mint

(***************************************************************************)
(* What a mint preserves.  Successor: the request map an operation leaves  *)
(* behind; Mintable: what the callers of mint_unchecked have established.  *)
(***************************************************************************)
Successor(reqs) ==
    /\ RequestMap(reqs)
    /\ KnownIn(reqs)
    /\ \A x \in DOMAIN requests :
          /\ x \in DOMAIN reqs
          /\ requests[x].status = "Minted" => reqs[x].status = "Minted"

Mintable(rec, reqs) ==
    /\ rec \in Contract
    /\ rec.caller \in DOMAIN entities /\ rec.callee \in DOMAIN entities
    /\ entities[rec.caller].posture # "Quarantined"
    /\ entities[rec.callee].posture # "Quarantined"
    /\ rec.mode = "Human" =>
          rec.req \in DOMAIN reqs /\ reqs[rec.req].status = "Minted"

\* An operation that ends without minting keeps the ledger.
LEMMA NoMintLedger ==
    ASSUME Ledger, NEW reqs, Successor(reqs), NoMint(reqs), entities' = entities
    PROVE  Ledger'
  <1>1. MintTypes'
    BY NoMintType DEF Ledger, Successor
  <1>2. ContractsKnown' /\ KnownIn(requests)'
    BY DEF Ledger, Successor, NoMint, ContractsKnown, KnownIn
  <1>3. QuarantineCuts' /\ AuthorityEvidenced'
    BY DEF Ledger, NoMint, QuarantineCuts, AuthorityEvidenced
  <1>4. ApprovalSpent'
    BY DEF Ledger, NoMint, ApprovalSpent, Successor
  <1> QED
    BY <1>1, <1>2, <1>3, <1>4 DEF Ledger

\* mint_unchecked keeps the ledger wherever it is cut off.
LEMMA MintUncheckedLedger ==
    ASSUME Ledger, NEW c \in Cid, NEW rec, NEW reqs, NEW stop \in Stops,
           Successor(reqs), Mintable(rec, reqs),
           MintUnchecked(c, rec, reqs, stop), entities' = entities
    PROVE  Ledger'
  <1> DEFINE settled == Settle(reqs, rec.req, "Minted")
  <1>0. stop \in Nat
    BY IssuanceAssumption
  <1>1. MintTypes'
    BY MintUncheckedType DEF Ledger, Successor, Mintable
  <1>2. /\ RequestMap(settled)
        /\ KnownIn(settled)
        /\ \A x \in DOMAIN reqs :
              /\ x \in DOMAIN settled
              /\ reqs[x].status = "Minted" => settled[x].status = "Minted"
    <2>1. /\ RequestMap(settled)
          /\ DOMAIN settled = DOMAIN reqs
          /\ \A x \in DOMAIN reqs : /\ settled[x].caller = reqs[x].caller
                                   /\ settled[x].callee = reqs[x].callee
      BY SettleType DEF Successor, RequestStatus
    <2>2. KnownIn(settled)
      BY <2>1 DEF Successor, KnownIn
    <2>3. \A x \in DOMAIN reqs : reqs[x].status = "Minted" => settled[x].status = "Minted"
      BY DEF Settle, Successor, RequestMap, PendingRequest
    <2> QED
      BY <2>1, <2>2, <2>3
  <1>3. requests' = reqs \/ requests' = settled
    BY DEF MintUnchecked
  <1> HIDE DEF settled
  <1>4. contracts' = contracts \/ contracts' = Insert(contracts, c, rec)
    BY DEF MintUnchecked
  <1>5. ContractsKnown'
    BY <1>4 DEF Ledger, Mintable, ContractsKnown, Insert
  <1>6. KnownIn(requests)'
    BY <1>2, <1>3 DEF Successor, KnownIn
  <1>7. QuarantineCuts'
    BY <1>4 DEF Ledger, Mintable, QuarantineCuts, Insert
  <1>8. AuthorityEvidenced'
    <2>1. CASE stop >= 1
      <3>1. evidence' = evidence \cup {<<c, rec.jti>>}
        BY <2>1 DEF MintUnchecked
      <3>2. artifacts' = artifacts \/ artifacts' = Insert(artifacts, c, rec.jti)
        BY DEF MintUnchecked
      <3> QED
        BY <1>4, <3>1, <3>2 DEF Ledger, AuthorityEvidenced, Insert
    <2>2. CASE ~ (stop >= 1)
      BY <1>0, <2>2 DEF Ledger, AuthorityEvidenced, MintUnchecked
    <2> QED
      BY <2>1, <2>2
  <1>9. ApprovalSpent'
    <2>1. \A x \in DOMAIN reqs :
             /\ x \in DOMAIN requests'
             /\ reqs[x].status = "Minted" => requests'[x].status = "Minted"
      BY <1>2, <1>3
    <2> QED
      BY <1>4, <2>1 DEF Ledger, Mintable, Successor, ApprovalSpent, Insert
  <1> QED
    BY <1>1, <1>5, <1>6, <1>7, <1>8, <1>9 DEF Ledger

\* mint adds the assertion on both parties, which rules quarantine out.
LEMMA MintLedger ==
    ASSUME Ledger, NEW c \in Cid, NEW rec \in Contract, NEW reqs, NEW stop \in Stops,
           Successor(reqs),
           rec.caller \in DOMAIN entities, rec.callee \in DOMAIN entities,
           rec.mode = "Human" =>
              rec.req \in DOMAIN reqs /\ reqs[rec.req].status = "Minted",
           Mint(c, rec, reqs, stop), entities' = entities
    PROVE  Ledger'
  <1>1. CASE /\ Connectable(entities[rec.caller], Mode)
             /\ Connectable(entities[rec.callee], Mode)
    <2>1. Mintable(rec, reqs)
      BY <1>1 DEF Mintable, Connectable
    <2> QED
      BY <1>1, <2>1, MintUncheckedLedger DEF Mint
  <1>2. CASE ~ (/\ Connectable(entities[rec.caller], Mode)
                /\ Connectable(entities[rec.callee], Mode))
    BY <1>2, NoMintLedger DEF Mint
  <1> QED
    BY <1>1, <1>2

(***************************************************************************)
(* The registry's writes.                                                  *)
(***************************************************************************)
\* A write that only adds or updates one party, and does not quarantine it,
\* keeps the ledger.
LEMMA PartyWriteLedger ==
    ASSUME Ledger, NEW p,
           DOMAIN entities \subseteq DOMAIN entities',
           \A x \in DOMAIN entities : x # p => entities'[x] = entities[x],
           p \in DOMAIN entities /\ entities'[p].posture = "Quarantined" =>
              entities[p].posture = "Quarantined",
           contracts' = contracts, UNCHANGED issuanceVars
    PROVE  Ledger'
  <1>1. MintTypes'
    BY DEF Ledger, MintTypes, RequestMap, issuanceVars
  <1>2. ContractsKnown' /\ KnownIn(requests)'
    BY DEF Ledger, ContractsKnown, KnownIn, issuanceVars
  <1>3. QuarantineCuts'
    BY DEF Ledger, ContractsKnown, QuarantineCuts
  <1>4. AuthorityEvidenced' /\ ApprovalSpent'
    BY DEF Ledger, AuthorityEvidenced, ApprovalSpent, issuanceVars
  <1> QED
    BY <1>1, <1>2, <1>3, <1>4 DEF Ledger

\* A write that only changes statuses keeps the ledger if it revives nothing.
LEMMA StatusWriteLedger ==
    ASSUME Ledger, NEW S, \A c \in DOMAIN contracts : S[c] \in Status,
           contracts' = [c \in DOMAIN contracts |-> [contracts[c] EXCEPT !.status = S[c]]],
           DOMAIN entities' = DOMAIN entities,
           \A c \in DOMAIN contracts : \A p \in {contracts[c].caller, contracts[c].callee} :
              entities'[p].posture = "Quarantined" => S[c] = "Revoked",
           UNCHANGED issuanceVars
    PROVE  Ledger'
  <1>1. /\ DOMAIN contracts' = DOMAIN contracts
        /\ \A c \in DOMAIN contracts :
              /\ contracts'[c] \in Contract
              /\ contracts'[c].status = S[c]
              /\ contracts'[c].caller = contracts[c].caller
              /\ contracts'[c].callee = contracts[c].callee
              /\ contracts'[c].jti = contracts[c].jti
              /\ contracts'[c].mode = contracts[c].mode
              /\ contracts'[c].req = contracts[c].req
    BY DEF Ledger, MintTypes, Contract
  <1>2. MintTypes'
    BY <1>1 DEF Ledger, MintTypes, RequestMap, issuanceVars
  <1>3. ContractsKnown' /\ KnownIn(requests)'
    BY <1>1 DEF Ledger, ContractsKnown, KnownIn, issuanceVars
  <1>4. QuarantineCuts'
    BY <1>1 DEF QuarantineCuts
  <1>5. AuthorityEvidenced' /\ ApprovalSpent'
    BY <1>1 DEF Ledger, AuthorityEvidenced, ApprovalSpent, issuanceVars
  <1> QED
    BY <1>2, <1>3, <1>4, <1>5 DEF Ledger

\* Every registry write keeps the inductive invariant.
LEMMA RegistryInductive ==
    ASSUME IInv, RegistryStep
    PROVE  IInv'
  <1> USE DEF IInv
  <1>0. /\ UNCHANGED issuanceVars
        /\ policy' = policy /\ now' = now /\ offers' = offers /\ plans' = plans
    BY DEF RegistryStep, issuanceVars
  <1> DEFINE Write(p) ==
        /\ DOMAIN entities \subseteq DOMAIN entities'
        /\ DOMAIN entities' \subseteq Party
        /\ \A x \in DOMAIN entities : x # p => entities'[x] = entities[x]
        /\ \A x \in DOMAIN entities' : entities'[x] \in Entity
        /\ p \in DOMAIN entities /\ entities'[p].posture = "Quarantined" =>
              entities[p].posture = "Quarantined"
        /\ contracts' = contracts
  <1>w. ASSUME NEW p, Write(p) PROVE IInv'
    <2>1. RestTypes'
      BY <1>0, <1>w DEF RestTypes
    <2>2. PlansKnown'
      BY <1>0, <1>w DEF PlansKnown
    <2>3. Ledger'
      BY <1>0, <1>w, PartyWriteLedger
    <2> QED
      BY <2>1, <2>2, <2>3
  <1>1. ASSUME NEW p \in Party, NEW x \in Posture, NEW m \in 0 .. MaxPin,
               NEW h \in AdmittedOwner, Put(p, x, m, h)
        PROVE  IInv'
    <2>1. [lifecycle |-> "Pending", posture |-> x, pin |-> m, owner |-> h] \in Entity
      BY IssuanceAssumption DEF Entity, Lifecycle
    <2>2. Write(p)
      BY <1>1, <2>1 DEF Put, Insert, RestTypes
    <2> QED
      BY <1>w, <2>2
  <1>2. ASSUME NEW p \in Party, NEW to \in Lifecycle, Transition(p, to)
        PROVE  IInv'
    <2>1. Write(p)
      BY <1>2 DEF Transition, RestTypes, Entity
    <2> QED
      BY <1>w, <2>1
  <1>3. ASSUME NEW p \in Party, NEW x \in Posture, SetPosture(p, x)
        PROVE  IInv'
    <2>1. Write(p)
      BY <1>3 DEF SetPosture, RestTypes, Entity
    <2> QED
      BY <1>w, <2>1
  <1>4. ASSUME NEW p \in Party, NEW m \in 0 .. MaxPin, Repin(p, m)
        PROVE  IInv'
    <2>1. Write(p)
      BY <1>4 DEF Repin, RestTypes, Entity
    <2> QED
      BY <1>w, <2>1
  <1>5. ASSUME NEW p \in Party, NEW H \in SUBSET Human, ClearQuarantine(p, H)
        PROVE  IInv'
    <2>1. Write(p)
      BY <1>5 DEF ClearQuarantine, RestTypes, Entity, Lifecycle, Posture
    <2> QED
      BY <1>w, <2>1
  <1>6. ASSUME NEW c \in Cid, SuspendContract(c)
        PROVE  IInv'
    <2> DEFINE S == [d \in DOMAIN contracts |->
                        IF d = c THEN "Suspended" ELSE contracts[d].status]
    <2>1. \A d \in DOMAIN contracts : contracts[d] \in Contract
      BY DEF Ledger, MintTypes
    <2>2. contracts' = [d \in DOMAIN contracts |-> [contracts[d] EXCEPT !.status = S[d]]]
      BY <1>6, <2>1 DEF SuspendContract, Contract
    <2>3. \A d \in DOMAIN contracts : S[d] \in Status
      BY <2>1 DEF Contract, Status
    <2>4. entities' = entities
      BY <1>6 DEF SuspendContract
    <2>5. \A d \in DOMAIN contracts : \A p \in {contracts[d].caller, contracts[d].callee} :
             entities'[p].posture = "Quarantined" => S[d] = "Revoked"
      BY <1>6, <2>4 DEF SuspendContract, Ledger, QuarantineCuts
    <2> HIDE DEF S
    <2>6. Ledger'
      BY <1>0, <2>2, <2>3, <2>4, <2>5, StatusWriteLedger
    <2> QED
      BY <1>0, <2>4, <2>6 DEF RestTypes, PlansKnown
  <1>7. ASSUME NEW c \in Cid, RevokeContract(c)
        PROVE  IInv'
    <2> DEFINE S == [d \in DOMAIN contracts |->
                        IF d = c THEN "Revoked" ELSE contracts[d].status]
    <2>1. \A d \in DOMAIN contracts : contracts[d] \in Contract
      BY DEF Ledger, MintTypes
    <2>2. contracts' = [d \in DOMAIN contracts |-> [contracts[d] EXCEPT !.status = S[d]]]
      BY <1>7, <2>1 DEF RevokeContract, Contract
    <2>3. \A d \in DOMAIN contracts : S[d] \in Status
      BY <2>1 DEF Contract, Status
    <2>4. entities' = entities
      BY <1>7 DEF RevokeContract
    <2>5. \A d \in DOMAIN contracts : \A p \in {contracts[d].caller, contracts[d].callee} :
             entities'[p].posture = "Quarantined" => S[d] = "Revoked"
      BY <2>4 DEF Ledger, QuarantineCuts
    <2> HIDE DEF S
    <2>6. Ledger'
      BY <1>0, <2>2, <2>3, <2>4, <2>5, StatusWriteLedger
    <2> QED
      BY <1>0, <2>4, <2>6 DEF RestTypes, PlansKnown
  <1>8. ASSUME NEW p \in Party, NEW H \in SUBSET Human, Quarantine(p, H)
        PROVE  IInv'
    <2> DEFINE S == [d \in DOMAIN contracts |->
                        IF d \in ContractsFor(p) THEN "Revoked" ELSE contracts[d].status]
    <2>1. \A d \in DOMAIN contracts : contracts[d] \in Contract
      BY DEF Ledger, MintTypes
    <2>2. contracts' = [d \in DOMAIN contracts |-> [contracts[d] EXCEPT !.status = S[d]]]
      BY <1>8, <2>1 DEF Quarantine, Contract
    <2>3. \A d \in DOMAIN contracts : S[d] \in Status
      BY <2>1 DEF Contract, Status
    <2>4. /\ DOMAIN entities' = DOMAIN entities
          /\ \A x \in DOMAIN entities : entities'[x] \in Entity
          /\ \A x \in DOMAIN entities : x # p => entities'[x] = entities[x]
      BY <1>8 DEF Quarantine, RestTypes, Entity, Lifecycle, Posture
    <2>5. \A d \in DOMAIN contracts : \A q \in {contracts[d].caller, contracts[d].callee} :
             entities'[q].posture = "Quarantined" => S[d] = "Revoked"
      BY <2>4 DEF Ledger, QuarantineCuts, ContractsFor, ContractsKnown
    <2> HIDE DEF S
    <2>6. Ledger'
      BY <1>0, <2>2, <2>3, <2>4, <2>5, StatusWriteLedger
    <2> QED
      BY <1>0, <2>4, <2>6 DEF RestTypes, PlansKnown
  <1> QED
    BY <1>1, <1>2, <1>3, <1>4, <1>5, <1>6, <1>7, <1>8 DEF RegistryStep

(***************************************************************************)
(* Issuance.                                                               *)
(***************************************************************************)
\* Adding a fresh request for known parties leaves a proper request map.
LEMMA InsertSuccessor ==
    ASSUME Ledger, NEW r \in Req, r \notin DOMAIN requests, NEW q \in PendingRequest,
           {q.caller, q.callee} \subseteq DOMAIN entities
    PROVE  Successor(Insert(requests, r, q))
  BY DEF Ledger, MintTypes, RequestMap, KnownIn, Successor, Insert

\* So does settling a pending one.
LEMMA SettleSuccessor ==
    ASSUME Ledger, NEW r \in DOMAIN requests, requests[r].status = "Pending",
           NEW status \in RequestStatus
    PROVE  Successor(Settle(requests, r, status))
  <1>1. RequestMap(requests) /\ KnownIn(requests)
    BY DEF Ledger, MintTypes
  <1>2. /\ RequestMap(Settle(requests, r, status))
        /\ DOMAIN Settle(requests, r, status) = DOMAIN requests
        /\ \A x \in DOMAIN requests :
              /\ Settle(requests, r, status)[x].caller = requests[x].caller
              /\ Settle(requests, r, status)[x].callee = requests[x].callee
    BY <1>1, SettleType
  <1>3. \A x \in DOMAIN requests : x # r => Settle(requests, r, status)[x] = requests[x]
    BY DEF Settle
  <1> QED
    BY <1>1, <1>2, <1>3 DEF Successor, KnownIn

\* And approving one.
LEMMA ApproveSuccessor ==
    ASSUME Ledger, NEW r \in DOMAIN requests, NEW H \in SUBSET Human
    PROVE  /\ Successor(ApplyApprove(r, H))
           /\ r \in DOMAIN ApplyApprove(r, H)
           /\ ApplyApprove(r, H)[r].status = "Minted"
  <1>1. MintTypes /\ RequestMap(requests) /\ KnownIn(requests)
    BY DEF Ledger, MintTypes
  <1>2. /\ RequestMap(ApplyApprove(r, H))
        /\ DOMAIN ApplyApprove(r, H) = DOMAIN requests
        /\ \A x \in DOMAIN requests :
              /\ ApplyApprove(r, H)[x].caller = requests[x].caller
              /\ ApplyApprove(r, H)[x].callee = requests[x].callee
    BY <1>1, ApplyApproveType
  <1>3. /\ \A x \in DOMAIN requests : x # r => ApplyApprove(r, H)[x] = requests[x]
        /\ ApplyApprove(r, H)[r].status = "Minted"
    BY <1>1 DEF ApplyApprove, RequestMap, PendingRequest
  <1> QED
    BY <1>1, <1>2, <1>3 DEF Successor, KnownIn

\* Only the ledger changes: the rest of the invariant is kept.
LEMMA RestKept ==
    ASSUME RestTypes, PlansKnown, UNCHANGED <<entities, policy, offers, plans, now>>
    PROVE  RestTypes' /\ PlansKnown'
  BY DEF RestTypes, PlansKnown

\* request keeps the inductive invariant.
LEMMA RequestInductive ==
    ASSUME IInv, NEW r \in Req, NEW a \in Party, NEW b \in Party, NEW rule \in Rule,
           NEW capped \in BOOLEAN, NEW must \in BOOLEAN, NEW stop \in Stops,
           Request(r, a, b, rule, capped, must, stop)
    PROVE  IInv'
  <1> DEFINE q == BuildPending(a, b, rule, capped, must)
             reqs == Insert(requests, r, q)
             rec == StandingRecord(a, b, r)
  <1>1. q \in PendingRequest
    BY BuildPendingType DEF IInv
  <1>2. q.caller = a /\ q.callee = b
    BY DEF BuildPending
  <1>3. {a, b} \subseteq DOMAIN entities /\ r \notin DOMAIN requests
    BY DEF Request, Fresh
  <1>4. rec \in Contract
    <2>1. entities[b].pin \in 0 .. MaxPin /\ now \in Nat
      BY <1>3 DEF IInv, RestTypes, Entity
    <2> QED
      BY <2>1, RecordType DEF IInv, StandingRecord, MintJti, ApprovalMode
  <1>5. rec.caller = a /\ rec.callee = b /\ rec.mode = "StandingPolicy"
    BY DEF StandingRecord, Record
  <1>6. MintCid(r) \in Cid
    BY IssuanceAssumption DEF MintCid
  <1>7. Mint(MintCid(r), rec, reqs, stop) \/ NoMint(reqs)
    BY DEF Request
  <1>8. UNCHANGED <<entities, policy, offers, plans, now>>
    BY DEF Request
  <1> HIDE DEF q, rec
  <1>9. Successor(reqs)
    BY <1>1, <1>2, <1>3, InsertSuccessor DEF IInv
  <1> HIDE DEF reqs
  <1>10. Ledger'
    BY <1>3, <1>4, <1>5, <1>6, <1>7, <1>8, <1>9, MintLedger, NoMintLedger DEF IInv
  <1> QED
    BY <1>8, <1>10, RestKept DEF IInv

\* approve keeps the inductive invariant.
LEMMA ApproveInductive ==
    ASSUME IInv, NEW r \in Req, NEW H \in SUBSET Human, NEW stop \in Stops,
           Approve(r, H, stop)
    PROVE  IInv'
  <1> DEFINE q == requests[r]
             reqs == ApplyApprove(r, H)
             rec == Record(q.caller, q.callee, entities[q.callee].pin, "Human",
                           FirstTwo(H), {}, {}, r, MintJti)
  <1>1. r \in DOMAIN requests
    BY DEF Approve, IsPending
  <1>2. /\ q.caller \in DOMAIN entities /\ q.callee \in DOMAIN entities
        /\ q.caller \in Party /\ q.callee \in Party
    BY <1>1 DEF IInv, Ledger, KnownIn, RestTypes
  <1>3. rec \in Contract
    <2>1. entities[q.callee].pin \in 0 .. MaxPin /\ now \in Nat
      BY <1>2 DEF IInv, RestTypes, Entity
    <2>2. FirstTwo(H) \in SUBSET Human
      BY DEF FirstTwo
    <2> QED
      BY <1>2, <2>1, <2>2, RecordType DEF IInv, MintJti, ApprovalMode
  <1>4. rec.caller = q.caller /\ rec.callee = q.callee /\ rec.req = r
    BY DEF Record
  <1>5. MintCid(r) \in Cid
    BY IssuanceAssumption DEF MintCid
  <1>6. Mint(MintCid(r), rec, reqs, stop)
    BY DEF Approve
  <1>7. UNCHANGED <<entities, policy, offers, plans, now>>
    BY DEF Approve
  <1>8. Successor(reqs) /\ r \in DOMAIN reqs /\ reqs[r].status = "Minted"
    BY <1>1, ApproveSuccessor DEF IInv
  <1> HIDE DEF q, rec, reqs
  <1>9. Ledger'
    BY <1>2, <1>3, <1>4, <1>5, <1>6, <1>7, <1>8, MintLedger DEF IInv
  <1> QED
    BY <1>7, <1>9, RestKept DEF IInv

\* approve_by_merge keeps the inductive invariant.
LEMMA ApproveByMergeInductive ==
    ASSUME IInv, NEW r \in Req, NEW H \in SUBSET Human, NEW stop \in Stops,
           ApproveByMerge(r, H, stop)
    PROVE  IInv'
  <1> DEFINE q == requests[r]
             owner == entities[q.callee].owner
             reqs == ApplyApprove(r, {owner})
             rec == Record(q.caller, q.callee, entities[q.callee].pin, "Human",
                           {owner}, {}, H, r, MintJti)
  <1>1. r \in DOMAIN requests
    BY DEF ApproveByMerge, IsPending
  <1>2. /\ q.caller \in DOMAIN entities /\ q.callee \in DOMAIN entities
        /\ q.caller \in Party /\ q.callee \in Party
    BY <1>1 DEF IInv, Ledger, KnownIn, RestTypes
  <1>3. entities[q.callee].pin \in 0 .. MaxPin /\ {owner} \in SUBSET Human /\ now \in Nat
    BY <1>2 DEF IInv, RestTypes, Entity
  <1>4. rec \in Contract
    BY <1>2, <1>3, RecordType DEF IInv, MintJti, ApprovalMode
  <1>5. rec.caller = q.caller /\ rec.callee = q.callee /\ rec.req = r
    BY DEF Record
  <1>6. MintCid(r) \in Cid
    BY IssuanceAssumption DEF MintCid
  <1>7. Mint(MintCid(r), rec, reqs, stop) \/ NoMint(reqs)
    BY DEF ApproveByMerge
  <1>8. UNCHANGED <<entities, policy, offers, plans, now>>
    BY DEF ApproveByMerge
  <1>9. Successor(reqs) /\ r \in DOMAIN reqs /\ reqs[r].status = "Minted"
    BY <1>1, <1>3, ApproveSuccessor DEF IInv
  <1> HIDE DEF q, rec, reqs
  <1>10. Ledger'
    BY <1>2, <1>4, <1>5, <1>6, <1>7, <1>8, <1>9, MintLedger, NoMintLedger DEF IInv
  <1> QED
    BY <1>8, <1>10, RestKept DEF IInv

\* A lapse or a denial keeps the inductive invariant.
LEMMA SettleInductive ==
    ASSUME IInv, NEW r \in Req, Lapse(r) \/ Deny(r)
    PROVE  IInv'
  <1>1. r \in DOMAIN requests /\ requests[r].status = "Pending"
    BY DEF Lapse, Deny, IsPending
  <1>2. PICK status \in RequestStatus : NoMint(Settle(requests, r, status))
    BY DEF Lapse, Deny, RequestStatus
  <1>3. UNCHANGED <<entities, policy, offers, plans, now>>
    BY DEF Lapse, Deny
  <1>4. Successor(Settle(requests, r, status))
    BY <1>1, SettleSuccessor DEF IInv
  <1>5. Ledger'
    BY <1>2, <1>3, <1>4, NoMintLedger DEF IInv
  <1> QED
    BY <1>3, <1>5, RestKept DEF IInv

\* breakglass keeps the inductive invariant: it skips mint's assertion, but
\* refuses a quarantined party itself.
LEMMA BreakGlassInductive ==
    ASSUME IInv, NEW r \in Req, NEW a \in Party, NEW b \in Party,
           NEW H \in SUBSET Human, NEW stop \in Stops, BreakGlass(r, a, b, H, stop)
    PROVE  IInv'
  <1> DEFINE rec == Record(a, b, entities[b].pin, "BreakGlass", FirstTwo(H),
                           {}, {}, r, MintJti)
  <1>1. /\ a \in DOMAIN entities /\ entities[a].posture # "Quarantined"
        /\ b \in DOMAIN entities /\ entities[b].posture # "Quarantined"
    BY DEF BreakGlass
  <1>2. rec \in Contract
    <2>1. entities[b].pin \in 0 .. MaxPin /\ now \in Nat
      BY <1>1 DEF IInv, RestTypes, Entity
    <2>2. FirstTwo(H) \in SUBSET Human
      BY DEF FirstTwo
    <2> QED
      BY <2>1, <2>2, RecordType DEF IInv, MintJti, ApprovalMode
  <1>3. rec.caller = a /\ rec.callee = b /\ rec.mode = "BreakGlass"
    BY DEF Record
  <1>4. MintCid(r) \in Cid
    BY IssuanceAssumption DEF MintCid
  <1>5. MintUnchecked(MintCid(r), rec, requests, stop)
    BY DEF BreakGlass
  <1>6. UNCHANGED <<entities, policy, offers, plans, now>>
    BY DEF BreakGlass
  <1> HIDE DEF rec
  <1>7. Mintable(rec, requests)
    BY <1>1, <1>2, <1>3 DEF Mintable
  <1>8. Successor(requests)
    BY DEF IInv, Ledger, MintTypes, Successor
  <1>9. Ledger'
    BY <1>4, <1>5, <1>6, <1>7, <1>8, MintUncheckedLedger DEF IInv
  <1> QED
    BY <1>6, <1>9, RestKept DEF IInv

\* The second half of need apply keeps the inductive invariant although its
\* assertion is made on copies: the policy's structural check, made on the
\* entities as they are, already refuses a quarantined party.
LEMMA NeedMintInductive ==
    ASSUME IInv, NEW j \in Pipeline, NEW r \in Req, NEW rule \in Rule,
           NEW capped \in BOOLEAN, NEW stop \in Stops, NeedMint(j, r, rule, capped, stop)
    PROVE  IInv'
  <1> DEFINE plan == plans[j]
             q == BuildPending(plan.caller, plan.callee, rule, capped, FALSE)
             reqs == Insert(requests, r, q)
             rec == StandingRecord(plan.caller, plan.callee, r)
             merged == Record(plan.caller, plan.callee, plan.manifest, "ReviewedMerge",
                              {}, plan.source, plan.target, r, DeriveJti(plan.ver))
             cid == DeriveCid(plan.caller, plan.callee)
  <1>1. plan \in Plan /\ r \notin DOMAIN requests
    BY DEF NeedMint, Fresh, IInv, RestTypes
  <1>2. /\ plan.caller \in DOMAIN entities /\ plan.callee \in DOMAIN entities
        /\ plan.caller \in Party /\ plan.callee \in Party
    BY <1>1 DEF NeedMint, IInv, PlansKnown, Plan
  <1>3. /\ entities[plan.caller].posture # "Quarantined"
        /\ entities[plan.callee].posture # "Quarantined"
    BY DEF NeedMint, Structural
  <1>4. q \in PendingRequest /\ q.caller = plan.caller /\ q.callee = plan.callee
    <2>1. q \in PendingRequest
      BY <1>2, BuildPendingType DEF IInv
    <2> QED
      BY <2>1 DEF BuildPending
  <1>5. rec \in Contract
    <2>1. entities[plan.callee].pin \in 0 .. MaxPin /\ now \in Nat
      BY <1>2 DEF IInv, RestTypes, Entity
    <2> QED
      BY <1>2, <2>1, RecordType DEF IInv, StandingRecord, MintJti, ApprovalMode
  <1>6. /\ rec.caller = plan.caller /\ rec.callee = plan.callee
        /\ rec.mode = "StandingPolicy"
    BY DEF StandingRecord, Record
  <1>7. merged \in Contract
    BY <1>1, <1>2, RecordType DEF IInv, Plan, DeriveJti, ApprovalMode
  <1>8. /\ merged.caller = plan.caller /\ merged.callee = plan.callee
        /\ merged.mode = "ReviewedMerge"
    BY DEF Record
  <1>9. MintCid(r) \in Cid /\ cid \in Cid
    BY <1>2, IssuanceAssumption DEF MintCid, DeriveCid
  <1>10. \/ Mint(MintCid(r), rec, reqs, stop)
         \/ MintUnchecked(cid, merged, reqs, stop)
         \/ NoMint(reqs)
    <2>1. q.decision \in {"Allow", "RequireApproval", "Deny"}
      BY <1>4 DEF PendingRequest
    <2>2. /\ q.decision = "Allow" => Mint(MintCid(r), rec, reqs, stop)
          /\ q.decision = "RequireApproval" => MintWithIdentity(plan, q, r, reqs, stop)
          /\ q.decision = "Deny" => NoMint(reqs)
      BY <2>1 DEF NeedMint
    <2> QED
      BY <2>1, <2>2 DEF MintWithIdentity
  <1>11. UNCHANGED <<entities, policy, offers, now>> /\ plans' = Remove(plans, j)
    BY DEF NeedMint
  <1> HIDE DEF q, rec, merged, cid, plan
  <1>12. Successor(reqs)
    BY <1>1, <1>2, <1>4, InsertSuccessor DEF IInv
  <1> HIDE DEF reqs
  <1>13. Mintable(merged, reqs)
    BY <1>2, <1>3, <1>7, <1>8 DEF Mintable
  <1>14. Ledger'
    BY <1>2, <1>5, <1>6, <1>9, <1>10, <1>11, <1>12, <1>13,
       MintLedger, MintUncheckedLedger, NoMintLedger DEF IInv
  <1>15. RestTypes' /\ PlansKnown'
    BY <1>11 DEF IInv, RestTypes, PlansKnown, Remove
  <1> QED
    BY <1>14, <1>15 DEF IInv

\* The steps that leave the ledger alone.
LEMMA OtherInductive ==
    ASSUME IInv,
           \/ \E j \in Pipeline, a, b \in Party, source, target \in (SUBSET Human) \ {{}} :
                 NeedPlan(j, a, b, source, target)
           \/ \E j \in Pipeline : NeedAbandon(j)
           \/ \E p \in Provider : OfferPublish(p)
           \/ \E v \in 1 .. MaxPolicy : ReloadPolicy(v)
           \/ Tick
    PROVE  IInv'
  <1>1. UNCHANGED <<entities, contracts, requests, evidence, artifacts, anomalies>>
    BY DEF NeedPlan, NeedAbandon, OfferPublish, ReloadPolicy, Tick
  <1>2. Ledger'
    BY <1>1 DEF IInv, Ledger, MintTypes, RequestMap, ContractsKnown, KnownIn,
       QuarantineCuts, AuthorityEvidenced, ApprovalSpent
  <1>3. ASSUME NEW j \in Pipeline, NEW a \in Party, NEW b \in Party,
               NEW source \in SUBSET Human, NEW target \in SUBSET Human,
               NeedPlan(j, a, b, source, target)
        PROVE  RestTypes' /\ PlansKnown'
    <2> DEFINE plan ==
          [caller |-> a, callee |-> b, ver |-> offers[b],
           ready |-> Connectable(entities[a], Mode) /\ Connectable(entities[b], Mode),
           manifest |-> entities[b].pin, source |-> source, target |-> target]
    <2>1. {a, b} \subseteq DOMAIN entities
      BY <1>3 DEF NeedPlan
    <2>2. entities[b].pin \in 0 .. MaxPin /\ offers[b] \in Nat
      BY <2>1 DEF IInv, RestTypes, Entity
    <2>3. plan \in Plan
      BY <2>2 DEF Plan, Connectable
    <2>4. plan.caller = a /\ plan.callee = b
      OBVIOUS
    <2>5. plans' = Insert(plans, j, plan) /\ UNCHANGED <<policy, offers, now>>
      BY <1>3 DEF NeedPlan
    <2> HIDE DEF plan
    <2> QED
      BY <1>1, <2>1, <2>3, <2>4, <2>5 DEF IInv, RestTypes, PlansKnown, Insert
  <1>4. ASSUME NEW j \in Pipeline, NeedAbandon(j)
        PROVE  RestTypes' /\ PlansKnown'
    BY <1>1, <1>4 DEF NeedAbandon, IInv, RestTypes, PlansKnown, Remove
  <1>5. ASSUME NEW p \in Provider, OfferPublish(p)
        PROVE  RestTypes' /\ PlansKnown'
    BY <1>1, <1>5, IssuanceAssumption DEF OfferPublish, IInv, RestTypes, PlansKnown
  <1>6. ASSUME NEW v \in 1 .. MaxPolicy, ReloadPolicy(v)
        PROVE  RestTypes' /\ PlansKnown'
    BY <1>1, <1>6, IssuanceAssumption DEF ReloadPolicy, IInv, RestTypes, PlansKnown
  <1>7. ASSUME Tick
        PROVE  RestTypes' /\ PlansKnown'
    BY <1>1, <1>7 DEF Tick, IInv, RestTypes, PlansKnown
  <1>8. RestTypes' /\ PlansKnown'
    BY <1>3, <1>4, <1>5, <1>6, <1>7
  <1> QED
    BY <1>2, <1>8 DEF IInv

(***************************************************************************)
(* The theorems.                                                           *)
(***************************************************************************)
\* IInv holds initially and every step keeps it.
THEOREM Inductive == Spec => []IInv
  <1>1. Init => IInv
    BY DEF Init, IInv, RestTypes, PlansKnown, Ledger, MintTypes, RequestMap,
       ContractsKnown, KnownIn, QuarantineCuts, AuthorityEvidenced, ApprovalSpent
  <1>2. IInv /\ [Next]_vars => IInv'
    <2> SUFFICES ASSUME IInv, [Next]_vars PROVE IInv'
      OBVIOUS
    <2>1. CASE RegistryStep
      BY <2>1, RegistryInductive
    <2>2. CASE IssuanceStep
      BY <2>2, RequestInductive, ApproveInductive, ApproveByMergeInductive,
         SettleInductive, BreakGlassInductive, NeedMintInductive, OtherInductive
         DEF IssuanceStep
    <2>3. CASE UNCHANGED vars
      BY <2>3 DEF vars, IInv, RestTypes, PlansKnown, Ledger, MintTypes, RequestMap,
         ContractsKnown, KnownIn, QuarantineCuts, AuthorityEvidenced, ApprovalSpent
    <2> QED
      BY <2>1, <2>2, <2>3 DEF Next
  <1> QED
    BY <1>1, <1>2, PTL DEF Spec

\* The state keeps its type.
THEOREM TypeCorrect == Spec => []TypeOK
  <1>1. IInv => TypeOK
    BY DEF IInv, RestTypes, Ledger, MintTypes, RequestMap, TypeOK
  <1> QED
    BY <1>1, Inductive, PTL

\* No contract of a quarantined party is anything but revoked, in every estate:
\* neither an approval given before the order, nor a pipeline's plan made
\* before it, nor break-glass gets past quarantine (registry.rs, issuance.rs).
THEOREM QuarantineHolds == Spec => []QuarantineCuts
  <1>1. IInv => QuarantineCuts
    BY DEF IInv, Ledger
  <1> QED
    BY <1>1, Inductive, PTL

\* Every contract and every artifact is evidenced, wherever minting stops.
THEOREM EvidenceFirst == Spec => []AuthorityEvidenced
  <1>1. IInv => AuthorityEvidenced
    BY DEF IInv, Ledger
  <1> QED
    BY <1>1, Inductive, PTL

\* A human approval is spent by the contract it produced, wherever minting stops.
THEOREM ApprovalSpentOnce == Spec => []ApprovalSpent
  <1>1. IInv => ApprovalSpent
    BY DEF IInv, Ledger
  <1> QED
    BY <1>1, Inductive, PTL

\* Both together: what was granted can be accounted for.
THEOREM GrantsAccounted == Spec => []AuthorityTraced
  BY EvidenceFirst, ApprovalSpentOnce, PTL DEF AuthorityTraced

-----------------------------------------------------------------------------
(***************************************************************************)
(* What one step may do: the action properties, from the inductive         *)
(* invariant above.  Every operation ends in mint_unchecked or without a   *)
(* mint, on a request map it has built.  So each property is a predicate   *)
(* on that map and on the record, which the operations establish and       *)
(* mint_unchecked carries over wherever it is cut off.                     *)
(***************************************************************************)
\* The bodies of the three action properties.
SettledKept ==
    \A r \in DOMAIN requests :
        requests[r].status # "Pending" => requests'[r].status = requests[r].status

OnCurrentState(k) ==
    /\ Connectable(entities[k.caller], Mode)
    /\ Connectable(entities[k.callee], Mode)
    /\ k.manifest = entities[k.callee].pin

Consented(k, q) ==
    /\ q.dual => TwoDistinct(q.approvers)
    /\ q.role /\ k.mode # "StandingPolicy" =>
          q.approvers \cap RoleHolder # {} \/ q.ownerMerge
    /\ q.ownerMust => entities[q.callee].owner \in q.approvers
    /\ q.distinct => k.source \cap k.target = {}

MintedCurrent ==
    \A c \in Req : Minted(c) /\ contracts'[c].mode # "BreakGlass" =>
                       OnCurrentState(contracts'[c])

MintedConsented ==
    \A c \in Cid : Minted(c) /\ contracts'[c].mode # "BreakGlass" =>
        /\ contracts'[c].req \in DOMAIN requests'
        /\ Consented(contracts'[c], requests'[contracts'[c].req])

StepSafe == SettledKept /\ MintedCurrent /\ MintedConsented

\* The request map an operation has built so far undoes no decision.
Settled(reqs) ==
    \A r \in DOMAIN requests :
        requests[r].status # "Pending" => reqs[r].status = requests[r].status

\* What an operation has established of the record it hands to mint_unchecked.
Sound(c, rec, reqs) ==
    /\ rec.req \in DOMAIN requests => requests[rec.req].status = "Pending"
    /\ rec.mode # "BreakGlass" =>
          /\ c \in Req => OnCurrentState(rec)
          /\ rec.req \in DOMAIN reqs
          /\ Consented(rec, reqs[rec.req])

\* Settling a request changes its status and nothing else.
LEMMA SettleStatusOnly ==
    ASSUME NEW reqs, RequestMap(reqs), NEW r, NEW status \in RequestStatus
    PROVE  /\ DOMAIN Settle(reqs, r, status) = DOMAIN reqs
           /\ \A x \in DOMAIN reqs : x # r => Settle(reqs, r, status)[x] = reqs[x]
           /\ \A x \in DOMAIN reqs :
                 LET q == reqs[x]
                     s == Settle(reqs, r, status)[x]
                 IN /\ s.dual = q.dual /\ s.role = q.role
                    /\ s.distinct = q.distinct /\ s.ownerMerge = q.ownerMerge
                    /\ s.ownerMust = q.ownerMust /\ s.callee = q.callee
                    /\ s.approvers = q.approvers
  BY DEF RequestMap, Settle, PendingRequest

\* A step that mints nothing is safe if its request map undoes no decision.
LEMMA NoMintSafe ==
    ASSUME NEW reqs, Settled(reqs), NoMint(reqs)
    PROVE  StepSafe
  BY DEF NoMint, StepSafe, SettledKept, MintedCurrent, MintedConsented, Minted, Settled

\* mint_unchecked issues at most the record it is given, and is safe wherever
\* it is cut off.
LEMMA MintUncheckedSafe ==
    ASSUME NEW c, NEW rec, NEW reqs, NEW stop \in Stops, RequestMap(reqs),
           \A r \in DOMAIN requests : r \in DOMAIN reqs,
           Settled(reqs), Sound(c, rec, reqs), MintUnchecked(c, rec, reqs, stop)
    PROVE  StepSafe
  <1> DEFINE settled == Settle(reqs, rec.req, "Minted")
  <1>1. requests' = reqs \/ requests' = settled
    BY DEF MintUnchecked
  <1>2. /\ DOMAIN settled = DOMAIN reqs
        /\ \A x \in DOMAIN reqs : x # rec.req => settled[x] = reqs[x]
        /\ \A x \in DOMAIN reqs : Consented(rec, reqs[x]) => Consented(rec, settled[x])
    BY SettleStatusOnly DEF RequestStatus, Consented
  <1> HIDE DEF settled
  <1>3. SettledKept
    BY <1>1, <1>2 DEF Settled, Sound, SettledKept
  <1>4. \A x : Minted(x) => x = c /\ contracts'[x] = rec
    BY DEF Minted, MintUnchecked, Insert
  <1>5. MintedCurrent
    BY <1>4 DEF MintedCurrent, Sound
  <1>6. MintedConsented
    BY <1>1, <1>2, <1>4 DEF MintedConsented, Sound
  <1> QED
    BY <1>3, <1>5, <1>6 DEF StepSafe

\* mint adds the assertion on both parties.
LEMMA MintSafe ==
    ASSUME NEW c, NEW rec, NEW reqs, NEW stop \in Stops, RequestMap(reqs),
           \A r \in DOMAIN requests : r \in DOMAIN reqs,
           Settled(reqs),
           rec.req \in DOMAIN requests => requests[rec.req].status = "Pending",
           rec.manifest = entities[rec.callee].pin,
           rec.req \in DOMAIN reqs, Consented(rec, reqs[rec.req]),
           Mint(c, rec, reqs, stop)
    PROVE  StepSafe
  <1>1. CASE /\ Connectable(entities[rec.caller], Mode)
             /\ Connectable(entities[rec.callee], Mode)
    <2>1. Sound(c, rec, reqs)
      BY <1>1 DEF Sound, OnCurrentState
    <2> QED
      BY <1>1, <2>1, MintUncheckedSafe DEF Mint
  <1>2. CASE ~ (/\ Connectable(entities[rec.caller], Mode)
                /\ Connectable(entities[rec.callee], Mode))
    BY <1>2, NoMintSafe DEF Mint
  <1> QED
    BY <1>1, <1>2

\* The registry issues nothing and leaves the requests alone.
LEMMA RegistrySafe ==
    ASSUME IInv, RegistryStep
    PROVE  StepSafe
  <1>1. requests' = requests
    BY DEF RegistryStep, issuanceVars
  <1>2. \A c \in DOMAIN contracts : contracts[c] \in Contract
    BY DEF IInv, Ledger, MintTypes
  <1>3. \A c : ~ Minted(c)
    <2>1. CASE contracts' = contracts
      BY <2>1 DEF Minted
    <2>2. ASSUME NEW d \in Cid, SuspendContract(d) \/ RevokeContract(d)
          PROVE  \A c : ~ Minted(c)
      BY <1>2, <2>2 DEF SuspendContract, RevokeContract, Minted, Contract
    <2>3. ASSUME NEW p \in Party, NEW H \in SUBSET Human, Quarantine(p, H)
          PROVE  \A c : ~ Minted(c)
      BY <1>2, <2>3 DEF Quarantine, Minted, Contract
    <2> QED
      BY <2>1, <2>2, <2>3 DEF RegistryStep, Put, Transition, SetPosture, Repin,
         ClearQuarantine
  <1> QED
    BY <1>1, <1>3 DEF StepSafe, SettledKept, MintedCurrent, MintedConsented

(***************************************************************************)
(* The operations.                                                         *)
(***************************************************************************)
\* A fresh request is added; nobody else's request is touched.
LEMMA InsertSettled ==
    ASSUME NEW r, r \notin DOMAIN requests, NEW q
    PROVE  /\ Settled(Insert(requests, r, q))
           /\ \A x \in DOMAIN requests : x \in DOMAIN Insert(requests, r, q)
           /\ r \in DOMAIN Insert(requests, r, q)
           /\ Insert(requests, r, q)[r] = q
  BY DEF Settled, Insert

\* Where the policy allows a connection outright, its request demands nobody's
\* consent but a role holder's, which the policy's own answer replaces.
LEMMA AllowedConsented ==
    ASSUME NEW a, NEW b, NEW r, NEW rule \in Rule, NEW capped \in BOOLEAN,
           BuildPending(a, b, rule, capped, FALSE).decision = "Allow"
    PROVE  Consented(StandingRecord(a, b, r), BuildPending(a, b, rule, capped, FALSE))
  <1>1. rule \in RuleType
    BY IssuanceAssumption
  <1>2. rule.approval = "Standing"
    BY <1>1 DEF BuildPending, Decision, RuleType
  <1> QED
    BY <1>2 DEF BuildPending, StandingRecord, Record, Consented

\* request.
LEMMA RequestSafe ==
    ASSUME IInv, NEW r \in Req, NEW a \in Party, NEW b \in Party, NEW rule \in Rule,
           NEW capped \in BOOLEAN, NEW must \in BOOLEAN, NEW stop \in Stops,
           Request(r, a, b, rule, capped, must, stop)
    PROVE  StepSafe
  <1> DEFINE q == BuildPending(a, b, rule, capped, must)
             reqs == Insert(requests, r, q)
             rec == StandingRecord(a, b, r)
  <1>1. r \notin DOMAIN requests
    BY DEF Request, Fresh
  <1>2. q \in PendingRequest /\ q.caller = a /\ q.callee = b
    <2>1. q \in PendingRequest
      BY BuildPendingType DEF IInv
    <2> QED
      BY <2>1 DEF BuildPending
  <1>3. RequestMap(reqs)
    <2>1. {a, b} \subseteq DOMAIN entities
      BY DEF Request
    <2> QED
      BY <1>1, <1>2, <2>1, InsertSuccessor DEF IInv, Successor
  <1>4. /\ Settled(reqs)
        /\ \A x \in DOMAIN requests : x \in DOMAIN reqs
        /\ r \in DOMAIN reqs /\ reqs[r] = q
    BY <1>1, InsertSettled
  <1>5. rec.req = r /\ rec.manifest = entities[rec.callee].pin
    BY DEF StandingRecord, Record
  <1>6. CASE q.decision = "Allow" /\ ~ must
    <2>1. Mint(MintCid(r), rec, reqs, stop)
      BY <1>6 DEF Request
    <2>2. Consented(rec, q)
      BY <1>6, AllowedConsented
    <2> HIDE DEF q, reqs, rec
    <2> QED
      BY <1>1, <1>3, <1>4, <1>5, <2>1, <2>2, MintSafe
  <1>7. CASE ~ (q.decision = "Allow" /\ ~ must)
    <2>1. NoMint(reqs)
      BY <1>7 DEF Request
    <2> HIDE DEF reqs
    <2> QED
      BY <1>4, <2>1, NoMintSafe
  <1> QED
    BY <1>6, <1>7

\* What approving a request writes.
LEMMA ApplyApproveWrites ==
    ASSUME IInv, NEW r \in DOMAIN requests, requests[r].status = "Pending",
           NEW H \in SUBSET Human
    PROVE  LET reqs == ApplyApprove(r, H)
           IN /\ RequestMap(reqs)
              /\ Settled(reqs)
              /\ \A x \in DOMAIN requests : x \in DOMAIN reqs
              /\ reqs[r].approvers = H
              /\ reqs[r].dual = requests[r].dual /\ reqs[r].role = requests[r].role
              /\ reqs[r].distinct = requests[r].distinct
              /\ reqs[r].ownerMerge = requests[r].ownerMerge
              /\ reqs[r].ownerMust = requests[r].ownerMust
              /\ reqs[r].callee = requests[r].callee
  <1>1. MintTypes /\ requests[r] \in PendingRequest
    BY DEF IInv, Ledger, MintTypes, RequestMap
  <1>2. RequestMap(ApplyApprove(r, H))
    BY <1>1, ApplyApproveType
  <1> QED
    BY <1>1, <1>2 DEF ApplyApprove, Settled, PendingRequest

\* approve.
LEMMA ApproveSafe ==
    ASSUME IInv, NEW r \in Req, NEW H \in SUBSET Human, NEW stop \in Stops,
           Approve(r, H, stop)
    PROVE  StepSafe
  <1> DEFINE q == requests[r]
             reqs == ApplyApprove(r, H)
             rec == Record(q.caller, q.callee, entities[q.callee].pin, "Human",
                           FirstTwo(H), {}, {}, r, MintJti)
  <1>1. r \in DOMAIN requests /\ q.status = "Pending"
    BY DEF Approve, IsPending
  <1>2. /\ RequestMap(reqs)
        /\ Settled(reqs)
        /\ \A x \in DOMAIN requests : x \in DOMAIN reqs
        /\ reqs[r].approvers = H
        /\ reqs[r].dual = q.dual /\ reqs[r].role = q.role
        /\ reqs[r].distinct = q.distinct /\ reqs[r].ownerMerge = q.ownerMerge
        /\ reqs[r].ownerMust = q.ownerMust /\ reqs[r].callee = q.callee
    BY <1>1, ApplyApproveWrites
  <1>3. /\ rec.req = r /\ rec.manifest = entities[rec.callee].pin
        /\ rec.source = {} /\ rec.target = {}
    BY DEF Record
  <1>4. /\ q.role => H \cap RoleHolder # {}
        /\ q.ownerMust => entities[q.callee].owner \in H
        /\ q.dual => TwoDistinct(H)
        /\ Mint(MintCid(r), rec, reqs, stop)
    BY DEF Approve
  <1> HIDE DEF q, reqs, rec
  <1>5. Consented(rec, reqs[r])
    BY <1>2, <1>3, <1>4 DEF Consented
  <1> QED
    BY <1>1, <1>2, <1>3, <1>4, <1>5, MintSafe DEF q

\* approve_by_merge.
LEMMA ApproveByMergeSafe ==
    ASSUME IInv, NEW r \in Req, NEW H \in SUBSET Human, NEW stop \in Stops,
           ApproveByMerge(r, H, stop)
    PROVE  StepSafe
  <1> DEFINE q == requests[r]
             owner == entities[q.callee].owner
             reqs == ApplyApprove(r, {owner})
             rec == Record(q.caller, q.callee, entities[q.callee].pin, "Human",
                           {owner}, {}, H, r, MintJti)
  <1>1. r \in DOMAIN requests /\ q.status = "Pending" /\ owner \in Human
    BY DEF ApproveByMerge, IsPending
  <1>2. /\ RequestMap(reqs)
        /\ Settled(reqs)
        /\ \A x \in DOMAIN requests : x \in DOMAIN reqs
        /\ reqs[r].approvers = {owner}
        /\ reqs[r].dual = q.dual /\ reqs[r].role = q.role
        /\ reqs[r].distinct = q.distinct /\ reqs[r].ownerMerge = q.ownerMerge
        /\ reqs[r].ownerMust = q.ownerMust /\ reqs[r].callee = q.callee
    BY <1>1, ApplyApproveWrites
  <1>3. /\ rec.req = r /\ rec.manifest = entities[rec.callee].pin
        /\ rec.source = {} /\ rec.target = H
    BY DEF Record
  <1>4. CASE MergeSuffices(q, {}, H)
    <2>1. Mint(MintCid(r), rec, reqs, stop)
      BY <1>4 DEF ApproveByMerge
    <2>2. ~ q.dual /\ (q.ownerMerge \/ ~ q.role)
      BY <1>4 DEF MergeSuffices
    <2>3. entities[reqs[r].callee].owner \in reqs[r].approvers
      BY <1>2
    <2> HIDE DEF q, reqs, rec, owner
    <2>4. Consented(rec, reqs[r])
      BY <1>2, <1>3, <2>2, <2>3 DEF Consented
    <2> QED
      BY <1>1, <1>2, <1>3, <2>1, <2>4, MintSafe DEF q
  <1>5. CASE ~ MergeSuffices(q, {}, H)
    <2>1. NoMint(reqs)
      BY <1>5 DEF ApproveByMerge
    <2> HIDE DEF reqs
    <2> QED
      BY <1>2, <2>1, NoMintSafe
  <1> QED
    BY <1>4, <1>5

\* A lapse or a denial settles a request that was pending.
LEMMA SettleSafe ==
    ASSUME IInv, NEW r \in Req, Lapse(r) \/ Deny(r)
    PROVE  StepSafe
  <1>1. r \in DOMAIN requests /\ requests[r].status = "Pending"
    BY DEF Lapse, Deny, IsPending
  <1>2. PICK status \in RequestStatus : NoMint(Settle(requests, r, status))
    BY DEF Lapse, Deny, RequestStatus
  <1>3. Settled(Settle(requests, r, status))
    BY <1>1, SettleStatusOnly DEF Settled, IInv, Ledger, MintTypes
  <1> QED
    BY <1>2, <1>3, NoMintSafe

\* breakglass: its request is never committed, so ContractIssued settles none.
LEMMA BreakGlassSafe ==
    ASSUME IInv, NEW r \in Req, NEW a \in Party, NEW b \in Party,
           NEW H \in SUBSET Human, NEW stop \in Stops, BreakGlass(r, a, b, H, stop)
    PROVE  StepSafe
  <1> DEFINE rec == Record(a, b, entities[b].pin, "BreakGlass", FirstTwo(H),
                           {}, {}, r, MintJti)
  <1>1. r \notin DOMAIN requests /\ MintUnchecked(MintCid(r), rec, requests, stop)
    BY DEF BreakGlass, BreakglassId
  <1>2. rec.req = r /\ rec.mode = "BreakGlass"
    BY DEF Record
  <1> HIDE DEF rec
  <1>3. Sound(MintCid(r), rec, requests)
    BY <1>1, <1>2 DEF Sound
  <1>4. Settled(requests) /\ RequestMap(requests)
    BY DEF Settled, IInv, Ledger, MintTypes
  <1> QED
    BY <1>1, <1>3, <1>4, MintUncheckedSafe

\* The second half of need apply: under the policy's own answer as request
\* does, else under the pair's identity, which is no request's, with the
\* approvers of both merges.
LEMMA NeedMintSafe ==
    ASSUME IInv, NEW j \in Pipeline, NEW r \in Req, NEW rule \in Rule,
           NEW capped \in BOOLEAN, NEW stop \in Stops, NeedMint(j, r, rule, capped, stop)
    PROVE  StepSafe
  <1> DEFINE plan == plans[j]
             q == BuildPending(plan.caller, plan.callee, rule, capped, FALSE)
             reqs == Insert(requests, r, q)
             rec == StandingRecord(plan.caller, plan.callee, r)
             merged == Record(plan.caller, plan.callee, plan.manifest, "ReviewedMerge",
                              {}, plan.source, plan.target, r, DeriveJti(plan.ver))
             cid == DeriveCid(plan.caller, plan.callee)
  <1>1. r \notin DOMAIN requests
    BY DEF NeedMint, Fresh
  <1>2. /\ plan.caller \in Party /\ plan.callee \in Party
        /\ {plan.caller, plan.callee} \subseteq DOMAIN entities
    BY DEF NeedMint, IInv, RestTypes, PlansKnown, Plan
  <1>3. q \in PendingRequest /\ q.caller = plan.caller /\ q.callee = plan.callee
    <2>1. q \in PendingRequest
      BY <1>2, BuildPendingType DEF IInv
    <2> QED
      BY <2>1 DEF BuildPending
  <1>4. RequestMap(reqs)
    BY <1>1, <1>2, <1>3, InsertSuccessor DEF IInv, Successor
  <1>5. /\ Settled(reqs)
        /\ \A x \in DOMAIN requests : x \in DOMAIN reqs
        /\ r \in DOMAIN reqs /\ reqs[r] = q
    BY <1>1, InsertSettled
  <1>6. q.decision \in {"Allow", "RequireApproval", "Deny"} /\ ~ q.ownerMust
    BY <1>3 DEF PendingRequest, BuildPending
  <1>7. /\ q.decision = "Allow" => Mint(MintCid(r), rec, reqs, stop)
        /\ q.decision = "RequireApproval" => MintWithIdentity(plan, q, r, reqs, stop)
        /\ q.decision = "Deny" => NoMint(reqs)
    BY <1>6 DEF NeedMint
  <1>8. CASE q.decision = "Allow"
    <2>1. rec.req = r /\ rec.manifest = entities[rec.callee].pin
      BY DEF StandingRecord, Record
    <2>2. Consented(rec, q)
      BY <1>8, AllowedConsented
    <2> HIDE DEF q, reqs, rec, plan
    <2> QED
      BY <1>1, <1>4, <1>5, <1>7, <1>8, <2>1, <2>2, MintSafe
  <1>9. CASE MintUnchecked(cid, merged, reqs, stop)
             /\ MergeSuffices(q, plan.source, plan.target)
    <2>1. /\ merged.req = r /\ merged.source = plan.source
          /\ merged.target = plan.target
      BY DEF Record
    <2>2. cid \notin Req
      BY <1>2, IssuanceAssumption DEF DeriveCid
    <2> HIDE DEF merged, cid, reqs, plan
    <2>3. Consented(merged, q)
      BY <1>6, <1>9, <2>1 DEF Consented, MergeSuffices
    <2> HIDE DEF q
    <2>4. Sound(cid, merged, reqs)
      BY <1>1, <1>5, <2>1, <2>2, <2>3 DEF Sound
    <2> QED
      BY <1>4, <1>5, <1>9, <2>4, MintUncheckedSafe
  <1>10. CASE NoMint(reqs)
    <2> HIDE DEF reqs
    <2> QED
      BY <1>5, <1>10, NoMintSafe
  <1> QED
    BY <1>6, <1>7, <1>8, <1>9, <1>10 DEF MintWithIdentity

\* Every step of every operation is safe.
LEMMA NextSafe ==
    ASSUME IInv, [Next]_vars
    PROVE  StepSafe
  <1>1. CASE contracts' = contracts /\ requests' = requests
    BY <1>1 DEF StepSafe, SettledKept, MintedCurrent, MintedConsented, Minted
  <1>2. CASE RegistryStep
    BY <1>2, RegistrySafe
  <1>3. CASE IssuanceStep
    BY <1>1, <1>3, RequestSafe, ApproveSafe, ApproveByMergeSafe, SettleSafe,
       BreakGlassSafe, NeedMintSafe
       DEF IssuanceStep, NeedPlan, NeedAbandon, OfferPublish, ReloadPolicy, Tick
  <1>4. CASE UNCHANGED vars
    BY <1>1, <1>4 DEF vars
  <1> QED
    BY <1>2, <1>3, <1>4 DEF Next

(***************************************************************************)
(* The theorems.                                                           *)
(***************************************************************************)
\* No decision on a request is ever undone or replaced, by any operation and
\* wherever it is cut off (issuance.rs; Projection::apply).
THEOREM DecisionsAreFinal == Spec => SettledIsFinal
  <1>1. IInv /\ [Next]_vars =>
          \A r \in DOMAIN requests :
             requests[r].status # "Pending" => requests'[r].status = requests[r].status
    BY NextSafe DEF StepSafe, SettledKept
  <1> QED
    BY <1>1, Inductive, PTL DEF Spec, SettledIsFinal

\* A contract minted on a request joins parties that are connectable at that
\* moment, on the callee's surface of that moment, however long ago the request
\* was made or approved (Issuer::mint).
THEOREM MintsAreCurrent == Spec => MintsOnCurrentState
  <1>1. IInv /\ [Next]_vars =>
          \A c \in Req :
             Minted(c) /\ contracts'[c].mode # "BreakGlass" =>
                /\ Connectable(entities[contracts'[c].caller], Mode)
                /\ Connectable(entities[contracts'[c].callee], Mode)
                /\ contracts'[c].manifest = entities[contracts'[c].callee].pin
    BY NextSafe DEF StepSafe, MintedCurrent, OnCurrentState
  <1> QED
    BY <1>1, Inductive, PTL DEF Spec, MintsOnCurrentState

\* No contract without the consents its request demanded, whichever of the four
\* ways it was approved by (approve, approve_by_merge, the policy's own answer,
\* mint_with_identity behind merge_evidence_cannot_stand_in_for).
THEOREM ConsentIsComplete == Spec => ConsentComplete
  <1>1. IInv /\ [Next]_vars =>
          \A c \in Cid :
             Minted(c) /\ contracts'[c].mode # "BreakGlass" =>
                LET k == contracts'[c]
                    q == requests'[k.req]
                IN /\ k.req \in DOMAIN requests'
                   /\ q.dual => TwoDistinct(q.approvers)
                   /\ q.role /\ k.mode # "StandingPolicy" =>
                        q.approvers \cap RoleHolder # {} \/ q.ownerMerge
                   /\ q.ownerMust => entities[q.callee].owner \in q.approvers
                   /\ q.distinct => k.source \cap k.target = {}
    BY NextSafe DEF StepSafe, MintedConsented, Consented
  <1> QED
    BY <1>1, Inductive, PTL DEF Spec, ConsentComplete

(***************************************************************************)
(* The budgets.  An issuance compares the contracts of the window that     *)
(* ends now with the budget; the property is about every window there is.  *)
(* A window that gains a contract contains the present, so what it held    *)
(* before is among what was counted, as no contract is dated later than    *)
(* the present; every other window can only lose.                          *)
(***************************************************************************)
BgIssued(t) ==
    {c \in DOMAIN contracts : /\ contracts[c].iat \in t .. t + Window
                              /\ contracts[c].mode = "BreakGlass"}

StandingIssued(t) ==
    {c \in DOMAIN contracts : /\ contracts[c].iat \in t .. t + Window
                              /\ contracts[c].mode = "StandingPolicy"
                              /\ contracts[c].status = "Active"}

BudgetInv ==
    /\ IsFiniteSet(DOMAIN contracts)
    /\ \A c \in DOMAIN contracts : contracts[c].iat <= now
    /\ \A t \in Nat : /\ Cardinality(BgIssued(t)) <= BgPerWindow
                      /\ Cardinality(StandingIssued(t)) <= StandingPerWindow

\* What a step may do to the contracts: nothing, take some out of use, or issue
\* one of the present within the budget of its kind.
NoIssue ==
    /\ DOMAIN contracts' = DOMAIN contracts
    /\ \A c \in DOMAIN contracts :
          /\ contracts'[c].iat = contracts[c].iat
          /\ contracts'[c].mode = contracts[c].mode
          /\ contracts'[c].status = "Active" => contracts[c].status = "Active"

Issues(c, rec) ==
    /\ contracts' = Insert(contracts, c, rec)
    /\ rec.iat = now
    /\ rec.mode = "BreakGlass" => Cardinality(BgInWindow) < BgPerWindow
    /\ rec.mode = "StandingPolicy" => Cardinality(StandingInWindow) < StandingPerWindow

BudgetStep ==
    \/ NoIssue /\ now' \in Nat /\ now' >= now
    \/ now' = now /\ \E c, rec : Issues(c, rec)

\* A part of a finite set is no larger than the set.
LEMMA PartOf ==
    ASSUME NEW U, IsFiniteSet(U), NEW S, S \subseteq U, NEW n \in Nat, Cardinality(U) <= n
    PROVE  Cardinality(S) \in Nat /\ Cardinality(S) <= n
  <1>1. Cardinality(U) \in Nat
    BY FS_CardinalityType
  <1>2. IsFiniteSet(S) /\ Cardinality(S) <= Cardinality(U)
    BY FS_Subset
  <1>3. Cardinality(S) \in Nat
    BY <1>2, FS_CardinalityType
  <1> QED
    BY <1>1, <1>2, <1>3

\* Below a bound there is room for one element more.
LEMMA OneMore ==
    ASSUME NEW U, IsFiniteSet(U), NEW S, NEW c, S \subseteq U \cup {c},
           NEW n \in Nat, Cardinality(U) < n
    PROVE  Cardinality(S) <= n
  <1>1. Cardinality(U) \in Nat
    BY FS_CardinalityType
  <1>2. IsFiniteSet(U \cup {c}) /\ Cardinality(U \cup {c}) <= n
    BY <1>1, FS_AddElement
  <1> QED
    BY <1>2, PartOf

\* Every such step keeps the budgets.
LEMMA BudgetStepKeeps ==
    ASSUME MintTypes, now \in Nat, BudgetInv, BudgetStep
    PROVE  BudgetInv'
  <1>0. /\ StandingPerWindow \in Nat /\ BgPerWindow \in Nat /\ Window \in Nat
        /\ \A c \in DOMAIN contracts : contracts[c].iat \in Nat
    BY IssuanceAssumption DEF MintTypes, Contract
  <1>f. \A t : /\ IsFiniteSet(BgIssued(t)) /\ BgIssued(t) \subseteq DOMAIN contracts
               /\ IsFiniteSet(StandingIssued(t)) /\ StandingIssued(t) \subseteq DOMAIN contracts
    <2>1. \A t : /\ BgIssued(t) \subseteq DOMAIN contracts
                 /\ StandingIssued(t) \subseteq DOMAIN contracts
      BY DEF BgIssued, StandingIssued
    <2> QED
      BY <2>1, FS_Subset DEF BudgetInv
  <1>1. CASE NoIssue /\ now' \in Nat /\ now' >= now
    <2>1. IsFiniteSet(DOMAIN contracts')
      BY <1>1 DEF NoIssue, BudgetInv
    <2>2. \A c \in DOMAIN contracts' : contracts'[c].iat <= now'
      BY <1>0, <1>1 DEF NoIssue, BudgetInv
    <2>3. ASSUME NEW t \in Nat
          PROVE  /\ Cardinality(BgIssued(t)') <= BgPerWindow
                 /\ Cardinality(StandingIssued(t)') <= StandingPerWindow
      <3>1. BgIssued(t)' \subseteq BgIssued(t)
        BY <1>1 DEF NoIssue, BgIssued
      <3>2. StandingIssued(t)' \subseteq StandingIssued(t)
        BY <1>1 DEF NoIssue, StandingIssued
      <3>3. /\ Cardinality(BgIssued(t)) <= BgPerWindow
            /\ Cardinality(StandingIssued(t)) <= StandingPerWindow
        BY DEF BudgetInv
      <3> QED
        BY <1>0, <1>f, <3>1, <3>2, <3>3, PartOf
    <2> QED
      BY <2>1, <2>2, <2>3 DEF BudgetInv
  <1>2. CASE now' = now /\ \E c, rec : Issues(c, rec)
    <2>1. PICK c, rec : Issues(c, rec)
      BY <1>2
    <2>2. /\ DOMAIN contracts' = DOMAIN contracts \cup {c}
          /\ contracts'[c] = rec /\ rec.iat = now
          /\ \A x \in DOMAIN contracts : x # c => contracts'[x] = contracts[x]
      BY <2>1 DEF Issues, Insert
    <2>3. IsFiniteSet(DOMAIN contracts')
      BY <2>2, FS_AddElement DEF BudgetInv
    <2>4. \A x \in DOMAIN contracts' : contracts'[x].iat <= now'
      BY <1>2, <2>2 DEF BudgetInv
    <2>5. ASSUME NEW t \in Nat
          PROVE  Cardinality(BgIssued(t)') <= BgPerWindow
      <3>1. CASE c \notin BgIssued(t)'
        <4>1. BgIssued(t)' \subseteq BgIssued(t)
          BY <2>2, <3>1 DEF BgIssued
        <4>2. Cardinality(BgIssued(t)) <= BgPerWindow
          BY DEF BudgetInv
        <4> QED
          BY <1>0, <1>f, <4>1, <4>2, PartOf
      <3>2. CASE c \in BgIssued(t)'
        <4>1. rec.mode = "BreakGlass" /\ now <= t + Window /\ t <= now
          BY <1>0, <2>2, <3>2 DEF BgIssued
        <4>2. Cardinality(BgInWindow) < BgPerWindow
          BY <2>1, <4>1 DEF Issues
        <4>3. IsFiniteSet(BgInWindow)
          <5>1. BgInWindow \subseteq DOMAIN contracts
            BY DEF BgInWindow
          <5> QED
            BY <5>1, FS_Subset DEF BudgetInv
        <4>4. BgIssued(t)' \subseteq BgInWindow \cup {c}
          <5>1. \A x \in BgIssued(t)' : x = c \/ x \in BgIssued(t)
            BY <2>2 DEF BgIssued
          <5>2. \A x \in BgIssued(t) : x \in BgInWindow
            BY <1>0, <4>1 DEF BgIssued, BgInWindow
          <5> QED
            BY <5>1, <5>2
        <4> QED
          BY <1>0, <4>2, <4>3, <4>4, OneMore
      <3> QED
        BY <3>1, <3>2
    <2>6. ASSUME NEW t \in Nat
          PROVE  Cardinality(StandingIssued(t)') <= StandingPerWindow
      <3>1. CASE c \notin StandingIssued(t)'
        <4>1. StandingIssued(t)' \subseteq StandingIssued(t)
          BY <2>2, <3>1 DEF StandingIssued
        <4>2. Cardinality(StandingIssued(t)) <= StandingPerWindow
          BY DEF BudgetInv
        <4> QED
          BY <1>0, <1>f, <4>1, <4>2, PartOf
      <3>2. CASE c \in StandingIssued(t)'
        <4>1. rec.mode = "StandingPolicy" /\ now <= t + Window /\ t <= now
          BY <1>0, <2>2, <3>2 DEF StandingIssued
        <4>2. Cardinality(StandingInWindow) < StandingPerWindow
          BY <2>1, <4>1 DEF Issues
        <4>3. IsFiniteSet(StandingInWindow)
          <5>1. StandingInWindow \subseteq DOMAIN contracts
            BY DEF StandingInWindow
          <5> QED
            BY <5>1, FS_Subset DEF BudgetInv
        <4>4. StandingIssued(t)' \subseteq StandingInWindow \cup {c}
          <5>1. \A x \in StandingIssued(t)' : x = c \/ x \in StandingIssued(t)
            BY <2>2 DEF StandingIssued
          <5>2. \A x \in StandingIssued(t) : x \in StandingInWindow
            BY <1>0, <4>1 DEF StandingIssued, StandingInWindow
          <5> QED
            BY <5>1, <5>2
        <4> QED
          BY <1>0, <4>2, <4>3, <4>4, OneMore
      <3> QED
        BY <3>1, <3>2
    <2> QED
      BY <2>3, <2>4, <2>5, <2>6 DEF BudgetInv
  <1> QED
    BY <1>1, <1>2 DEF BudgetStep

\* An operation that ends in mint_unchecked, or without a mint.
LEMMA MintBudgeted ==
    ASSUME now \in Nat, now' = now, NEW c, NEW rec, NEW reqs, NEW stop,
           \/ MintUnchecked(c, rec, reqs, stop)
           \/ Mint(c, rec, reqs, stop)
           \/ NoMint(reqs),
           rec.iat = now,
           rec.mode = "BreakGlass" => Cardinality(BgInWindow) < BgPerWindow,
           rec.mode = "StandingPolicy" => Cardinality(StandingInWindow) < StandingPerWindow
    PROVE  BudgetStep
  <1>1. contracts' = contracts \/ contracts' = Insert(contracts, c, rec)
    BY DEF MintUnchecked, Mint, NoMint
  <1>2. CASE contracts' = contracts
    BY <1>2 DEF BudgetStep, NoIssue
  <1>3. CASE contracts' = Insert(contracts, c, rec)
    BY <1>3 DEF BudgetStep, Issues
  <1> QED
    BY <1>1, <1>2, <1>3

\* Where the policy allows a connection outright, the rate cap leaves room.
LEMMA AllowedBudgeted ==
    ASSUME IInv, BudgetInv, NEW a, NEW b, NEW rule \in Rule, NEW capped \in BOOLEAN,
           NEW must, BuildPending(a, b, rule, capped, must).decision = "Allow"
    PROVE  Cardinality(StandingInWindow) < StandingPerWindow
  <1>1. IsFiniteSet(StandingInWindow)
    <2>1. StandingInWindow \subseteq DOMAIN contracts
      BY DEF StandingInWindow
    <2> QED
      BY <2>1, FS_Subset DEF BudgetInv
  <1>2. Cardinality(StandingInWindow) \in Nat /\ StandingPerWindow \in Nat
    BY <1>1, FS_CardinalityType, IssuanceAssumption
  <1>3. Decision(rule, a, b, capped) = "Allow"
    BY DEF BuildPending
  <1>4. ~ (Cardinality(StandingInWindow) >= StandingPerWindow)
    BY <1>3 DEF Decision
  <1> QED
    BY <1>2, <1>4

\* The registry takes contracts out of use and issues none.
LEMMA RegistryBudgeted ==
    ASSUME IInv, RegistryStep
    PROVE  BudgetStep
  <1>1. now' = now /\ now \in Nat
    BY DEF RegistryStep, issuanceVars, IInv, RestTypes
  <1>2. \A c \in DOMAIN contracts : contracts[c] \in Contract
    BY DEF IInv, Ledger, MintTypes
  <1>3. NoIssue
    <2>1. CASE contracts' = contracts
      BY <2>1 DEF NoIssue
    <2>2. ASSUME NEW d \in Cid, SuspendContract(d) \/ RevokeContract(d)
          PROVE  NoIssue
      BY <1>2, <2>2 DEF SuspendContract, RevokeContract, NoIssue, Contract
    <2>3. ASSUME NEW p \in Party, NEW H \in SUBSET Human, Quarantine(p, H)
          PROVE  NoIssue
      BY <1>2, <2>3 DEF Quarantine, NoIssue, Contract
    <2> QED
      BY <2>1, <2>2, <2>3 DEF RegistryStep, Put, Transition, SetPosture, Repin,
         ClearQuarantine
  <1> QED
    BY <1>1, <1>3 DEF BudgetStep

\* Every step of every operation.
LEMMA NextBudgeted ==
    ASSUME IInv, BudgetInv, [Next]_vars
    PROVE  BudgetStep
  <1>0. now \in Nat
    BY DEF IInv, RestTypes
  <1>1. CASE contracts' = contracts /\ now' \in {now, now + 1}
    BY <1>0, <1>1 DEF BudgetStep, NoIssue
  <1>2. ASSUME NEW r \in Req, NEW a \in Party, NEW b \in Party, NEW rule \in Rule,
               NEW capped \in BOOLEAN, NEW must \in BOOLEAN, NEW stop \in Stops,
               Request(r, a, b, rule, capped, must, stop)
        PROVE  BudgetStep
    <2> DEFINE q == BuildPending(a, b, rule, capped, must)
               rec == StandingRecord(a, b, r)
    <2>1. rec.iat = now /\ rec.mode = "StandingPolicy" /\ now' = now
      BY <1>2 DEF StandingRecord, Record, Request
    <2>2. CASE q.decision = "Allow" /\ ~ must
      <3>1. Mint(MintCid(r), rec, Insert(requests, r, q), stop)
        BY <1>2, <2>2 DEF Request
      <3>2. Cardinality(StandingInWindow) < StandingPerWindow
        BY <2>2, AllowedBudgeted
      <3> HIDE DEF rec, q
      <3> QED
        BY <1>0, <2>1, <3>1, <3>2, MintBudgeted
    <2>3. CASE ~ (q.decision = "Allow" /\ ~ must)
      <3>1. contracts' = contracts
        BY <1>2, <2>3 DEF Request, NoMint
      <3> QED
        BY <1>1, <2>1, <3>1
    <2> QED
      BY <2>2, <2>3
  <1>3. ASSUME NEW r \in Req, NEW H \in SUBSET Human, NEW stop \in Stops,
               Approve(r, H, stop)
        PROVE  BudgetStep
    <2> DEFINE rec == Record(requests[r].caller, requests[r].callee,
                             entities[requests[r].callee].pin, "Human", FirstTwo(H),
                             {}, {}, r, MintJti)
    <2>1. rec.iat = now /\ rec.mode = "Human"
      BY DEF Record
    <2>2. Mint(MintCid(r), rec, ApplyApprove(r, H), stop) /\ now' = now
      BY <1>3 DEF Approve
    <2> HIDE DEF rec
    <2> QED
      BY <1>0, <2>1, <2>2, MintBudgeted
  <1>4. ASSUME NEW r \in Req, NEW H \in SUBSET Human, NEW stop \in Stops,
               ApproveByMerge(r, H, stop)
        PROVE  BudgetStep
    <2> DEFINE owner == entities[requests[r].callee].owner
               rec == Record(requests[r].caller, requests[r].callee,
                             entities[requests[r].callee].pin, "Human", {owner},
                             {}, H, r, MintJti)
    <2>1. rec.iat = now /\ rec.mode = "Human"
      BY DEF Record
    <2>2. /\ \/ Mint(MintCid(r), rec, ApplyApprove(r, {owner}), stop)
             \/ NoMint(ApplyApprove(r, {owner}))
          /\ now' = now
      BY <1>4 DEF ApproveByMerge
    <2> HIDE DEF rec, owner
    <2> QED
      BY <1>0, <2>1, <2>2, MintBudgeted
  <1>5. ASSUME NEW r \in Req, NEW a \in Party, NEW b \in Party,
               NEW H \in SUBSET Human, NEW stop \in Stops, BreakGlass(r, a, b, H, stop)
        PROVE  BudgetStep
    <2> DEFINE rec == Record(a, b, entities[b].pin, "BreakGlass", FirstTwo(H),
                             {}, {}, r, MintJti)
    <2>1. rec.iat = now /\ rec.mode = "BreakGlass"
      BY DEF Record
    <2>2. /\ MintUnchecked(MintCid(r), rec, requests, stop) /\ now' = now
          /\ Cardinality(BgInWindow) < BgPerWindow
      BY <1>5 DEF BreakGlass
    <2> HIDE DEF rec
    <2> QED
      BY <1>0, <2>1, <2>2, MintBudgeted
  <1>6. ASSUME NEW j \in Pipeline, NEW r \in Req, NEW rule \in Rule,
               NEW capped \in BOOLEAN, NEW stop \in Stops,
               NeedMint(j, r, rule, capped, stop)
        PROVE  BudgetStep
    <2> DEFINE plan == plans[j]
               q == BuildPending(plan.caller, plan.callee, rule, capped, FALSE)
               reqs == Insert(requests, r, q)
               rec == StandingRecord(plan.caller, plan.callee, r)
               merged == Record(plan.caller, plan.callee, plan.manifest, "ReviewedMerge",
                                {}, plan.source, plan.target, r, DeriveJti(plan.ver))
    <2>1. /\ rec.iat = now /\ rec.mode = "StandingPolicy"
          /\ merged.iat = now /\ merged.mode = "ReviewedMerge"
      BY DEF StandingRecord, Record
    <2>2. q.decision \in {"Allow", "RequireApproval", "Deny"}
      <3>1. plan.caller \in Party /\ plan.callee \in Party
        BY <1>6 DEF NeedMint, IInv, RestTypes, Plan
      <3>2. q \in PendingRequest
        BY <3>1, BuildPendingType DEF IInv
      <3> QED
        BY <3>2 DEF PendingRequest
    <2>3. /\ now' = now
          /\ \/ q.decision = "Allow" /\ Mint(MintCid(r), rec, reqs, stop)
             \/ MintUnchecked(DeriveCid(plan.caller, plan.callee), merged, reqs, stop)
             \/ NoMint(reqs)
      BY <1>6, <2>2 DEF NeedMint, MintWithIdentity
    <2>4. q.decision = "Allow" => Cardinality(StandingInWindow) < StandingPerWindow
      BY AllowedBudgeted
    <2> HIDE DEF plan, q, reqs, rec, merged
    <2> QED
      BY <1>0, <2>1, <2>3, <2>4, MintBudgeted
  <1>7. CASE RegistryStep
    BY <1>7, RegistryBudgeted
  <1>8. CASE IssuanceStep
    BY <1>1, <1>2, <1>3, <1>4, <1>5, <1>6, <1>8
       DEF IssuanceStep, Lapse, Deny, NoMint, NeedPlan, NeedAbandon, OfferPublish,
           ReloadPolicy, Tick
  <1>9. CASE UNCHANGED vars
    BY <1>1, <1>9 DEF vars
  <1> QED
    BY <1>7, <1>8, <1>9 DEF Next

\* No window of time, whichever it is, holds more break-glass contracts than the
\* budget or more live standing ones than the rate cap, for any budgets and any
\* window, whatever is revoked or superseded in between
\* (Issuer::breakglass, breakglass_in_window; StandingLimits::blocks).
THEOREM BudgetsAreKept == Spec => []BudgetsKept
  <1>1. Init => BudgetInv
    <2> SUFFICES ASSUME Init PROVE BudgetInv
      OBVIOUS
    <2>1. DOMAIN contracts = {}
      BY DEF Init
    <2>2. \A t : BgIssued(t) = {} /\ StandingIssued(t) = {}
      BY <2>1 DEF BgIssued, StandingIssued
    <2>3. BgPerWindow >= 0 /\ StandingPerWindow >= 0
      BY IssuanceAssumption
    <2> QED
      BY <2>1, <2>2, <2>3, FS_EmptySet DEF BudgetInv
  <1>2. IInv /\ BudgetInv /\ [Next]_vars => BudgetInv'
    BY NextBudgeted, BudgetStepKeeps DEF IInv, RestTypes, Ledger
  <1>3. BudgetInv => BudgetsKept
    <2> SUFFICES ASSUME BudgetInv, NEW t \in 0 .. MaxTime
                 PROVE  LET issued == {c \in DOMAIN contracts :
                                          contracts[c].iat \in t .. t + Window}
                        IN  /\ Cardinality({c \in issued : contracts[c].mode = "BreakGlass"})
                                  <= BgPerWindow
                            /\ Cardinality({c \in issued :
                                              contracts[c].mode = "StandingPolicy"
                                              /\ contracts[c].status = "Active"})
                                  <= StandingPerWindow
      BY DEF BudgetsKept
    <2> DEFINE issued == {c \in DOMAIN contracts : contracts[c].iat \in t .. t + Window}
    <2>1. {c \in issued : contracts[c].mode = "BreakGlass"} = BgIssued(t)
      BY DEF BgIssued
    <2>2. {c \in issued : contracts[c].mode = "StandingPolicy"
                          /\ contracts[c].status = "Active"} = StandingIssued(t)
      BY DEF StandingIssued
    <2>3. t \in Nat
      BY IssuanceAssumption
    <2> QED
      BY <2>1, <2>2, <2>3 DEF BudgetInv
  <1> QED
    BY <1>1, <1>2, <1>3, Inductive, PTL DEF Spec
=============================================================================
