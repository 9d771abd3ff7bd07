------------------------- MODULE ContainmentProofs -------------------------
(***************************************************************************)
(* Proofs about Containment, for any estate, any number of mediators and   *)
(* request threads, and any bound on the log.  Types and what a            *)
(* confirmation is worth hold with every failure the model has; that the   *)
(* feed backs the register is proved without outages, and that a cursor    *)
(* covers the deny-list without rotations.                                 *)
(***************************************************************************)
EXTENDS Containment, FiniteSetTheorems, TLAPS

USE EndsAssumption, AudienceAssumption, MaxSeqAssumption DEF NeverAcked

PlaneTypes ==
    /\ status \in [Contract -> {"None", "Active", "Revoked"}]
    /\ revokedAt \in [Contract -> Nat]
    /\ artifact \in [Contract -> SUBSET Kid]
    /\ lapsed \subseteq Contract
    /\ posture \in [Party -> {"Good", "Quarantined", "Pending"}]
    /\ seq \in Nat
    /\ feed \in Seq([target : Target, kid : Kid])
    /\ ring \in [Kid -> KeyState]
    /\ call \in [Thread -> SUBSET Target]

LedgerTypes ==
    /\ ledger \in [Mediator -> Ack]
    /\ acks \subseteq [from : Mediator, ack : Ack]

MediatorTypes ==
    /\ stage \in [Mediator -> Stage]
    /\ set \in [Mediator -> Installed]
    /\ revs \in [Mediator -> SUBSET Target]
    /\ distrusted \in [Mediator -> BOOLEAN]
    /\ cursor \in [Mediator -> Nat]
    /\ \A m \in Mediator : cursor[m] <= Len(feed)
    /\ keys \in [Mediator -> SUBSET Kid]

Types == PlaneTypes /\ LedgerTypes /\ MediatorTypes

\* What a pull applies ends between where it started and the head, and at the
\* head when every entry verifies.
LEMMA AppliedBounds ==
    ASSUME NEW K, NEW n \in Nat, n <= Len(feed), Len(feed) \in Nat
    PROVE  /\ Applied(K, n) \in Nat
           /\ n <= Applied(K, n)
           /\ Applied(K, n) <= Len(feed)
           /\ (\A i \in 1 .. Len(feed) : feed[i].kid \in K) => Applied(K, n) = Len(feed)
  <1> DEFINE V == {i \in (n + 1)..Len(feed) : \A j \in (n + 1)..i : feed[j].kid \in K}
             W == (n + 1)..Len(feed)
  <1>1. IsFiniteSet(W) /\ Cardinality(W) = Len(feed) - n
    <2>1. n + 1 \in Int /\ Len(feed) \in Int
      OBVIOUS
    <2>2. IsFiniteSet(W) /\ Cardinality(W) = IF n + 1 > Len(feed) THEN 0 ELSE Len(feed) - (n + 1) + 1
      BY <2>1, FS_Interval
    <2> QED BY <2>2
  <1>2. IsFiniteSet(V) /\ Cardinality(V) <= Cardinality(W)
    BY <1>1, FS_Subset
  <1>3. Cardinality(V) \in Nat
    BY <1>2, FS_CardinalityType
  <1>4. Applied(K, n) = n + Cardinality(V)
    BY DEF Applied
  <1>5. (\A i \in 1 .. Len(feed) : feed[i].kid \in K) => V = W
    <2> SUFFICES ASSUME \A i \in 1 .. Len(feed) : feed[i].kid \in K,
                        NEW i \in W, NEW j \in (n + 1)..i
                 PROVE  feed[j].kid \in K
      OBVIOUS
    <2>1. j \in 1 .. Len(feed)
      OBVIOUS
    <2> QED BY <2>1
  <1> HIDE DEF V, W
  <1>6. Cardinality(V) <= Len(feed) - n
    BY <1>1, <1>2
  <1>7. (\A i \in 1 .. Len(feed) : feed[i].kid \in K) => Cardinality(V) = Len(feed) - n
    BY <1>1, <1>5
  <1> QED BY <1>3, <1>4, <1>6, <1>7

\* Types at the start.
LEMMA InitTypes == CutsInit => Types
  <1> SUFFICES ASSUME CutsInit PROVE Types
    OBVIOUS
  <1> USE DEF CutsInit
  <1>1. PlaneTypes
    BY DEF PlaneTypes, KeyState
  <1>2. LedgerTypes
    BY DEF LedgerTypes, Ack, AckOf
  <1>3. MediatorTypes
    BY DEF MediatorTypes, Stage, Installed, NoSnapshot
  <1> QED BY <1>1, <1>2, <1>3 DEF Types

\* A set built from the register is a snapshot.
LEMMA BuildType ==
    ASSUME Types, NEW m \in Mediator, NEW K
    PROVE  Build(m, K) \in Installed
  BY DEF Types, PlaneTypes, Build, Installed, ContractSetFor

\* Every entry of the feed names a target and a key.
LEMMA FeedEntries ==
    ASSUME Types
    PROVE  \A i \in 1..Len(feed) : feed[i].target \in Target /\ feed[i].kid \in Kid
  <1> DEFINE Entry == [target : Target, kid : Kid]
  <1>1. feed \in Seq(Entry)
    BY DEF Types, PlaneTypes
  <1>2. \A e \in Entry : e.target \in Target /\ e.kid \in Kid
    OBVIOUS
  <1> HIDE DEF Entry
  <1>3. \A i \in 1..Len(feed) : feed[i] \in Entry
    BY <1>1
  <1> QED BY <1>2, <1>3

\* Types are kept by what the control plane does.
LEMMA PlaneKeepsTypes ==
    ASSUME Types, PlaneStep
    PROVE  Types'
  <1> USE DEF Types, PlaneTypes
  <1>a. CASE UNCHANGED <<ledger, acks, mediators, feed>> /\ PlaneTypes'
    BY <1>a DEF LedgerTypes, MediatorTypes, mediators
  <1>1. ASSUME NEW c \in Contract, Issue(c) PROVE Types'
    BY <1>1, <1>a DEF Issue, NextSeq
  <1>2. ASSUME NEW t \in Thread, NEW c \in Contract, RevokeConnection(t, c) PROVE Types'
    BY <1>2, <1>a DEF RevokeConnection, RevokeAll, NextSeq, Target
  <1>3. ASSUME NEW t \in Thread, NEW p \in Party, Quarantine(t, p) PROVE Types'
    BY <1>3, <1>a DEF Quarantine, RevokeAll, NextSeq, Target
  <1>4. ASSUME NEW t \in Thread, Publish(t) PROVE Types'
    <2> PICK x \in call[t], k \in Kid :
            /\ feed' = Append(feed, [target |-> x, kid |-> k])
            /\ call' = [call EXCEPT ![t] = {}]
            /\ UNCHANGED <<planeVars, ring, ledger, acks, mediators>>
      BY <1>4 DEF Publish
    <2>1. x \in Target
      OBVIOUS
    <2>2. feed' \in Seq([target : Target, kid : Kid]) /\ Len(feed') = Len(feed) + 1
      BY <2>1
    <2>3. PlaneTypes'
      BY <2>2 DEF planeVars
    <2>4. LedgerTypes'
      BY DEF LedgerTypes
    <2>5. MediatorTypes'
      BY <2>2 DEF MediatorTypes, mediators
    <2> QED BY <2>3, <2>4, <2>5
  <1>5. ASSUME NEW t \in Thread, Abandon(t) PROVE Types'
    BY <1>5, <1>a DEF Abandon, planeVars
  <1>6. CASE Restart
    BY <1>6, <1>a DEF Restart, planeVars
  <1>7. ASSUME NEW p \in Party, ClearQuarantine(p) \/ Readmit(p) PROVE Types'
    <2>1. CASE ClearQuarantine(p)
      BY <2>1, <1>a DEF ClearQuarantine, NextSeq
    <2>2. CASE Readmit(p)
      BY <2>2, <1>a DEF Readmit, NextSeq
    <2> QED BY <1>7, <2>1, <2>2
  <1>8. ASSUME NEW k \in Kid, RotateKey(k) PROVE Types'
    BY <1>8, <1>a DEF RotateKey, KeyState, planeVars
  <1>9. ASSUME NEW k \in Kid, RetireKey(k) PROVE Types'
    BY <1>9, <1>a DEF RetireKey, KeyState, planeVars
  <1>10. ASSUME NEW c \in Contract, Lapse(c) PROVE Types'
    BY <1>10, <1>a DEF Lapse
  <1>11. ASSUME NEW a \in acks, RecordAck(a) PROVE Types'
    <2>1. PlaneTypes'
      BY <1>11 DEF RecordAck, planeVars
    <2>2. LedgerTypes'
      BY <1>11 DEF RecordAck, LedgerTypes
    <2>3. MediatorTypes'
      BY <1>11 DEF RecordAck, MediatorTypes, mediators
    <2> QED BY <2>1, <2>2, <2>3
  <1> QED
    BY <1>1, <1>2, <1>3, <1>4, <1>5, <1>6, <1>7, <1>8, <1>9, <1>10, <1>11 DEF PlaneStep

\* Types are kept by what a mediator does.
LEMMA MediatorKeepsTypes ==
    ASSUME Types, NEW m \in Mediator, MediatorStep(m)
    PROVE  Types'
  <1> USE DEF Types
  <1>0. Len(feed) \in Nat /\ Build(m, Published) \in Installed /\ Build(m, keys[m]) \in Installed
    BY BuildType DEF PlaneTypes
  <1>1. PlaneTypes'
    BY DEF MediatorStep, Boot, FetchSet, RefreshKeys, FetchRevocations, BootRevocations,
           NoRevocations, SendAck, Die, planeVars, PlaneTypes
  <1>2. LedgerTypes'
    <2>1. CASE SendAck(m)
      <3>1. set[m].seq \in Nat
        BY DEF MediatorTypes, Installed
      <3> QED BY <2>1, <3>1 DEF SendAck, LedgerTypes, Ack, AckOf
    <2>2. CASE Die(m)
      <3>1. AckOf(0) \in Ack
        BY DEF AckOf, Ack
      <3>2. acks' \subseteq acks \cup {[from |-> m, ack |-> AckOf(0)]}
        BY <2>2 DEF Die
      <3> QED BY <2>2, <3>1, <3>2 DEF Die, LedgerTypes
    <2>3. CASE ~SendAck(m) /\ ~Die(m)
      BY <2>3 DEF MediatorStep, Boot, FetchSet, RefreshKeys, FetchRevocations,
                  BootRevocations, NoRevocations, LedgerTypes
    <2> QED BY <2>1, <2>2, <2>3
  <1>3. ASSUME NEW n \in Nat, n <= Len(feed), InstallRevocations(m, n)
        PROVE  revs' \in [Mediator -> SUBSET Target] /\ distrusted' \in [Mediator -> BOOLEAN]
    <2>1. \A i \in 1..Len(feed) : feed[i].target \in Target
      BY FeedEntries
    <2>2. Applied(keys[m], n) \in Nat /\ Applied(keys[m], n) <= Len(feed)
      BY <1>0, <1>3, AppliedBounds
    <2>3. {feed[i].target : i \in (n + 1)..Applied(keys[m], n)} \subseteq Target
      BY <2>1, <2>2, <1>0
    <2> QED BY <1>3, <2>3 DEF InstallRevocations, MediatorTypes
  <1>4. cursor[m] \in Nat /\ cursor[m] <= Len(feed) /\ 0 <= Len(feed)
    BY <1>0 DEF MediatorTypes
  <1>5. MediatorTypes'
    <2> USE DEF MediatorTypes, Stage
    <2>1. CASE Boot(m)
      BY <2>1, <1>0 DEF Boot, Published
    <2>2. CASE FetchSet(m)
      BY <2>2, <1>0 DEF FetchSet
    <2>3. CASE RefreshKeys(m)
      BY <2>3 DEF RefreshKeys, Published
    <2>4. CASE FetchRevocations(m)
      <3>1. Applied(keys[m], cursor[m]) \in Nat /\ Applied(keys[m], cursor[m]) <= Len(feed)
        BY <1>0, <1>4, AppliedBounds
      <3> QED BY <2>4, <3>1, <1>3, <1>4 DEF FetchRevocations
    <2>5. CASE BootRevocations(m)
      BY <2>5, <1>3, <1>4 DEF BootRevocations
    <2>6. CASE NoRevocations(m)
      BY <2>6 DEF NoRevocations
    <2>7. CASE SendAck(m)
      BY <2>7 DEF SendAck
    <2>8. CASE Die(m)
      BY <2>8, <1>0 DEF Die, Installed, NoSnapshot
    <2> QED
      BY <2>1, <2>2, <2>3, <2>4, <2>5, <2>6, <2>7, <2>8 DEF MediatorStep
  <1> QED BY <1>1, <1>2, <1>5

LEMMA TypesInductive == CutsSpec => []Types
  <1>1. Types /\ [CutsNext]_cutVars => Types'
    <2> SUFFICES ASSUME Types, [CutsNext]_cutVars PROVE Types'
      OBVIOUS
    <2>1. CASE UNCHANGED cutVars
      BY <2>1 DEF cutVars, planeVars, mediators, Types, PlaneTypes, LedgerTypes, MediatorTypes
    <2> QED BY <2>1, PlaneKeepsTypes, MediatorKeepsTypes DEF CutsNext
  <1> QED BY <1>1, InitTypes, PTL DEF CutsSpec

\* The state of the register, the feed, the ledger and the mediators stays
\* well formed through every failure (api.rs, contain.rs, dist.rs, client.rs).
THEOREM EstateTypes == CutsSpec => []CutsTypeOK
  <1>1. Types => CutsTypeOK
    BY DEF Types, PlaneTypes, LedgerTypes, MediatorTypes, CutsTypeOK
  <1> QED BY <1>1, TypesInductive, PTL

-----------------------------------------------------------------------------
(***************************************************************************)
(* What a confirmation is worth.                                           *)
(***************************************************************************)
\* A set holds nothing that had been revoked when it was built.
SetsFresh ==
    \A m \in Mediator :
        /\ set[m].seq <= seq
        /\ \A c \in set[m].cids :
            /\ status[c] # "None"
            /\ status[c] = "Revoked" => revokedAt[c] > set[m].seq

\* An acknowledgement, recorded or on the wire, is of a set no later than the
\* one its mediator holds, if it is running, and than the log.
AcksTrue ==
    /\ \A m \in Mediator :
        /\ ledger[m].seq <= seq
        /\ stage[m] # "down" => ledger[m].seq <= set[m].seq
    /\ \A a \in acks :
        /\ a.ack.seq <= seq
        /\ stage[a.from] # "down" => a.ack.seq <= set[a.from].seq

CutInv == Types /\ SetsFresh /\ AcksTrue

LEMMA InitCut == CutsInit => CutInv
  <1> SUFFICES ASSUME CutsInit PROVE CutInv
    OBVIOUS
  <1>1. SetsFresh
    BY DEF CutsInit, SetsFresh, NoSnapshot
  <1>2. AcksTrue
    BY DEF CutsInit, AcksTrue, AckOf
  <1> QED BY <1>1, <1>2, InitTypes DEF CutInv

\* The numbers the argument compares.
LEMMA Numbers ==
    ASSUME Types
    PROVE  /\ seq \in Nat
           /\ revokedAt \in [Contract -> Nat]
           /\ \A m \in Mediator : set[m].seq \in Nat /\ set[m].cids \subseteq Contract
           /\ \A m \in Mediator : ledger[m].seq \in Int
           /\ \A a \in acks : a.ack.seq \in Int /\ a.from \in Mediator
  BY DEF Types, PlaneTypes, LedgerTypes, MediatorTypes, Installed, Ack

LEMMA PlaneKeepsCut ==
    ASSUME CutInv, PlaneStep
    PROVE  SetsFresh' /\ AcksTrue'
  <1> USE Numbers DEF CutInv
  <1>a. CASE UNCHANGED <<status, revokedAt, seq, ledger, acks, mediators>>
    BY <1>a DEF SetsFresh, AcksTrue, mediators
  <1>b. ASSUME UNCHANGED <<ledger, acks, mediators>>, seq' = seq + 1, status' = status,
               revokedAt' = revokedAt
        PROVE  SetsFresh' /\ AcksTrue'
    BY <1>b DEF SetsFresh, AcksTrue, mediators
  <1>1. ASSUME NEW c \in Contract, Issue(c) PROVE SetsFresh' /\ AcksTrue'
    BY <1>1 DEF Issue, NextSeq, SetsFresh, AcksTrue, mediators, Types, PlaneTypes
  <1>2. ASSUME NEW C \in SUBSET Contract, RevokeAll(C), UNCHANGED <<ledger, acks, mediators>>,
               \A c \in C : status[c] # "None"
        PROVE  SetsFresh' /\ AcksTrue'
    <2>1. seq' = seq + 1
      BY <1>2 DEF RevokeAll, NextSeq
    <2>2. AcksTrue'
      BY <1>2, <2>1 DEF AcksTrue, mediators
    <2>3. SetsFresh'
      <3> SUFFICES ASSUME NEW m \in Mediator
                   PROVE  /\ set[m].seq <= seq'
                          /\ \A c \in set[m].cids :
                              /\ status'[c] # "None"
                              /\ status'[c] = "Revoked" => revokedAt'[c] > set[m].seq
        BY <1>2 DEF SetsFresh, mediators
      <3>1. set[m].seq <= seq /\ set[m].seq \in Nat
        BY DEF SetsFresh
      <3>2. ASSUME NEW c \in set[m].cids
            PROVE  /\ status'[c] # "None"
                   /\ status'[c] = "Revoked" => revokedAt'[c] > set[m].seq
        <4>1. c \in Contract /\ status[c] # "None"
              /\ (status[c] = "Revoked" => revokedAt[c] > set[m].seq)
          BY DEF SetsFresh
        <4>2. status'[c] = IF c \in C THEN "Revoked" ELSE status[c]
          BY <4>1, <1>2 DEF RevokeAll
        <4>3. revokedAt'[c] = IF c \in C /\ status[c] # "Revoked" THEN seq + 1
                                                                 ELSE revokedAt[c]
          BY <4>1, <1>2 DEF RevokeAll
        <4> QED BY <3>1, <4>1, <4>2, <4>3
      <3> QED BY <3>1, <3>2, <2>1
    <2> QED BY <2>2, <2>3
  <1>3. ASSUME NEW t \in Thread, NEW c \in Contract, RevokeConnection(t, c)
        PROVE  SetsFresh' /\ AcksTrue'
    BY <1>3, <1>2 DEF RevokeConnection
  <1>4. ASSUME NEW t \in Thread, NEW p \in Party, Quarantine(t, p)
        PROVE  SetsFresh' /\ AcksTrue'
    BY <1>4, <1>2 DEF Quarantine, Held
  <1>5. ASSUME NEW t \in Thread, Publish(t) PROVE SetsFresh' /\ AcksTrue'
    BY <1>5, <1>a DEF Publish, planeVars
  <1>6. ASSUME NEW t \in Thread, Abandon(t) PROVE SetsFresh' /\ AcksTrue'
    BY <1>6, <1>a DEF Abandon, planeVars
  <1>7. CASE Restart
    BY <1>7, <1>a DEF Restart, planeVars
  <1>8. ASSUME NEW p \in Party, ClearQuarantine(p) PROVE SetsFresh' /\ AcksTrue'
    BY <1>8, <1>b DEF ClearQuarantine, NextSeq
  <1>9. ASSUME NEW p \in Party, Readmit(p) PROVE SetsFresh' /\ AcksTrue'
    BY <1>9, <1>b DEF Readmit, NextSeq
  <1>10. ASSUME NEW k \in Kid, RotateKey(k) PROVE SetsFresh' /\ AcksTrue'
    BY <1>10, <1>a DEF RotateKey, planeVars
  <1>11. ASSUME NEW k \in Kid, RetireKey(k) PROVE SetsFresh' /\ AcksTrue'
    BY <1>11, <1>a DEF RetireKey, planeVars
  <1>12. ASSUME NEW c \in Contract, Lapse(c) PROVE SetsFresh' /\ AcksTrue'
    BY <1>12, <1>a DEF Lapse
  <1>13. ASSUME NEW a \in acks, RecordAck(a) PROVE SetsFresh' /\ AcksTrue'
    <2>1. SetsFresh'
      BY <1>13 DEF RecordAck, SetsFresh, mediators, planeVars
    <2>2. \A m \in Mediator : ledger'[m] = ledger[m] \/ (m = a.from /\ ledger'[m] = a.ack)
      BY <1>13 DEF RecordAck, Types, LedgerTypes
    <2>3. AcksTrue'
      BY <1>13, <2>2 DEF RecordAck, AcksTrue, mediators, planeVars
    <2> QED BY <2>1, <2>3
  <1> QED
    BY <1>1, <1>3, <1>4, <1>5, <1>6, <1>7, <1>8, <1>9, <1>10, <1>11, <1>12, <1>13
       DEF PlaneStep

LEMMA MediatorKeepsCut ==
    ASSUME CutInv, NEW m \in Mediator, MediatorStep(m)
    PROVE  SetsFresh' /\ AcksTrue'
  <1> USE Numbers DEF CutInv
  <1>0. UNCHANGED <<status, revokedAt, seq, ledger>>
    BY DEF MediatorStep, Boot, FetchSet, RefreshKeys, FetchRevocations, BootRevocations,
           NoRevocations, SendAck, Die, planeVars
  <1>a. ASSUME NEW K, set' = [set EXCEPT ![m] = Build(m, K)], UNCHANGED acks,
               NEW s \in Stage, stage' = [stage EXCEPT ![m] = s]
        PROVE  SetsFresh' /\ AcksTrue'
    <2>1. /\ set'[m].seq = seq
          /\ set'[m].cids \subseteq {c \in Contract : status[c] = "Active"}
      BY <1>a DEF Build, ContractSetFor, Types, MediatorTypes
    <2>2. \A n \in Mediator : n # m => set'[n] = set[n] /\ stage'[n] = stage[n]
      BY <1>a DEF Types, MediatorTypes
    <2>3. SetsFresh'
      BY <1>0, <2>1, <2>2 DEF SetsFresh
    <2>4. AcksTrue'
      BY <1>0, <1>a, <2>1, <2>2 DEF AcksTrue
    <2> QED BY <2>3, <2>4
  <1>1. CASE Boot(m)
    BY <1>1, <1>a DEF Boot, Stage
  <1>2. CASE FetchSet(m)
    BY <1>2, <1>a DEF FetchSet, Stage
  <1>b. ASSUME UNCHANGED <<set, acks>>, stage[m] # "down",
               NEW s \in Stage, stage' = [stage EXCEPT ![m] = s]
        PROVE  SetsFresh' /\ AcksTrue'
    <2>1. SetsFresh'
      BY <1>0, <1>b DEF SetsFresh
    <2>2. \A n \in Mediator : stage'[n] # "down" => stage[n] # "down"
      BY <1>b DEF Types, MediatorTypes
    <2>3. AcksTrue'
      BY <1>0, <1>b, <2>2 DEF AcksTrue
    <2> QED BY <2>1, <2>3
  <1>3. CASE RefreshKeys(m)
    BY <1>0, <1>3 DEF RefreshKeys, SetsFresh, AcksTrue
  <1>4. CASE FetchRevocations(m)
    BY <1>4, <1>b DEF FetchRevocations, Stage
  <1>5. CASE BootRevocations(m)
    BY <1>5, <1>b DEF BootRevocations, Stage
  <1>6. CASE NoRevocations(m)
    BY <1>6, <1>b DEF NoRevocations, Stage, Types, MediatorTypes
  <1>7. CASE SendAck(m)
    <2>1. SetsFresh'
      BY <1>0, <1>7 DEF SendAck, SetsFresh
    <2>2. stage[m] # "down" /\ \A n \in Mediator : stage'[n] # "down" => stage[n] # "down"
      BY <1>7 DEF SendAck, Types, MediatorTypes
    <2>3. \A a \in acks' : a \in acks \/ (a.from = m /\ a.ack.seq = set[m].seq)
      BY <1>7 DEF SendAck, AckOf
    <2>4. AcksTrue'
      BY <1>0, <1>7, <2>2, <2>3 DEF SendAck, AcksTrue, SetsFresh
    <2> QED BY <2>1, <2>4
  <1>8. CASE Die(m)
    <2>1. set'[m].seq = 0 /\ set'[m].cids = {} /\ stage'[m] = "down"
      BY <1>8 DEF Die, NoSnapshot, Types, MediatorTypes
    <2>2. \A n \in Mediator : n # m => set'[n] = set[n] /\ stage'[n] = stage[n]
      BY <1>8 DEF Die, Types, MediatorTypes
    <2>3. SetsFresh'
      BY <1>0, <2>1, <2>2 DEF SetsFresh
    <2>4. \A a \in acks' : a \in acks \/ (a.from = m /\ a.ack.seq = 0)
      BY <1>8 DEF Die, AckOf
    <2>5. AcksTrue'
      BY <1>0, <2>1, <2>2, <2>4 DEF AcksTrue
    <2> QED BY <2>3, <2>5
  <1> QED
    BY <1>1, <1>2, <1>3, <1>4, <1>5, <1>6, <1>7, <1>8 DEF MediatorStep

LEMMA CutInductive == CutsSpec => []CutInv
  <1>1. CutInv /\ [CutsNext]_cutVars => CutInv'
    <2> SUFFICES ASSUME CutInv, [CutsNext]_cutVars PROVE CutInv'
      OBVIOUS
    <2>1. CASE UNCHANGED cutVars
      BY <2>1 DEF CutInv, cutVars, planeVars, mediators, Types, PlaneTypes, LedgerTypes,
                  MediatorTypes, SetsFresh, AcksTrue
    <2>2. CASE PlaneStep
      BY <2>2, PlaneKeepsTypes, PlaneKeepsCut DEF CutInv
    <2>3. CASE \E m \in Mediator : MediatorStep(m)
      BY <2>3, MediatorKeepsTypes, MediatorKeepsCut DEF CutInv
    <2> QED BY <2>1, <2>2, <2>3 DEF CutsNext
  <1> QED BY <1>1, InitCut, PTL DEF CutsSpec

\* A mediator whose acknowledgement of a set built at or after a revocation is
\* recorded does not resolve the revoked contract, whatever was lost, delayed,
\* reordered or restarted (dist.rs, SetAckLedger; client.rs, refresh).
THEOREM ConfirmedIsCut == CutsSpec => []ConfirmedCut
  <1>1. CutInv => ConfirmedCut
    <2> SUFFICES ASSUME CutInv, NEW m \in Mediator, NEW c \in Contract,
                        status[c] = "Revoked", ledger[m].seq >= revokedAt[c], Resolves(m, c)
                 PROVE  FALSE
      BY DEF ConfirmedCut
    <2>1. stage[m] # "down" /\ c \in set[m].cids
      BY DEF Resolves, Serving
    <2>2. revokedAt[c] > set[m].seq /\ ledger[m].seq <= set[m].seq
      BY <2>1 DEF CutInv, SetsFresh, AcksTrue
    <2> QED BY <2>2, Numbers DEF CutInv
  <1> QED BY <1>1, CutInductive, PTL

\* An acknowledgement that arrives late never moves the ledger back (dist.rs,
\* SetAckLedger::record).
THEOREM LedgerForward == CutsSpec => LedgerMonotone
  <1>1. Types /\ [CutsNext]_cutVars =>
            [\A m \in Mediator : ledger'[m].seq >= ledger[m].seq]_cutVars
    <2> SUFFICES ASSUME Types, CutsNext, NEW m \in Mediator
                 PROVE  ledger'[m].seq >= ledger[m].seq
      OBVIOUS
    <2>0. ledger[m].seq \in Int
      BY Numbers
    <2>1. CASE ledger' = ledger
      BY <2>0, <2>1
    <2>2. ASSUME NEW a \in acks, RecordAck(a) PROVE ledger'[m].seq >= ledger[m].seq
      <3>1. a.ack.seq \in Int
        BY Numbers
      <3>2. ledger'[m] = IF m = a.from
                         THEN IF ledger[m].seq > a.ack.seq THEN ledger[m] ELSE a.ack
                         ELSE ledger[m]
        BY <2>2 DEF RecordAck, Types, LedgerTypes
      <3> QED BY <2>0, <3>1, <3>2
    <2>3. CASE \E n \in Mediator : MediatorStep(n)
      BY <2>1, <2>3 DEF MediatorStep, Boot, FetchSet, RefreshKeys, FetchRevocations,
                        BootRevocations, NoRevocations, SendAck, Die
    <2>4. CASE PlaneStep
      BY <2>1, <2>2, <2>4 DEF PlaneStep, Issue, RevokeConnection, Quarantine, Publish, Abandon,
                              Restart, ClearQuarantine, Readmit, RotateKey, RetireKey, Lapse
    <2> QED BY <2>3, <2>4 DEF CutsNext
  <1> QED BY <1>1, TypesInductive, PTL DEF CutsSpec, LedgerMonotone

-----------------------------------------------------------------------------
(***************************************************************************)
(* The feed and the register, when requests run to their end.              *)
(***************************************************************************)
\* Everything cut is on the feed or about to be put there by its thread, which
\* carries one target at a time.
OnTheWay(x) == x \in Listed \/ \E t \in Thread : x \in call[t]
SingleCall == \A t \in Thread : \A x, y \in call[t] : x = y
RegisterBacked ==
    /\ \A c \in Contract : status[c] = "Revoked" => \E x \in {c} \cup Ends[c] : OnTheWay(x)
    /\ \A p \in Party : posture[p] = "Quarantined" => OnTheWay(p)
FeedInv == Types /\ SingleCall /\ RegisterBacked

\* Publishing moves a target from its thread to the feed.
LEMMA PublishKeeps ==
    ASSUME Types, SingleCall, NEW t \in Thread, Publish(t), NEW x, OnTheWay(x)
    PROVE  OnTheWay(x)'
  <1> PICK y \in call[t], k \in Kid :
          /\ feed' = Append(feed, [target |-> y, kid |-> k])
          /\ call' = [call EXCEPT ![t] = {}]
    BY DEF Publish
  <1>0. call \in [Thread -> SUBSET Target] /\ feed \in Seq([target : Target, kid : Kid])
    BY DEF Types, PlaneTypes
  <1> DEFINE e == [target |-> y, kid |-> k]
  <1>1. /\ Len(feed') = Len(feed) + 1
        /\ feed'[Len(feed) + 1] = e
        /\ \A i \in 1..Len(feed) : feed'[i] = feed[i]
    BY <1>0
  <1>2. Listed \subseteq Listed'
    BY <1>0, <1>1 DEF Listed
  <1>3. Len(feed) + 1 \in 1..Len(feed')
    BY <1>0, <1>1
  <1>4. feed'[Len(feed) + 1].target = y
    BY <1>1
  <1>5. y \in Listed'
    BY <1>3, <1>4 DEF Listed
  <1> QED
    <2>1. CASE x \in Listed
      BY <2>1, <1>2 DEF OnTheWay
    <2>2. ASSUME NEW u \in Thread, x \in call[u] PROVE OnTheWay(x)'
      <3>1. CASE u # t
        BY <3>1, <2>2, <1>0 DEF OnTheWay
      <3>2. CASE u = t
        BY <3>2, <2>2, <1>5 DEF OnTheWay, SingleCall
      <3> QED BY <3>1, <3>2
    <2> QED BY <2>1, <2>2 DEF OnTheWay

\* A handler's first half puts its target on the way and loses none.
LEMMA CallKeeps ==
    ASSUME Types, NEW t \in Thread, NEW z, call[t] = {}, feed' = feed,
           call' = [call EXCEPT ![t] = {z}]
    PROVE  OnTheWay(z)' /\ \A x : OnTheWay(x) => OnTheWay(x)'
  <1>1. Listed' = Listed
    BY DEF Listed
  <1>2. call'[t] = {z} /\ \A u \in Thread : u # t => call'[u] = call[u]
    BY DEF Types, PlaneTypes
  <1> QED BY <1>1, <1>2 DEF OnTheWay

\* A control plane whose requests all run to their end keeps the two together.
LEMMA PlaneKeepsFeed ==
    ASSUME ~Outages, FeedInv, PlaneStep
    PROVE  SingleCall' /\ RegisterBacked'
  <1> USE DEF FeedInv
  <1>0. /\ status \in [Contract -> {"None", "Active", "Revoked"}]
        /\ posture \in [Party -> {"Good", "Quarantined", "Pending"}]
        /\ call \in [Thread -> SUBSET Target]
    BY DEF Types, PlaneTypes
  <1>1. ASSUME NEW c \in Contract, Issue(c) PROVE SingleCall' /\ RegisterBacked'
    <2>1. \A d \in Contract : status'[d] = "Revoked" => status[d] = "Revoked"
      BY <1>0, <1>1 DEF Issue
    <2> QED BY <1>1, <2>1 DEF Issue, SingleCall, RegisterBacked, OnTheWay, Listed
  <1>2. ASSUME NEW t \in Thread, NEW c \in Contract, RevokeConnection(t, c)
        PROVE  SingleCall' /\ RegisterBacked'
    <2>1. /\ OnTheWay(c)'
          /\ \A x : OnTheWay(x) => OnTheWay(x)'
      BY <1>2, CallKeeps DEF RevokeConnection
    <2>2. \A d \in Contract : status'[d] = "Revoked" => d = c \/ status[d] = "Revoked"
      BY <1>2 DEF RevokeConnection, RevokeAll
    <2>3. SingleCall'
      BY <1>0, <1>2 DEF RevokeConnection, SingleCall
    <2>4. posture' = posture
      BY <1>2 DEF RevokeConnection
    <2> QED BY <2>1, <2>2, <2>3, <2>4 DEF RegisterBacked
  <1>3. ASSUME NEW t \in Thread, NEW p \in Party, Quarantine(t, p)
        PROVE  SingleCall' /\ RegisterBacked'
    <2>1. /\ OnTheWay(p)'
          /\ \A x : OnTheWay(x) => OnTheWay(x)'
      BY <1>3, CallKeeps DEF Quarantine
    <2>2. \A d \in Contract : status'[d] = "Revoked" => p \in Ends[d] \/ status[d] = "Revoked"
      BY <1>3 DEF Quarantine, RevokeAll, Held
    <2>3. SingleCall'
      BY <1>0, <1>3 DEF Quarantine, SingleCall
    <2>4. \A q \in Party : posture'[q] = "Quarantined" => q = p \/ posture[q] = "Quarantined"
      BY <1>0, <1>3 DEF Quarantine
    <2> QED BY <2>1, <2>2, <2>3, <2>4 DEF RegisterBacked
  <1>4. ASSUME NEW t \in Thread, Publish(t) PROVE SingleCall' /\ RegisterBacked'
    <2>1. \A x : OnTheWay(x) => OnTheWay(x)'
      BY <1>4, PublishKeeps
    <2>2. status' = status /\ posture' = posture /\ call' = [call EXCEPT ![t] = {}]
      BY <1>4 DEF Publish, planeVars
    <2>3. SingleCall'
      BY <1>0, <2>2 DEF SingleCall
    <2> QED BY <2>1, <2>2, <2>3 DEF RegisterBacked
  <1>5. ASSUME NEW p \in Party, ClearQuarantine(p) \/ Readmit(p)
        PROVE  SingleCall' /\ RegisterBacked'
    <2>1. \A q \in Party : posture'[q] = "Quarantined" => posture[q] = "Quarantined"
      BY <1>0, <1>5 DEF ClearQuarantine, Readmit
    <2> QED BY <1>5, <2>1 DEF ClearQuarantine, Readmit, SingleCall, RegisterBacked, OnTheWay,
                              Listed
  <1>6. CASE UNCHANGED <<status, posture, call, feed>>
    BY <1>6 DEF SingleCall, RegisterBacked, OnTheWay, Listed
  <1> QED BY <1>1, <1>2, <1>3, <1>4, <1>5, <1>6
          DEF PlaneStep, Abandon, Restart, RotateKey, RetireKey, Lapse, RecordAck, planeVars

\* Mediators never touch the register or the feed.
LEMMA FeedInductive == ASSUME ~Outages PROVE CutsSpec => []FeedInv
  <1>1. CutsInit => FeedInv
    BY InitTypes DEF CutsInit, FeedInv, SingleCall, RegisterBacked
  <1>2. FeedInv /\ [CutsNext]_cutVars => FeedInv'
    <2> SUFFICES ASSUME FeedInv, [CutsNext]_cutVars PROVE SingleCall' /\ RegisterBacked'
      BY PlaneKeepsTypes, MediatorKeepsTypes DEF FeedInv, CutsNext, cutVars, planeVars, mediators, Types,
         PlaneTypes, LedgerTypes, MediatorTypes
    <2>1. CASE PlaneStep
      BY <2>1, PlaneKeepsFeed
    <2>2. CASE UNCHANGED <<status, posture, call, feed>>
      BY <2>2 DEF FeedInv, SingleCall, RegisterBacked, OnTheWay, Listed
    <2>3. ASSUME NEW m \in Mediator, MediatorStep(m) PROVE UNCHANGED <<status, posture, call, feed>>
      BY <2>3 DEF MediatorStep, Boot, FetchSet, RefreshKeys, FetchRevocations,
                  BootRevocations, NoRevocations, SendAck, Die, planeVars
    <2> QED BY <2>1, <2>2, <2>3 DEF CutsNext, cutVars, planeVars
  <1> QED BY <1>1, <1>2, PTL DEF CutsSpec

\* When every request runs to its end, the feed backs the register: with no
\* request in flight, everything cut is on it (api.rs, revoke_connection and
\* quarantine), whatever the number of threads racing between the two locks.
THEOREM FeedBacksRegister == ASSUME ~Outages PROVE CutsSpec => []FeedBacks
  <1>1. FeedInv => FeedBacks
    BY DEF FeedInv, RegisterBacked, OnTheWay, FeedBacks
  <1> QED BY <1>1, FeedInductive, PTL

-----------------------------------------------------------------------------
(***************************************************************************)
(* The deny-list.                                                          *)
(***************************************************************************)
\* While a process runs, nothing leaves its deny-list: whatever verified, and
\* whatever the delta (client.rs, install_revocations).
THEOREM DenyListGrows == CutsSpec => NeverUnrevoked
  <1>1. Types /\ [CutsNext]_cutVars =>
            [\A m \in Mediator : stage'[m] # "down" => revs[m] \subseteq revs'[m]]_cutVars
    <2> SUFFICES ASSUME Types, CutsNext, NEW m \in Mediator, stage'[m] # "down"
                 PROVE  revs[m] \subseteq revs'[m]
      OBVIOUS
    <2>0. revs \in [Mediator -> SUBSET Target] /\ stage \in [Mediator -> Stage]
      BY DEF Types, MediatorTypes
    <2>1. CASE revs' = revs
      BY <2>1
    <2>2. ASSUME NEW n \in Mediator, NEW j, InstallRevocations(n, j) PROVE revs[m] \subseteq revs'[m]
      BY <2>0, <2>2 DEF InstallRevocations
    <2>3. ASSUME NEW n \in Mediator, Die(n) PROVE revs[m] \subseteq revs'[m]
      BY <2>0, <2>3 DEF Die
    <2>4. CASE PlaneStep
      BY <2>1, <2>4 DEF PlaneStep, Issue, RevokeConnection, Quarantine, Publish, Abandon, Restart,
                        ClearQuarantine, Readmit, RotateKey, RetireKey, Lapse, RecordAck, mediators
    <2>5. ASSUME NEW n \in Mediator, MediatorStep(n) PROVE revs[m] \subseteq revs'[m]
      BY <2>1, <2>2, <2>3, <2>5 DEF MediatorStep, Boot, FetchSet, RefreshKeys, FetchRevocations,
                                    BootRevocations, NoRevocations, SendAck
    <2> QED BY <2>4, <2>5 DEF CutsNext
  <1> QED BY <1>1, TypesInductive, PTL DEF CutsSpec, NeverUnrevoked

\* With one key for the life of the estate every entry verifies everywhere.
OneKey ==
    /\ \A k \in Kid : ring[k] \in {"Out", "Active"}
    /\ \A i \in 1..Len(feed) : feed[i].kid \in Published
    /\ \A m \in Mediator : stage[m] # "down" => keys[m] = Published
\* The entries behind a cursor are on the list.
Covered == \A m \in Mediator : \A i \in 1..cursor[m] : feed[i].target \in revs[m]
KeyInv == Types /\ OneKey /\ Covered

\* The control plane only appends, under the one key.
LEMMA PlaneKeepsKeys ==
    ASSUME ~Rotations, KeyInv, PlaneStep
    PROVE  OneKey' /\ Covered'
  <1> USE DEF KeyInv
  <1>1. CASE UNCHANGED <<feed, ring, mediators>>
    BY <1>1 DEF OneKey, Covered, Published, mediators
  <1>2. ASSUME NEW t \in Thread, Publish(t) PROVE OneKey' /\ Covered'
    <2> PICK x \in call[t], k \in Kid :
            /\ ring[k] = "Active"
            /\ feed' = Append(feed, [target |-> x, kid |-> k])
      BY <1>2 DEF Publish
    <2>0. feed \in Seq([target : Target, kid : Kid])
      BY DEF Types, PlaneTypes
    <2>1. /\ Len(feed) \in Nat
          /\ Len(feed') = Len(feed) + 1
          /\ feed'[Len(feed) + 1] = [target |-> x, kid |-> k]
          /\ \A i \in 1..Len(feed) : feed'[i] = feed[i]
      BY <2>0
    <2>2. UNCHANGED <<ring, mediators>>
      BY <1>2 DEF Publish
    <2>3. k \in Published /\ Published' = Published
      BY <2>2 DEF Published
    <2>4. \A i \in 1..Len(feed') : feed'[i].kid \in Published
      <3> SUFFICES ASSUME NEW i \in 1..Len(feed') PROVE feed'[i].kid \in Published
        OBVIOUS
      <3>1. CASE i = Len(feed) + 1
        BY <3>1, <2>1, <2>3
      <3>2. CASE i \in 1..Len(feed)
        BY <3>2, <2>1 DEF OneKey
      <3> QED BY <3>1, <3>2, <2>1
    <2>5. OneKey'
      BY <2>2, <2>3, <2>4 DEF OneKey, mediators
    <2>6. \A m \in Mediator : cursor[m] \in Nat /\ cursor[m] <= Len(feed)
      BY DEF Types, MediatorTypes
    <2>7. \A m \in Mediator : \A i \in 1..cursor[m] : feed'[i] = feed[i]
      BY <2>1, <2>6
    <2> QED BY <2>2, <2>5, <2>7 DEF Covered, mediators
  <1>3. \A k \in Kid : ~RotateKey(k) /\ ~RetireKey(k)
    BY DEF RotateKey, RetireKey, OneKey
  <1> QED BY <1>1, <1>2, <1>3
          DEF PlaneStep, Issue, RevokeConnection, Quarantine, Abandon, Restart, ClearQuarantine,
              Readmit, Lapse, RecordAck

\* A pull with the one key applies the whole feed.
LEMMA PullApplies ==
    ASSUME KeyInv, NEW m \in Mediator, stage[m] # "down", NEW n \in Nat, n <= Len(feed),
           InstallRevocations(m, n)
    PROVE  /\ Applied(keys[m], n) = Len(feed)
           /\ \A i \in (n + 1)..Len(feed) : feed[i].target \in revs'[m]
           /\ \A l \in Mediator : revs[l] \subseteq revs'[l]
  <1>1. Len(feed) \in Nat /\ revs \in [Mediator -> SUBSET Target]
    BY DEF KeyInv, Types, PlaneTypes, MediatorTypes
  <1>2. \A i \in 1..Len(feed) : feed[i].kid \in keys[m]
    BY DEF KeyInv, OneKey
  <1>3. Applied(keys[m], n) = Len(feed)
    BY <1>1, <1>2, AppliedBounds
  <1>4. Contiguous(keys[m], n)
    BY <1>1, <1>3 DEF Contiguous
  <1>5. revs' = [revs EXCEPT ![m] = @ \cup {feed[i].target : i \in (n + 1)..Len(feed)}]
    BY <1>3, <1>4 DEF InstallRevocations
  <1> QED BY <1>1, <1>3, <1>5

LEMMA MediatorKeepsKeys ==
    ASSUME KeyInv, NEW m \in Mediator, MediatorStep(m)
    PROVE  OneKey' /\ Covered'
  <1> USE DEF KeyInv
  <1>0. /\ Len(feed) \in Nat
        /\ cursor \in [Mediator -> Nat]
        /\ \A l \in Mediator : cursor[l] <= Len(feed)
        /\ revs \in [Mediator -> SUBSET Target]
        /\ keys \in [Mediator -> SUBSET Kid]
        /\ stage \in [Mediator -> Stage]
    BY DEF Types, PlaneTypes, MediatorTypes
  <1>1. UNCHANGED <<ring, feed>>
    BY DEF MediatorStep, Boot, FetchSet, RefreshKeys, FetchRevocations, BootRevocations,
           NoRevocations, SendAck, Die
  <1>2. Published' = Published
    BY <1>1 DEF Published
  <1>3. \A l \in Mediator : stage'[l] # "down" => keys'[l] = Published
    BY <1>0 DEF OneKey, MediatorStep, Boot, FetchSet, RefreshKeys, FetchRevocations,
                BootRevocations, NoRevocations, SendAck, Die
  <1>4. OneKey'
    BY <1>1, <1>2, <1>3 DEF OneKey
  <1>5. Covered'
    <2>1. CASE UNCHANGED <<revs, cursor>>
      BY <1>1, <2>1 DEF Covered
    <2>2. CASE FetchRevocations(m)
      <3>1. /\ Applied(keys[m], cursor[m]) = Len(feed)
            /\ \A i \in (cursor[m] + 1)..Len(feed) : feed[i].target \in revs'[m]
            /\ \A l \in Mediator : revs[l] \subseteq revs'[l]
        BY <2>2, <1>0, PullApplies DEF FetchRevocations
      <3>2. cursor' = [cursor EXCEPT ![m] = Len(feed)]
        BY <2>2, <3>1 DEF FetchRevocations
      <3> SUFFICES ASSUME NEW l \in Mediator, NEW i \in 1..cursor'[l]
                   PROVE  feed[i].target \in revs'[l]
        BY <1>1 DEF Covered
      <3>3. CASE i \in 1..cursor[l]
        BY <3>1, <3>3 DEF Covered
      <3>4. CASE i \notin 1..cursor[l]
        <4>1. l = m /\ i \in (cursor[m] + 1)..Len(feed)
          BY <3>2, <3>4, <1>0
        <4> QED BY <4>1, <3>1
      <3> QED BY <3>3, <3>4
    <2>3. CASE BootRevocations(m)
      <3>1. \A l \in Mediator : revs[l] \subseteq revs'[l]
        BY <2>3, <1>0, PullApplies DEF BootRevocations
      <3> QED BY <2>3, <3>1, <1>1 DEF BootRevocations, Covered
    <2>4. CASE Die(m)
      BY <2>4, <1>0, <1>1 DEF Die, Covered
    <2> QED BY <2>1, <2>2, <2>3, <2>4
            DEF MediatorStep, Boot, FetchSet, RefreshKeys, NoRevocations, SendAck
  <1> QED BY <1>4, <1>5

LEMMA KeysInductive == ASSUME ~Rotations PROVE CutsSpec => []KeyInv
  <1>1. CutsInit => KeyInv
    BY InitTypes DEF CutsInit, KeyInv, OneKey, Covered
  <1>2. KeyInv /\ [CutsNext]_cutVars => KeyInv'
    <2> SUFFICES ASSUME KeyInv, [CutsNext]_cutVars PROVE KeyInv'
      OBVIOUS
    <2>1. CASE UNCHANGED cutVars
      BY <2>1 DEF cutVars, planeVars, mediators, KeyInv, Types, PlaneTypes, LedgerTypes, MediatorTypes,
                  OneKey, Covered, Published
    <2>2. CASE CutsNext
      BY <2>2, PlaneKeepsTypes, MediatorKeepsTypes, PlaneKeepsKeys, MediatorKeepsKeys
         DEF CutsNext, KeyInv
    <2> QED BY <2>1, <2>2
  <1> QED BY <1>1, <1>2, PTL DEF CutsSpec

\* As long as the signing key is not rotated, a mediator has on its deny-list
\* every entry behind its cursor, through every crash and failed fetch
\* (client.rs, apply_revocations; connect-mediate.rs, rev_seq).
THEOREM CursorIsCovered == ASSUME ~Rotations PROVE CutsSpec => []CursorCovers
  <1>1. KeyInv => CursorCovers
    BY DEF KeyInv, Covered, CursorCovers
  <1> QED BY <1>1, KeysInductive, PTL

\* The deny-list is what holds: while requests run to their end and the key
\* stays, everything the register has cut is on the feed, and what is on the
\* feed up to a mediator's cursor is on its deny-list (api.rs, client.rs).
THEOREM FeedIsHeld == ASSUME ~Outages, ~Rotations PROVE CutsSpec => []FeedHolds
  <1>1. FeedBacks /\ CursorCovers => FeedHolds
    BY DEF FeedHolds
  <1> QED BY <1>1, FeedBacksRegister, CursorIsCovered, PTL
=============================================================================
