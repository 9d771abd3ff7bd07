---------------------------- MODULE Containment ----------------------------
(***************************************************************************)
(* How a cut made at the control plane reaches the mediators.              *)
(*                                                                         *)
(* A request thread (api.rs) revokes in the store, then records evidence,  *)
(* then appends to the signed revocation feed, each under its own mutex.   *)
(* Every mediator process (client.rs, connect-mediate.rs) pulls: the whole *)
(* contract set first, then the feed past its cursor, then it acknowledges *)
(* the set it installed.  The control plane keeps the highest              *)
(* acknowledgement of each mediator (dist.rs).  A contract is resolved     *)
(* (cache.rs) when it is in the installed set, the deny-list is trusted    *)
(* and names neither the contract nor one of its parties.                  *)
(*                                                                         *)
(* Signatures are reduced to the key that made them: an artifact or a feed *)
(* entry verifies at a mediator exactly when the mediator holds that key.  *)
(* The log sequence, the feed and the stored contracts are durable; the    *)
(* request threads and everything a mediator holds are not.  One process   *)
(* runs per mediator id.  The seven days a key is kept past the last exp   *)
(* it signed are left out.                                                 *)
(***************************************************************************)
EXTENDS Integers, Sequences, FiniteSets

CONSTANTS
    Mediator,    \* mediator ids
    Contract,    \* connection ids
    Party,       \* entities
    Ends,        \* Ends[c]: the caller and the callee of contract c
    Audience,    \* Audience[c]: the mediators contract c is minted for
    Kid,         \* ring key ids
    Thread,      \* request threads of the control plane
    MaxSeq,      \* bound on the state log
    Outages,     \* may a request, a mediator or the control plane fail midway
    Rotations,   \* may the ring key be rotated
    Retirements, \* may contracts expire and rotated-out keys be retired
    Clears       \* may a quarantine be lifted

ASSUME EndsAssumption == Ends \in [Contract -> SUBSET Party]
ASSUME AudienceAssumption == Audience \in [Contract -> SUBSET Mediator]
ASSUME MaxSeqAssumption == MaxSeq \in Nat
ASSUME FlagsAssumption == {Outages, Rotations, Retirements, Clears} \subseteq BOOLEAN

\* What a feed entry may name.  A jti is never put on the feed by a handler.
Target == Contract \cup Party
ASSUME TargetAssumption == Contract \cap Party = {}

\* A mediator that has never acknowledged.
NeverAcked == -1

VARIABLES
    status,      \* status[c]: "None" (not issued), "Active" or "Revoked"
    revokedAt,   \* revokedAt[c]: the log sequence of the first revocation of c
    artifact,    \* artifact[c]: the key that signed the artifact of c, if any
    lapsed,      \* the contracts whose exp has passed
    posture,     \* posture[p]: "Good", "Quarantined", "Pending"
    seq,         \* head of the state log
    feed,        \* the revocation feed: entries [target, kid]
    ring,        \* ring[k]: the lifecycle state of key k
    call,        \* call[t]: the targets thread t has stored and not published
    ledger,      \* ledger[m]: the latest acknowledgement of m
    acks,        \* acknowledgements on the wire
    stage,       \* stage[m]: where m is in its refresh
    set,         \* set[m]: the installed snapshot
    revs,        \* revs[m]: the targets on m's deny-list
    distrusted,  \* distrusted[m]: m's deny-list may not be relied on
    cursor,      \* cursor[m]: the feed sequence m asks from (rev_seq)
    keys         \* keys[m]: the keys m verifies against

planeVars == <<status, revokedAt, artifact, lapsed, posture, seq>>
mediators == <<stage, set, revs, distrusted, cursor, keys>>
cutVars == <<planeVars, feed, ring, call, ledger, acks, mediators>>

KeyState == {"Out", "Active", "Retiring", "Retired"}
\* The keys in the key set mediators pull.
Published == {k \in Kid : ring[k] \in {"Active", "Retiring"}}

AckOf(n) == [seq |-> n, rejected |-> 0]
Ack == [seq : Nat \cup {NeverAcked}, rejected : Nat]
Installed == [seq : Nat, cids : SUBSET Contract, rejected : SUBSET Contract]
NoSnapshot == [seq |-> 0, cids |-> {}, rejected |-> {}]

\* boot1 and boot2: the startup refresh, before the process serves.  Then the
\* loop: idle, set (a contract set installed), feed (the feed applied too).
Stage == {"down", "boot1", "boot2", "idle", "set", "feed"}
Serving(m) == stage[m] \in {"idle", "set", "feed"}

CutsTypeOK ==
    /\ status \in [Contract -> {"None", "Active", "Revoked"}]
    /\ revokedAt \in [Contract -> Nat]
    /\ artifact \in [Contract -> SUBSET Kid]
    /\ lapsed \subseteq Contract
    /\ posture \in [Party -> {"Good", "Quarantined", "Pending"}]
    /\ seq \in Nat
    /\ feed \in Seq([target : Target, kid : Kid])
    /\ ring \in [Kid -> KeyState]
    /\ call \in [Thread -> SUBSET Target]
    /\ ledger \in [Mediator -> Ack]
    /\ acks \subseteq [from : Mediator, ack : Ack]
    /\ stage \in [Mediator -> Stage]
    /\ set \in [Mediator -> Installed]
    /\ revs \in [Mediator -> SUBSET Target]
    /\ distrusted \in [Mediator -> BOOLEAN]
    /\ cursor \in [Mediator -> Nat]
    /\ keys \in [Mediator -> SUBSET Kid]

CutsInit ==
    /\ status = [c \in Contract |-> "None"]
    /\ revokedAt = [c \in Contract |-> 0]
    /\ artifact = [c \in Contract |-> {}]
    /\ lapsed = {}
    /\ posture = [p \in Party |-> "Good"]
    /\ seq = 0
    /\ feed = << >>
    /\ \E k \in Kid : ring = [j \in Kid |-> IF j = k THEN "Active" ELSE "Out"]
    /\ call = [t \in Thread |-> {}]
    /\ ledger = [m \in Mediator |-> AckOf(NeverAcked)]
    /\ acks = {}
    /\ stage = [m \in Mediator |-> "down"]
    /\ set = [m \in Mediator |-> NoSnapshot]
    /\ revs = [m \in Mediator |-> {}]
    /\ distrusted = [m \in Mediator |-> FALSE]
    /\ cursor = [m \in Mediator |-> 0]
    /\ keys = [m \in Mediator |-> {}]

-----------------------------------------------------------------------------
(***************************************************************************)
(* The control plane's writes.                                             *)
(***************************************************************************)
NextSeq == seq < MaxSeq /\ seq' = seq + 1

\* Issuance, reduced to what distribution sees of it: a record, and an
\* artifact signed by the key in use.
Issue(c) ==
    /\ status[c] = "None"
    /\ \A p \in Ends[c] : posture[p] = "Good"
    /\ NextSeq
    /\ status' = [status EXCEPT ![c] = "Active"]
    /\ artifact' = [artifact EXCEPT ![c] = {k \in Kid : ring[k] = "Active"}]
    /\ UNCHANGED <<revokedAt, lapsed, posture, feed, ring, call, ledger, acks, mediators>>

\* The projection of a revocation: only the first one sets the sequence.
RevokeAll(C) ==
    /\ NextSeq
    /\ status' = [c \in Contract |-> IF c \in C THEN "Revoked" ELSE status[c]]
    /\ revokedAt' = [c \in Contract |->
                        IF c \in C /\ status[c] # "Revoked" THEN seq + 1
                                                            ELSE revokedAt[c]]

\* The first half of revoke_connection: the store lock is taken and released.
\* Revoking again is allowed, and publishes again.
RevokeConnection(t, c) ==
    /\ call[t] = {}
    /\ status[c] # "None"
    /\ RevokeAll({c})
    /\ call' = [call EXCEPT ![t] = {c}]
    /\ UNCHANGED <<artifact, lapsed, posture, feed, ring, ledger, acks, mediators>>

Held(p) == {c \in Contract : status[c] # "None" /\ p \in Ends[c]}

\* Mutant: the handler as it was, revoking in the register and never
\* appending to the feed.
QuarantineUnlisted(t, p) ==
    /\ call[t] = {}
    /\ RevokeAll(Held(p))
    /\ posture' = [posture EXCEPT ![p] = "Quarantined"]
    /\ UNCHANGED <<artifact, lapsed, feed, ring, call, ledger, acks, mediators>>

\* Mutant: a party cut by suspending what it holds.
QuarantineSuspends(t, p) ==
    /\ call[t] = {}
    /\ NextSeq
    /\ status' = [c \in Contract |-> IF c \in Held(p) THEN "Suspended" ELSE status[c]]
    /\ posture' = [posture EXCEPT ![p] = "Quarantined"]
    /\ call' = [call EXCEPT ![t] = {p}]
    /\ UNCHANGED <<revokedAt, artifact, lapsed, feed, ring, ledger, acks, mediators>>

\* The first half of quarantine.
Quarantine(t, p) ==
    /\ call[t] = {}
    /\ RevokeAll(Held(p))
    /\ posture' = [posture EXCEPT ![p] = "Quarantined"]
    /\ call' = [call EXCEPT ![t] = {p}]
    /\ UNCHANGED <<artifact, lapsed, feed, ring, ledger, acks, mediators>>

\* The second half of both handlers: evidence recorded, then the entry is
\* signed, written, synced and only then held in memory.  The sequence of an
\* entry is its place in the feed.
Publish(t) ==
    \E x \in call[t], k \in Kid :
        /\ ring[k] = "Active"
        /\ feed' = Append(feed, [target |-> x, kid |-> k])
        /\ call' = [call EXCEPT ![t] = {}]
        /\ UNCHANGED <<planeVars, ring, ledger, acks, mediators>>

\* Recording evidence or appending failed: the handler answers with the error
\* and nothing takes the revocation back.
Abandon(t) ==
    /\ Outages
    /\ call[t] # {}
    /\ call' = [call EXCEPT ![t] = {}]
    /\ UNCHANGED <<planeVars, feed, ring, ledger, acks, mediators>>

\* The control plane dies and comes back: every request in flight is gone.
Restart ==
    /\ Outages
    /\ \E t \in Thread : call[t] # {}
    /\ call' = [t \in Thread |-> {}]
    /\ UNCHANGED <<planeVars, feed, ring, ledger, acks, mediators>>

\* Lifting a quarantine writes the store and the evidence, and nothing else.
ClearQuarantine(p) ==
    /\ Clears
    /\ posture[p] = "Quarantined"
    /\ NextSeq
    /\ posture' = [posture EXCEPT ![p] = "Pending"]
    /\ UNCHANGED <<status, revokedAt, artifact, lapsed, feed, ring, call, ledger, acks,
                   mediators>>

\* The admission a lifted party has to pass again.
Readmit(p) ==
    /\ posture[p] = "Pending"
    /\ NextSeq
    /\ posture' = [posture EXCEPT ![p] = "Good"]
    /\ UNCHANGED <<status, revokedAt, artifact, lapsed, feed, ring, call, ledger, acks,
                   mediators>>

\* rotate_to: a key that has not been retired becomes the one that signs, and
\* the one before it goes on verifying.  Rotating back is allowed.
RotateKey(k) ==
    /\ Rotations
    /\ ring[k] \in {"Out", "Retiring"}
    /\ ring' = [j \in Kid |-> CASE j = k -> "Active"
                                [] ring[j] = "Active" -> "Retiring"
                                [] OTHER -> ring[j]]
    /\ UNCHANGED <<planeVars, feed, call, ledger, acks, mediators>>

\* A contract reaches its exp.
Lapse(c) ==
    /\ Retirements
    /\ status[c] # "None"
    /\ c \notin lapsed
    /\ lapsed' = lapsed \cup {c}
    /\ UNCHANGED <<status, revokedAt, artifact, posture, seq, feed, ring, call, ledger,
                   acks, mediators>>

\* retire: what the key signed is known, and all of it has expired.  Only
\* contracts are counted.
Signed(k) == {c \in Contract : k \in artifact[c]}
RetireKey(k) ==
    /\ Retirements
    /\ ring[k] = "Retiring"
    /\ Signed(k) # {} /\ Signed(k) \subseteq lapsed
    /\ ring' = [ring EXCEPT ![k] = "Retired"]
    /\ UNCHANGED <<planeVars, feed, call, ledger, acks, mediators>>

-----------------------------------------------------------------------------
(***************************************************************************)
(* A mediator's refresh: set, feed, acknowledgement.                       *)
(***************************************************************************)
ContractSetFor(m) == {c \in Contract : /\ status[c] = "Active"
                                       /\ c \notin lapsed
                                       /\ m \in Audience[c]}

\* An artifact that does not verify is omitted, and the rest is kept.
Build(m, K) ==
    [seq |-> seq,
     cids |-> {c \in ContractSetFor(m) : artifact[c] \cap K # {}},
     rejected |-> {c \in ContractSetFor(m) : artifact[c] \cap K = {}}]

\* Startup loads the key set and makes the first refresh; a process that
\* cannot fetch the set exits again, which changes nothing here.
Boot(m) ==
    /\ stage[m] = "down"
    /\ keys' = [keys EXCEPT ![m] = Published]
    /\ set' = [set EXCEPT ![m] = Build(m, Published)]
    /\ stage' = [stage EXCEPT ![m] = "boot1"]
    /\ UNCHANGED <<planeVars, feed, ring, call, ledger, acks, revs, distrusted, cursor>>

\* Mutant: the new set added to the one already held.
FetchSetMerging(m) ==
    /\ stage[m] = "idle"
    /\ set' = [set EXCEPT ![m] = [Build(m, keys[m]) EXCEPT !.cids = @ \cup set[m].cids]]
    /\ stage' = [stage EXCEPT ![m] = "set"]
    /\ UNCHANGED <<planeVars, feed, ring, call, ledger, acks, revs, distrusted, cursor,
                   keys>>

\* A tick of the loop: the complete set is fetched, verified and installed.
\* A fetch that fails keeps the last set and ends the tick.
FetchSet(m) ==
    /\ stage[m] = "idle"
    /\ set' = [set EXCEPT ![m] = Build(m, keys[m])]
    /\ stage' = [stage EXCEPT ![m] = "set"]
    /\ UNCHANGED <<planeVars, feed, ring, call, ledger, acks, revs, distrusted, cursor,
                   keys>>

\* Mutant: the key set of startup, kept for the life of the process.
RefreshKeysNever(m) ==
    /\ stage[m] = "idle"
    /\ UNCHANGED cutVars

\* A tick that finds the key set past its TTL replaces it whole.
RefreshKeys(m) ==
    /\ stage[m] = "idle"
    /\ keys' = [keys EXCEPT ![m] = Published]
    /\ UNCHANGED <<planeVars, feed, ring, call, ledger, acks, stage, set, revs, distrusted,
                   cursor>>

\* apply_revocations on the entries after n: the last one applied is the one
\* before the first that does not verify.
Applied(K, n) ==
    n + Cardinality({i \in (n + 1)..Len(feed) :
                        \A j \in (n + 1)..i : feed[j].kid \in K})

\* A verified entry past one that did not verify is out of sequence.
Contiguous(K, n) == \A i \in (Applied(K, n) + 2)..Len(feed) : feed[i].kid \notin K

\* Mutant: the deny-list rebuilt from the entries that just arrived.
InstallRebuilding(m, n) ==
    LET k == Applied(keys[m], n) IN
    /\ revs' = [revs EXCEPT ![m] = {feed[i].target : i \in (n + 1)..k}]
    /\ distrusted' = [distrusted EXCEPT ![m] = k < Len(feed)]

\* Mutant: distrust that nothing clears.
InstallSticky(m, n) ==
    LET k == Applied(keys[m], n) IN
    /\ revs' = [revs EXCEPT ![m] = @ \cup {feed[i].target : i \in (n + 1)..k}]
    /\ distrusted' = [distrusted EXCEPT ![m] = @ \/ k < Len(feed)]

\* install_revocations: a delta with a hole is not installed at all, and the
\* list held is distrusted; any other is added, and is trusted when every
\* entry verified.
InstallRevocations(m, n) ==
    LET k == Applied(keys[m], n) IN
    /\ revs' = IF Contiguous(keys[m], n)
               THEN [revs EXCEPT ![m] = @ \cup {feed[i].target : i \in (n + 1)..k}]
               ELSE revs
    /\ distrusted' = [distrusted EXCEPT ![m] = k < Len(feed)]

\* Mutant: the sequence the feed was read from, one entry too far.
FetchRevocationsPast(m) ==
    /\ stage[m] = "set"
    /\ InstallRevocations(m, IF cursor[m] < Len(feed) THEN cursor[m] + 1 ELSE cursor[m])
    /\ cursor' = [cursor EXCEPT ![m] = Len(feed)]
    /\ stage' = [stage EXCEPT ![m] = "feed"]
    /\ UNCHANGED <<planeVars, feed, ring, call, ledger, acks, set, keys>>

\* The loop asks from its cursor and moves it to what the report applied,
\* whatever was installed.
FetchRevocations(m) ==
    /\ stage[m] = "set"
    /\ InstallRevocations(m, cursor[m])
    /\ cursor' = [cursor EXCEPT ![m] = Applied(keys[m], cursor[m])]
    /\ stage' = [stage EXCEPT ![m] = "feed"]
    /\ UNCHANGED <<planeVars, feed, ring, call, ledger, acks, set, keys>>

\* The startup refresh asks from 0, and the loop starts from 0 again.
BootRevocations(m) ==
    /\ stage[m] = "boot1"
    /\ InstallRevocations(m, 0)
    /\ stage' = [stage EXCEPT ![m] = "boot2"]
    /\ UNCHANGED <<planeVars, feed, ring, call, ledger, acks, set, cursor, keys>>

\* The feed could not be fetched: reported, not distrusted, and the refresh
\* goes on to its acknowledgement.
NoRevocations(m) ==
    /\ Outages
    /\ stage[m] \in {"boot1", "set"}
    /\ stage' = [stage EXCEPT ![m] = IF @ = "set" THEN "feed" ELSE "boot2"]
    /\ UNCHANGED <<planeVars, feed, ring, call, ledger, acks, set, revs, distrusted,
                   cursor, keys>>

\* Mutant: an acknowledgement of the head the plane is at, not of the set.
SendAckHead(m) ==
    /\ stage[m] \in {"boot2", "feed"}
    /\ acks' = acks \cup {[from |-> m, ack |-> AckOf(seq)]}
    /\ stage' = [stage EXCEPT ![m] = "idle"]
    /\ UNCHANGED <<planeVars, feed, ring, call, ledger, set, revs, distrusted, cursor, keys>>

\* The acknowledgement carries the sequence of the set, and no count of the
\* artifacts that did not verify.  It may arrive late, or never.
SendAck(m) ==
    /\ stage[m] \in {"boot2", "feed"}
    /\ acks' = acks \cup {[from |-> m, ack |-> AckOf(set[m].seq)]}
    /\ stage' = [stage EXCEPT ![m] = "idle"]
    /\ UNCHANGED <<planeVars, feed, ring, call, ledger, set, revs, distrusted, cursor, keys>>

\* Mutant: the last acknowledgement to arrive wins.
RecordAckLatest(a) ==
    /\ acks' = acks \ {a}
    /\ ledger' = [ledger EXCEPT ![a.from] = a.ack]
    /\ UNCHANGED <<planeVars, feed, ring, call, mediators>>

\* record_ack: an older sequence than the one held is dropped.
RecordAck(a) ==
    /\ acks' = acks \ {a}
    /\ ledger' = [ledger EXCEPT ![a.from] = IF @.seq > a.ack.seq THEN @ ELSE a.ack]
    /\ UNCHANGED <<planeVars, feed, ring, call, mediators>>

\* A mediator process ends with everything it held.  One that ends in order
\* reports its usage first, in an acknowledgement of sequence 0: the sequence
\* of a snapshot is never filled in.
Die(m) ==
    /\ Outages
    /\ stage[m] # "down"
    /\ acks' \in {acks} \cup IF Serving(m) THEN {acks \cup {[from |-> m, ack |-> AckOf(0)]}}
                                          ELSE {}
    /\ stage' = [stage EXCEPT ![m] = "down"]
    /\ set' = [set EXCEPT ![m] = NoSnapshot]
    /\ revs' = [revs EXCEPT ![m] = {}]
    /\ distrusted' = [distrusted EXCEPT ![m] = FALSE]
    /\ cursor' = [cursor EXCEPT ![m] = 0]
    /\ keys' = [keys EXCEPT ![m] = {}]
    /\ UNCHANGED <<planeVars, feed, ring, call, ledger>>

-----------------------------------------------------------------------------
PlaneStep ==
    \/ \E c \in Contract : Issue(c)
    \/ \E t \in Thread :
        \/ \E c \in Contract : RevokeConnection(t, c)
        \/ \E p \in Party : Quarantine(t, p)
        \/ Publish(t)
        \/ Abandon(t)
    \/ Restart
    \/ \E p \in Party : ClearQuarantine(p) \/ Readmit(p)
    \/ \E k \in Kid : RotateKey(k) \/ RetireKey(k)
    \/ \E c \in Contract : Lapse(c)
    \/ \E a \in acks : RecordAck(a)

MediatorStep(m) ==
    \/ Boot(m)
    \/ FetchSet(m)
    \/ RefreshKeys(m)
    \/ FetchRevocations(m)
    \/ BootRevocations(m)
    \/ NoRevocations(m)
    \/ SendAck(m)
    \/ Die(m)

CutsNext == PlaneStep \/ \E m \in Mediator : MediatorStep(m)

CutsSpec == CutsInit /\ [][CutsNext]_cutVars

\* The refresh loop comes round and, again and again, gets through to the
\* control plane; its key set is re-read when it is past its TTL; a request
\* thread that is not interrupted runs to its end.
CutsFairness ==
    /\ \A m \in Mediator :
        /\ SF_cutVars(FetchSet(m))
        /\ SF_cutVars(FetchRevocations(m))
        /\ SF_cutVars(RefreshKeys(m))
        /\ WF_cutVars(BootRevocations(m))
        /\ WF_cutVars(SendAck(m))
    /\ \A t \in Thread : WF_cutVars(Publish(t))

CutsFairSpec == CutsSpec /\ CutsFairness

-----------------------------------------------------------------------------
(***************************************************************************)
(* Properties.                                                             *)
(***************************************************************************)
\* Cache::resolve: in the installed set, under a trusted deny-list that names
\* neither the contract nor a party to it.
Resolves(m, c) ==
    /\ Serving(m)
    /\ c \in set[m].cids
    /\ ~distrusted[m]
    /\ ({c} \cup Ends[c]) \cap revs[m] = {}

\* A cut is confirmed by the acknowledgement of a set built at or after it
\* (dist.rs, Lag::caught_up): a mediator whose recorded acknowledgement has
\* reached the sequence of a revocation never resolves that contract again,
\* across late and reordered acknowledgements and restarts.
ConfirmedCut ==
    \A m \in Mediator, c \in Contract :
        status[c] = "Revoked" /\ ledger[m].seq >= revokedAt[c] => ~Resolves(m, c)

\* The ledger only moves forward (dist.rs, SetAckLedger::record).
LedgerMonotone ==
    [][\A m \in Mediator : ledger'[m].seq >= ledger[m].seq]_cutVars

\* The deny-list is cumulative (client.rs, apply_revocations): while a
\* process runs, nothing it lists is taken off, whatever it fetches.
NeverUnrevoked ==
    [][\A m \in Mediator : stage'[m] # "down" => revs[m] \subseteq revs'[m]]_cutVars

\* A mediator that trusts its deny-list has every entry of the feed up to its
\* cursor on it (client.rs: the cursor stops at a hole so that a mediator is
\* never taken for current when it has missed a cut).
CursorCovers ==
    \A m \in Mediator : ~distrusted[m] =>
        \A i \in 1..cursor[m] : i <= Len(feed) => feed[i].target \in revs[m]

\* With no request in flight, the feed names everything the register has cut
\* (api.rs: the deny-list is what holds regardless): a revoked contract or one
\* of its parties, and a quarantined party.
Listed == {feed[i].target : i \in 1..Len(feed)}
FeedBacks ==
    (\A t \in Thread : call[t] = {}) =>
        /\ \A c \in Contract :
            status[c] = "Revoked" => ({c} \cup Ends[c]) \cap Listed # {}
        /\ \A p \in Party : posture[p] = "Quarantined" => p \in Listed

\* What the feed is for: nothing that was cut is missing from it, and nothing up
\* to a cursor is missing from the deny-list of a mediator that trusts it,
\* although request threads cut, expire and clear at once (api.rs, client.rs).
FeedHolds == FeedBacks /\ CursorCovers

\* A cut arrives: a revoked contract is, from some time on, resolved by no
\* mediator, whether or not its entry ever reached the feed.
CutArrives ==
    \A m \in Mediator, c \in Contract :
        status[c] = "Revoked" ~> [](~Resolves(m, c))

\* An entry of the feed no mediator can verify any more: the key that signed it
\* was retired on the contracts' account alone.
Orphaned == \E i \in 1..Len(feed) : ring[feed[i].kid] = "Retired"

\* A deny-list distrusted for an entry signed by a key the mediator did not
\* yet hold is trusted again (cache.rs, Revocations::distrust), unless that key
\* has been retired.
TrustReturns == \A m \in Mediator : distrusted[m] ~> ~distrusted[m] \/ Orphaned

\* A contract that stays active, neither it nor a party of it listed, is resolved
\* by the mediators it was minted for, again and again, as long as they run and
\* the feed can be verified.
StandingResolves ==
    \A c \in Contract : \A m \in Audience[c] :
        <>[](/\ status[c] = "Active" /\ c \notin lapsed /\ Serving(m)
             /\ ({c} \cup Ends[c]) \cap Listed = {} /\ ~Orphaned)
          => []<>Resolves(m, c)

\* Containment does not outlast its reason: trust in a deny-list returns, and what
\* was not cut goes on being resolved (cache.rs).
ServiceRecovers == TrustReturns /\ StandingResolves
=============================================================================
