----------------------------- MODULE KeyProofs -----------------------------
(***************************************************************************)
(* A withdrawn key goes out of use in time, for any keys, mediators, TTL   *)
(* and bounds (jwks.rs); a ring has one signing key (keys.rs); and the     *)
(* keys of two roles are apart (custody.rs, signer.rs).  A mediator's      *)
(* process serves whole (connect-mediate.rs), a shared signal stays in its *)
(* transmitter's scope (caep.rs), a federated party is not impersonated    *)
(* (federation.rs), and a call that a proxy's worker forwards is governed  *)
(* by one contract (wc-gateway).                                           *)
(*                                                                         *)
(* That what a mediator verifies with was published recently is not        *)
(* inductive: it rests on what the cached copy holds, and the copy on what *)
(* was published when it was loaded.  Custody rests on what a command      *)
(* checked before its first signature, of every signature it has still to  *)
(* make.  That a process leaves nothing behind rests on who may hold a     *)
(* recorded use at each of its stages; that a token is not obeyed twice,   *)
(* on the memory being the end of what was done.  That a forwarded call    *)
(* is governed rests on the pin ledger saying what the last surface judged *)
(* said, and on a set that counts as fresh knowing every older cut.        *)
(***************************************************************************)
EXTENDS KeyLife, Custody, Process, Signals, Federation, Gateway, FiniteSetTheorems,
        WellFoundedInduction, TLAPS

KeyTypes ==
    /\ keyState \in [LKid -> {"Out", "Active", "Retiring", "Retired"}]
    /\ published \subseteq LKid
    /\ lastOut \in [LKid -> Int]
    /\ cached \in [LMediator -> [keys : SUBSET LKid, at : Int]]
    /\ verifying \in [LMediator -> SUBSET LKid]
    /\ askedAt \in [LMediator -> Int]
    /\ keyClock \in Nat

\* The history is true: what is published is out now, and nothing was out later.
HistoryTrue ==
    /\ \A k \in LKid : lastOut[k] <= keyClock
    /\ \A k \in published : lastOut[k] = keyClock

\* A cached key was in the published set when the copy was made, or later.
CopyTrue == \A m \in LMediator : \A k \in cached[m].keys : lastOut[k] >= cached[m].at

KeyInv == KeyTypes /\ HistoryTrue /\ CopyTrue /\ WithdrawnInTime

\* The clock and the published set only move lastOut forward: every step but a
\* question leaves the copies and the answers alone and keeps what is known of
\* them (keys jwks, and the passing of time).
LEMMA HistoryForward ==
    ASSUME MaxStale \in Nat, KeyInv,
           lastOut' \in [LKid -> Int],
           \A k \in LKid : lastOut'[k] >= lastOut[k],
           UNCHANGED <<cached, verifying, askedAt>>
    PROVE  CopyTrue' /\ WithdrawnInTime'
<1>1. CopyTrue'
  <2> SUFFICES ASSUME NEW m \in LMediator, NEW k \in cached[m].keys
               PROVE  lastOut'[k] >= cached[m].at
    BY DEF CopyTrue
  <2>1. k \in LKid /\ cached[m].at \in Int /\ lastOut[k] >= cached[m].at
    BY DEF KeyInv, KeyTypes, CopyTrue
  <2> QED
    BY <2>1 DEF KeyInv, KeyTypes
<1>2. WithdrawnInTime'
  <2> SUFFICES ASSUME NEW m \in LMediator, NEW k \in verifying[m]
               PROVE  lastOut'[k] >= askedAt[m] - MaxStale
    BY DEF WithdrawnInTime
  <2>1. k \in LKid /\ askedAt[m] \in Int /\ lastOut[k] >= askedAt[m] - MaxStale
    BY DEF KeyInv, KeyTypes, WithdrawnInTime
  <2> QED
    BY <2>1 DEF KeyInv, KeyTypes
<1> QED
  BY <1>1, <1>2

\* The commands on the ring (add, rotate, note, retire) and a mint change neither
\* the published set nor any copy of it (keys.rs).
LEMMA RingStep ==
    ASSUME MaxStale \in Nat, KeyInv,
           keyState' \in [LKid -> {"Out", "Active", "Retiring", "Retired"}],
           UNCHANGED <<published, lastOut, cached, verifying, askedAt, keyClock>>
    PROVE  KeyInv'
  BY DEF KeyInv, KeyTypes, HistoryTrue, CopyTrue, WithdrawnInTime

\* Publishing the ring's key set (keys jwks).
LEMMA PublishStep ==
    ASSUME MaxStale \in Nat, KeyInv, PublishKeys
    PROVE  KeyInv'
<1>1. published' \subseteq LKid
  BY DEF PublishKeys, Verifying
<1>2. KeyTypes'
  BY <1>1 DEF KeyInv, KeyTypes, PublishKeys, Seen, ringVars
<1>3. HistoryTrue'
  BY <1>1 DEF KeyInv, KeyTypes, HistoryTrue, PublishKeys, Seen
<1>4. \A k \in LKid : lastOut'[k] >= lastOut[k]
  BY DEF KeyInv, KeyTypes, HistoryTrue, PublishKeys, Seen
<1>5. CopyTrue' /\ WithdrawnInTime'
  BY <1>2, <1>4, HistoryForward DEF KeyTypes, PublishKeys
<1> QED
  BY <1>2, <1>3, <1>5 DEF KeyInv

\* A second passes.
LEMMA SecondStep ==
    ASSUME MaxStale \in Nat, KeyInv, KeySecond
    PROVE  KeyInv'
<1>1. KeyTypes'
  BY DEF KeyInv, KeyTypes, KeySecond, Seen, ringVars
<1>2. HistoryTrue'
  BY DEF KeyInv, KeyTypes, HistoryTrue, KeySecond, Seen
<1>3. \A k \in LKid : lastOut'[k] >= lastOut[k]
  BY DEF KeyInv, KeyTypes, HistoryTrue, KeySecond, Seen
<1>4. CopyTrue' /\ WithdrawnInTime'
  BY <1>1, <1>3, HistoryForward DEF KeyTypes, KeySecond
<1> QED
  BY <1>1, <1>2, <1>4 DEF KeyInv

\* A question: the copy is replaced by what is published now or is left, and is
\* served only within the bound (jwks.rs refresh and keys).
LEMMA AskStep ==
    ASSUME MaxStale \in Nat, KeyInv,
           NEW m \in LMediator, NEW up \in BOOLEAN, AskKeys(m, up)
    PROVE  KeyInv'
<1>1. /\ cached'[m] \in [keys : SUBSET LKid, at : Int]
      /\ cached'[m] = cached[m] \/ cached'[m] = [keys |-> published, at |-> keyClock]
  BY DEF KeyInv, KeyTypes, AskKeys, Refresh, Load
<1>2. KeyTypes'
  <2>1. cached' \in [LMediator -> [keys : SUBSET LKid, at : Int]]
    BY <1>1 DEF KeyInv, KeyTypes, AskKeys
  <2>2. verifying' \in [LMediator -> SUBSET LKid]
    BY <1>1 DEF KeyInv, KeyTypes, AskKeys
  <2> QED
    BY <2>1, <2>2 DEF KeyInv, KeyTypes, AskKeys, ringVars
<1>3. HistoryTrue'
  BY DEF KeyInv, HistoryTrue, AskKeys
<1>4. \A k \in cached'[m].keys : lastOut[k] >= cached'[m].at
  BY <1>1 DEF KeyInv, KeyTypes, HistoryTrue, CopyTrue
<1>5. CopyTrue'
  BY <1>4 DEF KeyInv, KeyTypes, CopyTrue, AskKeys
<1>6. WithdrawnInTime'
  <2> SUFFICES ASSUME NEW n \in LMediator, NEW k \in verifying'[n]
               PROVE  lastOut[k] >= askedAt'[n] - MaxStale
    BY DEF WithdrawnInTime, AskKeys
  <2>1. CASE n # m
    BY <2>1 DEF KeyInv, KeyTypes, WithdrawnInTime, AskKeys
  <2>2. CASE n = m
    <3>1. /\ askedAt'[m] = keyClock
          /\ k \in cached'[m].keys /\ keyClock - cached'[m].at <= MaxStale
      BY <2>2 DEF KeyInv, KeyTypes, AskKeys
    <3>2. k \in LKid /\ cached'[m].at \in Int
      BY <3>1, <1>1
    <3>3. lastOut[k] >= cached'[m].at
      BY <3>1, <1>4
    <3> QED
      BY <2>2, <3>1, <3>2, <3>3 DEF KeyInv, KeyTypes
  <2> QED
    BY <2>1, <2>2
<1> QED
  BY <1>2, <1>3, <1>5, <1>6 DEF KeyInv

LEMMA KeyInvStep ==
    ASSUME MaxStale \in Nat, KeyInv, [KeyNext]_keyVars
    PROVE  KeyInv'
<1>1. ASSUME NEW k \in LKid, AddKey(k) \/ RotateTo(k) \/ RetireKey2(k)
      PROVE  KeyInv'
  BY <1>1, RingStep DEF KeyInv, KeyTypes, AddKey, RotateTo, RetireKey2
<1>2. ASSUME NEW k \in LKid, NEW exp \in 0 .. LMaxExp, NoteSigned(k, exp) \/ Sign(k, exp)
      PROVE  KeyInv'
  BY <1>2, RingStep DEF KeyInv, KeyTypes, NoteSigned, Sign
<1>3. CASE UNCHANGED keyVars
  BY <1>3, RingStep DEF KeyInv, KeyTypes, keyVars
<1> QED
  BY <1>1, <1>2, <1>3, PublishStep, SecondStep, AskStep DEF KeyNext

\* What a mediator verifies with was in the published set no longer than MaxStale
\* before it last asked, for any number of keys and mediators, any TTL and bound,
\* and however long the key server is down (jwks.rs load, refresh, keys).
THEOREM WithdrawnGoes ==
    ASSUME MaxStale \in Nat
    PROVE  KeySpec => []WithdrawnInTime
<1>1. KeyInit => KeyInv
  BY DEF KeyInit, KeyInv, KeyTypes, HistoryTrue, CopyTrue, WithdrawnInTime,
         NotLoaded, Unknown
<1>2. KeyInv /\ [KeyNext]_keyVars => KeyInv'
  BY KeyInvStep
<1>3. KeyInv => WithdrawnInTime
  BY DEF KeyInv
<1> QED
  BY <1>1, <1>2, <1>3, PTL DEF KeySpec

\* Once the ring has a key, exactly one key signs.
OneSigner ==
    (\E k \in LKid : keyState[k] # "Out") =>
        \E k \in LKid : /\ keyState[k] = "Active"
                       /\ \A j \in LKid : keyState[j] = "Active" => j = k

RingInv == OneSigner /\ keyState \in [LKid -> {"Out", "Active", "Retiring", "Retired"}]

\* A ring that has a key always has exactly one that signs: it is neither left
\* without one by a retirement nor given two by adding or rotating, for any keys
\* (keys.rs add, rotate_to, retire).
THEOREM RingHasOneSigner == KeySpec => []OneSigner
<1>1. KeyInit => RingInv
  BY DEF KeyInit, RingInv, OneSigner
<1>2. RingInv /\ [KeyNext]_keyVars => RingInv'
  <2> SUFFICES ASSUME RingInv, [KeyNext]_keyVars PROVE RingInv'
    OBVIOUS
  <2>1. ASSUME NEW k \in LKid, AddKey(k) PROVE RingInv'
    BY <2>1 DEF RingInv, OneSigner, AddKey
  <2>2. ASSUME NEW k \in LKid, RotateTo(k) PROVE RingInv'
    BY <2>2 DEF RingInv, OneSigner, RotateTo
  <2>3. ASSUME NEW k \in LKid, RetireKey2(k) PROVE RingInv'
    BY <2>3 DEF RingInv, OneSigner, RetireKey2
  <2>4. ASSUME UNCHANGED keyState PROVE RingInv'
    BY <2>4 DEF RingInv, OneSigner
  <2>5. ASSUME NEW k \in LKid, NEW exp \in 0 .. LMaxExp, NoteSigned(k, exp) \/ Sign(k, exp)
        PROVE  RingInv'
    BY <2>4, <2>5 DEF NoteSigned, Sign
  <2>6. CASE PublishKeys \/ KeySecond \/ UNCHANGED keyVars
    BY <2>4, <2>6 DEF PublishKeys, KeySecond, keyVars, ringVars
  <2>7. ASSUME NEW m \in LMediator, NEW up \in BOOLEAN, AskKeys(m, up)
        PROVE  RingInv'
    BY <2>4, <2>7 DEF AskKeys, ringVars
  <2> QED
    BY <2>1, <2>2, <2>3, <2>5, <2>6, <2>7 DEF KeyNext
<1>3. RingInv => OneSigner
  BY DEF RingInv
<1> QED
  BY <1>1, <1>2, <1>3, PTL DEF KeySpec

---------------------------------------------------------------------------
(* Custody.                                                                *)

Material == {KeyFile[f].key : f \in DOMAIN KeyFile} \cup {KeyHelper[c] : c \in DOMAIN KeyHelper}
Uses == [role : {"approver", "revoke-online", "revoke-offline", "card"},
         who : Human \cup Kid \cup {None}, req : Request, key : Material,
         theirs : SUBSET Request, meant : BOOLEAN]

\* What the running command has signed with and is still going to sign with.
Planned == {todo[n] : n \in 1 .. Len(todo)} \cup signed

\* What one use of a key and what two of them satisfy.
Kept(u) ==
    /\ external => u.req.pem = None \/ u.role = "card"
    /\ u.role = "revoke-offline" => u.meant
    /\ u.role = "approver" => \A r \in u.theirs : KeyOf(r) = u.key => Reencoded(r, u.req)
Apart(u, v) ==
    u.role = "approver" /\ v.role = "approver" /\ u.who # v.who /\ u.key = v.key
        => Reencoded(u.req, v.req)

CustodyInv ==
    /\ external \in BOOLEAN
    /\ service \in [issuer : Asked, anchor : Asked]
    /\ todo \in Seq(Uses)
    /\ \A u \in Planned : Kept(u)
    /\ \A u, v \in Planned : Apart(u, v)
    /\ \A pair \in approved : pair \subseteq {u \in signed : u.role = "approver"}
    /\ helper # "idle" => todo # <<>>

\* A key behind a helper is in no file and behind no other helper: nothing on this
\* host could compare it.
HelpersApart ==
    \A c \in DOMAIN KeyHelper :
        /\ \A f \in DOMAIN KeyFile : KeyHelper[c] # KeyFile[f].key
        /\ \A d \in DOMAIN KeyHelper : c # d => KeyHelper[c] # KeyHelper[d]

\* One key in one encoding has one fingerprint, wherever it was read from.
LEMMA OneFingerprint ==
    ASSUME HelpersApart, NEW r \in Request, NEW s \in Request,
           Fingerprint(r) # <<>>, Fingerprint(s) # <<>>, KeyOf(r) = KeyOf(s),
           ~ Reencoded(r, s)
    PROVE  Fingerprint(r) = Fingerprint(s)
<1>1. CASE r.command # None
  <2>1. s.command # None
    BY <1>1 DEF HelpersApart, Request, Fingerprint, KeyOf
  <2>2. r.command = s.command
    BY <1>1, <2>1 DEF HelpersApart, Request, KeyOf
  <2> QED
    BY <1>1, <2>1, <2>2 DEF Fingerprint
<1>2. CASE r.command = None
  <2>1. s.command = None
    BY <1>2 DEF HelpersApart, Request, Fingerprint, KeyOf
  <2> QED
    BY <1>2, <2>1 DEF Fingerprint, Reencoded
<1> QED
  BY <1>1, <1>2

\* A request that resolves names a key of this estate, and under external signing
\* none in a file (resolve).
LEMMA ResolvedKey ==
    ASSUME NEW req \in Request, NEW role, role # "benchmark", Resolves(role, req)
    PROVE  /\ KeyOf(req) \in Material
           /\ Fingerprint(req) # <<>>
           /\ external => req.pem = None
<1>1. KeyOf(req) \in Material
  BY DEF Resolves, KeyOf, Request, Material
<1>2. Fingerprint(req) # <<>>
  BY DEF Resolves, Fingerprint
<1>3. external => req.pem = None
  BY DEF Resolves, HonoursExternal
<1> QED
  BY <1>1, <1>2, <1>3

LEMMA UseTyped ==
    ASSUME NEW role \in {"approver", "revoke-online", "revoke-offline", "card"},
           NEW who \in Human \cup Kid \cup {None}, NEW req \in Request,
           KeyOf(req) \in Material, NEW theirs \in SUBSET Request, NEW meant \in BOOLEAN
    PROVE  Use(role, who, req, theirs, meant) \in Uses
  BY DEF Use, Uses

\* Less planned is still apart.
LEMMA PlanShrinks ==
    ASSUME CustodyInv, todo' \in Seq(Uses), Planned' \subseteq Planned,
           UNCHANGED <<external, service>>,
           \A pair \in approved' : pair \subseteq {u \in signed' : u.role = "approver"},
           helper' # "idle" => todo' # <<>>
    PROVE  CustodyInv'
<1>1. \A u : Kept(u)' <=> Kept(u)
  BY DEF Kept
<1>2. \A u, v : Apart(u, v)' <=> Apart(u, v)
  BY DEF Apart
<1> QED
  BY <1>1, <1>2 DEF CustodyInv

\* The next signature is made (sign).
LEMMA SignStep ==
    ASSUME CustodyInv, todo # <<>>, SignedNow(Head(todo)), helper' = "idle",
           UNCHANGED <<external, service>>
    PROVE  CustodyInv'
<1>1. /\ Len(todo) \in Nat \ {0} /\ Head(todo) = todo[1]
      /\ todo' \in Seq(Uses) /\ Len(todo') = Len(todo) - 1
      /\ \A n \in 1 .. Len(todo') : todo'[n] = todo[n + 1]
  BY DEF CustodyInv, SignedNow
<1>2. signed' = signed \cup {todo[1]}
  BY <1>1 DEF SignedNow
<1>3. ASSUME NEW u \in Planned' PROVE u \in Planned
  <2>1. CASE u \in signed'
    BY <1>1, <1>2, <2>1 DEF Planned
  <2>2. CASE \E n \in 1 .. Len(todo') : u = todo'[n]
    <3>1. PICK n \in 1 .. Len(todo') : u = todo'[n]
      BY <2>2
    <3>2. n + 1 \in 1 .. Len(todo) /\ u = todo[n + 1]
      BY <1>1, <3>1
    <3> QED
      BY <3>2 DEF Planned
  <2> QED
    BY <1>3, <2>1, <2>2 DEF Planned
<1>4. \A pair \in approved' : pair \subseteq {u \in signed' : u.role = "approver"}
  BY <1>1, <1>2 DEF CustodyInv, SignedNow
<1> QED
  BY <1>1, <1>3, <1>4, PlanShrinks

\* A command starts, with nothing signed, on uses that are apart.
LEMMA BeginStep ==
    ASSUME CustodyInv, signed = {}, NEW uses \in Seq(Uses), Begin(uses),
           \A n \in 1 .. Len(uses) : Kept(uses[n]),
           \A n, m \in 1 .. Len(uses) : Apart(uses[n], uses[m])
    PROVE  CustodyInv'
<1>1. /\ todo' = uses /\ signed' = {} /\ helper' = "idle"
      /\ UNCHANGED <<external, service, approved>>
  BY DEF Begin
<1>2. Planned' = {uses[n] : n \in 1 .. Len(uses)}
  BY <1>1 DEF Planned
<1>3. \A u : Kept(u)' <=> Kept(u)
  BY <1>1 DEF Kept
<1>4. \A u, v : Apart(u, v)' <=> Apart(u, v)
  BY DEF Apart
<1>5. \A u \in Planned' : Kept(u)'
  BY <1>2, <1>3
<1>6. \A u, v \in Planned' : Apart(u, v)'
  BY <1>2, <1>4
<1> QED
  BY <1>1, <1>5, <1>6 DEF CustodyInv

\* approve and breakglass.
LEMMA ApproveStep ==
    ASSUME HelpersApart, CustodyInv, signed = {},
           NEW by, NEW first \in Human, NEW second \in Human \cup {None},
           NEW req1 \in Asked, NEW req2 \in Asked,
           ApproveWith(by, first, second, req1, req2)
    PROVE  CustodyInv'
<1> DEFINE one == [role |-> "approver", label |-> first, req |-> req1]
           two == [role |-> "approver", label |-> second, req |-> req2]
           pair == IF second = None THEN <<one>> ELSE <<one, two>>
           asked == ServiceKeys \o pair
           theirs == {x \in {service.issuer, service.anchor} : Fingerprint(x) # <<>>}
           uses == [n \in DOMAIN pair |->
                      Use("approver", pair[n].label, pair[n].req, theirs, FALSE)]
<1>1. /\ Separate(asked) /\ Begin(uses)
      /\ \A n \in DOMAIN pair : Resolves("approver", pair[n].req)
  BY DEF ApproveWith
<1>2. theirs \subseteq Request /\ req1 \in Request /\ req2 \in Request
  BY AskedAssumption DEF CustodyInv
<1>3. /\ Len(pair) \in {1, 2} /\ DOMAIN pair = 1 .. Len(pair)
      /\ pair[1] = one /\ (Len(pair) = 2 => pair[2] = two)
  <2>1. CASE second = None
    <3>1. pair = <<one>>
      BY <2>1
    <3> HIDE DEF pair, one
    <3> QED
      BY <3>1
  <2>2. CASE second # None
    <3>1. pair = <<one, two>>
      BY <2>2
    <3> HIDE DEF pair, one, two
    <3> QED
      BY <3>1
  <2> QED
    BY <2>1, <2>2
<1>4. /\ Len(asked) = 2 + Len(pair) /\ DOMAIN asked = 1 .. Len(asked)
      /\ asked[1] = ServiceKeys[1] /\ asked[2] = ServiceKeys[2]
      /\ \A n \in DOMAIN pair : asked[2 + n] = pair[n]
  BY <1>3 DEF ServiceKeys
<1>5. ASSUME NEW n \in DOMAIN pair
      PROVE  /\ pair[n].role = "approver" /\ pair[n].label \in Human \cup {None}
             /\ pair[n].req \in Request
             /\ KeyOf(pair[n].req) \in Material /\ Fingerprint(pair[n].req) # <<>>
             /\ external => pair[n].req.pem = None
  <2>1. pair[n].role = "approver" /\ pair[n].label \in Human \cup {None} /\ pair[n].req \in Request
    BY <1>2, <1>3
  <2>2. Resolves("approver", pair[n].req)
    BY <1>1
  <2> QED
    BY <2>1, <2>2, ResolvedKey
<1>6. ASSUME NEW n \in DOMAIN pair, NEW x \in theirs, KeyOf(x) = KeyOf(pair[n].req)
      PROVE  Reencoded(x, pair[n].req)
  <2> SUFFICES ASSUME ~ Reencoded(x, pair[n].req) PROVE FALSE
    OBVIOUS
  <2>1. Fingerprint(x) = Fingerprint(pair[n].req)
    BY <1>2, <1>5, <1>6, OneFingerprint
  <2>2. PICK i \in {1, 2} : asked[i].req = x /\ asked[i].role \in {"issuer", "anchor"}
    BY <1>4 DEF ServiceKeys
  <2>3. i \in DOMAIN asked /\ 2 + n \in DOMAIN asked /\ i < 2 + n
    BY <1>3, <1>4
  <2>4. Collides(asked[i], asked[2 + n])
    BY <1>4, <1>5, <2>2 DEF Collides, IsHuman
  <2> QED
    BY <1>1, <1>4, <1>5, <2>1, <2>2, <2>3, <2>4 DEF Separate
<1>7. ASSUME NEW n \in DOMAIN pair, NEW m \in DOMAIN pair, n < m,
             pair[n].label # pair[m].label, KeyOf(pair[n].req) = KeyOf(pair[m].req)
      PROVE  Reencoded(pair[n].req, pair[m].req)
  <2> SUFFICES ASSUME ~ Reencoded(pair[n].req, pair[m].req) PROVE FALSE
    OBVIOUS
  <2>1. Fingerprint(pair[n].req) = Fingerprint(pair[m].req)
    BY <1>5, <1>7, OneFingerprint
  <2>2. 2 + n \in DOMAIN asked /\ 2 + m \in DOMAIN asked /\ 2 + n < 2 + m
    BY <1>3, <1>4, <1>7
  <2>3. Collides(asked[2 + n], asked[2 + m])
    BY <1>4, <1>5, <1>7 DEF Collides, IsHuman
  <2> QED
    BY <1>1, <1>4, <1>5, <2>1, <2>2, <2>3 DEF Separate
<1> HIDE DEF pair, theirs, asked
<1>9. /\ Len(uses) = Len(pair) /\ uses \in Seq(Uses)
      /\ \A n \in 1 .. Len(pair) :
            uses[n] = Use("approver", pair[n].label, pair[n].req, theirs, FALSE)
  <2>1. ASSUME NEW n \in DOMAIN pair
        PROVE  Use("approver", pair[n].label, pair[n].req, theirs, FALSE) \in Uses
    BY <1>2, <1>5, UseTyped
  <2>2. uses \in [DOMAIN pair -> Uses]
    BY <2>1, Zenon
  <2>3. uses \in Seq(Uses) /\ Len(uses) = Len(pair)
    <3> HIDE DEF uses
    <3>1. uses \in [1 .. Len(pair) -> Uses] /\ Len(pair) \in Nat
      BY <1>3, <2>2
    <3> QED
      BY <3>1
  <2> QED
    BY <1>3, <2>3
<1> HIDE DEF uses
<1>10. ASSUME NEW n \in 1 .. Len(uses) PROVE Kept(uses[n])
  <2>1. n \in DOMAIN pair
    BY <1>3, <1>9
  <2>2. /\ \A x \in theirs : KeyOf(x) = KeyOf(pair[n].req) => Reencoded(x, pair[n].req)
        /\ external => pair[n].req.pem = None
    BY <1>5, <1>6, <2>1
  <2>3. uses[n] = Use("approver", pair[n].label, pair[n].req, theirs, FALSE)
    BY <1>3, <1>9, <2>1
  <2> QED
    BY <2>2, <2>3 DEF Kept, Use
<1>11. ASSUME NEW n \in 1 .. Len(uses), NEW m \in 1 .. Len(uses) PROVE Apart(uses[n], uses[m])
  <2>1. n < m \/ m < n \/ n = m
    BY <1>9, <1>3
  <2>2. n \in DOMAIN pair /\ m \in DOMAIN pair
    BY <1>3, <1>9
  <2>3. pair[n].label # pair[m].label /\ KeyOf(pair[n].req) = KeyOf(pair[m].req)
            => Reencoded(pair[n].req, pair[m].req)
    BY <1>7, <2>1, <2>2 DEF Reencoded
  <2>4. /\ uses[n] = Use("approver", pair[n].label, pair[n].req, theirs, FALSE)
        /\ uses[m] = Use("approver", pair[m].label, pair[m].req, theirs, FALSE)
    BY <1>3, <1>9, <2>2
  <2> QED
    BY <2>3, <2>4 DEF Apart, Use
<1> QED
  BY <1>1, <1>9, <1>10, <1>11, BeginStep

\* The verbs that sign a revocation (resolve_revocation_custody).
LEMMA RevokeStep ==
    ASSUME CustodyInv, signed = {}, NEW req \in Asked,
           NEW kid \in Kid \cup {None}, NEW online \in Kid \cup {None},
           NEW offline \in Kid \cup {None}, NEW breakGlass \in BOOLEAN,
           RevokeWith(req, kid, online, offline, breakGlass)
    PROVE  CustodyInv'
<1> DEFINE named == IF breakGlass THEN offline ELSE IF online # None THEN online ELSE kid
           role == RoleOf(named, offline)
           use == Use(role, named, req, {}, breakGlass)
<1>1. /\ Authorise(role, breakGlass) /\ Resolves(role, req) /\ Begin(<<use>>)
  BY DEF RevokeWith
<1>2. named \in Kid \cup {None} /\ role \in {"revoke-online", "revoke-offline"} /\ req \in Request
  BY AskedAssumption DEF RoleOf
<1> HIDE DEF named, role
<1>3. KeyOf(req) \in Material /\ (external => req.pem = None)
  BY <1>1, <1>2, ResolvedKey
<1>4. use \in Uses
  BY <1>2, <1>3, UseTyped
<1>5. Kept(use)
  BY <1>1, <1>2, <1>3 DEF Kept, Use, Authorise
<1>6. Apart(use, use)
  BY DEF Apart
<1> HIDE DEF use
<1> DEFINE uses == <<use>>
<1>7. uses \in Seq(Uses) /\ \A n \in 1 .. Len(uses) : uses[n] = use
  BY <1>4
<1>8. Begin(uses)
  BY <1>1
<1> HIDE DEF uses
<1> QED
  BY <1>5, <1>6, <1>7, <1>8, BeginStep

\* attest surface (card_key).
LEMMA AttestStep ==
    ASSUME CustodyInv, signed = {}, NEW req \in Asked, AttestSurface(req)
    PROVE  CustodyInv'
<1> DEFINE use == Use("card", None, req, {}, FALSE)
           uses == <<use>>
<1>1. req \in Request /\ req.pem # None /\ req.command = None /\ Begin(uses)
  BY AskedAssumption DEF AttestSurface
<1>2. KeyOf(req) \in Material
  BY <1>1 DEF KeyOf, Material, Request
<1>3. use \in Uses
  BY <1>1, <1>2, UseTyped
<1>4. Kept(use) /\ Apart(use, use)
  BY DEF Kept, Apart, Use
<1> HIDE DEF use
<1>5. uses \in Seq(Uses) /\ \A n \in 1 .. Len(uses) : uses[n] = use
  BY <1>3
<1> HIDE DEF uses
<1> QED
  BY <1>1, <1>4, <1>5, BeginStep

\* Two approvals are two keys, no service key approves, and under external signing
\* nothing is signed from a file (custody.rs, signer.rs), a re-encoded key and the
\* card key apart: for any people, files, encodings, helpers and flags, through
\* helpers that fail, hang or lie, where no helper's key is also in a file.
THEOREM KeysAreApart == ASSUME HelpersApart PROVE CustodySpec => []CustodySeparates
<1>1. CustodyInit => CustodyInv
  <2> SUFFICES ASSUME CustodyInit PROVE CustodyInv
    OBVIOUS
  <2>1. todo \in Seq(Uses) /\ Planned = {} /\ approved = {}
    BY DEF CustodyInit, Planned
  <2> QED
    BY <2>1 DEF CustodyInit, CustodyInv
<1>2. CustodyInv /\ [CustodyNext]_custodyVars => CustodyInv'
  <2> SUFFICES ASSUME CustodyInv, [CustodyNext]_custodyVars PROVE CustodyInv'
    OBVIOUS
  <2>1. ASSUME signed = {}, NEW req1 \in Asked, NEW req2 \in Asked,
               NEW by \in {"approve", "breakglass"}, NEW first \in Human,
               NEW second \in Human \cup {None}, ApproveWith(by, first, second, req1, req2)
        PROVE  CustodyInv'
    BY <2>1, ApproveStep
  <2>2. ASSUME signed = {}, NEW req \in Asked, NEW kid \in Kid \cup {None},
               NEW online \in Kid \cup {None}, NEW offline \in Kid \cup {None},
               NEW bg \in BOOLEAN, RevokeWith(req, kid, online, offline, bg)
        PROVE  CustodyInv'
    BY <2>2, RevokeStep
  <2>9. ASSUME signed = {}, NEW req \in Asked, AttestSurface(req) PROVE CustodyInv'
    BY <2>9, AttestStep
  <2>3. CASE SignHere
    BY <2>3, SignStep DEF SignHere
  <2>4. CASE HelperExits
    BY <2>4, SignStep DEF HelperExits, CustodyInv
  <2>5. CASE Spawn \/ HelperAnswers
    <3>1. todo' = todo /\ Planned' = Planned /\ todo # <<>>
      BY <2>5 DEF Spawn, HelperAnswers, Planned, CustodyInv
    <3> QED
      BY <2>5, <3>1, PlanShrinks DEF Spawn, HelperAnswers, CustodyInv
  <2>6. CASE HelperFails \/ HelperTimeout
    <3>1. /\ todo' = <<>> /\ signed' = signed /\ approved' = approved /\ helper' = "idle"
          /\ UNCHANGED <<external, service>>
      BY <2>6 DEF HelperFails, HelperTimeout
    <3>2. todo' \in Seq(Uses) /\ Planned' \subseteq Planned
      BY <3>1 DEF Planned
    <3> QED
      BY <3>1, <3>2, PlanShrinks DEF CustodyInv
  <2>7. CASE NextCommand
    <3>1. /\ todo' = todo /\ signed' = {} /\ approved' = {} /\ helper' = "idle"
          /\ UNCHANGED <<external, service>>
      BY <2>7 DEF NextCommand
    <3>2. todo' \in Seq(Uses) /\ Planned' \subseteq Planned
      BY <3>1 DEF Planned, CustodyInv
    <3> QED
      BY <3>1, <3>2, PlanShrinks
  <2>8. CASE UNCHANGED custodyVars
    <3>1. /\ todo' = todo /\ Planned' = Planned /\ signed' = signed /\ approved' = approved
          /\ helper' = helper /\ UNCHANGED <<external, service>>
      BY <2>8 DEF custodyVars, Planned
    <3> QED
      BY <3>1, PlanShrinks DEF CustodyInv
  <2> QED
    BY <2>1, <2>2, <2>3, <2>4, <2>5, <2>6, <2>7, <2>8, <2>9 DEF CustodyNext
<1>3. CustodyInv => CustodySeparates
  BY DEF CustodyInv, CustodySeparates, DualIsDual, CustodyHolds, Planned, Kept, Apart
<1> QED
  BY <1>1, <1>2, <1>3, PTL DEF CustodySpec

---------------------------------------------------------------------------
(* The mediator as a process.                                              *)

Early == {"mode", "trust", "source", "inline", "first"}
Started == {"announce", "peer", "upstream", "serving", "usage", "sending", "sent", "leaving", "exited"}
Leaving == {"usage", "sending", "sent", "leaving", "exited"}
Flushed == {"sending", "sent", "leaving", "exited"}

UseTypes ==
    /\ used \subseteq Call /\ reported \subseteq Call /\ failed \subseteq Call
    /\ taken \in [{"main", "fresh"} -> SUBSET Call]
    /\ work \in [Call -> {"unread", "doing", "answered"}]

\* A use is in one place: what the refresher has taken it is about to send, and
\* what the exit has taken it is about to send.
UsesApart ==
    /\ taken["main"] # {} => main = "sending"
    /\ taken["fresh"] # {} => fresh.at = "acking"
    /\ used \cap taken["main"] = {} /\ used \cap taken["fresh"] = {}
    /\ used \cap reported = {} /\ used \cap failed = {}
    /\ taken["main"] \cap taken["fresh"] = {}
    /\ taken["main"] \cap reported = {} /\ taken["main"] \cap failed = {}
    /\ taken["fresh"] \cap reported = {} /\ taken["fresh"] \cap failed = {}
    /\ reported \cap failed = {}

\* The checks of the start, kept by what comes after them.
StartTrue ==
    /\ main \in Early => fresh.at = "off"
    /\ main \in {"inline", "first"} \cup Started => given.source \in {"plane", "files", "both"}
    /\ main = "first" /\ HasFiles => installed = "files"
    /\ main \in Started => installed = IF HasPlane THEN "plane" ELSE "files"

\* The way out: an orderly end waits for the workers, and only they record uses.
EndTrue ==
    /\ ended = "eof" /\ main \in Leaving => \A c \in Call : work[c] # "doing"
    /\ ended = "eof" /\ main \in Flushed /\ HasPlane => used = {}

GaugeTrue == gauge = TRUE => HasPlane

ProcessInv ==
    /\ UseTypes /\ UsesApart /\ StartTrue /\ EndTrue /\ GaugeTrue
    /\ fresh \in [at : {"off", "asleep", "fetching", "acking"}, ticks : Nat]

\* A step of the main thread that leaves the uses, the requests and what is
\* installed alone.
LEMMA MainMoves ==
    ASSUME ProcessInv, UNCHANGED <<given, installed, work, used, taken, reported, failed, fresh>>,
           GaugeTrue', main # "sending", main' # "sending",
           (ended' = ended /\ (main' \in Leaving => main \in Leaving)) \/ main' \notin Leaving,
           ended' = "eof" /\ main' \in Flushed => main \in Flushed /\ ended = "eof",
           main' \in Started => main \in Started,
           main' \in Early => main \in Early,
           main' \notin {"inline", "first"}
    PROVE  ProcessInv'
  <1>1. UseTypes' /\ UsesApart'
    BY DEF ProcessInv, UseTypes, UsesApart
  <1>2. StartTrue'
    BY DEF ProcessInv, StartTrue, HasPlane, HasFiles
  <1>3. EndTrue'
    BY DEF ProcessInv, EndTrue, HasPlane
  <1> QED BY <1>1, <1>2, <1>3 DEF ProcessInv

LEMMA GaugeKept == ASSUME ProcessInv, UNCHANGED <<gauge, given>> PROVE GaugeTrue'
  BY DEF ProcessInv, GaugeTrue, HasPlane

\* The start, up to the loop.
LEMMA StartKeeps ==
    ASSUME ProcessInv,
           \/ CheckMode \/ CheckSource \/ Announce \/ CheckPeer
           \/ \E ok \in BOOLEAN : BuildTrust(ok) \/ LoadInline(ok) \/ OpenUpstream(ok)
           \/ \E ok, clean, heard \in BOOLEAN : FirstRefresh(ok, clean, heard)
    PROVE  ProcessInv'
  <1> USE DEF Check, held, traffic, threads, Early, Started, Leaving, Flushed
  <1>1. CASE CheckMode \/ CheckPeer \/ \E ok \in BOOLEAN : BuildTrust(ok) \/ OpenUpstream(ok)
    <2>1. GaugeTrue'
      BY <1>1, GaugeKept DEF CheckMode, CheckPeer, BuildTrust, OpenUpstream
    <2>2. CASE CheckMode
      BY <2>1, <2>2, MainMoves DEF CheckMode
    <2>3. CASE CheckPeer
      BY <2>1, <2>3, MainMoves DEF CheckPeer
    <2>4. ASSUME NEW ok \in BOOLEAN, BuildTrust(ok) PROVE ProcessInv'
      BY <2>1, <2>4, MainMoves DEF BuildTrust
    <2>5. ASSUME NEW ok \in BOOLEAN, OpenUpstream(ok) PROVE ProcessInv'
      BY <2>1, <2>5, MainMoves DEF OpenUpstream
    <2> QED BY <1>1, <2>2, <2>3, <2>4, <2>5
  <1>2. CASE Announce
    <2>1. gauge' = CacheState /\ given' = given
      BY <1>2 DEF Announce
    <2>2. GaugeTrue'
      BY <2>1, Zenon DEF CacheState, GaugeTrue, HasPlane
    <2> QED BY <2>2, <1>2, MainMoves DEF Announce
  <1>3. CASE CheckSource
    <2>1. GaugeTrue'
      BY <1>3, GaugeKept DEF CheckSource
    <2>2. UseTypes' /\ UsesApart'
      BY <1>3 DEF CheckSource, ProcessInv, UseTypes, UsesApart
    <2>3. StartTrue' /\ EndTrue'
      BY <1>3 DEF CheckSource, ProcessInv, StartTrue, EndTrue
    <2> QED BY <2>1, <2>2, <2>3, <1>3 DEF ProcessInv, CheckSource
  <1>4. ASSUME NEW ok \in BOOLEAN, LoadInline(ok) PROVE ProcessInv'
    <2>1. GaugeTrue'
      BY <1>4, GaugeKept DEF LoadInline
    <2>2. UseTypes' /\ UsesApart'
      BY <1>4 DEF LoadInline, ProcessInv, UseTypes, UsesApart
    <2>3. StartTrue' /\ EndTrue'
      BY <1>4 DEF LoadInline, ProcessInv, StartTrue, EndTrue, HasFiles, HasPlane
    <2> QED BY <2>1, <2>2, <2>3, <1>4 DEF ProcessInv, LoadInline
  <1>5. ASSUME NEW ok \in BOOLEAN, NEW clean \in BOOLEAN, NEW heard \in BOOLEAN,
               FirstRefresh(ok, clean, heard)
        PROVE  ProcessInv'
    <2>1. GaugeTrue'
      BY <1>5, GaugeKept DEF FirstRefresh
    <2>2. fresh' \in [at : {"off", "asleep", "fetching", "acking"}, ticks : Nat]
          /\ (fresh' = fresh \/ fresh'.at = "asleep")
      BY <1>5 DEF FirstRefresh, ProcessInv
    <2>a. given.source \in {"plane", "files", "both"} /\ (HasFiles => installed = "files")
      BY <1>5 DEF FirstRefresh, ProcessInv, StartTrue
    <2>b. UNCHANGED <<given, ended, work, used, taken, reported, failed>>
          /\ main = "first" /\ main' \in {"announce", "refused"}
      BY <1>5 DEF FirstRefresh
    <2>c. main' = "announce" => installed' = IF HasPlane THEN "plane" ELSE "files"
      BY <1>5, <2>a DEF FirstRefresh, HasPlane, HasFiles
    <2>d. taken["fresh"] = {}
      BY <2>b DEF ProcessInv, StartTrue, UsesApart
    <2>3. UseTypes' /\ UsesApart'
      BY <2>b, <2>d DEF ProcessInv, UseTypes, UsesApart
    <2>4. StartTrue' /\ EndTrue'
      BY <2>a, <2>b, <2>c DEF StartTrue, EndTrue, HasPlane
    <2> QED BY <2>1, <2>2, <2>3, <2>4 DEF ProcessInv
  <1> QED BY <1>1, <1>2, <1>3, <1>4, <1>5

\* The requests, and the end of the input.
LEMMA TrafficKeeps ==
    ASSUME ProcessInv,
           \/ \E c \in Call : ReadRequest(c) \/ Admit(c) \/ AnswerRequest(c)
           \/ \E how \in {"eof", "error"} : EndInput(how)
           \/ LeaveLoop
    PROVE  ProcessInv'
  <1> USE DEF held, traffic, threads, Early, Started, Leaving, Flushed
  <1>0. GaugeTrue' /\ fresh' = fresh /\ given' = given /\ installed' = installed
    BY GaugeKept DEF ReadRequest, Admit, AnswerRequest, EndInput, LeaveLoop
  <1>1. ASSUME NEW c \in Call, ReadRequest(c) PROVE ProcessInv'
    <2>1. UseTypes' /\ UsesApart'
      BY <1>1, <1>0 DEF ReadRequest, ProcessInv, UseTypes, UsesApart
    <2>2. StartTrue' /\ EndTrue'
      BY <1>1, <1>0 DEF ReadRequest, ProcessInv, StartTrue, EndTrue, HasPlane, HasFiles
    <2> QED BY <2>1, <2>2, <1>0 DEF ProcessInv
  <1>2. ASSUME NEW c \in Call, Admit(c) PROVE ProcessInv'
    <2>1. UseTypes' /\ UsesApart'
      BY <1>2, <1>0 DEF Admit, ProcessInv, UseTypes, UsesApart
    <2>2. StartTrue' /\ EndTrue'
      BY <1>2, <1>0 DEF Admit, ProcessInv, StartTrue, EndTrue, HasPlane, HasFiles
    <2> QED BY <2>1, <2>2, <1>0 DEF ProcessInv
  <1>3. ASSUME NEW c \in Call, AnswerRequest(c) PROVE ProcessInv'
    <2>1. UseTypes' /\ UsesApart'
      BY <1>3, <1>0 DEF AnswerRequest, ProcessInv, UseTypes, UsesApart
    <2>2. \A d \in Call : work'[d] = "doing" => work[d] = "doing"
      BY <1>3 DEF AnswerRequest, ProcessInv, UseTypes
    <2>3. StartTrue' /\ EndTrue'
      BY <1>3, <2>2, <1>0 DEF AnswerRequest, ProcessInv, StartTrue, EndTrue, HasPlane, HasFiles
    <2> QED BY <2>1, <2>3, <1>0 DEF ProcessInv
  <1>4. ASSUME NEW how \in {"eof", "error"}, EndInput(how) PROVE ProcessInv'
    BY <1>4, <1>0, MainMoves DEF EndInput
  <1>5. ASSUME LeaveLoop PROVE ProcessInv'
    <2>1. UseTypes' /\ UsesApart'
      BY <1>5, <1>0 DEF LeaveLoop, ProcessInv, UseTypes, UsesApart
    <2>2. StartTrue' /\ EndTrue'
      BY <1>5, <1>0 DEF LeaveLoop, Joined, ProcessInv, StartTrue, EndTrue, HasPlane, HasFiles
    <2> QED BY <2>1, <2>2, <1>0 DEF ProcessInv
  <1> QED BY <1>1, <1>2, <1>3, <1>4, <1>5

\* The way out.
LEMMA ExitKeeps ==
    ASSUME ProcessInv,
           TakeLast \/ LastFlush \/ Exit \/ \E ok \in BOOLEAN : SendLast(ok)
    PROVE  ProcessInv'
  <1> USE DEF held, traffic, threads, Early, Started, Leaving, Flushed
  <1>0. GaugeTrue' /\ fresh' = fresh /\ given' = given /\ installed' = installed
        /\ ended' = ended /\ work' = work
    BY GaugeKept DEF TakeLast, LastFlush, Exit, SendLast
  <1>1. CASE LastFlush
    BY <1>1, <1>0, MainMoves DEF LastFlush
  <1>2. CASE Exit
    BY <1>2, <1>0, MainMoves DEF Exit
  <1>3. CASE TakeLast
    <2>0. main = "usage" /\ FlushUsage /\ UNCHANGED <<reported, failed>>
      BY <1>3 DEF TakeLast
    <2>1. taken["main"] = {} /\ main' \in {"sending", "sent"}
      BY <2>0 DEF ProcessInv, UsesApart, FlushUsage
    <2>2. CASE HasPlane
      <3>1. used' = {} /\ taken' = [taken EXCEPT !["main"] = used]
            /\ (main' = "sending" \/ used = {})
        BY <2>0, <2>2 DEF FlushUsage
      <3>2. UseTypes' /\ UsesApart'
        BY <3>1, <2>0, <1>0 DEF ProcessInv, UseTypes, UsesApart
      <3>3. StartTrue' /\ EndTrue'
        BY <3>1, <2>0, <2>1, <1>0 DEF ProcessInv, StartTrue, EndTrue, HasPlane, HasFiles
      <3> QED BY <3>2, <3>3, <1>0 DEF ProcessInv
    <2>3. CASE ~HasPlane
      <3>1. UNCHANGED <<used, taken>> /\ main' = "sent"
        BY <2>0, <2>3 DEF FlushUsage
      <3>2. UseTypes' /\ UsesApart'
        BY <3>1, <2>0, <2>1, <1>0 DEF ProcessInv, UseTypes, UsesApart
      <3>3. StartTrue' /\ EndTrue'
        BY <3>1, <2>0, <2>1, <2>3, <1>0 DEF ProcessInv, StartTrue, EndTrue, HasPlane, HasFiles
      <3> QED BY <3>2, <3>3, <1>0 DEF ProcessInv
    <2> QED BY <2>2, <2>3
  <1>4. ASSUME NEW ok \in BOOLEAN, SendLast(ok) PROVE ProcessInv'
    <2>0. /\ main = "sending" /\ main' = "sent" /\ used' = used
          /\ taken' = [taken EXCEPT !["main"] = {}]
          /\ \/ reported' = reported \cup taken["main"] /\ failed' = failed
             \/ failed' = failed \cup taken["main"] /\ reported' = reported
      BY <1>4 DEF SendLast, Deliver
    <2>2. UseTypes' /\ UsesApart'
      BY <2>0, <1>0 DEF ProcessInv, UseTypes, UsesApart
    <2>3. StartTrue' /\ EndTrue'
      BY <2>0, <1>0 DEF ProcessInv, StartTrue, EndTrue, HasPlane, HasFiles
    <2> QED BY <2>2, <2>3, <1>0 DEF ProcessInv
  <1> QED BY <1>1, <1>2, <1>3, <1>4

\* The refresher, and the writing of the metrics.
LEMMA BackgroundKeeps ==
    ASSUME ProcessInv,
           \/ \E ok \in BOOLEAN : Tick(ok) \/ AckUsage(ok)
           \/ \E ok, clean \in BOOLEAN : RefreshAgain(ok, clean)
           \/ Wake
           \/ \E t \in {"main", "flusher"} : OpenTmp(t) \/ WriteTmp(t) \/ RenameTmp(t)
           \/ UNCHANGED processVars
    PROVE  ProcessInv'
  <1> USE DEF held, traffic, threads, Early, Started, Leaving, Flushed
  <1>0. UNCHANGED <<given, main, installed, ended, work>>
    BY DEF Tick, AckUsage, RefreshAgain, Wake, OpenTmp, WriteTmp, RenameTmp, processVars
  <1>1. ASSUME fresh.at # "off" \/ fresh'.at = fresh.at, used' = used \/ used' = {}
        PROVE  StartTrue' /\ EndTrue'
    BY <1>0, <1>1 DEF ProcessInv, StartTrue, EndTrue, HasPlane, HasFiles
  <1>2. CASE \/ Wake \/ UNCHANGED processVars
             \/ \E t \in {"main", "flusher"} : OpenTmp(t) \/ WriteTmp(t) \/ RenameTmp(t)
    <2>1. UNCHANGED <<gauge, used, taken, reported, failed, fresh>>
      BY <1>2 DEF Wake, OpenTmp, WriteTmp, RenameTmp, processVars
    <2>2. UseTypes' /\ UsesApart' /\ GaugeTrue'
      BY <2>1, <1>0, GaugeKept DEF ProcessInv, UseTypes, UsesApart
    <2> QED BY <2>1, <2>2, <1>1 DEF ProcessInv
  <1>3. ASSUME NEW ok \in BOOLEAN, Tick(ok) PROVE ProcessInv'
    <2>1. /\ UNCHANGED <<used, taken, reported, failed>> /\ fresh.at = "asleep"
          /\ fresh' = [at |-> IF ok THEN "fetching" ELSE "asleep", ticks |-> fresh.ticks + 1]
      BY <1>3 DEF Tick
    <2>2. fresh' \in [at : {"off", "asleep", "fetching", "acking"}, ticks : Nat]
      BY <2>1 DEF ProcessInv
    <2>3. gauge' = CacheState \/ gauge' = gauge
      BY <1>3 DEF Tick
    <2>4. GaugeTrue'
      <3>1. CASE gauge' = CacheState
        BY <3>1, <1>0, Zenon DEF CacheState, GaugeTrue, HasPlane
      <3>2. CASE gauge' = gauge
        BY <3>2, <1>0, GaugeKept
      <3> QED BY <2>3, <3>1, <3>2
    <2>5. UseTypes' /\ UsesApart'
      BY <2>1, <1>0 DEF ProcessInv, UseTypes, UsesApart
    <2> QED BY <2>1, <2>2, <2>4, <2>5, <1>1 DEF ProcessInv
  <1>4. ASSUME NEW ok \in BOOLEAN, AckUsage(ok) PROVE ProcessInv'
    <2>0. /\ fresh.at = "acking" /\ used' = used /\ gauge' = gauge
          /\ fresh' = [fresh EXCEPT !.at = "asleep"]
          /\ taken' = [taken EXCEPT !["fresh"] = {}]
          /\ \/ reported' = reported \cup taken["fresh"] /\ failed' = failed
             \/ failed' = failed \cup taken["fresh"] /\ reported' = reported
      BY <1>4 DEF AckUsage, Deliver
    <2>1. fresh' \in [at : {"off", "asleep", "fetching", "acking"}, ticks : Nat]
          /\ fresh'.at = "asleep"
      BY <2>0 DEF ProcessInv
    <2>2. UseTypes' /\ UsesApart'
      BY <2>0, <2>1, <1>0 DEF ProcessInv, UseTypes, UsesApart
    <2>3. GaugeTrue'
      BY <2>0, <1>0, GaugeKept
    <2> QED BY <2>0, <2>1, <2>2, <2>3, <1>1 DEF ProcessInv
  <1>5. ASSUME NEW ok \in BOOLEAN, NEW clean \in BOOLEAN, RefreshAgain(ok, clean) PROVE ProcessInv'
    <2>0. /\ fresh.at = "fetching" /\ gauge' = gauge /\ UNCHANGED <<reported, failed>>
          /\ \/ /\ fresh' = [fresh EXCEPT !.at = "acking"] /\ used' = {}
                /\ taken' = [taken EXCEPT !["fresh"] = used]
             \/ fresh' = [fresh EXCEPT !.at = "asleep"] /\ UNCHANGED <<used, taken>>
      BY <1>5 DEF RefreshAgain
    <2>1. fresh' \in [at : {"off", "asleep", "fetching", "acking"}, ticks : Nat]
          /\ fresh'.at \in {"acking", "asleep"}
          /\ (taken' # taken => fresh'.at = "acking")
      BY <2>0 DEF ProcessInv
    <2>2. taken["fresh"] = {}
      BY <2>0 DEF ProcessInv, UsesApart
    <2>3. UseTypes' /\ UsesApart'
      BY <2>0, <2>1, <2>2, <1>0 DEF ProcessInv, UseTypes, UsesApart
    <2>4. GaugeTrue'
      BY <2>0, <1>0, GaugeKept
    <2> QED BY <2>0, <2>1, <2>3, <2>4, <1>1 DEF ProcessInv
  <1> QED BY <1>2, <1>3, <1>4, <1>5

LEMMA ProcessInductive == ProcessSpec => []ProcessInv
  <1>1. ProcessInit => ProcessInv
    <2> SUFFICES ASSUME ProcessInit PROVE ProcessInv
      OBVIOUS
    <2> USE DEF ProcessInit
    <2>1. UseTypes /\ UsesApart
      BY DEF UseTypes, UsesApart
    <2>2. StartTrue /\ EndTrue
      BY DEF StartTrue, EndTrue, Early, Started, Leaving, Flushed
    <2>3. GaugeTrue
      BY NilAssumption DEF GaugeTrue
    <2>4. fresh \in [at : {"off", "asleep", "fetching", "acking"}, ticks : Nat]
      OBVIOUS
    <2> QED BY <2>1, <2>2, <2>3, <2>4 DEF ProcessInv
  <1>2. ProcessInv /\ [ProcessNext]_processVars => ProcessInv'
    BY StartKeeps, TrafficKeeps, ExitKeeps, BackgroundKeeps DEF ProcessNext
  <1> QED BY <1>1, <1>2, PTL DEF ProcessSpec

\* A mediator's process serves only with what it was pointed at, ends in order
\* only when every request is answered and every use accounted for once, and
\* never shows trust in revocations it cannot hear of (connect-mediate.rs).
THEOREM ProcessServesWhole == ProcessSpec => []ServesWhole
  <1>1. ProcessInv => ServesWhole
    <2> SUFFICES ASSUME ProcessInv PROVE ServesWhole
      OBVIOUS
    <2>1. main = "serving" => installed = IF HasPlane THEN "plane" ELSE "files"
      BY DEF ProcessInv, StartTrue, Started
    <2>2. main = "exited" /\ ended = "eof" => (\A c \in Call : work[c] # "doing") /\ (HasPlane => used = {})
      BY DEF ProcessInv, EndTrue, Leaving, Flushed
    <2>3. \A i, j \in DOMAIN Pools : i # j => Pools[i] \cap Pools[j] = {}
      <3>1. /\ DOMAIN Pools = 1 .. 5 /\ Pools[1] = used /\ Pools[2] = taken["main"]
            /\ Pools[3] = taken["fresh"] /\ Pools[4] = reported /\ Pools[5] = failed
        BY DEF Pools
      <3>2. \A i, j \in 1 .. 5 : i < j => Pools[i] \cap Pools[j] = {}
        BY <3>1 DEF ProcessInv, UsesApart
      <3>3. \A i, j \in 1 .. 5 : i # j => i < j \/ j < i
        OBVIOUS
      <3> QED BY <3>1, <3>2, <3>3
    <2>4. gauge = TRUE => HasPlane
      BY DEF ProcessInv, GaugeTrue
    <2> QED BY <2>1, <2>2, <2>3, <2>4 DEF ServesWhole
  <1> QED BY <1>1, ProcessInductive, PTL

---------------------------------------------------------------------------
(* Shared signals.                                                         *)

Token == [iat : Nat, by : {d.by : d \in Drafts}, iss : {d.iss : d \in Drafts},
          jti : {d.jti : d \in Drafts}, aud : {d.aud : d \in Drafts},
          subject : {d.subject : d \in Drafts}, events : {d.events : d \in Drafts}]
Act == [token : Token, from : Transmitters, at : Nat, effects : SUBSET Understood]

InScope(x) ==
    x.effects # {} =>
        /\ x.token.by = x.from.issuer /\ x.from.audience \in x.token.aud
        /\ x.at - x.token.iat <= x.from.maxAge
        /\ x.from.authority = "partner" =>
              /\ x.effects \subseteq {"connection-revoked"}
              /\ x.token.subject \in x.from.parties
        /\ x.from.authority = "directory" => "connection-revoked" \notin x.effects

\* What is remembered is the end of what was done, each token once, and all of it
\* until the memory is full.
MemoryTrue ==
    /\ Len(seen) <= Capacity /\ Len(seen) <= Len(acted)
    /\ Len(seen) = Len(acted) \/ Len(seen) = Capacity
    /\ \A k \in 1 .. Len(seen) : seen[k] = acted[Len(acted) - Len(seen) + k].token.jti
    /\ \A k, l \in 1 .. Len(seen) : seen[k] = seen[l] => k = l

Between(i, j) == {acted[k].token.jti : k \in i + 1 .. j - 1}
FarApart ==
    \A i, j \in 1 .. Len(acted) :
        i < j /\ acted[i].token = acted[j].token => Cardinality(Between(i, j)) >= Capacity

SignalsInv ==
    /\ minute \in Nat /\ tokens \subseteq Token
    /\ seen \in Seq({d.jti : d \in Drafts}) /\ acted \in Seq(Act)
    /\ \A i \in 1 .. Len(acted) : InScope(acted[i])
    /\ MemoryTrue /\ FarApart

\* Whatever a transmitter may cause is in scope.
LEMMA EffectInScope ==
    ASSUME SignalsInv, NEW token \in tokens, NEW t \in Transmitters, Verifies(token, t),
           NEW effects,
           effects = {} \/ (MayName(t, token.subject) /\ effects = Effects(token, t))
    PROVE  /\ [token |-> token, from |-> t, at |-> minute, effects |-> effects] \in Act
           /\ InScope([token |-> token, from |-> t, at |-> minute, effects |-> effects])
  <1>0. token \in Token /\ minute \in Nat /\ t.maxAge \in Nat /\ token.iat \in Nat
    BY SignalsAssumption DEF SignalsInv, Token
  <1>1. effects \subseteq Understood
    BY DEF Effects
  <1>2. PICK x : x = [token |-> token, from |-> t, at |-> minute, effects |-> effects]
    OBVIOUS
  <1>3. x.token = token /\ x.from = t /\ x.at = minute /\ x.effects = effects
    BY <1>2
  <1>4. x \in Act
    BY <1>0, <1>1, <1>2 DEF Act
  <1>5. token.by = t.issuer /\ t.audience \in token.aud /\ minute - token.iat <= t.maxAge
    BY <1>0 DEF Verifies
  <1>6. ASSUME effects # {}, t.authority = "partner"
        PROVE  effects \subseteq {"connection-revoked"} /\ token.subject \in t.parties
    <2>1. t.parties # {}
      BY <1>6 DEF Verifies, WellFormed
    <2> QED BY <2>1, <1>6 DEF MayName, Effects, PermitsEvent
  <1>7. ASSUME t.authority = "directory" PROVE "connection-revoked" \notin effects
    BY <1>7 DEF Effects, PermitsEvent, Directory
  <1>8. InScope(x)
    BY <1>3, <1>5, <1>6, <1>7 DEF InScope
  <1> QED BY <1>2, <1>4, <1>8

\* A full memory holds as many identifiers as it has room for.
LEMMA MemoryCounts ==
    ASSUME SignalsInv, NEW i \in Nat, i + Len(seen) <= Len(acted), Len(seen) = Capacity
    PROVE  Cardinality(Between(i, Len(acted) + 1)) >= Capacity
  <1> DEFINE n == Len(acted)
             J == Between(i, n + 1)
             f == [k \in i + 1 .. n |-> acted[k].token.jti]
             g == [k \in 1 .. Capacity |-> seen[k]]
  <1>0. n \in Nat /\ Capacity \in Nat
    BY SignalsAssumption DEF SignalsInv
  <1>1. J = {acted[k].token.jti : k \in i + 1 .. n}
    BY <1>0 DEF Between
  <1>2. f \in Surjection(i + 1 .. n, J)
    BY <1>1 DEF Surjection
  <1>3. IsFiniteSet(i + 1 .. n)
    BY <1>0, FS_Interval
  <1>4. IsFiniteSet(J)
    BY <1>2, <1>3, FS_Surjection
  <1>5. g \in Injection(1 .. Capacity, J)
    <2>1. ASSUME NEW k \in 1 .. Capacity PROVE g[k] \in J
      <3>1. n - Capacity + k \in i + 1 .. n
        BY <1>0
      <3>2. seen[k] = acted[n - Capacity + k].token.jti
        BY DEF SignalsInv, MemoryTrue
      <3> QED BY <3>1, <3>2, <1>1
    <2>2. \A k, l \in 1 .. Capacity : g[k] = g[l] => k = l
      BY DEF SignalsInv, MemoryTrue
    <2>3. g \in [1 .. Capacity -> J]
      BY <2>1
    <2> QED BY <2>2, <2>3 DEF Injection, IsInjective
  <1>6. Cardinality(1 .. Capacity) <= Cardinality(J)
    BY <1>4, <1>5, FS_Injection
  <1>7. Cardinality(1 .. Capacity) = Capacity
    BY <1>0, FS_Interval
  <1>8. Cardinality(J) \in Nat
    BY <1>4, FS_CardinalityType
  <1> QED BY <1>0, <1>6, <1>7, <1>8

LEMMA IngestKeeps ==
    ASSUME SignalsInv, NEW token \in tokens, NEW t \in Transmitters, Ingest(token, t)
    PROVE  SignalsInv'
  <1> DEFINE n == Len(acted)
             m == Len(seen)
  <1>0. /\ n \in Nat /\ m \in Nat /\ Capacity \in Nat \ {0} /\ m <= Capacity /\ m <= n
        /\ m = n \/ m = Capacity
        /\ token \in Token /\ token.jti \in {d.jti : d \in Drafts}
        /\ seen \in Seq({d.jti : d \in Drafts}) /\ acted \in Seq(Act)
    BY SignalsAssumption DEF SignalsInv, MemoryTrue, Token
  <1>1. PICK effects :
          /\ effects = {} \/ (MayName(t, token.subject) /\ effects = Effects(token, t))
          /\ acted' = Append(acted, [token |-> token, from |-> t, at |-> minute, effects |-> effects])
    BY DEF Ingest
  <1>2. PICK x : x = [token |-> token, from |-> t, at |-> minute, effects |-> effects]
    OBVIOUS
  <1>3. x \in Act /\ InScope(x) /\ x.token = token
    BY <1>1, <1>2, EffectInScope DEF Ingest
  <1>4. /\ acted' \in Seq(Act) /\ Len(acted') = n + 1 /\ acted'[n + 1] = x
        /\ \A k \in 1 .. n : acted'[k] = acted[k]
    BY <1>0, <1>1, <1>2, <1>3
  <1>5. \A i \in 1 .. Len(acted') : InScope(acted'[i])
    BY <1>0, <1>3, <1>4 DEF SignalsInv
  <1>6. /\ seen' = Append(IF m >= Capacity THEN Tail(seen) ELSE seen, token.jti)
        /\ \A k \in 1 .. m : seen[k] # token.jti
        /\ UNCHANGED <<minute, tokens>>
    BY <1>0 DEF Ingest, Remember
  <1>7. MemoryTrue' /\ seen' \in Seq({d.jti : d \in Drafts})
    <2>0. /\ \A k \in 1 .. m : seen[k] = acted[n - m + k].token.jti
          /\ \A k, l \in 1 .. m : seen[k] = seen[l] => k = l
      BY DEF SignalsInv, MemoryTrue
    <2>1. CASE m < Capacity
      <3>1. /\ seen' \in Seq({d.jti : d \in Drafts}) /\ Len(seen') = m + 1
            /\ seen'[m + 1] = token.jti /\ \A k \in 1 .. m : seen'[k] = seen[k]
        BY <2>1, <1>0, <1>6
      <3>2. m = n
        BY <2>1, <1>0
      <3>3. \A k \in 1 .. Len(seen') : seen'[k] = acted'[Len(acted') - Len(seen') + k].token.jti
        BY <3>1, <3>2, <2>0, <1>0, <1>3, <1>4
      <3>4. \A k, l \in 1 .. Len(seen') : seen'[k] = seen'[l] => k = l
        <4> SUFFICES ASSUME NEW k \in 1 .. m + 1, NEW l \in 1 .. m + 1, seen'[k] = seen'[l]
                     PROVE  k = l
          BY <3>1
        <4>1. (k = m + 1 \/ k \in 1 .. m) /\ (l = m + 1 \/ l \in 1 .. m)
          BY <1>0
        <4>2. CASE k \in 1 .. m /\ l \in 1 .. m
          BY <4>2, <3>1, <2>0
        <4>3. CASE k = m + 1 \/ l = m + 1
          BY <4>1, <4>3, <3>1, <1>6
        <4> QED BY <4>1, <4>2, <4>3
      <3>5. Len(seen') <= Capacity /\ Len(seen') = Len(acted')
        BY <3>1, <3>2, <2>1, <1>0, <1>4
      <3>6. Len(seen') <= Len(acted') /\ (Len(seen') = Len(acted') \/ Len(seen') = Capacity)
        BY <3>5, <1>0, <1>4
      <3> QED BY <3>1, <3>3, <3>4, <3>5, <3>6 DEF MemoryTrue
    <2>2. CASE m >= Capacity
      <3>0. m = Capacity /\ m >= 1 /\ seen # <<>>
        BY <2>2, <1>0
      <3>a. Tail(seen) \in Seq({d.jti : d \in Drafts}) /\ Len(Tail(seen)) = m - 1
            /\ \A k \in 1 .. m - 1 : Tail(seen)[k] = seen[k + 1]
        BY <3>0, <1>0
      <3>1. /\ seen' \in Seq({d.jti : d \in Drafts}) /\ Len(seen') = m
            /\ seen'[m] = token.jti /\ \A k \in 1 .. m - 1 : seen'[k] = seen[k + 1]
        BY <2>2, <3>0, <3>a, <1>0, <1>6
      <3>3. \A k \in 1 .. Len(seen') : seen'[k] = acted'[Len(acted') - Len(seen') + k].token.jti
        <4> SUFFICES ASSUME NEW k \in 1 .. m PROVE seen'[k] = acted'[n + 1 - m + k].token.jti
          BY <3>1, <1>4
        <4>1. CASE k = m
          BY <4>1, <3>1, <1>0, <1>3, <1>4
        <4>2. CASE k # m
          <5>1. k + 1 \in 1 .. m /\ k \in 1 .. m - 1 /\ n + 1 - m + k \in 1 .. n
            BY <4>2, <1>0
          <5>2. seen[k + 1] = acted[n - m + (k + 1)].token.jti /\ n - m + (k + 1) = n + 1 - m + k
            BY <5>1, <2>0, <1>0
          <5> QED BY <5>1, <5>2, <3>1, <1>4
        <4> QED BY <4>1, <4>2
      <3>4. \A k, l \in 1 .. Len(seen') : seen'[k] = seen'[l] => k = l
        <4>1. \A k \in 1 .. m - 1 : k + 1 \in 1 .. m
          BY <1>0
        <4>2. \A k \in 1 .. m : k = m \/ k \in 1 .. m - 1
          BY <1>0
        <4> SUFFICES ASSUME NEW k \in 1 .. m, NEW l \in 1 .. m, seen'[k] = seen'[l] PROVE k = l
          BY <3>1
        <4>3. CASE k = m \/ l = m
          BY <4>1, <4>2, <4>3, <3>1, <1>6
        <4>4. CASE k # m /\ l # m
          <5>1. seen[k + 1] = seen[l + 1] /\ k + 1 \in 1 .. m /\ l + 1 \in 1 .. m
            BY <4>1, <4>2, <4>4, <3>1
          <5>2. k + 1 = l + 1
            BY <5>1, <2>0
          <5> QED BY <5>2, <1>0
        <4> QED BY <4>3, <4>4
      <3> QED BY <3>0, <3>1, <3>3, <3>4, <1>0, <1>4 DEF MemoryTrue
    <2> QED BY <2>1, <2>2, <1>0
  <1>8. FarApart'
    <2> SUFFICES ASSUME NEW i \in 1 .. n + 1, NEW j \in 1 .. n + 1, i < j,
                        acted'[i].token = acted'[j].token
                 PROVE  Cardinality(Between(i, j)') >= Capacity
      BY <1>4 DEF FarApart
    <2>1. Between(i, j)' = Between(i, j)
      <3>1. \A k \in i + 1 .. j - 1 : acted'[k] = acted[k]
        BY <1>0, <1>4
      <3> QED BY <3>1 DEF Between
    <2>2. CASE j <= n
      BY <2>1, <2>2, <1>0, <1>4 DEF SignalsInv, FarApart
    <2>3. CASE j = n + 1
      <3>1. i \in 1 .. n /\ acted[i].token = token
        BY <2>3, <1>0, <1>3, <1>4
      <3>2. i + m <= n
        <4> SUFFICES ASSUME i + m > n PROVE FALSE
          BY <3>1, <1>0
        <4>1. i - (n - m) \in 1 .. m /\ n - m + (i - (n - m)) = i
          BY <3>1, <1>0
        <4>2. seen[i - (n - m)] = token.jti
          BY <4>1, <3>1 DEF SignalsInv, MemoryTrue
        <4> QED BY <4>1, <4>2, <1>6
      <3>3. m = Capacity
        BY <3>1, <3>2, <1>0
      <3> QED BY <3>1, <3>2, <3>3, <2>1, <2>3, MemoryCounts
    <2>4. j <= n \/ j = n + 1
      BY <1>0
    <2> QED BY <2>2, <2>3, <2>4
  <1> QED BY <1>4, <1>5, <1>6, <1>7, <1>8 DEF SignalsInv

LEMMA SignalsInductive == SignalsSpec => []SignalsInv
  <1>1. SignalsInit => SignalsInv
    BY SignalsAssumption DEF SignalsInit, SignalsInv, MemoryTrue, FarApart
  <1>2. SignalsInv /\ [SignalsNext]_signalVars => SignalsInv'
    <2> SUFFICES ASSUME SignalsInv, [SignalsNext]_signalVars PROVE SignalsInv'
      OBVIOUS
    <2>a. ASSUME UNCHANGED <<seen, acted>>, minute' \in Nat, tokens' \subseteq Token PROVE SignalsInv'
      <3>1. MemoryTrue'
        BY <2>a DEF SignalsInv, MemoryTrue
      <3>2. \A i, j : Between(i, j)' = Between(i, j)
        BY <2>a DEF Between
      <3>3. FarApart'
        BY <2>a, <3>2 DEF SignalsInv, FarApart
      <3> QED BY <2>a, <3>1, <3>3 DEF SignalsInv
    <2>1. ASSUME NEW draft \in Drafts, Send(draft) PROVE SignalsInv'
      <3>1. [iat |-> minute, by |-> draft.by, iss |-> draft.iss, jti |-> draft.jti,
             aud |-> draft.aud, subject |-> draft.subject, events |-> draft.events] \in Token
        BY DEF SignalsInv, Token
      <3> QED BY <3>1, <2>1, <2>a DEF Send, SignalsInv
    <2>2. ASSUME NEW token \in tokens, NEW t \in Transmitters, Ingest(token, t) PROVE SignalsInv'
      BY <2>2, IngestKeeps
    <2>3. CASE Restart
      BY <2>3, SignalsAssumption DEF Restart, SignalsInv, MemoryTrue, FarApart
    <2>4. CASE NextMinute
      BY <2>4, <2>a DEF NextMinute, SignalsInv
    <2>5. CASE UNCHANGED signalVars
      BY <2>5, <2>a DEF signalVars, SignalsInv
    <2> QED BY <2>1, <2>2, <2>3, <2>4, <2>5 DEF SignalsNext
  <1> QED BY <1>1, <1>2, PTL DEF SignalsSpec

\* What a transmitter causes is bounded by what it has authority over, and a token
\* is obeyed again only when as many others as are remembered came between
\* (caep.rs).
THEOREM SignalsAreInScope == SignalsSpec => []SignalsInScope
  <1>1. SignalsInv => SignalsInScope
    <2> SUFFICES ASSUME SignalsInv PROVE SignalsInScope
      OBVIOUS
    <2>1. DOMAIN acted = 1 .. Len(acted)
      BY DEF SignalsInv
    <2> QED BY <2>1 DEF SignalsInv, SignalsInScope, InScope, FarApart, Between
  <1> QED BY <1>1, SignalsInductive, PTL
---------------------------------------------------------------------------
(* Federation.                                                             *)

\* A set of naturals that is not empty has a least element.
LEMMA NatLeast ==
    ASSUME NEW T, T \subseteq Nat, T # {}
    PROVE  \E x \in T : \A y \in T : x <= y
  <1> DEFINE R == {ss \in Nat \X Nat : ss[1] < ss[2]}
  <1>1. IsWellFoundedOn(R, Nat)
    BY NatLessThanWellFounded, Zenon DEF OpToRel
  <1>2. \A u, v \in Nat : ~ (<<v, u>> \in R) => u <= v
    OBVIOUS
  <1> HIDE DEF R
  <1>3. \E x \in T : \A y \in T : ~ (<<y, x>> \in R)
    BY <1>1, WFMin
  <1> QED
    BY <1>2, <1>3

\* Of a chain of believable statements: a set that is closed under vouching has
\* every one of them, from the anchor's end down.
LEMMA ClosedHasChain ==
    ASSUME NEW chain, NEW n \in Nat \ {0}, chain \in [1 .. n -> statements],
           Linked(chain), Last(chain).iss = AnchorOrg,
           NEW S, \A u \in statements : Vouched(u, S) => u \in S
    PROVE  \A i \in 1 .. n : chain[i] \in S
<1>1. DOMAIN chain = 1 .. n /\ Len(chain) = n /\ chain \in Seq(statements)
  OBVIOUS
<1>2. Last(chain) = chain[n]
  BY <1>1 DEF Last
<1>3. \A i \in 1 .. n :
        /\ chain[i] \in statements /\ IsCurrent(chain[i])
        /\ (i = n => chain[i].by = AnchorOrg)
        /\ (i # n => /\ chain[i].by \in chain[i + 1].jwks
                     /\ chain[i + 1].sub \in {chain[i].iss, chain[i].sub})
  BY <1>1 DEF Linked, Follows
<1> DEFINE B == {k \in Nat : k < n /\ chain[n - k] \notin S}
<1>4. SUFFICES ASSUME B # {} PROVE FALSE
  <2>1. SUFFICES ASSUME NEW i \in 1 .. n, chain[i] \notin S PROVE FALSE
    OBVIOUS
  <2>2. n - i \in Nat /\ n - i < n /\ n - (n - i) = i
    OBVIOUS
  <2> QED
    BY <2>1, <2>2, <1>4
<1>5. PICK k \in B : \A j \in B : k <= j
  <2>1. B \subseteq Nat
    OBVIOUS
  <2> HIDE DEF B
  <2> QED
    BY <1>4, <2>1, NatLeast
<1>6. k \in Nat /\ k < n /\ n - k \in 1 .. n /\ chain[n - k] \notin S
  OBVIOUS
<1>7. CASE k = 0
  <2>1. n - k = n
    BY <1>7
  <2>2. Vouched(chain[n], S)
    BY <1>2, <1>3, <1>6, <2>1 DEF Vouched
  <2> QED
    BY <1>3, <1>6, <2>1, <2>2
<1>8. CASE k # 0
  <2>1. k - 1 \in Nat /\ k - 1 < n /\ ~ (k <= k - 1) /\ n - (k - 1) = (n - k) + 1
        /\ n - k # n /\ (n - k) + 1 \in 1 .. n
    BY <1>6, <1>8
  <2>2. chain[(n - k) + 1] \in S
    BY <1>5, <2>1
  <2>3. Vouched(chain[n - k], S)
    BY <1>3, <1>6, <2>1, <2>2 DEF Vouched
  <2> QED
    BY <1>3, <1>6, <2>3
<1> QED
  BY <1>7, <1>8

\* An honest organisation tells the truth about keys, and an answer of this hour
\* rests on a chain of statements that are there.
Rests(r) ==
    \E n \in Nat \ {0} : \E chain \in [1 .. n -> statements] :
        /\ Linked(chain) /\ Last(chain).iss = AnchorOrg /\ IsSelfSigned(chain[1])
        /\ r.subject = chain[1].sub /\ r.signer = chain[1].by
FederationInv ==
    /\ hour \in Nat
    /\ \A t \in statements : t.by \in Honest => t.iss = t.by /\ t.jwks = {t.sub}
    /\ resolved.answer.ok =>
          /\ resolved.answer.at \in Nat /\ resolved.answer.at <= hour
          /\ (resolved.answer.at = hour => Rests(resolved.answer))

\* A chain that resolves is linked to the anchor and ends in a leaf that signed
\* for itself.
LEMMA ResolvedRests ==
    ASSUME NEW chain \in Chains, Resolve(chain).ok
    PROVE  Rests(Resolve(chain)) /\ Resolve(chain).at = hour
<1>1. PICK n \in 0 .. MaxChain + 1 : chain \in [1 .. n -> statements]
  BY DEF Chains
<1>2. /\ chain # <<>> /\ Last(chain).iss = AnchorOrg
      /\ Linked(chain) /\ IsSelfSigned(Head(chain))
      /\ Resolve(chain).subject = Head(chain).sub /\ Resolve(chain).signer = Head(chain).by
      /\ Resolve(chain).at = hour
  BY DEF Resolve
<1>3. n \in Nat /\ chain \in Seq(statements) /\ Len(chain) = n
  BY <1>1
<1>4. n # 0
  BY <1>2, <1>3
<1>5. Head(chain) = chain[1]
  BY <1>3, <1>4
<1> QED
  BY <1>1, <1>2, <1>3, <1>4, <1>5 DEF Rests

\* Nobody speaks for a party with a key that no vouched-for organisation gave it,
\* whoever publishes whatever, and whatever chain is handed over.
THEOREM NobodyIsImpersonated == FederationSpec => []NoImpersonation
<1>1. FederationInit => FederationInv
  BY DEF FederationInit, FederationInv, Unresolved
<1>2. FederationInv /\ [FederationNext]_federationVars => FederationInv'
  <2> SUFFICES ASSUME FederationInv, [FederationNext]_federationVars PROVE FederationInv'
    OBVIOUS
  <2>1. ASSUME NEW claim \in Claims, Publish(claim) PROVE FederationInv'
    <3>1. resolved'.answer.ok = FALSE /\ hour' = hour
      BY <2>1 DEF Publish, Unresolved
    <3> DEFINE new == [by |-> claim.by, iss |-> claim.iss, sub |-> claim.sub,
                       jwks |-> claim.jwks, meta |-> claim.meta, iat |-> hour,
                       exp |-> hour + Lifetime]
    <3>2. statements' = statements \cup {new}
      BY <2>1 DEF Publish
    <3>3. new.by \in Honest => new.iss = new.by /\ new.jwks = {new.sub}
      BY <2>1 DEF Publish
    <3> HIDE DEF new
    <3> QED
      BY <3>1, <3>2, <3>3 DEF FederationInv
  <2>2. ASSUME NEW chain \in Chains, FederateCmd(chain) PROVE FederationInv'
    <3>1. resolved'.answer = Resolve(chain) /\ hour' = hour /\ statements' = statements
      BY <2>2 DEF FederateCmd
    <3>3. ASSUME NEW r, Rests(r) PROVE \E n \in Nat \ {0} : \E c \in [1 .. n -> statements'] :
              /\ Linked(c)' /\ Last(c).iss = AnchorOrg /\ IsSelfSigned(c[1])
              /\ r.subject = c[1].sub /\ r.signer = c[1].by
      BY <3>1, <3>3 DEF Rests, Linked, IsCurrent
    <3> DEFINE r == Resolve(chain)
    <3>4. r.ok => r.at = hour /\ Rests(r)
      BY <2>2, ResolvedRests
    <3> HIDE DEF r
    <3>5. resolved'.answer = r
      BY <3>1 DEF r
    <3> QED
      BY <3>1, <3>3, <3>4, <3>5 DEF FederationInv, Rests
  <2>3. ASSUME ReverifyAnchor PROVE FederationInv'
    BY <2>3 DEF ReverifyAnchor, FederationInv, Unresolved
  <2>4. ASSUME NextHour PROVE FederationInv'
    <3>1. /\ hour' = hour + 1 /\ statements' = statements /\ resolved' = resolved
          /\ hour \in Nat
      BY <2>4 DEF NextHour, FederationInv
    <3>2. resolved.answer.ok =>
            /\ resolved.answer.at \in Nat /\ resolved.answer.at <= hour + 1
            /\ resolved.answer.at # hour + 1
      BY <3>1 DEF FederationInv
    <3> QED
      BY <3>1, <3>2 DEF FederationInv
  <2>5. ASSUME UNCHANGED federationVars PROVE FederationInv'
    BY <2>5 DEF federationVars, FederationInv, Rests, Linked, IsCurrent
  <2> QED
    BY <2>1, <2>2, <2>3, <2>4, <2>5 DEF FederationNext
<1>3. FederationInv => NoImpersonation
  <2> DEFINE r == resolved.answer
  <2> SUFFICES ASSUME FederationInv, r.ok, r.at = hour, r.signer # r.subject
               PROVE  \E t \in Believed : /\ t.by \notin Honest /\ t.sub = r.subject
                                          /\ r.signer \in t.jwks
    BY DEF NoImpersonation
  <2>1. Rests(r)
    BY DEF FederationInv
  <2>a. PICK n \in Nat \ {0} : \E chain \in [1 .. n -> statements] :
          /\ Linked(chain) /\ Last(chain).iss = AnchorOrg /\ IsSelfSigned(chain[1])
          /\ r.subject = chain[1].sub /\ r.signer = chain[1].by
    BY <2>1 DEF Rests
  <2>2. PICK chain \in [1 .. n -> statements] :
          /\ Linked(chain) /\ Last(chain).iss = AnchorOrg /\ IsSelfSigned(chain[1])
          /\ r.subject = chain[1].sub /\ r.signer = chain[1].by
    BY <2>a
  <2> HIDE DEF r
  <2>3. DOMAIN chain = 1 .. n /\ Len(chain) = n /\ chain \in Seq(statements)
    OBVIOUS
  <2>4. chain[1].iss = chain[1].sub
    BY <2>2 DEF IsSelfSigned
  <2>5. n # 1
    <3> SUFFICES ASSUME n = 1 PROVE FALSE
      OBVIOUS
    <3>1. Last(chain) = chain[1]
      BY <2>3 DEF Last
    <3>2. chain[1].by = AnchorOrg
      BY <2>2, <2>3 DEF Linked
    <3> QED
      BY <2>2, <2>4, <3>1, <3>2
  <2>6. 1 \in 1 .. n /\ 2 \in 1 .. n /\ 1 # n
    BY <2>5
  <2>7. chain[1].by \in chain[2].jwks /\ chain[2].sub \in {chain[1].iss, chain[1].sub}
    BY <2>2, <2>3, <2>6 DEF Linked, Follows
  <2>8. chain[2] \in statements
    BY <2>6
  <2>9. chain[2] \in Believed
    <3> SUFFICES ASSUME NEW S \in SUBSET statements,
                        \A u \in statements : Vouched(u, S) => u \in S
                 PROVE  chain[2] \in S
      BY <2>8 DEF Believed
    <3> QED
      BY <2>2, <2>6, ClosedHasChain
  <2>10. chain[2].by \notin Honest
    <3> SUFFICES ASSUME chain[2].by \in Honest PROVE FALSE
      OBVIOUS
    <3>1. chain[2].jwks = {chain[2].sub}
      BY <2>8 DEF FederationInv
    <3> QED
      BY <2>2, <2>4, <2>7, <3>1
  <2> QED
    BY <2>2, <2>4, <2>7, <2>9, <2>10
<1> QED
  BY <1>1, <1>2, <1>3, PTL DEF FederationSpec

---------------------------------------------------------------------------
(* The gateway.                                                            *)

\* Of some positions of a list there is a last.
LEMMA LastPosition ==
    ASSUME NEW n \in Nat, NEW S, S \subseteq 1 .. n, S # {}
    PROVE  Max(S) \in S
  <1> DEFINE T == {n - i : i \in S}
  <1>1. T \subseteq Nat /\ T # {}
    <2>1. \A i \in S : i \in 1 .. n
      OBVIOUS
    <2>2. \A i \in 1 .. n : n - i \in Nat
      OBVIOUS
    <2> QED BY <2>1, <2>2
  <1>2. PICK x \in T : \A y \in T : x <= y
    <2> HIDE DEF T
    <2> QED BY <1>1, NatLeast
  <1>3. PICK i \in S : x = n - i
    BY <1>2
  <1>4. ASSUME NEW k \in S PROVE i >= k
    <2>1. n - i <= n - k
      BY <1>2, <1>3
    <2> QED BY <2>1
  <1> QED BY <1>3, <1>4 DEF Max

\* Every key a document yields is the issuer's.
LEMMA KeysAreIssuers ==
    ASSUME NEW d \in Documents, NEW k \in DOMAIN AddJwks(d)
    PROVE  AddJwks(d)[k].key = "issuer"
  <1> DEFINE loaded == {i \in DOMAIN d : Loadable(d[i])}
             S == {i \in loaded : d[i].kid = k}
  <1>1. S # {} /\ S \subseteq 1 .. Len(d) /\ Len(d) \in Nat
    BY GatewayAssumption DEF AddJwks
  <1>2. Max(S) \in S
    <2> HIDE DEF S
    <2> QED BY <1>1, LastPosition
  <1>3. AddJwks(d)[k].key = d[Max(S)].key
    BY DEF AddJwks
  <1>4. d[Max(S)].key = "issuer"
    BY <1>2, GatewayAssumption
  <1> QED BY <1>3, <1>4

\* An identity that is believed is its bearer's.
LEMMA IdentityIsReal ==
    ASSUME NEW p \in Presentations, setting \in Settings, Identify(p) # Absent
    PROVE  Identify(p) = p.real
  <1>1. CASE setting.identity = "tls"
    <2> DEFINE ids == {n.value : n \in {u \in UriSans(p.cert) : u.spiffe}}
    <2>1. /\ p.verify = "SUCCESS" /\ p.cert # Absent /\ Cardinality(ids) = 1
          /\ Identify(p) = CHOOSE n \in ids : TRUE
      BY <1>1 DEF Identify, CallerFromTls, SpiffeFromCert
    <2>2. \A v \in ids : v = p.real
      BY <2>1, GatewayAssumption
    <2>3. ids # {}
      <3> HIDE DEF ids
      <3> QED BY <2>1, FS_EmptySet
    <2> HIDE DEF ids
    <2> QED BY <2>1, <2>2, <2>3
  <1>2. CASE setting.identity # "tls"
    <2>1. /\ p.xfcc # Absent /\ Accepts(MeshOf(setting), p.origin)
          /\ Identify(p) = XfccPeerUri(p.xfcc)
      BY <1>2 DEF Identify, CallerFromXfcc
    <2> DEFINE el == p.xfcc[1]
    <2>2. /\ Len(p.xfcc) = 1 /\ \E i \in Uris(el) : Uris(el) = {i}
          /\ Identify(p) = el[CHOOSE i \in Uris(el) : TRUE].value
      BY <2>1 DEF XfccPeerUri
    <2>3. PICK i \in Uris(el) : el[i].value = p.real
      BY <2>1, <2>2, GatewayAssumption DEF MeshOf
    <2>4. Uris(el) = {i}
      BY <2>2, <2>3
    <2> QED BY <2>2, <2>3, <2>4
  <1> QED BY <1>1, <1>2

\* The feed is a sequence of dated orders.
LEMMA FeedShape ==
    ASSUME NEW q \in Seq([target : Orders, at : Nat, entry : FeedEntries])
    PROVE  /\ DOMAIN q = 1 .. Len(q) /\ Len(q) \in Nat
           /\ \A i \in DOMAIN q : i \in Nat \ {0} /\ i <= Len(q) /\ q[i].at \in Nat
  <1>1. DOMAIN q = 1 .. Len(q) /\ Len(q) \in Nat
    OBVIOUS
  <1>2. ASSUME NEW i \in 1 .. Len(q) PROVE q[i].at \in Nat
    <2>1. ASSUME NEW S, NEW z \in Seq(S), NEW k \in 1 .. Len(z) PROVE z[k] \in S
      OBVIOUS
    <2>2. q[i] \in [target : Orders, at : Nat, entry : FeedEntries]
      BY <2>1, <1>2, Zenon
    <2> QED BY <2>2
  <1> QED BY <1>1, <1>2

\* What a worker holds: the issuer's under its keys, for it, and coherent in time.
Good(a, k) ==
    /\ a \in Artifacts /\ a.sig = "issuer"
    /\ VerifyArtifact(a, AddJwks(k), Me, Issuer, a.payload.nbf)

\* A contract was in hand no longer after a cut than the staleness bound allows,
\* unless the cursor went past the cut.
Timely(p, at) ==
    setting.maxStale > 0 =>
        \A i \in DOMAIN cuts : /\ RevokedBy(p, {cuts[i].target})
                               /\ cuts[i].at >= worker.since
                               /\ i \notin worker.passed
                               => cuts[i].at + setting.maxStale >= at

\* The contracts of a stream.
HeldSound(c) ==
    \A a \in Holding(c) :
        /\ Good(a, c.keys)
        /\ AdmitContext(a.payload, c.real, c.callee, setting.mode, setting.anyZone)
        /\ Timely(a.payload, c.at)

\* A call that is out.
CallSound(c) ==
    \E a \in Holding(c) :
        /\ Governing(c, c.call.tool) = {a}
        /\ ~ setting.noPin =>
             a.payload.jti \in DOMAIN c.call.saw /\ CheckPin(a.payload, c.call.saw[a.payload.jti])

ConnSound(c) ==
    c # NoConn =>
        /\ c = [phase |-> c.phase, real |-> c.real, callee |-> c.callee, keys |-> c.keys, held |-> c.held,
                delivery |-> c.delivery, at |-> c.at, call |-> c.call, of |-> c.of,
                body |-> c.body]
        /\ c.at \in Nat /\ c.at <= clock
        /\ c.delivery = Delivery(c.held)
        /\ HeldSound(c)
        /\ c.phase = "called" => CallSound(c)

\* Cuts up to the cursor are known, or it went past them.
Known(i) == cuts[i].target \in worker.revs \/ i \in worker.passed
CursorTrue == \A i \in DOMAIN cuts : i <= worker.cursor => Known(i)

\* Cuts that a refresh was late enough to see are among them.
FreshTrue ==
    \A i \in DOMAIN cuts : cuts[i].at < worker.fresh => cuts[i].at < worker.since \/ Known(i)

\* A pin in the ledger was matched by the surface its contract was last judged
\* against.
PinsTrue ==
    /\ setting.noPin => DOMAIN worker.pins = {}
    /\ \A j \in DOMAIN worker.pins :
         /\ j \in DOMAIN judged
         /\ \A a \in Artifacts : a.sig = "issuer" /\ a.payload.jti = j
                                    => CheckPin(a.payload, judged[j])

WorkerSound ==
    worker.up =>
        /\ worker = [up |-> TRUE, since |-> worker.since, table |-> worker.table, keys |-> worker.keys,
                     set |-> worker.set, revs |-> worker.revs, cursor |-> worker.cursor,
                     passed |-> worker.passed,
                     distrusted |-> worker.distrusted, fresh |-> worker.fresh,
                     pins |-> worker.pins, used |-> worker.used]
        /\ worker.since \in Nat /\ worker.fresh \in Nat /\ worker.fresh <= clock
        /\ worker.keys \in Documents /\ worker.cursor \in Nat /\ worker.cursor <= Len(cuts)
        /\ \A i \in DOMAIN worker.set : Good(worker.set[i], worker.keys)
        /\ CursorTrue /\ FreshTrue
        /\ PinsTrue

GatewayTyped ==
    /\ clock \in Nat /\ setting \in Settings /\ served \in Publications /\ doc \in KeyDocs
    /\ cuts \in Seq([target : Orders, at : Nat, entry : FeedEntries])
    /\ \A i \in DOMAIN cuts : cuts[i].at <= clock
    /\ round # Absent => round.at \in Nat /\ round.at <= clock

ConnsSound ==
    /\ conns = [s \in Stream |-> conns[s]]
    /\ \A s \in Stream : ConnSound(conns[s])
    /\ ~ worker.up => \A s \in Stream : conns[s] = NoConn

GatewayInv == GatewayTyped /\ WorkerSound /\ ConnsSound /\ RecordedOrBroken

---------------------------------------------------------------------------
(* What a step leaves alone. *)

\* Time goes on and cuts are added.
Onward ==
    /\ clock' \in Nat /\ clock <= clock'
    /\ cuts' \in Seq([target : Orders, at : Nat, entry : FeedEntries])
    /\ Len(cuts) <= Len(cuts')
    /\ \A i \in 1 .. Len(cuts') :
         \/ i \in 1 .. Len(cuts) /\ cuts'[i] = cuts[i]
         \/ i > Len(cuts) /\ cuts'[i].at = clock

LEMMA ConnStays ==
    ASSUME GatewayTyped, NEW c, ConnSound(c), Onward, setting' = setting,
           worker'.since = worker.since, worker.passed \subseteq worker'.passed
    PROVE  ConnSound(c)'
  <1> SUFFICES ASSUME c # NoConn PROVE ConnSound(c)'
    BY DEF ConnSound
  <1>1. /\ c = [phase |-> c.phase, real |-> c.real, callee |-> c.callee, keys |-> c.keys, held |-> c.held,
                delivery |-> c.delivery, at |-> c.at, call |-> c.call, of |-> c.of,
                body |-> c.body]
        /\ c.at \in Nat /\ c.at <= clock /\ c.delivery = Delivery(c.held)
        /\ HeldSound(c) /\ (c.phase = "called" => CallSound(c))
    BY DEF ConnSound
  <1>2. c.at <= clock'
    BY <1>1 DEF Onward, GatewayTyped
  <1>3. Delivery(c.held)' = Delivery(c.held)
    BY DEF Delivery
  <1>4. ASSUME NEW a \in Holding(c) PROVE Timely(a.payload, c.at)'
    <2> SUFFICES ASSUME setting.maxStale > 0, NEW i \in DOMAIN cuts',
                        RevokedBy(a.payload, {cuts'[i].target}), cuts'[i].at >= worker.since,
                        i \notin worker'.passed
                 PROVE  cuts'[i].at + setting.maxStale >= c.at
      BY DEF Timely
    <2>0. i \in 1 .. Len(cuts') /\ i \notin worker.passed
      BY DEF Onward
    <2>1. CASE i \in 1 .. Len(cuts) /\ cuts'[i] = cuts[i]
      <3>1. i \in DOMAIN cuts
        BY <2>1 DEF GatewayTyped
      <3> QED BY <2>0, <2>1, <3>1, <1>1 DEF HeldSound, Timely
    <2>2. CASE cuts'[i].at = clock
      <3>1. setting.maxStale \in Nat /\ clock \in Nat
        BY GatewayAssumption DEF GatewayTyped
      <3> QED BY <2>2, <3>1, <1>1
    <2> QED BY <2>0, <2>1, <2>2 DEF Onward
  <1>6. HeldSound(c)'
    <2> SUFFICES ASSUME NEW a \in Holding(c)
                 PROVE  /\ Good(a, c.keys)
                        /\ AdmitContext(a.payload, c.real, c.callee, setting'.mode, setting'.anyZone)
                        /\ Timely(a.payload, c.at)'
      BY DEF HeldSound, Good
    <2> QED BY <1>1, <1>4 DEF HeldSound
  <1>7. c.phase = "called" => CallSound(c)'
    BY <1>1 DEF CallSound
  <1> QED BY <1>1, <1>2, <1>3, <1>6, <1>7 DEF ConnSound

LEMMA WorkerStays ==
    ASSUME GatewayTyped, WorkerSound, Onward, UNCHANGED <<setting, worker, judged>>
    PROVE  WorkerSound'
  <1> SUFFICES ASSUME worker.up PROVE WorkerSound'
    BY DEF WorkerSound
  <1>0. /\ DOMAIN cuts = 1 .. Len(cuts) /\ DOMAIN cuts' = 1 .. Len(cuts')
        /\ Len(cuts) \in Nat /\ Len(cuts') \in Nat
    BY FeedShape DEF GatewayTyped, Onward
  <1>1. /\ \A i \in DOMAIN cuts' :
             \/ i \in DOMAIN cuts /\ cuts'[i] = cuts[i]
             \/ i > Len(cuts) /\ cuts'[i].at = clock
        /\ worker.cursor <= Len(cuts') /\ worker.cursor <= Len(cuts)
    BY <1>0 DEF Onward, WorkerSound
  <1>2. FreshTrue' /\ CursorTrue'
    <2> SUFFICES ASSUME NEW i \in DOMAIN cuts'
                 PROVE  /\ cuts'[i].at < worker.fresh => cuts'[i].at < worker.since \/ Known(i)'
                        /\ i <= worker.cursor => Known(i)'
      BY DEF FreshTrue, CursorTrue
    <2>1. CASE i \in DOMAIN cuts /\ cuts'[i] = cuts[i]
      <3>1. Known(i)' = Known(i)
        BY <2>1, Zenon DEF Known
      <3> QED BY <2>1, <3>1 DEF WorkerSound, FreshTrue, CursorTrue
    <2>2. CASE i > Len(cuts) /\ cuts'[i].at = clock
      <3>1. i \in Nat /\ Len(cuts) \in Nat /\ worker.cursor \in Nat /\ worker.fresh \in Nat
            /\ clock \in Nat /\ worker.fresh <= clock
        BY DEF WorkerSound, GatewayTyped, Onward
      <3> QED BY <2>2, <3>1, <1>1
    <2> QED BY <1>1, <2>1, <2>2
  <1>3. PinsTrue'
    BY DEF WorkerSound, PinsTrue
  <1>4. worker.fresh <= clock'
    BY DEF WorkerSound, Onward, GatewayTyped
  <1>5. \A i \in DOMAIN worker.set : Good(worker.set[i], worker.keys)
    BY DEF WorkerSound
  <1> QED BY <1>1, <1>2, <1>3, <1>4, <1>5 DEF WorkerSound, Good

\* Something happens around the worker.
LEMMA AroundKeeps ==
    ASSUME GatewayInv, Onward, UNCHANGED <<setting, worker, judged, conns, trail, sent>>,
           served' \in Publications, doc' \in KeyDocs, round' = round
    PROVE  GatewayInv'
  <1>1. WorkerSound'
    BY WorkerStays DEF GatewayInv
  <1>2. ASSUME NEW s \in Stream PROVE ConnSound(conns[s])'
    <2>1. PICK c : c = conns[s]
      OBVIOUS
    <2>2. ConnSound(c)
      BY <2>1 DEF GatewayInv, ConnsSound
    <2>3. ConnSound(c)'
      BY <2>2, ConnStays DEF GatewayInv
    <2>4. conns[s]' = c
      BY <2>1
    <2> QED BY <2>3, <2>4 DEF ConnSound, HeldSound, CallSound, Holding, Governing
  <1>3. ConnsSound'
    BY <1>2 DEF GatewayInv, ConnsSound
  <1>4. GatewayTyped'
    <2>1. ASSUME NEW i \in DOMAIN cuts' PROVE cuts'[i].at <= clock'
      <3>1. clock \in Nat /\ clock' \in Nat /\ clock <= clock' /\ i \in 1 .. Len(cuts')
            /\ cuts'[i].at \in Nat /\ DOMAIN cuts = 1 .. Len(cuts)
        BY FeedShape DEF GatewayInv, GatewayTyped, Onward
      <3>2. CASE i \in 1 .. Len(cuts) /\ cuts'[i] = cuts[i]
        <4>1. cuts[i].at <= clock
          BY <3>1, <3>2 DEF GatewayInv, GatewayTyped
        <4> QED BY <3>1, <3>2, <4>1
      <3>3. CASE cuts'[i].at = clock
        BY <3>1, <3>3
      <3> QED BY <3>1, <3>2, <3>3 DEF Onward
    <2> QED BY <2>1 DEF GatewayInv, GatewayTyped, Onward
  <1> QED BY <1>1, <1>3, <1>4 DEF GatewayInv, RecordedOrBroken

---------------------------------------------------------------------------
(* The worker. *)

LEMMA BuildIsGood ==
    ASSUME GatewayTyped, NEW docs, Range(docs) \subseteq Artifacts, NEW k \in Documents,
           NEW i \in DOMAIN Build(docs, AddJwks(k))
    PROVE  Good(Build(docs, AddJwks(k))[i], k)
  <1> DEFINE keys == AddJwks(k)
             a == docs[i]
  <1>1. i \in DOMAIN docs /\ Build(docs, keys)[i] = a /\ VerifyArtifact(a, keys, Me, Issuer, clock)
    BY DEF Build, Restrict
  <1>2. a \in Artifacts
    BY <1>1 DEF Range
  <1>3. a.sig = "issuer"
    <2>1. a.kid \in DOMAIN keys /\ keys[a.kid].key = a.sig
      BY <1>1 DEF VerifyArtifact, HeaderHolds
    <2> QED BY <2>1, KeysAreIssuers
  <1>4. a.payload.nbf <= a.payload.nbf /\ a.payload.nbf < a.payload.exp
    <2>1. a.payload.nbf <= clock /\ clock < a.payload.exp
      BY <1>1 DEF VerifyArtifact, PayloadHolds
    <2>2. a.payload.nbf \in Nat /\ a.payload.exp \in Nat /\ clock \in Nat
      BY <1>2, GatewayAssumption DEF GatewayTyped
    <2> QED BY <2>1, <2>2
  <1>5. VerifyArtifact(a, keys, Me, Issuer, a.payload.nbf)
    BY <1>1, <1>4 DEF VerifyArtifact, PayloadHolds
  <1> QED BY <1>1, <1>2, <1>3, <1>5 DEF Good

LEMMA BootKeeps ==
    ASSUME GatewayInv, Boot
    PROVE  GatewayInv'
  <1>0. PICK k \in Documents : k = KeysAtStart(setting)
    BY DEF KeysAtStart, Documents, GatewayInv, GatewayTyped
  <1>1. PICK built : built = Build(setting.files, AddJwks(k))
    OBVIOUS
  <1>2. /\ ~ worker.up
        /\ worker' = [up |-> TRUE, since |-> clock, table |-> routeFile, keys |-> k, set |-> built,
                      revs |-> {}, cursor |-> 0, passed |-> {}, distrusted |-> FALSE,
                      fresh |-> clock, pins |-> [j \in {} |-> 0], used |-> {}]
        /\ UNCHANGED <<clock, setting, round, served, doc, cuts, conns, trail, judged, sent>>
    BY <1>0, <1>1 DEF Boot
  <1>3. ASSUME NEW i \in DOMAIN built PROVE Good(built[i], k)
    <2>1. Range(setting.files) \subseteq Artifacts
      BY DEF Artifacts, GatewayInv, GatewayTyped
    <2> QED BY <1>1, <2>1, BuildIsGood DEF GatewayInv
  <1>4. WorkerSound'
    <2>0. \A i \in DOMAIN cuts : i \in Nat \ {0} /\ cuts[i].at \in Nat /\ cuts[i].at <= clock
      BY FeedShape DEF GatewayInv, GatewayTyped
    <2>1. FreshTrue' /\ CursorTrue'
      BY <1>2, <2>0 DEF FreshTrue, CursorTrue
    <2>2. PinsTrue'
      BY <1>2 DEF PinsTrue
    <2>3. \A i \in DOMAIN built : Good(built[i], k)
      BY <1>3
    <2>4. clock \in Nat /\ clock <= clock /\ Len(cuts) \in Nat
      BY DEF GatewayInv, GatewayTyped
    <2> QED BY <1>2, <2>1, <2>2, <2>3, <2>4 DEF WorkerSound, Good
  <1>5. ConnsSound'
    BY <1>2 DEF GatewayInv, ConnsSound, ConnSound
  <1> QED BY <1>2, <1>4, <1>5 DEF GatewayInv, GatewayTyped, RecordedOrBroken

LEMMA CrashKeeps ==
    ASSUME GatewayInv, Crash
    PROVE  GatewayInv'
  <1>1. /\ worker' = Dead /\ round' = Absent /\ conns' = [s \in Stream |-> NoConn]
        /\ UNCHANGED <<clock, setting, served, doc, cuts, trail, judged, sent>>
    BY DEF Crash
  <1>2. ~ worker'.up
    BY <1>1 DEF Dead
  <1>3. WorkerSound'
    BY <1>2 DEF WorkerSound
  <1>4. ConnsSound'
    BY <1>1 DEF ConnsSound, ConnSound
  <1> QED BY <1>1, <1>3, <1>4 DEF GatewayInv, GatewayTyped, RecordedOrBroken

\* A step of the worker beside its streams.
LEMMA BesideKeeps ==
    ASSUME GatewayInv, worker.up, worker'.up, worker'.since = worker.since,
           worker.passed \subseteq worker'.passed, WorkerSound',
           UNCHANGED <<clock, setting, served, doc, cuts, conns, trail, sent>>,
           (round' # Absent => round'.at \in Nat /\ round'.at <= clock)
    PROVE  GatewayInv'
  <1>1. Onward
    BY DEF Onward, GatewayInv, GatewayTyped
  <1>2. ASSUME NEW s \in Stream PROVE ConnSound(conns[s])'
    <2>1. PICK c : c = conns[s]
      OBVIOUS
    <2>2. ConnSound(c)
      BY <2>1 DEF GatewayInv, ConnsSound
    <2>3. ConnSound(c)'
      BY <1>1, <2>2, ConnStays DEF GatewayInv
    <2>4. conns[s]' = c
      BY <2>1
    <2> QED BY <2>3, <2>4 DEF ConnSound, HeldSound, CallSound, Holding, Governing
  <1>3. ConnsSound'
    BY <1>2 DEF GatewayInv, ConnsSound
  <1> QED BY <1>3 DEF GatewayInv, GatewayTyped, RecordedOrBroken

LEMMA ReloadKeeps ==
    ASSUME GatewayInv, ReloadRoutes
    PROVE  GatewayInv'
  <1>0. /\ worker.up /\ worker' = [worker EXCEPT !.table = routeFile]
        /\ UNCHANGED <<clock, setting, round, served, doc, cuts, conns, trail, judged, sent>>
    BY DEF ReloadRoutes
  <1>1. worker' = [up |-> TRUE, since |-> worker.since, table |-> routeFile, keys |-> worker.keys,
                   set |-> worker.set, revs |-> worker.revs, cursor |-> worker.cursor,
                   passed |-> worker.passed,
                   distrusted |-> worker.distrusted, fresh |-> worker.fresh,
                   pins |-> worker.pins, used |-> worker.used]
    BY <1>0 DEF GatewayInv, WorkerSound
  <1>2. WorkerSound'
    BY <1>0, <1>1 DEF GatewayInv, WorkerSound, CursorTrue, FreshTrue, Known, PinsTrue, Good
  <1> QED BY <1>0, <1>1, <1>2, BesideKeeps DEF GatewayInv, GatewayTyped

LEMMA RefreshSetKeeps ==
    ASSUME GatewayInv, NEW reread \in BOOLEAN, RefreshSet(reread)
    PROVE  GatewayInv'
  <1>k. PICK k \in Documents : k = KeysNow(reread)
    BY DEF RefreshSet, KeysNow, Documents, GatewayInv, GatewayTyped, WorkerSound
  <1>0. PICK built : built = Build(served, AddJwks(k))
    OBVIOUS
  <1>1. /\ worker.up /\ worker' = [worker EXCEPT !.set = built, !.keys = k] /\ round'.at = clock
        /\ UNCHANGED <<clock, setting, served, doc, cuts, conns, trail, judged, sent>>
    BY <1>0, <1>k DEF RefreshSet
  <1>2. worker' = [up |-> TRUE, since |-> worker.since, table |-> worker.table, keys |-> k,
                   set |-> built, revs |-> worker.revs, cursor |-> worker.cursor,
                   passed |-> worker.passed,
                   distrusted |-> worker.distrusted, fresh |-> worker.fresh,
                   pins |-> worker.pins, used |-> worker.used]
    BY <1>1 DEF GatewayInv, WorkerSound
  <1>3. ASSUME NEW i \in DOMAIN built PROVE Good(built[i], k)
    <2>1. Range(served) \subseteq Artifacts
      BY DEF Artifacts, GatewayInv, GatewayTyped
    <2> QED BY <1>0, <2>1, BuildIsGood DEF GatewayInv
  <1>5. CursorTrue' /\ FreshTrue' /\ PinsTrue'
    BY <1>1, <1>2 DEF GatewayInv, WorkerSound, CursorTrue, FreshTrue, Known, PinsTrue
  <1>6. WorkerSound'
    BY <1>1, <1>2, <1>3, <1>5 DEF GatewayInv, WorkerSound, Good
  <1>7. clock \in Nat /\ clock <= clock
    BY DEF GatewayInv, GatewayTyped
  <1> QED BY <1>1, <1>2, <1>6, <1>7, BesideKeeps

\* A refresh is marked fresh from when it began, with the feed read after that.
LEMMA RefreshFeedKeeps ==
    ASSUME GatewayInv, NEW fetched \in BOOLEAN, NEW told \in BOOLEAN, RefreshFeed(fetched, told)
    PROVE  GatewayInv'
  <1> DEFINE n == worker.cursor
             tail == (n + 1) .. Len(cuts)
             good == {i \in tail : \A j \in (n + 1) .. i : EntryHolds(j)}
             delta == (n + 1) .. Applied
  <1>0. worker.up /\ n \in Nat /\ n <= Len(cuts) /\ Len(cuts) \in Nat
    BY DEF RefreshFeed, GatewayInv, GatewayTyped, WorkerSound
  <1>a. Applied \in Nat /\ n <= Applied /\ Applied <= Len(cuts)
    <2>1. IsFiniteSet(tail) /\ Cardinality(tail) = Len(cuts) - n
      <3>1. n + 1 \in Int /\ Len(cuts) \in Int
        BY <1>0
      <3>2. /\ IsFiniteSet(tail)
            /\ Cardinality(tail) = IF n + 1 > Len(cuts) THEN 0 ELSE Len(cuts) - (n + 1) + 1
        BY <3>1, FS_Interval
      <3> QED BY <1>0, <3>2
    <2>2. good \subseteq tail
      OBVIOUS
    <2>3. Cardinality(good) \in Nat /\ Cardinality(good) <= Cardinality(tail)
      <3> HIDE DEF good, tail
      <3> QED BY <2>1, <2>2, FS_Subset, FS_CardinalityType
    <2>4. Applied = n + Cardinality(good)
      BY DEF Applied
    <2> HIDE DEF good, tail, n
    <2> QED BY <1>0, <2>1, <2>3, <2>4
  <1>1. PICK feed \in {"down", "clean", "unclean"} :
          /\ feed = IF ~ fetched THEN "down" ELSE IF Applied = Len(cuts) THEN "clean" ELSE "unclean"
          /\ worker' = [worker EXCEPT
               !.revs = IF fetched /\ Contiguous THEN @ \cup {cuts[i].target : i \in delta} ELSE @,
               !.passed = IF fetched /\ ~ Contiguous THEN @ \cup delta ELSE @,
               !.cursor = IF fetched THEN Applied ELSE @,
               !.distrusted = IF feed = "down" THEN @ ELSE feed = "unclean",
               !.used = {},
               !.fresh = IF Clean(round.complete, feed, told) THEN round.at ELSE @]
    BY Zenon DEF RefreshFeed
  <1>2. /\ round # Absent /\ round' = Absent
        /\ UNCHANGED <<clock, setting, served, doc, cuts, conns, trail, judged, sent>>
    BY DEF RefreshFeed
  <1> HIDE DEF delta
  <1>3. /\ worker'.up = TRUE /\ worker'.since = worker.since /\ worker'.set = worker.set
        /\ worker'.pins = worker.pins /\ worker'.keys = worker.keys
        /\ worker'.revs = IF fetched /\ Contiguous
                          THEN worker.revs \cup {cuts[i].target : i \in delta} ELSE worker.revs
        /\ worker'.passed = IF fetched /\ ~ Contiguous THEN worker.passed \cup delta ELSE worker.passed
        /\ worker'.cursor = IF fetched THEN Applied ELSE worker.cursor
        /\ worker'.fresh = IF Clean(round.complete, feed, told) THEN round.at ELSE worker.fresh
        /\ worker' = [up |-> TRUE, since |-> worker'.since, table |-> worker'.table,
                      keys |-> worker'.keys,
                      set |-> worker'.set, revs |-> worker'.revs, cursor |-> worker'.cursor,
                      passed |-> worker'.passed,
                      distrusted |-> worker'.distrusted, fresh |-> worker'.fresh,
                      pins |-> worker'.pins, used |-> worker'.used]
    <2>1. worker = [up |-> TRUE, since |-> worker.since, table |-> worker.table,
                    keys |-> worker.keys,
                    set |-> worker.set, revs |-> worker.revs, cursor |-> worker.cursor,
                    passed |-> worker.passed,
                    distrusted |-> worker.distrusted, fresh |-> worker.fresh,
                    pins |-> worker.pins, used |-> worker.used]
      BY <1>0 DEF GatewayInv, WorkerSound
    <2>2. PICK r, p, at, di, fr :
            /\ worker' = [worker EXCEPT !.revs = r, !.passed = p, !.cursor = at,
                                        !.distrusted = di, !.used = {}, !.fresh = fr]
            /\ r = IF fetched /\ Contiguous
                    THEN worker.revs \cup {cuts[i].target : i \in delta} ELSE worker.revs
            /\ p = IF fetched /\ ~ Contiguous THEN worker.passed \cup delta ELSE worker.passed
            /\ at = IF fetched THEN Applied ELSE worker.cursor
            /\ fr = IF Clean(round.complete, feed, told) THEN round.at ELSE worker.fresh
      BY <1>1, Zenon
    <2>3. worker' = [up |-> TRUE, since |-> worker.since, table |-> worker.table,
                     keys |-> worker.keys, set |-> worker.set, revs |-> r, cursor |-> at,
                     passed |-> p, distrusted |-> di, fresh |-> fr,
                     pins |-> worker.pins, used |-> {}]
      <3> DEFINE W(a, b, c, d, u, e) ==
                   [up |-> TRUE, since |-> worker.since, table |-> worker.table,
                    keys |-> worker.keys, set |-> worker.set, revs |-> a, cursor |-> c,
                    passed |-> b, distrusted |-> d, fresh |-> e, pins |-> worker.pins, used |-> u]
          w0 == W(worker.revs, worker.passed, worker.cursor, worker.distrusted, worker.used,
                  worker.fresh)
      <3>1. worker' = [w0 EXCEPT !.revs = r, !.passed = p, !.cursor = at,
                                 !.distrusted = di, !.used = {}, !.fresh = fr]
        BY <2>1, <2>2, Zenon
      <3> QED BY <3>1
    <2>4. worker'.revs = r /\ worker'.passed = p /\ worker'.cursor = at /\ worker'.fresh = fr
      BY <2>3
    <2>5. /\ worker'.up = TRUE /\ worker'.since = worker.since /\ worker'.set = worker.set
          /\ worker'.pins = worker.pins /\ worker'.keys = worker.keys
      BY <2>3
    <2>6. worker' = [up |-> TRUE, since |-> worker'.since, table |-> worker'.table,
                     keys |-> worker'.keys,
                     set |-> worker'.set, revs |-> worker'.revs, cursor |-> worker'.cursor,
                     passed |-> worker'.passed,
                     distrusted |-> worker'.distrusted, fresh |-> worker'.fresh,
                     pins |-> worker'.pins, used |-> worker'.used]
      BY <2>3
    <2> QED BY <2>2, <2>4, <2>5, <2>6, Zenon
  <1>k. ASSUME NEW i \in DOMAIN cuts, Known(i) PROVE Known(i)'
    BY <1>2, <1>3, <1>k DEF Known
  <1>c. CursorTrue'
    <2> SUFFICES ASSUME NEW i \in DOMAIN cuts, i <= worker'.cursor PROVE Known(i)'
      BY <1>2 DEF CursorTrue
    <2>1. i \in Nat
      BY FeedShape DEF GatewayInv, GatewayTyped
    <2>2. CASE i <= n
      BY <1>0, <1>k, <2>2 DEF GatewayInv, WorkerSound, CursorTrue
    <2>3. CASE ~ (i <= n)
      <3>1. fetched /\ i \in delta
        BY <1>0, <1>a, <1>3, <2>1, <2>3 DEF delta
      <3> QED BY <1>2, <1>3, <3>1 DEF Known
    <2> QED BY <2>2, <2>3
  <1>4. FreshTrue'
    <2> SUFFICES ASSUME NEW i \in DOMAIN cuts, cuts[i].at < worker'.fresh
                 PROVE  cuts[i].at < worker.since \/ Known(i)'
      BY <1>2, <1>3 DEF FreshTrue
    <2>1. CASE feed = "clean"
      <3>1. worker'.cursor = Len(cuts) /\ i <= Len(cuts)
        BY <2>1, <1>1, <1>3 DEF GatewayInv, GatewayTyped
      <3> QED BY <3>1, <1>2, <1>c DEF CursorTrue
    <2>2. CASE feed # "clean"
      <3>1. worker'.fresh = worker.fresh
        BY <2>2, <1>3 DEF Clean
      <3> QED BY <3>1, <1>0, <1>k DEF GatewayInv, WorkerSound, FreshTrue
    <2> QED BY <2>1, <2>2
  <1>5. PinsTrue'
    BY <1>0, <1>2, <1>3 DEF GatewayInv, WorkerSound, PinsTrue
  <1>6. worker'.fresh \in Nat /\ worker'.fresh <= clock
    BY <1>0, <1>2, <1>3 DEF GatewayInv, WorkerSound, GatewayTyped
  <1>7. \A i \in DOMAIN worker'.set : Good(worker'.set[i], worker'.keys)
    BY <1>0, <1>3 DEF GatewayInv, WorkerSound
  <1>9. worker'.cursor \in Nat /\ worker'.cursor <= Len(cuts)
    BY <1>0, <1>a, <1>3
  <1>8. WorkerSound'
    BY <1>0, <1>2, <1>3, <1>4, <1>5, <1>6, <1>7, <1>9, <1>c DEF GatewayInv, WorkerSound, Good
  <1>10. worker.passed \subseteq worker'.passed
    BY <1>3
  <1> QED BY <1>0, <1>2, <1>3, <1>8, <1>10, BesideKeeps

---------------------------------------------------------------------------
(* The streams. *)

\* One stream changes.
LEMMA StreamKeeps ==
    ASSUME GatewayInv, NEW s \in Stream, NEW v, conns' = [conns EXCEPT ![s] = v], ConnSound(v)',
           worker.up, worker'.up, worker'.since = worker.since, worker'.passed = worker.passed,
           WorkerSound', RecordedOrBroken',
           UNCHANGED <<clock, setting, round, served, doc, cuts>>
    PROVE  GatewayInv'
  <1>1. Onward
    BY DEF Onward, GatewayInv, GatewayTyped
  <1>2. ASSUME NEW t \in Stream PROVE ConnSound(conns[t])'
    <2>1. PICK c : c = conns'[t]
      OBVIOUS
    <2>2. conns = [x \in Stream |-> conns[x]]
      BY DEF GatewayInv, ConnsSound
    <2>3. c = v \/ c = conns[t]
      BY <2>1, <2>2
    <2>4. ConnSound(c)'
      <3>1. CASE c = v
        BY <3>1
      <3>2. CASE c = conns[t]
        <4>1. ConnSound(c)
          BY <3>2 DEF GatewayInv, ConnsSound
        <4> QED BY <4>1, <1>1, ConnStays DEF GatewayInv
      <3> QED BY <2>3, <3>1, <3>2
    <2> QED BY <2>1, <2>4 DEF ConnSound, HeldSound, CallSound, Holding, Governing
  <1>3. conns' = [t \in Stream |-> conns'[t]]
    BY DEF GatewayInv, ConnsSound
  <1>4. ConnsSound'
    BY <1>2, <1>3 DEF ConnsSound
  <1> QED BY <1>4 DEF GatewayInv, GatewayTyped

LEMMA HangupKeeps ==
    ASSUME GatewayInv, NEW s \in Stream, Hangup(s)
    PROVE  GatewayInv'
  <1>1. worker.up
    BY DEF Hangup, GatewayInv, ConnsSound
  <1>2. ConnSound(NoConn)'
    BY DEF ConnSound
  <1>3. /\ conns' = [conns EXCEPT ![s] = NoConn]
        /\ UNCHANGED <<clock, setting, worker, round, served, doc, cuts, trail, judged, sent>>
    BY DEF Hangup
  <1>4. WorkerSound' /\ RecordedOrBroken'
    <2>1. Onward
      BY <1>3 DEF Onward, GatewayInv, GatewayTyped
    <2> QED BY <1>3, <2>1, WorkerStays DEF GatewayInv, RecordedOrBroken
  <1> QED BY <1>1, <1>2, <1>3, <1>4, StreamKeeps

\* What a stream is given when it opens: none of it is cut longer ago than the
\* set may be stale.
LEMMA ResolvedIsSound ==
    ASSUME GatewayInv, worker.up, NEW p \in Presentations, NEW callee,
           NEW a, NEW i, i \in DOMAIN ResolveSet(Identify(p), callee),
           a = ResolveSet(Identify(p), callee)[i]
    PROVE  /\ Good(a, worker.keys)
           /\ AdmitContext(a.payload, p.real, callee, setting.mode, setting.anyZone)
           /\ Timely(a.payload, clock)
  <1>1. PICK caller : caller = Identify(p)
    OBVIOUS
  <1>2. ~ Stale /\ caller # Absent
    BY <1>1 DEF ResolveSet
  <1>3. /\ i \in DOMAIN ResolveAll(caller, callee) /\ a = ResolveAll(caller, callee)[i]
        /\ AdmitContext(a.payload, caller, callee, setting.mode, setting.anyZone)
    BY <1>1, <1>2 DEF ResolveSet, Restrict
  <1>4. i \in DOMAIN worker.set /\ a = worker.set[i] /\ ~ RevokedBy(a.payload, worker.revs)
    BY <1>3 DEF ResolveAll, Restrict
  <1>5. caller = p.real
    BY <1>1, <1>2, IdentityIsReal DEF GatewayInv, GatewayTyped
  <1>6. Timely(a.payload, clock)
    <2> SUFFICES ASSUME setting.maxStale > 0, NEW j \in DOMAIN cuts,
                        RevokedBy(a.payload, {cuts[j].target}), cuts[j].at >= worker.since,
                        j \notin worker.passed
                 PROVE  cuts[j].at + setting.maxStale >= clock
      BY DEF Timely
    <2>1. ~ Known(j)
      BY <1>4 DEF RevokedBy, Known
    <2>0. cuts[j].at \in Nat
      BY FeedShape DEF GatewayInv, GatewayTyped
    <2>2. /\ clock \in Nat /\ worker.since \in Nat /\ worker.fresh \in Nat
          /\ setting.maxStale \in Nat
          /\ (cuts[j].at < worker.fresh => cuts[j].at < worker.since)
      BY <2>1, GatewayAssumption DEF GatewayInv, GatewayTyped, WorkerSound, FreshTrue
    <2>3. worker.fresh <= cuts[j].at
      BY <2>0, <2>2
    <2>4. ~ (clock - worker.fresh > setting.maxStale)
      BY <1>2 DEF Stale
    <2> QED BY <2>0, <2>2, <2>3, <2>4
  <1> QED BY <1>3, <1>4, <1>5, <1>6 DEF GatewayInv, WorkerSound

LEMMA ConnectKeeps ==
    ASSUME GatewayInv, NEW s \in Stream, NEW p \in Presentations, NEW key, Connect(s, p, key)
    PROVE  GatewayInv'
  <1>1. PICK callee : callee = Lookup(worker.table, key)
    OBVIOUS
  <1>2. PICK got : got = ResolveSet(Identify(p), callee)
    OBVIOUS
  <1>3. PICK c : c = [phase |-> "open", real |-> p.real, callee |-> callee, keys |-> worker.keys, held |-> got,
                      delivery |-> Delivery(got), at |-> clock, call |-> Absent, of |-> Absent,
                      body |-> Absent]
    OBVIOUS
  <1>4. /\ worker.up /\ conns' = [conns EXCEPT ![s] = c]
        /\ UNCHANGED <<clock, setting, worker, round, served, doc, cuts, trail, judged, sent>>
    BY <1>1, <1>2, <1>3 DEF Connect, Opened
  <1>5. HeldSound(c)
    <2> SUFFICES ASSUME NEW a \in Holding(c)
                 PROVE  /\ Good(a, worker.keys)
                        /\ AdmitContext(a.payload, p.real, callee, setting.mode, setting.anyZone)
                        /\ Timely(a.payload, clock)
      BY <1>3 DEF HeldSound
    <2>1. PICK i \in DOMAIN got : a = got[i]
      BY <1>3 DEF Holding
    <2> QED BY <2>1, <1>2, <1>4, ResolvedIsSound
  <1>6. ConnSound(c)
    BY <1>3, <1>5 DEF ConnSound, GatewayInv, GatewayTyped
  <1>7. Onward
    BY <1>4 DEF Onward, GatewayInv, GatewayTyped
  <1>8. ConnSound(c)'
    BY <1>4, <1>6, <1>7, ConnStays DEF GatewayInv
  <1>9. WorkerSound' /\ RecordedOrBroken'
    BY <1>4, <1>7, WorkerStays DEF GatewayInv, RecordedOrBroken
  <1> QED BY <1>4, <1>8, <1>9, StreamKeeps

\* A stream that goes on with what it holds.
LEMMA SameHoldings ==
    ASSUME NEW c, NEW v, c # NoConn, ConnSound(c),
           v = [phase |-> v.phase, real |-> c.real, callee |-> c.callee, keys |-> c.keys, held |-> c.held,
                delivery |-> c.delivery, at |-> c.at, call |-> v.call, of |-> v.of,
                body |-> v.body],
           (v.phase = "called" => CallSound(v))
    PROVE  ConnSound(v)
  <1>1. /\ v.real = c.real /\ v.callee = c.callee /\ v.held = c.held /\ v.delivery = c.delivery
        /\ v.at = c.at /\ v.keys = c.keys
    OBVIOUS
  <1>2. Holding(v) = Holding(c)
    BY <1>1 DEF Holding
  <1>3. HeldSound(v)
    BY <1>1, <1>2 DEF HeldSound, ConnSound
  <1> QED BY <1>1, <1>3 DEF ConnSound

LEMMA AnswerKeeps ==
    ASSUME GatewayInv, NEW s \in Stream, Answer(s)
    PROVE  GatewayInv'
  <1>1. PICK c : c = conns[s]
    OBVIOUS
  <1>2. c.phase = "listing" /\ c # NoConn /\ ConnSound(c) /\ worker.up
    BY <1>1 DEF Answer, NoConn, GatewayInv, ConnsSound
  <1>3. PICK listed : conns' = [conns EXCEPT ![s].phase = "answered", ![s].body = listed]
    BY DEF Answer
  <1>4. UNCHANGED <<clock, setting, worker, round, served, doc, cuts, trail, judged, sent>>
    BY DEF Answer
  <1>5. PICK v : v = [phase |-> "answered", real |-> c.real, callee |-> c.callee, keys |-> c.keys, held |-> c.held,
                      delivery |-> c.delivery, at |-> c.at, call |-> c.call, of |-> c.of,
                      body |-> listed]
    OBVIOUS
  <1>6. conns' = [conns EXCEPT ![s] = v]
    <2>1. c = [phase |-> c.phase, real |-> c.real, callee |-> c.callee, keys |-> c.keys, held |-> c.held,
               delivery |-> c.delivery, at |-> c.at, call |-> c.call, of |-> c.of, body |-> c.body]
      BY <1>2 DEF ConnSound
    <2>2. PICK w : w = [c EXCEPT !.phase = "answered", !.body = listed]
      OBVIOUS
    <2>3. w = [phase |-> "answered", real |-> c.real, callee |-> c.callee, keys |-> c.keys, held |-> c.held,
               delivery |-> c.delivery, at |-> c.at, call |-> c.call, of |-> c.of,
               body |-> listed]
      BY <2>1, <2>2
    <2> QED BY <2>2, <2>3, <1>1, <1>3, <1>5
  <1>7. ConnSound(v)
    BY <1>2, <1>5, SameHoldings
  <1>8. Onward
    BY <1>4 DEF Onward, GatewayInv, GatewayTyped
  <1>9. ConnSound(v)' /\ WorkerSound' /\ RecordedOrBroken'
    BY <1>4, <1>7, <1>8, ConnStays, WorkerStays DEF GatewayInv, RecordedOrBroken
  <1> QED BY <1>2, <1>4, <1>6, <1>9, StreamKeeps

\* A call that is let through stands on the one contract that names its tool.
LEMMA CallIsSound ==
    ASSUME GatewayInv, worker.up, NEW c, c # NoConn, ConnSound(c), NEW f, Verdict(c, f) = "call",
           NEW v, v = [phase |-> "called", real |-> c.real, callee |-> c.callee, keys |-> c.keys, held |-> c.held,
                       delivery |-> c.delivery, at |-> c.at,
                       call |-> [tool |-> f.tool, when |-> clock, saw |-> judged],
                       of |-> c.of, body |-> c.body]
    PROVE  CallSound(v) /\ c.held # <<>>
  <1>1. PICK a \in Governing(c, f.tool) : Governing(c, f.tool) = {a} /\ Pinned(c, a)
    BY DEF Verdict
  <1>2. c.held # <<>>
    BY DEF Verdict
  <1>3. a \in Holding(c) /\ Holding(v) = Holding(c) /\ Governing(v, v.call.tool) = {a}
    BY <1>1 DEF Governing, Holding
  <1>4. v.call.saw = judged
    OBVIOUS
  <1>5. ASSUME ~ setting.noPin
        PROVE  a.payload.jti \in DOMAIN judged /\ CheckPin(a.payload, judged[a.payload.jti])
    <2>1. a.payload.jti \in DOMAIN worker.pins
      BY <1>1, <1>5 DEF Pinned
    <2>2. a \in Artifacts /\ a.sig = "issuer"
      BY <1>3 DEF ConnSound, HeldSound, Good
    <2> QED BY <2>1, <2>2 DEF GatewayInv, WorkerSound, PinsTrue
  <1> QED BY <1>2, <1>3, <1>4, <1>5 DEF CallSound

LEMMA OnRequestKeeps ==
    ASSUME GatewayInv, NEW s \in Stream, NEW f, NEW write, OnRequest(s, f, write)
    PROVE  GatewayInv'
  <1>1. PICK c : c = conns[s]
    OBVIOUS
  <1>2. c.phase = "open" /\ c # NoConn /\ ConnSound(c) /\ worker.up
    BY <1>1 DEF OnRequest, NoConn, GatewayInv, ConnsSound
  <1>3. PICK verdict : verdict = IF f.parses THEN Verdict(c, f) ELSE "refuse"
    OBVIOUS
  <1>4. PICK refused \in BOOLEAN : refused = (verdict = "refuse" \/ ~ RecordedOrRefused(c, write))
    OBVIOUS
  <1>5. PICK owed \in BOOLEAN :
          owed = (/\ verdict = "call" /\ setting.trail
                  /\ \E a \in Governing(c, f.tool) : a.payload.delivery = "blocking")
    OBVIOUS
  <1>6. PICK n : n = IF owed THEN Cardinality(sent) + 1 ELSE 0
    OBVIOUS
  <1>7. /\ trail' = IF setting.trail THEN Recorded(write, n) ELSE trail
        /\ conns' = [conns EXCEPT ![s] = IF refused THEN NoConn ELSE Forwarded(c, f, verdict)]
        /\ worker' = IF refused \/ c.held = <<>> THEN worker
                     ELSE [worker EXCEPT !.used = @ \cup {c.held[Min(DOMAIN c.held)].payload.cid}]
        /\ sent' = IF owed /\ ~ refused THEN sent \cup {n} ELSE sent
        /\ UNCHANGED <<clock, setting, round, served, doc, cuts, judged>>
    BY <1>1, <1>3, <1>4, <1>5, <1>6, Zenon DEF OnRequest
  <1>8. /\ worker'.up = TRUE /\ worker'.since = worker.since /\ worker'.set = worker.set
        /\ worker'.keys = worker.keys /\ worker'.cursor = worker.cursor /\ worker'.passed = worker.passed
        /\ worker'.revs = worker.revs /\ worker'.fresh = worker.fresh /\ worker'.pins = worker.pins
        /\ worker' = [up |-> TRUE, since |-> worker'.since, table |-> worker'.table, keys |-> worker'.keys,
                      set |-> worker'.set, revs |-> worker'.revs, cursor |-> worker'.cursor,
                      passed |-> worker'.passed,
                      distrusted |-> worker'.distrusted, fresh |-> worker'.fresh,
                      pins |-> worker'.pins, used |-> worker'.used]
    <2>1. worker = [up |-> TRUE, since |-> worker.since, table |-> worker.table, keys |-> worker.keys,
                    set |-> worker.set, revs |-> worker.revs, cursor |-> worker.cursor,
                    passed |-> worker.passed,
                    distrusted |-> worker.distrusted, fresh |-> worker.fresh,
                    pins |-> worker.pins, used |-> worker.used]
      BY <1>2 DEF GatewayInv, WorkerSound
    <2>2. worker' = worker \/ \E u : worker' = [worker EXCEPT !.used = u]
      BY <1>7
    <2> QED BY <2>1, <2>2
  <1>9. WorkerSound'
    <2>1. CursorTrue' /\ FreshTrue' /\ PinsTrue'
      BY <1>2, <1>7, <1>8 DEF GatewayInv, WorkerSound, CursorTrue, FreshTrue, Known, PinsTrue
    <2> QED BY <1>2, <1>7, <1>8, <2>1 DEF GatewayInv, WorkerSound, Good
  <1>10. RecordedOrBroken'
    <2>1. CASE trail.torn
      BY <2>1, <1>7 DEF RecordedOrBroken, Recorded
    <2>2. CASE sent \subseteq trail.rows /\ ~ (owed /\ ~ refused)
      BY <2>2, <1>7 DEF RecordedOrBroken, Recorded
    <2>3. CASE sent \subseteq trail.rows /\ owed /\ ~ refused
      <3>1. PICK a \in Holding(c) : a.payload.delivery = "blocking"
        BY <2>3, <1>5 DEF Governing
      <3>2. PICK i \in DOMAIN c.held : c.held[i].payload.delivery = "blocking"
        BY <3>1 DEF Holding
      <3>3. c.held # <<>>
        BY <3>2
      <3>4. c.delivery = "blocking"
        BY <1>2, <3>2, <3>3 DEF ConnSound, Delivery
      <3>5. setting.trail /\ write = "whole"
        BY <2>3, <3>4, <1>4, <1>5 DEF RecordedOrRefused
      <3> QED BY <2>3, <3>5, <1>7 DEF RecordedOrBroken, Recorded
    <2> QED BY <2>1, <2>2, <2>3 DEF GatewayInv, RecordedOrBroken
  <1>11. PICK v : v = IF refused THEN NoConn ELSE Forwarded(c, f, verdict)
    OBVIOUS
  <1>12. ConnSound(v)
    <2>0. c = [phase |-> c.phase, real |-> c.real, callee |-> c.callee, keys |-> c.keys, held |-> c.held,
               delivery |-> c.delivery, at |-> c.at, call |-> c.call, of |-> c.of, body |-> c.body]
      BY <1>2 DEF ConnSound
    <2>1. CASE v = NoConn
      BY <2>1 DEF ConnSound
    <2>2. CASE ~ refused /\ verdict = "call"
      <3>1. v = [phase |-> "called", real |-> c.real, callee |-> c.callee, keys |-> c.keys, held |-> c.held,
                 delivery |-> c.delivery, at |-> c.at,
                 call |-> [tool |-> f.tool, when |-> clock, saw |-> judged],
                 of |-> c.of, body |-> c.body]
        BY <2>0, <2>2, <1>11 DEF Forwarded
      <3>2. Verdict(c, f) = "call"
        BY <2>2, <1>3
      <3>3. CallSound(v)
        BY <3>1, <3>2, <1>2, CallIsSound
      <3> QED BY <3>1, <3>3, <1>2, SameHoldings
    <2>3. CASE ~ refused /\ verdict = "catalog"
      <3>1. v = [phase |-> "listing", real |-> c.real, callee |-> c.callee, keys |-> c.keys, held |-> c.held,
                 delivery |-> c.delivery, at |-> c.at, call |-> c.call, of |-> f.list,
                 body |-> c.body]
        BY <2>0, <2>3, <1>11 DEF Forwarded
      <3> QED BY <3>1, <1>2, SameHoldings
    <2>4. v = NoConn \/ (~ refused /\ verdict = "call") \/ (~ refused /\ verdict = "catalog")
      BY <1>11 DEF Forwarded
    <2> QED BY <2>1, <2>2, <2>3, <2>4
  <1>13. Onward
    BY <1>7 DEF Onward, GatewayInv, GatewayTyped
  <1>14. ConnSound(v)'
    BY <1>7, <1>8, <1>12, <1>13, ConnStays DEF GatewayInv
  <1>15. conns' = [conns EXCEPT ![s] = v]
    BY <1>7, <1>11
  <1> QED BY <1>2, <1>7, <1>8, <1>9, <1>10, <1>14, <1>15, StreamKeeps

\* A catalogue read against a stream's contracts: a pin that stays, or is
\* recorded, is matched by the surface its contract is now judged against.
LEMMA PinsFollow ==
    ASSUME GatewayInv, worker.up, NEW c, c # NoConn, ConnSound(c), NEW pin, ~ setting.noPin,
           setting' = setting, judged' = Marked(judged, Jtis(c), pin),
           \/ /\ \A a \in Holding(c) : CheckPin(a.payload, pin)
              /\ worker'.pins = Marked(worker.pins, Jtis(c), c.at)
           \/ worker'.pins = Restrict(worker.pins, DOMAIN worker.pins \ Jtis(c))
    PROVE  PinsTrue'
  <1>1. PICK jtis : jtis = Jtis(c)
    OBVIOUS
  <1>2. /\ DOMAIN judged' = jtis \cup DOMAIN judged
        /\ \A j \in jtis : judged'[j] = pin
        /\ \A j \in DOMAIN judged : j \notin jtis => judged'[j] = judged[j]
    BY <1>1 DEF Marked
  <1>3. /\ DOMAIN worker'.pins \subseteq jtis \cup DOMAIN worker.pins
        /\ (\A a \in Holding(c) : CheckPin(a.payload, pin)) \/ jtis \cap DOMAIN worker'.pins = {}
    BY <1>1 DEF Marked, Restrict
  <1> SUFFICES ASSUME NEW j \in DOMAIN worker'.pins
               PROVE  /\ j \in DOMAIN judged'
                      /\ \A a \in Artifacts : a.sig = "issuer" /\ a.payload.jti = j
                                                => CheckPin(a.payload, judged'[j])
    BY DEF PinsTrue
  <1>4. CASE j \in jtis
    <2>1. PICK b \in Holding(c) : b.payload.jti = j
      BY <1>4, <1>1 DEF Jtis
    <2>2. b \in Artifacts /\ b.sig = "issuer"
      BY <2>1 DEF ConnSound, HeldSound, Good
    <2>3. CheckPin(b.payload, pin)
      BY <1>3, <1>4, <2>1
    <2>4. ASSUME NEW a \in Artifacts, a.sig = "issuer", a.payload.jti = j
          PROVE  CheckPin(a.payload, pin)
      <3>1. a.payload = b.payload
        BY <2>1, <2>2, <2>4, GatewayAssumption
      <3> QED BY <3>1, <2>3
    <2> QED BY <1>2, <1>4, <2>4
  <1>5. CASE j \notin jtis
    <2>1. j \in DOMAIN worker.pins
      BY <1>3, <1>5
    <2>2. /\ j \in DOMAIN judged
          /\ \A a \in Artifacts : a.sig = "issuer" /\ a.payload.jti = j
                                    => CheckPin(a.payload, judged[j])
      BY <2>1 DEF GatewayInv, WorkerSound, PinsTrue
    <2> QED BY <1>2, <1>5, <2>2
  <1> QED BY <1>4, <1>5

LEMMA OnCatalogueKeeps ==
    ASSUME GatewayInv, NEW s \in Stream, NEW json \in BOOLEAN, OnCatalogue(s, json)
    PROVE  GatewayInv'
  <1>1. PICK c : c = conns[s]
    OBVIOUS
  <1>2. c.phase = "answered" /\ c # NoConn /\ ConnSound(c) /\ worker.up
    BY <1>1 DEF OnCatalogue, NoConn, GatewayInv, ConnsSound
  <1>3. PICK pin : pin = PinOf(c.body)
    OBVIOUS
  <1>4. /\ conns' = [conns EXCEPT ![s] = NoConn]
        /\ UNCHANGED <<clock, setting, round, served, doc, cuts, trail, sent>>
    BY DEF OnCatalogue
  <1>5. ConnSound(NoConn)'
    BY DEF ConnSound
  <1>6. RecordedOrBroken'
    BY <1>4 DEF GatewayInv, RecordedOrBroken
  <1>7. CASE UNCHANGED <<worker, judged>>
    <2>1. Onward
      BY <1>4 DEF Onward, GatewayInv, GatewayTyped
    <2>2. WorkerSound'
      BY <1>4, <1>7, <2>1, WorkerStays DEF GatewayInv
    <2> QED BY <1>2, <1>4, <1>5, <1>6, <1>7, <2>2, StreamKeeps
  <1>8. CASE ~ UNCHANGED <<worker, judged>>
    <2>1. PICK ledger :
            /\ worker' = [worker EXCEPT !.pins = ledger]
            /\ judged' = Marked(judged, Jtis(c), pin)
            /\ \/ setting.noPin /\ ledger = worker.pins
               \/ /\ \A a \in Holding(c) : CheckPin(a.payload, pin)
                  /\ ~ setting.noPin /\ ledger = Marked(worker.pins, Jtis(c), c.at)
               \/ ~ setting.noPin /\ ledger = Restrict(worker.pins, DOMAIN worker.pins \ Jtis(c))
      BY <1>1, <1>3, <1>8 DEF OnCatalogue, Forgotten
    <2>2. worker' = [up |-> TRUE, since |-> worker.since, table |-> worker.table, keys |-> worker.keys,
                     set |-> worker.set, revs |-> worker.revs, cursor |-> worker.cursor,
                     passed |-> worker.passed,
                     distrusted |-> worker.distrusted, fresh |-> worker.fresh,
                     pins |-> ledger, used |-> worker.used]
      BY <1>2, <2>1 DEF GatewayInv, WorkerSound
    <2>3. worker'.pins = ledger
      BY <2>2
    <2>4. PinsTrue'
      <3>1. CASE setting.noPin
        BY <3>1, <1>2, <1>4, <2>1, <2>3 DEF GatewayInv, WorkerSound, PinsTrue
      <3>2. CASE ~ setting.noPin
        BY <3>2, <1>2, <1>4, <2>1, <2>3, PinsFollow
      <3> QED BY <3>1, <3>2
    <2>5. CursorTrue' /\ FreshTrue'
      BY <1>2, <1>4, <2>2 DEF GatewayInv, WorkerSound, CursorTrue, FreshTrue, Known
    <2>7. WorkerSound'
      BY <1>2, <1>4, <2>2, <2>4, <2>5 DEF GatewayInv, WorkerSound, Good
    <2> QED BY <1>2, <1>4, <1>5, <1>6, <2>2, <2>7, StreamKeeps
  <1> QED BY <1>7, <1>8

---------------------------------------------------------------------------

LEMMA GatewayStart ==
    ASSUME GatewayInit
    PROVE  GatewayInv
  <1>1. ~ worker.up
    BY DEF GatewayInit, Dead
  <1>2. WorkerSound
    BY <1>1 DEF WorkerSound
  <1>3. ConnsSound
    BY DEF GatewayInit, ConnsSound, ConnSound
  <1> QED BY <1>2, <1>3 DEF GatewayInit, GatewayInv, GatewayTyped, RecordedOrBroken

LEMMA GatewayStep ==
    ASSUME GatewayInv, [GatewayNext]_gatewayVars
    PROVE  GatewayInv'
  <1>0. /\ clock \in Nat /\ served \in Publications /\ doc \in KeyDocs
        /\ cuts \in Seq([target : Orders, at : Nat, entry : FeedEntries])
    BY DEF GatewayInv, GatewayTyped
  <1>1. CASE Boot \/ Crash \/ ReloadRoutes \/ \E reread \in BOOLEAN : RefreshSet(reread)
    BY <1>1, BootKeeps, CrashKeeps, ReloadKeeps, RefreshSetKeeps
  <1>2. CASE Second
    <2>1. Onward
      BY <1>0, <1>2 DEF Second, Onward
    <2> QED BY <1>0, <1>2, <2>1, AroundKeeps DEF Second
  <1>3. CASE \E fetched, told \in BOOLEAN : RefreshFeed(fetched, told)
    BY <1>3, RefreshFeedKeeps
  <1>4. ASSUME NEW s \in Stream,
               \/ \E p \in Presentations, e \in routeFile : Connect(s, p, e.key)
               \/ \E f \in Frames, w \in IF setting.trail THEN Writes ELSE {"whole"} :
                        OnRequest(s, f, w)
               \/ Answer(s) \/ Hangup(s)
               \/ \E json \in BOOLEAN : OnCatalogue(s, json)
        PROVE  GatewayInv'
    BY <1>4, ConnectKeeps, OnRequestKeeps, AnswerKeeps, HangupKeeps, OnCatalogueKeeps
  <1>5. ASSUME NEW p \in Publications, PublishSet(p) PROVE GatewayInv'
    <2>1. Onward
      BY <1>0, <1>5 DEF PublishSet, Onward
    <2> QED BY <1>0, <1>5, <2>1, AroundKeeps DEF PublishSet
  <1>6. ASSUME NEW x \in Orders, NEW e \in FeedEntries, OrderCut(x, e) PROVE GatewayInv'
    <2>1. Onward
      <3>1. cuts' = Append(cuts, [target |-> x, at |-> clock, entry |-> e]) /\ clock' = clock
        BY <1>6 DEF OrderCut
      <3> QED BY <1>0, <3>1 DEF Onward
    <2> QED BY <1>0, <1>6, <2>1, AroundKeeps DEF OrderCut
  <1>7. ASSUME NEW x, EditRoutes(x) \/ Drift(x) \/ (x \in KeyDocs /\ ServeKeys(x))
        PROVE  GatewayInv'
    <2>1. Onward
      BY <1>0, <1>7 DEF EditRoutes, Drift, ServeKeys, Onward
    <2> QED BY <1>0, <1>7, <2>1, AroundKeeps DEF EditRoutes, Drift, ServeKeys
  <1>8. CASE UNCHANGED gatewayVars
    <2>1. Onward
      BY <1>0, <1>8 DEF gatewayVars, Onward
    <2> QED BY <1>0, <1>8, <2>1, AroundKeeps DEF gatewayVars
  <1> QED BY <1>1, <1>2, <1>3, <1>4, <1>5, <1>6, <1>7, <1>8 DEF GatewayNext

LEMMA CallIsGoverned ==
    ASSUME GatewayInv, NEW s \in Stream, conns[s].phase = "called"
    PROVE  \E a \in Holding(conns[s]) :
             /\ Governing(conns[s], conns[s].call.tool) = {a}
             /\ a.payload.aud = Me /\ a.payload.iss = Issuer /\ a.sig = "issuer"
             /\ a.payload.caller = conns[s].real /\ a.payload.callee = conns[s].callee
             /\ ~ setting.noPin =>
                  /\ a.payload.jti \in DOMAIN conns[s].call.saw
                  /\ CheckPin(a.payload, conns[s].call.saw[a.payload.jti])
             /\ VerifyScenario(a, AddJwks(conns[s].keys), Me, ScenarioOf(conns[s], a.payload),
                               a.payload.nbf, setting.mode)
             /\ Timely(a.payload, conns[s].at)
  <1>1. PICK c : c = conns[s]
    OBVIOUS
  <1>2. c # NoConn
    BY <1>1 DEF NoConn
  <1>3. ConnSound(c)
    BY <1>1 DEF GatewayInv, ConnsSound
  <1>4. CallSound(c) /\ HeldSound(c)
    BY <1>1, <1>2, <1>3 DEF ConnSound
  <1>5. PICK a \in Holding(c) :
          /\ Governing(c, c.call.tool) = {a}
          /\ ~ setting.noPin => /\ a.payload.jti \in DOMAIN c.call.saw
                                /\ CheckPin(a.payload, c.call.saw[a.payload.jti])
    BY <1>4 DEF CallSound
  <1>6. /\ Good(a, c.keys) /\ Timely(a.payload, c.at)
        /\ AdmitContext(a.payload, c.real, c.callee, setting.mode, setting.anyZone)
    BY <1>4, <1>5 DEF HeldSound
  <1>7. a.payload.aud = Me /\ a.payload.iss = Issuer /\ a.sig = "issuer"
    BY <1>6 DEF Good, VerifyArtifact, PayloadHolds
  <1>8. a.payload.caller = c.real /\ a.payload.callee = c.callee
    BY <1>6 DEF AdmitContext
  <1>9. PICK p : p = a.payload
    OBVIOUS
  <1>10. PICK sc : sc = ScenarioOf(c, p)
    OBVIOUS
  <1>11. /\ sc.caller = c.real /\ sc.callee = c.callee /\ sc.iss = Issuer /\ sc.revoked = {}
         /\ (sc.presented # Absent => ~ setting.noPin /\ sc.presented = c.call.saw[p.jti])
         /\ sc.pairs = IF setting.anyZone THEN {p.zones} ELSE Absent
    BY <1>10 DEF ScenarioOf
  <1>12. VerifyScenario(a, AddJwks(c.keys), Me, sc, p.nbf, setting.mode)
    <2>1. VerifyArtifact(a, AddJwks(c.keys), Me,
                         IF sc.iss = Absent THEN a.payload.iss ELSE sc.iss, p.nbf)
      BY <1>6, <1>7, <1>9, <1>11 DEF Good
    <2>2. ~ RevokedBy(p, sc.revoked)
      BY <1>11 DEF RevokedBy
    <2>3. sc.presented # Absent => CheckPin(p, sc.presented)
      BY <1>5, <1>9, <1>11
    <2>4. {p.zones} # Absent
      BY <1>6, <1>9, GatewayAssumption DEF Good
    <2>5. IF sc.pairs = Absent THEN AdmitContext(p, sc.caller, sc.callee, setting.mode, FALSE)
          ELSE /\ AdmitContext(p, sc.caller, sc.callee, setting.mode, TRUE)
               /\ ScenarioZones(p, sc.pairs)
      BY <1>6, <1>9, <1>11, <2>4 DEF AdmitContext, ScenarioZones
    <2> QED BY <1>9, <2>1, <2>2, <2>3, <2>5 DEF VerifyScenario
  <1> QED BY <1>1, <1>5, <1>6, <1>7, <1>8, <1>9, <1>10, <1>12

\* Whatever the streams, the refreshes, the crashes and the orders do, a call
\* that was forwarded stood on exactly one contract that governs it, not cut longer ago
\* than the staleness bound unless the worker's cursor went past the cut, and what had
\* to be recorded is in the trail unless the trail is broken (wc-gateway lib.rs
\* Filter, contracts.rs ContractSet::resolve, client.rs, evidence.rs FileSink).
THEOREM CallsAreGoverned == GatewaySpec => []ForwardedIsGoverned
  <1>1. GatewayInit => GatewayInv
    BY GatewayStart
  <1>2. GatewayInv /\ [GatewayNext]_gatewayVars => GatewayInv'
    BY GatewayStep
  <1>3. GatewayInv => ForwardedIsGoverned
    <2> SUFFICES ASSUME GatewayInv PROVE ForwardedIsGoverned
      OBVIOUS
    <2>1. CallsGoverned
      BY CallIsGoverned DEF CallsGoverned, Timely
    <2> QED BY <2>1 DEF ForwardedIsGoverned, GatewayInv
  <1> QED BY <1>1, <1>2, <1>3, PTL DEF GatewaySpec
===========================================================================
