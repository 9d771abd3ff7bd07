------------------------------ MODULE KeyLife ------------------------------
(***************************************************************************)
(* The life of an issuer key: the keyring (keys.rs) and the commands on    *)
(* it, the published key set, and the cached copy a mediator verifies      *)
(* against (jwks.rs), which is read again past its TTL and served beyond   *)
(* it, up to a bound, while the key server does not answer.                *)
(*                                                                         *)
(* The ring is a file edited by commands; nothing but the `keys' commands  *)
(* writes it.  Contracts are signed by the key the issuer was started      *)
(* with, which the runbook makes the active one.                           *)
(***************************************************************************)
EXTENDS Integers, FiniteSets

CONSTANTS
    LKid,        \* key ids
    LMediator,   \* mediator ids
    KeyTtl,      \* a loaded set is fresh for this long
    MaxStale,    \* with_max_stale: a set this old is still served
    Margin,      \* RETIREMENT_MARGIN_SECS
    LMaxExp,     \* bound on the expiry of a contract
    LMaxClock    \* bound on the clock

VARIABLES
    keyState,    \* keyState[k]: "Out" of the ring, "Active", "Retiring", "Retired"
    noted,       \* noted[k]: last_contract_exp, or Unknown
    signedTo,    \* signedTo[k]: the latest exp of the contracts k signed, or Unknown
    published,   \* the key set the server hands out
    lastOut,     \* history: lastOut[k]: when k was last in the published set
    cached,      \* cached[m]: [keys, at], or NotLoaded
    verifying,   \* verifying[m]: the keys m verifies with since its last question
    askedAt,     \* history: askedAt[m]: when that question was
    keyClock     \* seconds

keyVars == <<keyState, noted, signedTo, published, lastOut, cached, verifying, askedAt, keyClock>>
ringVars == <<keyState, noted, signedTo>>

Unknown == -1
NotLoaded == [keys |-> {}, at |-> Unknown]

\* verifies: the keys a mediator should still hold.
Verifying == {k \in LKid : keyState[k] \in {"Active", "Retiring"}}
ActiveKeys == {k \in LKid : keyState[k] = "Active"}

KeyInit ==
    /\ keyState = [k \in LKid |-> "Out"]
    /\ noted = [k \in LKid |-> Unknown] /\ signedTo = [k \in LKid |-> Unknown]
    /\ published = {} /\ lastOut = [k \in LKid |-> Unknown]
    /\ cached = [m \in LMediator |-> NotLoaded]
    /\ verifying = [m \in LMediator |-> {}] /\ askedAt = [m \in LMediator |-> 0]
    /\ keyClock = 0

---------------------------------------------------------------------------
(* The ring.                                                               *)

\* keys add: the first key signs at once, a later one waits to be rotated to.
AddKey(k) ==
    /\ keyState[k] = "Out"
    /\ keyState' = [keyState EXCEPT ![k] = IF \A j \in LKid : keyState[j] = "Out"
                                           THEN "Active" ELSE "Retiring"]
    /\ UNCHANGED <<noted, signedTo, published, lastOut, cached, verifying, askedAt, keyClock>>

\* keys rotate: never to a retired key; the key that signed goes on verifying.
RotateTo(k) ==
    /\ keyState[k] \in {"Active", "Retiring"}
    /\ keyState' = [j \in LKid |-> IF j = k THEN "Active"
                                   ELSE IF keyState[j] = "Active" THEN "Retiring"
                                   ELSE keyState[j]]
    /\ UNCHANGED <<noted, signedTo, published, lastOut, cached, verifying, askedAt, keyClock>>

\* keys note: the recorded date only moves outward.
NoteSigned(k, exp) ==
    /\ keyState[k] # "Out"
    /\ noted' = [noted EXCEPT ![k] = IF @ > exp THEN @ ELSE exp]
    /\ UNCHANGED <<keyState, signedTo, published, lastOut, cached, verifying, askedAt, keyClock>>

\* keys retire: not the active key, and not before the recorded date has passed.
RetireKey2(k) ==
    /\ keyState[k] = "Retiring"
    /\ noted[k] # Unknown /\ keyClock >= noted[k] + Margin
    /\ keyState' = [keyState EXCEPT ![k] = "Retired"]
    /\ UNCHANGED <<noted, signedTo, published, lastOut, cached, verifying, askedAt, keyClock>>

\* A mint: it does not touch the ring.
Sign(k, exp) ==
    /\ k \in ActiveKeys /\ exp > keyClock
    /\ signedTo' = [signedTo EXCEPT ![k] = IF @ > exp THEN @ ELSE exp]
    /\ UNCHANGED <<keyState, noted, published, lastOut, cached, verifying, askedAt, keyClock>>

Seen(P) == [k \in LKid |-> IF k \in P THEN keyClock' ELSE lastOut[k]]

\* keys jwks: the document is written from the ring and served from then on.
PublishKeys ==
    /\ published' = Verifying /\ published' # published
    /\ keyClock' = keyClock /\ lastOut' = Seen(published \cup published')
    /\ UNCHANGED <<ringVars, cached, verifying, askedAt>>

KeySecond ==
    /\ keyClock < LMaxClock /\ keyClock' = keyClock + 1
    /\ lastOut' = Seen(published)
    /\ UNCHANGED <<ringVars, published, cached, verifying, askedAt>>

---------------------------------------------------------------------------
(* The cached set.                                                         *)

Loaded(m) == cached[m].at # Unknown
Age(m) == keyClock - cached[m].at

\* A bug: a failed load counts as one.
LoadCounting(m, up) ==
    IF up THEN [keys |-> published, at |-> keyClock]
    ELSE [cached[m] EXCEPT !.at = IF @ = Unknown THEN @ ELSE keyClock]

\* load: the whole set is replaced, or left as it is when the server is down or
\* its document is not a key set.
Load(m, up) ==
    IF up THEN [keys |-> published, at |-> keyClock] ELSE cached[m]

\* refresh: only past the TTL.
Refresh(m, up) ==
    IF Loaded(m) /\ Age(m) < KeyTtl THEN cached[m] ELSE Load(m, up)

\* KeySource::keys, at every tick of the refresh loop: refresh, then serve what is
\* there unless it is too old.
AskKeys(m, up) ==
    /\ cached' = [cached EXCEPT ![m] = Refresh(m, up)]
    /\ verifying' = [verifying EXCEPT ![m] =
         IF cached'[m].at # Unknown /\ keyClock - cached'[m].at <= MaxStale
         THEN cached'[m].keys ELSE {}]
    /\ askedAt' = [askedAt EXCEPT ![m] = keyClock]
    /\ UNCHANGED <<ringVars, published, lastOut, keyClock>>

KeyNext ==
    \/ \E k \in LKid :
          \/ AddKey(k)
          \/ RotateTo(k)
          \/ RetireKey2(k)
          \/ \E exp \in 0..LMaxExp : NoteSigned(k, exp) \/ Sign(k, exp)
    \/ PublishKeys
    \/ KeySecond
    \/ \E m \in LMediator, up \in BOOLEAN : AskKeys(m, up)

KeySpec == KeyInit /\ [][KeyNext]_keyVars

---------------------------------------------------------------------------
(* Properties.                                                             *)

\* A withdrawn key is not trusted for longer than the bound: whatever a mediator
\* is told to verify with was in the published set no longer ago than MaxStale,
\* however long the key server has been down (jwks.rs load, refresh, keys).
WithdrawnInTime ==
    \A m \in LMediator : \A k \in verifying[m] : lastOut[k] >= askedAt[m] - MaxStale
=============================================================================
