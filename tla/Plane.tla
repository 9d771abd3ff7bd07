------------------------------- MODULE Plane -------------------------------
(***************************************************************************)
(* The request path of the serving control plane: http.rs and api.rs.      *)
(*                                                                         *)
(* Every connection has a thread.  A thread reads a request, authenticates *)
(* it (the transport first, then the bearer token), asks for the role of   *)
(* the route, looks its idempotency key up, runs the handler and, when the *)
(* answer is a success, files it under the key.  The lookup, every step of *)
(* a handler and the filing take their own lock, so other requests run in  *)
(* between.  The key cache lives in memory; the register, the evidence     *)
(* trail and the feed are on disk.  A handler step may fail: the handlers  *)
(* return at the first error.                                              *)
(***************************************************************************)
EXTENDS Integers, Sequences, FiniteSets

CONSTANTS
    PThread,       \* connection threads
    Ask,           \* the requests clients send: [route, key, body, arg, token, peer,
                   \* https, secret]
    TokenRoles,    \* TokenRoles[t]: the roles of bearer token t
    Transport,     \* [kind, trusted, secret], see Admits
    PReadOnly,     \* does the plane run read-only
    Ttl,           \* IDEMPOTENCY_TTL_SECS
    PMaxClock,     \* bound on the clock
    MaxInflight,   \* connections served at once, the others are shed
    PMaxAsks,      \* bound on the requests sent
    PMaxRestarts   \* bound on the restarts of the process

NoKey == "none"
NoToken == "none"

VARIABLES
    conn,       \* conn[t]: what thread t is doing
    cache,      \* idempotency key -> [expiry, body, from]
    clock,      \* seconds
    asks,       \* requests sent so far
    restarts,   \* restarts so far
    cut,        \* targets the register holds as contained or revoked
    listed,     \* targets on the revocation feed
    trailed,    \* targets with an evidence record of their cut
    decided,    \* requests approved or denied, entities activated
    made,       \* made[b]: connections created from body b
    acked,      \* mediators whose acknowledgement is on the ledger
    answered,   \* history: successes of this boot [ask, at]
    overlap     \* history: keys two handlers of this boot ran at once

planeVars == <<conn, cache, clock, asks, restarts, cut, listed, trailed, decided,
               made, acked, answered, overlap>>

---------------------------------------------------------------------------
(* Who may ask.                                                            *)

Bits(family) == IF family = "v4" THEN 2 ELSE 3

\* An address with every bit below the prefix zeroed.
Mask(ip, prefix) ==
    LET unit == 2 ^ (Bits(ip.family) - prefix)
    IN  [ip EXCEPT !.host = (@ \div unit) * unit]

\* Reading --trusted-proxy: an address, or a block that is narrower than
\* everything and not longer than the address.
TrustedSource(ip, prefix) ==
    IF prefix \in 1..Bits(ip.family)
    THEN {[base |-> Mask(ip, prefix), prefix |-> prefix]} ELSE {}

Contains(source, ip) ==
    /\ source.base.family = ip.family
    /\ Mask(ip, source.prefix) = source.base

\* Host 1 stands for the loopback addresses of a family.
IsLoopback(ip) == ip.host = 1

Admits(a) ==
    CASE Transport.kind = "Insecure" -> TRUE
      [] Transport.kind = "Loopback" -> IsLoopback(a.peer)
      [] Transport.kind = "TlsProxy" ->
            /\ \/ Transport.trusted = {}
               \/ \E s \in Transport.trusted : Contains(s, a.peer)
            /\ Transport.secret => a.secret
            /\ a.https

\* The starting plane refuses a clear-text listener off loopback, and proxy
\* settings that nothing would use.
TransportPolicy(flags, listen) ==
    CASE flags.insecure -> {[kind |-> "Insecure", trusted |-> {}, secret |-> FALSE]}
      [] ~flags.insecure /\ flags.proxy ->
            {[kind |-> "TlsProxy", trusted |-> flags.trusted, secret |-> flags.secret]}
      [] OTHER ->
            IF flags.trusted = {} /\ ~flags.secret /\ IsLoopback(listen)
            THEN {[kind |-> "Loopback", trusted |-> {}, secret |-> FALSE]} ELSE {}

Authenticate(a) == a.token # NoToken /\ Admits(a) /\ a.token \in DOMAIN TokenRoles

Open == {"healthz", "readyz", "jwks"}
Role == [activate |-> "register", create |-> "request", approve |-> "approve",
         deny |-> "approve", quarantine |-> "secops", clear |-> "secops",
         revoke |-> "secops", ack |-> "mediator", set |-> "mediator",
         revocations |-> "mediator", entities |-> "read", posture |-> "read",
         offers |-> "read", portal |-> "read", connections |-> "read",
         requests |-> "read", mediators |-> "read", audit |-> "compliance"]
Mutating == {"activate", "create", "approve", "deny", "quarantine", "clear", "revoke", "ack"}
\* The acknowledgement is the one mutating route that takes no key.
Keyed == Mutating \ {"ack"}

\* The status of a request that never reaches a handler; 0 when it does.
Refusal(a) ==
    IF a.route = "malformed" THEN 400
    ELSE IF a.route \in Open THEN 0
    ELSE IF ~Authenticate(a) THEN 401
    ELSE IF PReadOnly /\ a.route \in Keyed THEN 409
    ELSE IF a.route \notin DOMAIN Role THEN 404
    ELSE IF Role[a.route] \notin TokenRoles[a.token] THEN 403
    ELSE IF a.route \in Keyed /\ a.key = NoKey THEN 400
    ELSE 0

---------------------------------------------------------------------------
(* What a handler does, one lock at a time.                                *)

\* Each locks the store, the trail and the feed in turn, never two at once.
QuarantineRoute == <<"cut", "trail", "feed">>
RevokeRoute == <<"cut", "trail", "feed">>
ClearRoute == <<"lift", "trail">>
ActivateRoute == <<"decide">>
\* These hold the store and the trail together, for the whole of with_issuer.
CreateRoute == <<"issue">>
ApproveRoute == <<"decide">>
DenyRoute == <<"decide">>
\* The ledger is written under its own lock.
AckRoute == <<"ack">>

\* The reading routes: a look at what one lock guards changes nothing, and what
\* is asked for may not be there.
ReadyRoute == <<"look">>
EntitiesRoute == <<"look">>
PostureRoute == <<"look">>
OffersRoute == <<"look">>
PortalRoute == <<"look">>
ConnectionsRoute == <<"look">>
RequestsRoute == <<"look">>
SetRoute == <<"look">>
RevocationsRoute == <<"look">>
AuditRoute == <<"look">>
\* Who should have confirmed is read from the store, who has from the ledger.
MediatorsRoute == <<"look", "look">>

Steps(route) ==
    CASE route = "quarantine" -> QuarantineRoute
      [] route = "revoke" -> RevokeRoute
      [] route = "clear" -> ClearRoute
      [] route = "activate" -> ActivateRoute
      [] route = "create" -> CreateRoute
      [] route = "approve" -> ApproveRoute
      [] route = "deny" -> DenyRoute
      [] route = "ack" -> AckRoute
      [] route = "readyz" -> ReadyRoute
      [] route = "entities" -> EntitiesRoute
      [] route = "posture" -> PostureRoute
      [] route = "offers" -> OffersRoute
      [] route = "portal" -> PortalRoute
      [] route = "connections" -> ConnectionsRoute
      [] route = "requests" -> RequestsRoute
      [] route = "set" -> SetRoute
      [] route = "revocations" -> RevocationsRoute
      [] route = "audit" -> AuditRoute
      [] route = "mediators" -> MediatorsRoute
      [] OTHER -> <<>>

Free == [stage |-> "free"]

PlaneInit ==
    /\ conn = [t \in PThread |-> Free]
    /\ cache = <<>> /\ clock = 0 /\ asks = 0 /\ restarts = 0
    /\ cut = {} /\ listed = {} /\ trailed = {} /\ decided = {}
    /\ made = [b \in {a.body : a \in Ask} |-> 0] /\ acked = {}
    /\ answered = {} /\ overlap = {}

durable == <<cut, listed, trailed, decided, made, acked>>
Inflight == Cardinality({t \in PThread : conn[t].stage # "free"})

\* The thread goes on to the handler, from the time it looked at.
Run(a) == [stage |-> "run", ask |-> a, at |-> clock, left |-> Steps(a.route)]
Answer(a, n, f) == [stage |-> "reply", ask |-> a, status |-> n, from |-> f]

\* serve, handle and route.  Past the limit a connection is answered 503 and
\* holds no thread.
Accept(t, a) ==
    /\ conn[t] = Free
    /\ Inflight < MaxInflight
    /\ asks < PMaxAsks /\ asks' = asks + 1
    /\ conn' = [conn EXCEPT ![t] =
         IF Refusal(a) # 0 THEN Answer(a, Refusal(a), a)
         ELSE IF a.route \in Keyed THEN [stage |-> "lookup", ask |-> a]
         ELSE Run(a)]
    /\ UNCHANGED <<cache, clock, restarts, durable, answered, overlap>>

Unexpired(c) == [k \in {k \in DOMAIN c : c[k].expiry > clock} |-> c[k]]

\* idempotent, up to the release of the cache lock.
Lookup(t) ==
    /\ conn[t].stage = "lookup"
    /\ cache' = Unexpired(cache)
    /\ LET a == conn[t].ask
           hit == a.key \in DOMAIN cache'
       IN  /\ conn' = [conn EXCEPT ![t] =
                IF ~hit THEN Run(a)
                ELSE IF cache'[a.key].body = a.body THEN Answer(a, 200, cache'[a.key].from)
                ELSE Answer(a, 409, a)]
           /\ overlap' = overlap \cup
                {a.key : u \in {u \in PThread : ~hit /\ conn[u].stage = "run"
                                               /\ conn[u].ask.key = a.key}}
    /\ UNCHANGED <<clock, asks, restarts, durable, answered>>

\* One step of a handler, under the guards of the register.
StepEffect(s, a) ==
    \/ /\ s = "cut" /\ cut' = cut \cup {a.arg}
       /\ UNCHANGED <<listed, trailed, decided, made, acked>>
    \/ /\ s = "lift" /\ a.arg \in cut /\ cut' = cut \ {a.arg}
       /\ UNCHANGED <<listed, trailed, decided, made, acked>>
    \/ /\ s = "trail" /\ trailed' = trailed \cup {a.arg}
       /\ UNCHANGED <<cut, listed, decided, made, acked>>
    \/ /\ s = "feed" /\ listed' = listed \cup {a.arg}
       /\ UNCHANGED <<cut, trailed, decided, made, acked>>
    \/ /\ s = "issue" /\ made' = [made EXCEPT ![a.body] = @ + 1]
       /\ UNCHANGED <<cut, listed, trailed, decided, acked>>
    \/ /\ s = "decide" /\ a.arg \notin decided /\ decided' = decided \cup {a.arg}
       /\ UNCHANGED <<cut, listed, trailed, made, acked>>
    \/ /\ s = "ack" /\ acked' = acked \cup {a.arg}
       /\ UNCHANGED <<cut, listed, trailed, decided, made>>
    \/ s = "look" /\ UNCHANGED durable

HandlerStep(t) ==
    /\ conn[t].stage = "run" /\ conn[t].left # <<>>
    /\ StepEffect(Head(conn[t].left), conn[t].ask)
    /\ conn' = [conn EXCEPT ![t].left = Tail(@)]
    /\ UNCHANGED <<cache, clock, asks, restarts, answered, overlap>>

\* The handler returns an error: a guard of the register, or a write that fails.
HandlerFails(t) ==
    /\ conn[t].stage = "run" /\ conn[t].left # <<>>
    /\ conn' = [conn EXCEPT ![t] = Answer(@.ask, 500, @.ask)]
    /\ UNCHANGED <<cache, clock, asks, restarts, durable, answered, overlap>>

\* A bug: the entry expires when it is made.
FileExpired(t) ==
    LET a == conn[t].ask IN
    /\ conn[t].stage = "run" /\ conn[t].left = <<>> /\ a.route \in Keyed
    /\ cache' = [k \in DOMAIN cache \cup {a.key} |->
                   IF k = a.key THEN [expiry |-> conn[t].at + 1, body |-> a.body, from |-> a]
                   ELSE cache[k]]
    /\ conn' = [conn EXCEPT ![t] = Answer(a, 201, a)]
    /\ answered' = answered \cup {[key |-> a.key, body |-> a.body, at |-> conn[t].at]}
    /\ UNCHANGED <<clock, asks, restarts, durable, overlap>>

\* idempotent, after the handler: a success is filed under its key, from the
\* time of the lookup.  Whatever another thread filed meanwhile is replaced.
File(t) ==
    LET a == conn[t].ask IN
    /\ conn[t].stage = "run" /\ conn[t].left = <<>> /\ a.route \in Keyed
    /\ cache' = [k \in DOMAIN cache \cup {a.key} |->
                   IF k = a.key THEN [expiry |-> conn[t].at + Ttl, body |-> a.body, from |-> a]
                   ELSE cache[k]]
    /\ conn' = [conn EXCEPT ![t] = Answer(a, 201, a)]
    /\ answered' = answered \cup {[key |-> a.key, body |-> a.body, at |-> conn[t].at]}
    /\ UNCHANGED <<clock, asks, restarts, durable, overlap>>

\* A handler without a key is done.
Finish(t) ==
    /\ conn[t].stage = "run" /\ conn[t].left = <<>> /\ conn[t].ask.route \notin Keyed
    /\ conn' = [conn EXCEPT ![t] = Answer(@.ask, 200, @.ask)]
    /\ UNCHANGED <<cache, clock, asks, restarts, durable, answered, overlap>>

Reply(t) ==
    /\ conn[t].stage = "reply"
    /\ conn' = [conn EXCEPT ![t] = Free]
    /\ UNCHANGED <<cache, clock, asks, restarts, durable, answered, overlap>>

Second ==
    /\ clock < PMaxClock /\ clock' = clock + 1
    /\ UNCHANGED <<conn, cache, asks, restarts, durable, answered, overlap>>

\* The process dies and is started again.
RestartPlane ==
    /\ restarts < PMaxRestarts /\ restarts' = restarts + 1
    /\ conn' = [t \in PThread |-> Free]
    /\ cache' = <<>> /\ answered' = {} /\ overlap' = {}
    /\ UNCHANGED <<clock, asks, durable>>

PlaneNext ==
    \/ \E t \in PThread :
          \/ \E a \in Ask : Accept(t, a)
          \/ Lookup(t)
          \/ HandlerStep(t)
          \/ HandlerFails(t)
          \/ File(t)
          \/ Finish(t)
          \/ Reply(t)
    \/ Second
    \/ RestartPlane

PlaneSpec == PlaneInit /\ [][PlaneNext]_planeVars

---------------------------------------------------------------------------
(* Properties.                                                             *)

\* A step in which nothing that was answered is handled again.
RetryStep ==
    \A t \in PThread :
       (conn[t].stage = "lookup" /\ conn'[t].stage = "run")
         => \A r \in answered :
              (r.key = conn[t].ask.key /\ r.body = conn[t].ask.body)
                 => r.at + Ttl <= clock \/ r.key \in overlap

\* A retry is not applied again: a request whose key and body were answered
\* with a success less than the TTL ago, in this run of the process, does not
\* reach a handler (api.rs idempotent).  Excepted are keys that two handlers
\* ran under at the same time; see the README.
RetryOnce == [][RetryStep]_planeVars

\* A success means done: whoever is told that a cut was made, by the handler or
\* by a replay, finds it in the evidence trail and on the revocation feed, though
\* any earlier attempt may have stopped halfway (api.rs quarantine and
\* revoke_connection).  A key reused for another target with an equal body is
\* answered with the other target's success.
CutAnsweredIsDone ==
    \A t \in PThread :
        LET a == conn[t].ask IN
        (/\ conn[t].stage = "reply" /\ conn[t].status \in 200..299
         /\ a.route \in {"quarantine", "revoke"} /\ conn[t].from.arg = a.arg
         /\ conn[t].from.route = a.route)
          => a.arg \in trailed \cap listed

\* An answered cut is on the feed and on the trail, and a retry under the same key
\* and body reaches no handler again (api.rs idempotent, quarantine, revoke).
AnswersHold == []CutAnsweredIsDone /\ RetryOnce
=============================================================================
