------------------------------- MODULE MCEdge -------------------------------
(***************************************************************************)
(* Where keys are used and trust is decided, and what stands at the edge   *)
(* of the estate, one component at a time: signing keys in custody, the    *)
(* gateway adapter, federated identities, shared signals, the life of a    *)
(* signing key at the mediators, the re-attestation scheduler, the         *)
(* mediator's process, and inclusion proofs of the transparency log.       *)
(***************************************************************************)
EXTENDS Custody, KeyLife, Process, Signals, Federation, Gateway, TLC

CONSTANTS
    Parts,                \* the components that are run
    Adrift,               \* is the gateway started without a control plane
    s1, s2, anc, mid, bank, foe, capA, capB

VARIABLES part, sec, active, reattested, queue, windows, report, starts, entries,
    notes, outcome

\* Custody: a file, a copy of it, its key in another encoding, another key, and a
\* helper.
pkcs8(key) == [key |-> key, body |-> <<key, "pkcs8">>]
MCKeyFile == "a.pem" :> pkcs8("k1") @@ "copy.pem" :> pkcs8("k1") @@ "b.pem" :> pkcs8("k2")
             @@ "sec1.pem" :> [key |-> "k1", body |-> <<"k1", "sec1">>]
MCAsked == {[pem |-> p, command |-> "none"] : p \in DOMAIN MCKeyFile \cup {"none"}}
           \cup {[pem |-> p, command |-> "hsm"] : p \in {"none", "a.pem"}}
MCKeyHelper == "hsm" :> "k3"

-----------------------------------------------------------------------------
(* The gateway: one pair and a callee that drifts.  Of the artifacts       *)
(* published two are genuine and one is another worker's; the callee's     *)
(* description changes its layout, then its words.                         *)
jwk(kid, kind, key) == [kid |-> kid, kind |-> kind, alg |-> Absent, use |-> "sig",
                        usable |-> TRUE, key |-> key]

text(words, layout) == [words |-> words, layout |-> layout]
tool(name, words, layout) ==
    [name |-> name, named |-> TRUE, fields |-> [description |-> text(words, layout)]]
listing(words, layout) ==
    [tools |-> <<tool("read", words, layout), tool("pay", words, layout)>>, oversize |-> FALSE]
MCSurfaces == {listing("good", "spaced"), listing("bad", "plain")}

digest(items) == [n \in items |-> [description |-> "good"]]
payload(n, tools, aud, delivery, exp) ==
    [typ |-> "contract", schema |-> 1, oversize |-> FALSE, jti |-> n, cid |-> n, nbf |-> 0, exp |-> exp,
     tools |-> tools, skills |-> {}, resources |-> {}, digest |-> digest(tools),
     aud |-> aud, iss |-> "plane", caller |-> "app", callee |-> "srv",
     posture |-> "attested", zones |-> <<"internal", "internal">>, delivery |-> delivery]
signer == [alg |-> "ES256", kid |-> "i1", key |-> "issuer", encoding |-> "raw"]
one   == Jws(payload("k1", {"read"}, "gw", "fail-safe", 3), signer)
two   == Jws(payload("k2", {"pay"}, "gw", "blocking", 2), signer)
other == Jws(payload("k3", {"read"}, "gw2", "fail-safe", 3), signer)

ASSUME \A a \in {one, two, other} : Minted(a.payload, signer)

MCPublications == {<<one, two>>, <<other>>}
MCFeedEntries == {[alg |-> "ES256", kid |-> k, sig |-> "issuer"] : k \in {"i1", "i2"}}
pem(kid) == JwkFromPem(kid, [alg |-> "ES256", point |-> "full", key |-> "issuer"])
FirstKeys == <<pem("i1"), jwk("e1", "X25519", "enc")>>
MCKeyDocs == {FirstKeys, <<pem("i1"), pem("i2")>>}

origin(at, host) == [kind |-> "tcp", at |-> at, host |-> host]
cert(real, verify, name) ==
    [real |-> real, verify |-> verify, xfcc |-> Absent, origin |-> origin("p9", "remote"),
     cert |-> {[kind |-> "uri", spiffe |-> TRUE, value |-> name],
               [kind |-> "uri", spiffe |-> FALSE, value |-> "web"],
               [kind |-> "dns", spiffe |-> FALSE, value |-> "web"]}]
mesh(real, from, elements) ==
    [real |-> real, verify |-> Absent, cert |-> Absent, xfcc |-> elements, origin |-> from]
hop(name) == <<[key |-> "Hash", value |-> "h"], [key |-> "URI", value |-> name]>>
MCPresentations ==
    {cert("app", "SUCCESS", "app"), cert("rogue", "FAILED", "app"),
     mesh("app", origin("p1", "loopback"), <<hop("app")>>),
     mesh("rogue", origin("p9", "remote"), <<hop("app")>>),
     mesh("rogue", origin("p1", "loopback"), <<hop("app"), hop("rogue")>>)}

frame(method, item, list) == [parses |-> TRUE, method |-> method, tool |-> item, list |-> list]
MCFrames ==
    {[parses |-> FALSE], frame("list", Absent, "tools"), frame("list", Absent, "prompts"),
     frame("call", "read", Absent), frame("call", "pay", Absent), frame("other", Absent, Absent)}

Routed == {[key |-> "r", callee |-> "srv"]}
Moved == {[key |-> "r", callee |-> "db"]}
MCRouteFiles == {Routed, Moved, Routed \cup Moved}

\* One worker that times what it holds, one that fetches its keys, one that keeps a
\* trail, one behind a mesh whose routes are reloaded, and one whose key set is
\* refused; or, adrift, one that only has what is on its disk.
base == [identity |-> "tls", socket |-> Absent, addrs |-> {}, workers |-> 2,
         trailPerWorker |-> TRUE, trail |-> FALSE, delivery |-> "fail-safe",
         pulls |-> TRUE, token |-> TRUE, reloads |-> FALSE, mode |-> "enforce",
         anyZone |-> FALSE, noPin |-> FALSE, pinMaxAge |-> 1, maxStale |-> 1,
         keysUrl |-> FALSE, jwks |-> FirstKeys,
         files |-> <<one, two, other>>]
MCSettings ==
    IF Adrift THEN {[base EXCEPT !.pulls = FALSE, !.maxStale = 0]}
    ELSE {base,
          [base EXCEPT !.keysUrl = TRUE, !.noPin = TRUE],
          [base EXCEPT !.trail = TRUE, !.maxStale = 0, !.pinMaxAge = 0],
          [base EXCEPT !.identity = "xfcc", !.addrs = {"p1"}, !.reloads = TRUE,
                       !.pinMaxAge = 0, !.maxStale = 0, !.mode = "observe"],
          [base EXCEPT !.jwks = <<jwk("i1", "oct", "issuer")>>]}

-----------------------------------------------------------------------------
\* Federation: the anchor vouches for mid and foe, mid for bank and foe, everybody
\* for itself; foe claims what it likes with its own key.
Claim(by, iss, sub, keys, caps) ==
    [by |-> by, iss |-> iss, sub |-> sub, jwks |-> keys,
     meta |-> [caps |-> caps, ttl |-> Unset, zone |-> Unset]]
MCClaims ==
    {Claim(anc, anc, sub, {sub}, {capA}) : sub \in {mid, foe}}
    \cup {Claim(mid, mid, sub, {sub}, {capA}) : sub \in {mid, bank, foe}}
    \cup {Claim(bank, bank, bank, {bank}, {capB})}
    \cup {Claim(foe, iss, sub, {foe}, {capA}) : iss, sub \in {bank, foe}}
MCAnchorMeta == [caps |-> {capA}, ttl |-> 2, zone |-> "partner"]
MCInside(outer, inner) == outer = inner \/ outer = "partner"

\* Signals: a directory and a partner, tokens for either stream, one signed by
\* somebody else, one that names a stranger and one that asks for too much; two
\* streams number their tokens alike.
Draft(by, iss, jti, aud, subject, events) ==
    [by |-> by, iss |-> iss, jti |-> jti, aud |-> aud, subject |-> subject,
     events |-> events]
Causes == {"session-revoked", "credential-change", "assurance-change", "connection-revoked"}
MCTransmitters ==
    {[issuer |-> "idp", authority |-> "directory", audience |-> "us",
      parties |-> {}, maxAge |-> 1],
     [issuer |-> "ally", authority |-> "partner", audience |-> "us",
      parties |-> {"ally-agent"}, maxAge |-> 2]}
MCDrafts ==
    {Draft("idp", "idp", "j1", {"us"}, "ann", {"session-revoked"}),
     Draft("idp", "idp", "j2", {"us", "them"}, "bob", Causes),
     Draft("ally", "ally", "j2", {"us"}, "ally-agent", Causes),
     Draft("ally", "ally", "j3", {"us"}, "our-agent", {"connection-revoked"}),
     Draft("ally", "ally", "j4", {"them"}, "ally-agent", {"connection-revoked"}),
     Draft("ally", "idp", "j5", {"us"}, "ann", {"session-revoked"}),
     Draft("idp", "idp", "j6", {"us"}, "nobody", {"session-revoked"}),
     Draft("idp", "idp", "j7", {"us"}, "ann", {})}

\* The transparency log: two logs that share entries; the configured key is the
\* first one's.
MCBook == [ours |-> <<"a", "b", "c", "d">>, other |-> <<"x", "a">>]

-----------------------------------------------------------------------------
H == INSTANCE Scheduler WITH
        Watched <- {1, 2}, EndpointOf <- <<"e", "none">>, NoEndpoint <- "none",
        BaseInterval <- 1, LeastInterval <- 1, Draw <- <<1, 2>>, MaxDraw <- 2, Spread <- 1,
        BenignBurst <- 0, PerMinute <- 1, MinuteLen <- 2, LastSecond <- 2, MaxQueue <- 2
R == INSTANCE Rekor WITH Book <- MCBook, MaxNotes <- 2, LogName <- "ours"

-----------------------------------------------------------------------------
schedulerVars == <<sec, active, reattested, queue, windows, report, starts>>
rekorVars == <<entries, notes, outcome>>

(* Each component by itself: the others stay as they are at the start, or  *)
(* hold Idle.                                                              *)
Idle == 0
CustodyIdle == external = Idle /\ service = Idle /\ todo = Idle /\
    helper = Idle /\ signed = {} /\ approved = {}
SchedulerIdle == sec = Idle /\ active = Idle /\ reattested = Idle /\
    queue = Idle /\ windows = Idle /\ report = Idle /\ starts = Idle
RekorIdle == entries = Idle /\ notes = Idle /\ outcome = Idle

EdgeInit ==
    /\ part \in Parts
    /\ IF part = "custody" THEN CustodyInit ELSE CustodyIdle
    /\ GatewayInit /\ (part # "gateway" => /\ setting = CHOOSE c \in Settings : TRUE
                                           /\ served = CHOOSE p \in Publications : TRUE
                                           /\ doc = CHOOSE d \in KeyDocs : TRUE
                                           /\ routeFile = CHOOSE f \in RouteFiles : TRUE
                                           /\ offering = CHOOSE x \in Surfaces : TRUE)
    /\ FederationInit
    /\ SignalsInit
    /\ KeyInit
    /\ IF part = "scheduler" THEN H!SchedulerInit ELSE SchedulerIdle
    /\ ProcessInit /\ (part # "process" => given = CHOOSE g \in CommandLines : TRUE)
    /\ IF part = "rekor" THEN R!RekorInit ELSE RekorIdle

\* What a step of component c leaves alone.
Others(c) ==
    /\ UNCHANGED part
    /\ c # "custody" => UNCHANGED custodyVars
    /\ c # "gateway" => UNCHANGED gatewayVars
    /\ c # "federation" => UNCHANGED federationVars
    /\ c # "signals" => UNCHANGED signalVars
    /\ c # "keys" => UNCHANGED keyVars
    /\ c # "scheduler" => UNCHANGED schedulerVars
    /\ c # "process" => UNCHANGED processVars
    /\ c # "rekor" => UNCHANGED rekorVars

EdgeNext ==
    \/ part = "custody" /\ CustodyNext /\ Others("custody")
    \/ part = "gateway" /\ GatewayNext /\ Others("gateway")
    \/ part = "federation" /\ FederationNext /\ Others("federation")
    \/ part = "signals" /\ SignalsNext /\ Others("signals")
    \/ part = "keys" /\ KeyNext /\ Others("keys")
    \/ part = "scheduler" /\ H!SchedulerNext /\ Others("scheduler")
    \/ part = "process" /\ ProcessNext /\ Others("process")
    \/ part = "rekor" /\ R!RekorNext /\ Others("rekor")

EdgeVars == <<part, custodyVars, gatewayVars, federationVars, signalVars,
    keyVars, schedulerVars, processVars, rekorVars>>

EdgeSpec == EdgeInit /\ [][EdgeNext]_EdgeVars

-----------------------------------------------------------------------------
\* The gateway's constraint: at any moment one thing is out of the ordinary: a cut,
\* a drifted surface, a spoiled trail, a set withdrawn, a changed route file; one
\* call is in flight, and exchanges are short.  Time passes only where something is
\* timed, and there exchanges do not overlap.  Where keys are fetched they rotate and
\* up to three cuts are ordered, in one order and signed by either key; there a
\* stream that holds something sees a call, and the worker starts once.
Count(b) == IF b THEN 1 ELSE 0
Streams == {s1, s2}
Calm ==
    /\ Cardinality({s \in Streams : conns[s].phase \in {"open", "called"}}) <= 1
    /\ \A s \in Streams : conns[s].phase \in {"open", "called"} => clock = conns[s].at
    /\ \A s \in Streams : conns[s].phase # "closed" => clock - conns[s].at <= 1
    /\ setting.maxStale = 0 /\ ~Adrift => clock = 0
    /\ setting.maxStale > 0 => \E s \in Streams : conns[s].phase = "closed"
    /\ Cardinality(DOMAIN judged) > 0 => worker.up
    /\ \A i \in DOMAIN cuts : cuts[i].target = <<"k2", "k1", "db">>[i]
    /\ IF setting.keysUrl
       THEN /\ \A s \in Streams : /\ conns[s].phase \notin {"listing", "answered"}
                                  /\ conns[s].phase = "open" => conns[s].held # <<>>
            /\ IF worker.up THEN worker.since = 0 ELSE clock = 0
            /\ round # Absent => round.at = clock
            /\ offering # listing("bad", "plain") /\ served # <<other>> /\ routeFile = Routed
       ELSE doc = FirstKeys /\ Len(cuts) <= 1
    /\ (\E i \in DOMAIN cuts : cuts[i].entry.kid = "i2") => doc # FirstKeys
    /\ Count(cuts # <<>> \/ doc # FirstKeys) + Count(offering = listing("bad", "plain")) + Count(trail.torn)
       + Count(served = <<other>>) + Count(routeFile # Routed) <= 1

\* State constraint, where a component needs one: a signal acts a few times at
\* most, the scheduler starts a task for each party in service, and the flusher
\* and the refresher, which share nothing, do not both move.
Bounded ==
    CASE part = "gateway" -> Calm
      [] part = "signals" -> Len(acted) <= 4
      [] part = "scheduler" -> Len(starts) <= Cardinality(active)
      [] part = "process" -> OneThread
      [] OTHER -> TRUE

Symmetry == Permutations(Streams)

\* Nothing is starved, hammered or overtaken by the re-attestation schedule
\* (assurance.rs, Scheduler), however its callers push and tick.
TurnsAreFair == part = "scheduler" => H!FairTurns

\* What verifies under the log's key is in the log, and every true answer of the
\* log verifies (rekor.rs, verify).
InclusionProven == part = "rekor" => R!InclusionProven

\* rekor.rs: the log could have signed that root only if the entry is in it "at
\* that index, in a tree of that size".
IndexProven == part = "rekor" => R!IndexProven
=============================================================================
