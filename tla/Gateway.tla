------------------------------ MODULE Gateway ------------------------------
(***************************************************************************)
(* Enforcement inside a proxy: the adapter of wc-gateway behind the Kong   *)
(* worker (wc-kong/src/abi.rs, config.rs) and the Envoy external processor *)
(* (daemon/wc-extproc/src/main.rs).  Each HTTP exchange is a stream of its *)
(* own: it resolves the contracts of its pair once, judges one request,    *)
(* and sees at most one response; what streams share is the contract set,  *)
(* the revocations, the pin ledger and the decision trail.                 *)
(***************************************************************************)
EXTENDS Artifact

CONSTANTS
    Stream,         \* exchanges that may be open at once
    Me, Issuer,     \* mediator_id and issuer_id
    Settings,       \* configurations an operator may start the worker with
    Publications,   \* sequences of artifacts the plane may publish for it
    Orders,         \* what may be revoked: artifact, connection or party names
    FeedEntries,    \* the envelopes its feed entries may be signed in
    KeyDocs,        \* the key documents the plane may serve
    Presentations,  \* what may arrive on a connection, and who really sent it
    Frames,         \* request frames
    Surfaces,       \* what the callee may list
    RouteFiles,     \* contents of the route table file
    MaxClock, MaxCalls

\* Every artifact the worker may come to see.
Artifacts == (UNION {Range(c.files) : c \in Settings}) \cup (UNION {Range(p) : p \in Publications})

\* Every key document it may come to hold.
Documents == {c.jwks : c \in Settings} \cup KeyDocs

\* The issuer, whose keys the operator installs, names every contract once; a
\* certificate that the terminator verified names its holder and nobody else; and
\* a mesh that is trusted writes its peer's name last.
ASSUME GatewayAssumption ==
    /\ \A a, b \in Artifacts :
         a.sig = "issuer" /\ b.sig = "issuer" /\ a.payload.jti = b.payload.jti
            => a.payload = b.payload
    /\ \A a \in Artifacts :
         a.payload.nbf \in Nat /\ a.payload.exp \in Nat /\ {a.payload.zones} # Absent
    /\ \A c \in Settings : c.maxStale \in Nat
    /\ \A d \in Documents :
         /\ Len(d) \in Nat /\ DOMAIN d = 1 .. Len(d)
         /\ \A i \in DOMAIN d : Loadable(d[i]) => d[i].key = "issuer"
    /\ \A p \in Presentations :
         /\ p.verify = "SUCCESS" /\ p.cert # Absent =>
              \A n \in UriSans(p.cert) : n.spiffe => n.value = p.real
         /\ \A c \in Settings :
              p.xfcc # Absent /\ Accepts([socket |-> c.socket, addrs |-> c.addrs], p.origin) =>
                /\ Len(p.xfcc) > 0
                /\ \E i \in Uris(p.xfcc[Len(p.xfcc)]) : p.xfcc[Len(p.xfcc)][i].value = p.real

VARIABLES
    clock,
    setting,        \* the configuration the worker runs with
    worker,         \* [up, since, table, keys, set, revs, cursor, passed, distrusted,
                    \*  fresh, pins, used]
    round,          \* a refresh between its two halves, or Absent
    served, doc,    \* the plane: the set and the key document it publishes
    cuts,           \* its feed: what it has ordered, when, and how it was signed
    routeFile,
    offering,       \* what the callee lists now
    conns,          \* the streams
    trail,          \* the decision trail on disk
    judged,         \* history: the surface each artifact was last judged against
    sent            \* history: blocking calls forwarded

gatewayVars == <<clock, setting, worker, round, served, doc, cuts, routeFile, offering,
                 conns, trail, judged, sent>>

NoConn == [phase |-> "closed"]
Dead == [up |-> FALSE]

-----------------------------------------------------------------------------
(* Starting. *)

\* Table::parse: entries, each naming something, none twice.
TableHolds(file) ==
    /\ file # {}
    /\ \A e, f \in file : e.key = f.key => e = f
    /\ \A e \in file : e.key # Absent

\* Table::lookup of the route the proxy chose.
Lookup(table, key) ==
    IF \E e \in table : e.key = key THEN (CHOOSE e \in table : e.key = key).callee ELSE Absent

\* Snapshot::build: what verifies, at its place in what was published.
Build(artifacts, keys) ==
    Restrict(artifacts, {i \in DOMAIN artifacts :
                            VerifyArtifact(artifacts[i], keys, Me, Issuer, clock)})

MeshOf(c) == [socket |-> c.socket, addrs |-> c.addrs]

\* One source of identity: a mesh origin exactly when headers are read.
IdentityHolds(c) == (c.identity = "xfcc") = (c.socket # Absent \/ c.addrs # {})

\* build_trust: the keys on disk, or the ones a URL serves now.
KeysAtStart(c) == IF c.keysUrl THEN doc ELSE c.jwks

\* Contracts on disk, and at least one of them verifies.
SetHolds(c) == Build(c.files, AddJwks(KeysAtStart(c))) # <<>>

\* evidence::verify: a file with part of a row in it never verifies again.
TrailVerifies == ~ trail.torn

\* A trail shared by workers is refused, and one that does not verify.
TrailHolds(c) == c.trail => (c.workers > 1 => c.trailPerWorker) /\ TrailVerifies

\* Handle::open and wc-extproc's run: every refusal of a configuration.
Opens(c) ==
    /\ ~ JwksRefused(KeysAtStart(c))
    /\ IdentityHolds(c)
    /\ TableHolds(routeFile)
    /\ SetHolds(c)
    /\ TrailHolds(c)
    /\ c.pulls => c.token

\* The set counts as fresh from the start, and nothing is known revoked.
Boot ==
    /\ ~ worker.up
    /\ Opens(setting)
    /\ worker' = [up |-> TRUE, since |-> clock, table |-> routeFile,
                  keys |-> KeysAtStart(setting),
                  set |-> Build(setting.files, AddJwks(KeysAtStart(setting))),
                  revs |-> {}, cursor |-> 0, passed |-> {}, distrusted |-> FALSE, fresh |-> clock,
                  pins |-> [j \in {} |-> 0], used |-> {}]
    /\ UNCHANGED <<clock, setting, round, served, doc, cuts, routeFile, offering, conns, trail,
                   judged, sent>>

Crash ==
    /\ worker.up
    /\ worker' = Dead
    /\ round' = Absent
    /\ conns' = [s \in Stream |-> NoConn]
    /\ UNCHANGED <<clock, setting, served, doc, cuts, routeFile, offering, trail, judged, sent>>

\* Routes::reload_if_changed: a file that does not hold is not installed.
ReloadRoutes ==
    /\ worker.up
    /\ setting.reloads
    /\ worker.table # routeFile
    /\ TableHolds(routeFile)
    /\ worker' = [worker EXCEPT !.table = routeFile]
    /\ UNCHANGED <<clock, setting, round, served, doc, cuts, routeFile, offering, conns, trail,
                   judged, sent>>

-----------------------------------------------------------------------------
(* The refresh loop, beside the streams. *)

\* trust.keys(at): a document from a URL is read again past its TTL, and the one
\* held is used while it cannot be.  Past the bound on that the loop goes round
\* without refreshing.
KeysNow(reread) ==
    IF setting.keysUrl /\ reread /\ ~ JwksRefused(doc) THEN doc ELSE worker.keys

\* The loop's keys, and client::refresh up to the installed set.
RefreshSet(reread) ==
    /\ worker.up /\ setting.pulls
    /\ round = Absent
    /\ LET keys == KeysNow(reread)
           set == Build(served, AddJwks(keys))
       IN /\ worker' = [worker EXCEPT !.set = set, !.keys = keys]
          /\ round' = [at |-> clock, complete |-> DOMAIN set = DOMAIN served]
    /\ UNCHANGED <<clock, setting, served, doc, cuts, routeFile, offering, conns, trail, judged, sent>>

Ordered == {cuts[i].target : i \in DOMAIN cuts}

\* apply_revocations on what the feed has after the cursor, entry by entry: the
\* last one applied is the one before the first that does not verify.
EntryHolds(i) == VerifyDetached(cuts[i].entry, AddJwks(worker.keys))
Applied ==
    worker.cursor + Cardinality({i \in (worker.cursor + 1) .. Len(cuts) :
                                    \A j \in (worker.cursor + 1) .. i : EntryHolds(j)})

\* An entry that verifies after one that did not is out of sequence.
Contiguous == \A i \in (Applied + 2) .. Len(cuts) : ~ EntryHolds(i)

\* Mutant: any completed pull counts.
CleanAnyway(complete, feed, acked) == TRUE
\* RefreshReport::is_clean.
Clean(complete, feed, acked) == complete /\ feed = "clean" /\ acked

\* Its second half: the feed, the acknowledgement with the usage taken, and
\* mark_fresh with the time the refresh began.  A delta with a hole is not
\* installed, any other is added; either is distrusted unless every entry
\* verified, and the cursor moves to what was applied, installed or not.  A feed
\* that cannot be fetched leaves all of it be.  passed is a history: entries the
\* cursor went past that were never installed.
RefreshFeed(fetched, acked) ==
    /\ worker.up
    /\ round # Absent
    /\ LET feed == IF ~ fetched THEN "down" ELSE IF Applied = Len(cuts) THEN "clean" ELSE "unclean"
           delta == (worker.cursor + 1) .. Applied
       IN worker' = [worker EXCEPT
            !.revs = IF fetched /\ Contiguous THEN @ \cup {cuts[i].target : i \in delta} ELSE @,
            !.passed = IF fetched /\ ~ Contiguous THEN @ \cup delta ELSE @,
            !.cursor = IF fetched THEN Applied ELSE @,
            !.distrusted = IF feed = "down" THEN @ ELSE feed = "unclean",
            !.used = {},
            !.fresh = IF Clean(round.complete, feed, acked) THEN round.at ELSE @]
    /\ round' = Absent
    /\ UNCHANGED <<clock, setting, served, doc, cuts, routeFile, offering, conns, trail, judged, sent>>

-----------------------------------------------------------------------------
(* One exchange. *)

\* ContractSet::stale.
Stale == setting.maxStale > 0 /\ clock - worker.fresh > setting.maxStale

\* Cache::resolve_all: the pair's contracts that no revocation names.
ResolveAll(caller, callee) ==
    IF worker.distrusted THEN <<>>
    ELSE Restrict(worker.set, {i \in DOMAIN worker.set :
            LET p == worker.set[i].payload
            IN p.caller = caller /\ p.callee = callee /\ ~ RevokedBy(p, worker.revs)})

\* ContractSet::resolve: those of them its context admits.
ResolveSet(caller, callee) ==
    IF Stale \/ caller = Absent \/ callee = Absent THEN <<>>
    ELSE LET all == ResolveAll(caller, callee)
         IN Restrict(all, {i \in DOMAIN all :
                AdmitContext(all[i].payload, caller, callee, setting.mode, setting.anyZone)})

Identify(presented) ==
    IF setting.identity = "tls" THEN CallerFromTls(presented)
    ELSE CallerFromXfcc(presented, MeshOf(setting))

\* Mutant: the first contract speaks for all.
DeliveryOfFirst(held) ==
    IF held = <<>> THEN setting.delivery ELSE held[Min(DOMAIN held)].payload.delivery
\* Blocking if any contract held asks for it; the sink's own if none is held.
Delivery(held) ==
    IF held = <<>> THEN setting.delivery
    ELSE IF \E i \in DOMAIN held : held[i].payload.delivery = "blocking" THEN "blocking"
    ELSE "fail-safe"

\* The stream's filter and what it will write of itself.
Opened(presented, callee, held) ==
    [phase |-> "open", real |-> presented.real, callee |-> callee, keys |-> worker.keys, held |-> held,
     delivery |-> Delivery(held), at |-> clock, call |-> Absent, of |-> Absent,
     body |-> Absent]

\* wc_stream_new; wc-extproc's request headers.
Connect(s, presented, key) ==
    /\ worker.up
    /\ conns[s] = NoConn
    /\ LET callee == Lookup(worker.table, key)
           held == ResolveSet(Identify(presented), callee)
       IN conns' = [conns EXCEPT ![s] = Opened(presented, callee, held)]
    /\ UNCHANGED <<clock, setting, worker, round, served, doc, cuts, routeFile, offering, trail,
                   judged, sent>>

Holding(c) == {c.held[i] : i \in DOMAIN c.held}
Governing(c, tool) == {a \in Holding(c) : tool \in Items(a.payload)}

\* The pin gate on a tool call.
Pinned(c, a) ==
    \/ setting.noPin
    \/ /\ a.payload.jti \in DOMAIN worker.pins
       /\ setting.pinMaxAge = 0
          \/ c.at <= worker.pins[a.payload.jti] + setting.pinMaxAge

\* Filter::on_request on a frame that parsed.
Verdict(c, f) ==
    IF c.held = <<>> THEN IF setting.mode = "observe" THEN "other" ELSE "refuse"
    ELSE CASE f.method = "list" -> "catalog"
           [] f.method = "call" ->
                IF f.tool # Absent /\ \E a \in Governing(c, f.tool) :
                       Governing(c, f.tool) = {a} /\ Pinned(c, a)
                THEN "call" ELSE "refuse"
           [] OTHER -> "other"

\* FileSink::record: written whole, not at all, or in part; a part of a row
\* spoils the file for good.
Writes == {"whole", "nothing", "part"}
Recorded(write, row) ==
    [rows |-> IF write = "whole" THEN trail.rows \cup {row} ELSE trail.rows,
     torn |-> trail.torn \/ write = "part"]

\* FileSink::record_or_refuse: without a sink nothing is owed.
RecordedOrRefused(c, write) ==
    ~ setting.trail \/ write = "whole" \/ c.delivery = "fail-safe"

\* What becomes of a stream whose request was let through: a call is out, a
\* listing's response is still to be seen, anything else is not looked at.
Forwarded(c, f, verdict) ==
    CASE verdict = "call"    -> [c EXCEPT !.phase = "called",
                                         !.call = [tool |-> f.tool, when |-> clock, saw |-> judged]]
      [] verdict = "catalog" -> [c EXCEPT !.phase = "listing", !.of = f.list]
      [] OTHER -> NoConn

\* wc_on_request, on_request_body.  Every verdict is recorded; only an
\* allowance depends on it.
OnRequest(s, f, write) ==
    /\ worker.up
    /\ conns[s].phase = "open"
    /\ Cardinality(sent) < MaxCalls
    /\ LET c == conns[s]
           verdict == IF f.parses THEN Verdict(c, f) ELSE "refuse"
           refused == verdict = "refuse" \/ ~ RecordedOrRefused(c, write)
           owed == /\ verdict = "call" /\ setting.trail
                   /\ \E a \in Governing(c, f.tool) : a.payload.delivery = "blocking"
           n == IF owed THEN Cardinality(sent) + 1 ELSE 0
       IN /\ trail' = IF setting.trail THEN Recorded(write, n) ELSE trail
          /\ conns' = [conns EXCEPT ![s] = IF refused THEN NoConn ELSE Forwarded(c, f, verdict)]
          /\ worker' = IF refused \/ c.held = <<>> THEN worker
                       ELSE [worker EXCEPT !.used = @ \cup {c.held[Min(DOMAIN c.held)].payload.cid}]
          /\ sent' = IF owed /\ ~ refused THEN sent \cup {n} ELSE sent
    /\ UNCHANGED <<clock, setting, round, served, doc, cuts, routeFile, offering, judged>>

\* The callee answers a listing with what it lists at that moment.
Answer(s) ==
    /\ conns[s].phase = "listing"
    /\ conns' = [conns EXCEPT ![s].phase = "answered",
                              ![s].body = IF conns[s].of = "tools" THEN offering
                                          ELSE [offering EXCEPT !.tools = Absent]]
    /\ UNCHANGED <<clock, setting, worker, round, served, doc, cuts, routeFile, offering, trail,
                   judged, sent>>

Jtis(c) == {a.payload.jti : a \in Holding(c)}

\* The entries of some artifacts in a ledger set to one value.
Marked(ledger, jtis, v) ==
    [j \in jtis \cup DOMAIN ledger |-> IF j \in jtis THEN v ELSE ledger[j]]

\* Mutant: only the contract that did not match is forgotten.
ForgottenOne(c, pin) ==
    LET i == CHOOSE k \in DOMAIN c.held :
                 /\ ~ CheckPin(c.held[k].payload, pin)
                 /\ \A j \in DOMAIN c.held : j < k => CheckPin(c.held[j].payload, pin)
    IN {c.held[i].payload.jti}
Forgotten(c, pin) == Jtis(c)

\* Filter::on_response_headers: a catalogue is read when it is JSON, and
\* refused when it is not.
BodyRead(c, json) == c.phase = "answered" /\ json

\* Filter::on_response_body of a catalogue: anything
\* that cannot be pinned is refused; a surface that does not match one
\* contract's pin withdraws the pins of all; one that matches records them,
\* as of the stream's own time.
OnCatalogue(s, json) ==
    /\ worker.up
    /\ conns[s].phase = "answered"
    /\ LET c == conns[s]
           pin == PinOf(c.body)
           matches == \A a \in Holding(c) : CheckPin(a.payload, pin)
           kept == DOMAIN worker.pins \ Forgotten(c, pin)
       IN IF BodyRead(c, json) /\ Listed(c.body)
          THEN /\ worker' = [worker EXCEPT !.pins =
                     IF setting.noPin THEN @
                     ELSE IF matches THEN Marked(@, Jtis(c), c.at)
                     ELSE Restrict(@, kept)]
               /\ judged' = Marked(judged, Jtis(c), pin)
          ELSE UNCHANGED <<worker, judged>>
    /\ conns' = [conns EXCEPT ![s] = NoConn]
    /\ UNCHANGED <<clock, setting, round, served, doc, cuts, routeFile, offering, trail, sent>>

Hangup(s) ==
    /\ conns[s] # NoConn
    /\ conns' = [conns EXCEPT ![s] = NoConn]
    /\ UNCHANGED <<clock, setting, worker, round, served, doc, cuts, routeFile, offering, trail,
                   judged, sent>>

-----------------------------------------------------------------------------
(* Around it. *)

PublishSet(p) ==
    /\ p # served
    /\ served' = p
    /\ UNCHANGED <<clock, setting, worker, round, doc, cuts, routeFile, offering, conns, trail,
                   judged, sent>>

OrderCut(target, entry) ==
    /\ target \notin Ordered
    /\ cuts' = Append(cuts, [target |-> target, at |-> clock, entry |-> entry])
    /\ UNCHANGED <<clock, setting, worker, round, served, doc, routeFile, offering, conns, trail,
                   judged, sent>>

ServeKeys(d) ==
    /\ d # doc
    /\ doc' = d
    /\ UNCHANGED <<clock, setting, worker, round, served, cuts, routeFile, offering, conns, trail,
                   judged, sent>>

EditRoutes(file) ==
    /\ file # routeFile
    /\ routeFile' = file
    /\ UNCHANGED <<clock, setting, worker, round, served, doc, cuts, offering, conns, trail,
                   judged, sent>>

Drift(surface) ==
    /\ surface # offering
    /\ offering' = surface
    /\ UNCHANGED <<clock, setting, worker, round, served, doc, cuts, routeFile, conns, trail,
                   judged, sent>>

Second ==
    /\ clock < MaxClock
    /\ clock' = clock + 1
    /\ UNCHANGED <<setting, worker, round, served, doc, cuts, routeFile, offering, conns, trail,
                   judged, sent>>

GatewayInit ==
    /\ clock = 0
    /\ setting \in Settings
    /\ worker = Dead
    /\ round = Absent
    /\ served \in Publications
    /\ doc \in KeyDocs
    /\ cuts = <<>>
    /\ routeFile \in RouteFiles
    /\ offering \in Surfaces
    /\ conns = [s \in Stream |-> NoConn]
    /\ trail = [rows |-> {}, torn |-> FALSE]
    /\ judged = [j \in {} |-> 0]
    /\ sent = {}

GatewayNext ==
    \/ Boot \/ Crash \/ ReloadRoutes \/ Second
    \/ \E reread \in BOOLEAN : RefreshSet(reread)
    \/ \E fetched, acked \in BOOLEAN : RefreshFeed(fetched, acked)
    \/ \E s \in Stream :
         \/ \E p \in Presentations, e \in routeFile : Connect(s, p, e.key)
         \/ \E f \in Frames, w \in IF setting.trail THEN Writes ELSE {"whole"} : OnRequest(s, f, w)
         \/ Answer(s) \/ Hangup(s)
         \/ \E json \in BOOLEAN : OnCatalogue(s, json)
    \/ \E p \in Publications : PublishSet(p)
    \/ \E o \in Orders, e \in FeedEntries : OrderCut(o, e)
    \/ \E d \in KeyDocs : ServeKeys(d)
    \/ \E file \in RouteFiles : EditRoutes(file)
    \/ \E x \in Surfaces : Drift(x)

GatewaySpec == GatewayInit /\ [][GatewayNext]_gatewayVars

-----------------------------------------------------------------------------

\* What a stream's context says, as the conformance kit would write it down:
\* its real peers, the surface the contract was last judged against, the zones
\* its worker lets pass.
ScenarioOf(c, p) ==
    [caller |-> c.real, callee |-> c.callee, iss |-> Issuer, revoked |-> {},
     presented |-> IF setting.noPin \/ p.jti \notin DOMAIN c.call.saw THEN Absent ELSE c.call.saw[p.jti],
     pairs |-> IF setting.anyZone THEN {p.zones} ELSE Absent]

\* A tool call that is forwarded stands on one contract: addressed to this
\* worker by the issuer it obeys, of the caller that is really at the other
\* end, the only one of its pair that names the tool, whose pin the surface it
\* was last judged against matched; one the conformance verdict admits in the
\* stream's own context, its expiry apart; and it is not on a connection cut
\* longer ago than the staleness bound, if the worker was up when the cut was
\* ordered.  The exception: a cut the worker's cursor went past without its being
\* installed, because its entry verified in a delta that also had a hole
\* (client.rs:494-504, 549-561), is never asked for again, and counts for nothing
\* here; that is the fault of the mediator's own loop, in every gateway that calls
\* client::refresh (lib.rs, "A mismatch REVOKES any earlier verification"; contracts.rs,
\* "So the age is tracked and `stale` refuses once it passes the bound"; wc-cli,
\* "With --scenario all eleven run: that is the mediator's view").
CallsGoverned ==
    \A s \in Stream : conns[s].phase = "called" =>
        LET c == conns[s] IN \E a \in Holding(c) :
            LET p == a.payload IN
            /\ Governing(c, c.call.tool) = {a}
            /\ p.aud = Me /\ p.iss = Issuer /\ a.sig = "issuer"
            /\ p.caller = c.real /\ p.callee = c.callee
            /\ ~ setting.noPin => p.jti \in DOMAIN c.call.saw /\ CheckPin(p, c.call.saw[p.jti])
            /\ VerifyScenario(a, AddJwks(c.keys), Me, ScenarioOf(c, p), p.nbf, setting.mode)
            /\ setting.maxStale > 0 =>
                 \A i \in DOMAIN cuts : /\ RevokedBy(p, {cuts[i].target})
                                        /\ cuts[i].at >= worker.since
                                        /\ i \notin worker.passed
                                        => cuts[i].at + setting.maxStale >= c.at

\* Nothing that had to be recorded went unrecorded: a call forwarded under a
\* contract whose evidence is blocking is in the trail, unless the trail is
\* broken and does not verify at all (evidence.rs, "delivery is blocking, so
\* this call is refused").
RecordedOrBroken == sent \subseteq trail.rows \/ trail.torn

\* A forwarded call stands on one contract that governs it, and a call that had to
\* be recorded is in the trail or the trail is broken (wc-gateway lib.rs,
\* contracts.rs, evidence.rs).
ForwardedIsGoverned == CallsGoverned /\ RecordedOrBroken

\* "Contract expiry is the only containment": a worker that no revocation can
\* reach stops forwarding on a contract when it expires.
ExpiryContains ==
    \A s \in Stream : conns[s].phase = "called" =>
        \A a \in Governing(conns[s], conns[s].call.tool) : conns[s].call.when < a.payload.exp
=============================================================================
