-------------------------------- MODULE Gate --------------------------------
(***************************************************************************)
(* The gate: what a mediator lets through on one connection                *)
(* (wc-mediator/src/gate.rs MediatedUpstream over the cache of cache.rs).  *)
(*                                                                         *)
(* Requests are handled one at a time.  Handling one takes time: the       *)
(* upstream may take seconds to answer, and the cache is read under two    *)
(* locks, the contract set first and the deny-list after it, while the     *)
(* refresh thread replaces either.                                         *)
(***************************************************************************)
EXTENDS Upstream

CONSTANTS
    Jti,           \* contract artifacts
    Cid, Party, Tool,
    Of,            \* [Jti -> Artifact]
    Caller, Callee,  \* the authenticated peers
    TokenCid,      \* the connection the session token names: {} or {c}
    Snapshots,     \* the contract sets the refresh may install: sequences
    Cuts,          \* what the deny-list may come to name
    Expiring,      \* the artifacts whose exp is near
    Modes          \* the modes the mediator may be started in

Artifact ==
    [cid: Cid, caller: Party, callee: Party, attested: BOOLEAN, zone: BOOLEAN,
     items: SUBSET Tool, pins: SUBSET (Tool \X Nat)]

ASSUME GateAssumption ==
    /\ Of \in [Jti -> Artifact]
    /\ {Caller, Callee} \subseteq Party
    /\ TokenCid \subseteq Cid
    /\ Snapshots \subseteq Seq(Jti)
    /\ \A s \in Snapshots : \A i, k \in DOMAIN s :
          Of[s[i]].cid = Of[s[k]].cid => i = k
    /\ Expiring \subseteq Jti
    /\ Modes \subseteq {"Enforce", "Observe"}

VARIABLES
    mode,      \* chosen at startup
    snap,      \* the installed contract set, in the order it was built
    revs,      \* the deny-list
    distrusted,
    expired,   \* artifacts past their exp
    state,     \* the connection's State
    admitted,  \* {} or the artifact of State::Live
    pinVerified,
    pc,        \* where the handling of the request is
    req,       \* the request
    found,     \* what the contract set held when it was looked up
    seen,      \* the deny-list when the request arrived
    presented, \* the catalogue whose pin is being verified
    pinned,    \* what this admission's last catalogue was found to match
    shown      \* the tools in the answer just given

cache == <<snap, revs, distrusted, expired>>
session == <<state, admitted, pinVerified, pinned>>
vars == <<upstreamVars, mode, cache, session, pc, req, found, seen, presented, shown>>

State == {"New", "Live", "Denied", "Contained", "Observed"}
PC == {"idle", "revalidate", "init", "resolve", "list", "pinlist", "probe",
       "pinprobe", "pass"}

\* cid: the connection an initialize names, if any; tool: what a call names, if
\* it can be parsed.
Request == [method: Method, cid: {{}} \cup {{c} : c \in Cid},
            tool: {{}} \cup {{t} : t \in Tool}]
NoReq == [method |-> "other", cid |-> {}, tool |-> {}]
Incoming ==
    {r \in Request : /\ r.cid # {} => r.method = "initialize"
                     /\ r.tool # {} => r.method = "tools/call"}

(***************************************************************************)
(* Cache::resolve: look up, then ask the deny-list.                        *)
(***************************************************************************)
ByCid(c) == {snap[i] : i \in {k \in DOMAIN snap : Of[snap[k]].cid = c}}

IsOurs(j) == Of[j].caller = Caller /\ Of[j].callee = Callee

\* The first contract of the pair.
ByPair == {snap[i] : i \in {k \in DOMAIN snap :
              /\ IsOurs(snap[k])
              /\ \A n \in DOMAIN snap : n < k => ~ IsOurs(snap[n])}}

\* What a deny-list entry may name to cut an artifact.
Names(j) == {j, Of[j].cid, Of[j].caller, Of[j].callee}

Resolved(J) == J # {} /\ ~ distrusted /\ \A j \in J : Names(j) \cap revs = {}

\* admit_context: checks 6, 7, 9, 10 and 11.
AdmitContext(j) ==
    /\ IsOurs(j)
    /\ Of[j].attested \/ mode = "Observe"
    /\ Of[j].zone
    /\ TokenCid = {} \/ Of[j].cid \in TokenCid

\* check_pin: the contracted items, each in its contracted version.
CheckPin(j, s) ==
    \A t \in Of[j].items : \E p \in s \cap Of[j].pins : p[1] = t

(***************************************************************************)
(* Ends of a request.                                                      *)
(***************************************************************************)
Items == UNION {Of[j].items : j \in admitted}
Presented(s) == {p[1] : p \in s}

Done(tools) ==
    /\ pc' = "idle" /\ req' = NoReq /\ shown' = tools
    /\ found' = {} /\ seen' = {} /\ presented' = {}

\* Refused without reaching the upstream.
Blocked == Done({}) /\ UNCHANGED upstreamVars

\* Sent upstream; `next' says what is done with the answer.
Forward(m, next) ==
    /\ Send(m)
    /\ pc' = next
    /\ UNCHANGED <<req, shown, found, seen, presented>>

\* on_tool_call, once the pin has been verified.
Judge ==
    IF \E t \in req.tool : t \in Items /\ admitted \cap expired = {}
    THEN Forward("tools/call", "pass")
    ELSE Blocked

(***************************************************************************)
(* Upstream::request and notify after revalidation: what each method does  *)
(* in each state.                                                          *)
(***************************************************************************)
Refusing == {"Denied", "Contained"}

\* No contract, and none needed: State::Observed, or New before the handshake.
Shadow(st) == st = "Observed" \/ (st = "New" /\ mode = "Observe")

OnCatalog(st, m) ==
    CASE st = "Live" -> Forward(m, "list")
      [] Shadow(st) -> Forward(m, "pass")
      [] OTHER -> Blocked

OnToolCall(st) ==
    CASE st = "Live" -> IF pinVerified THEN Judge ELSE Forward("tools/list", "probe")
      [] Shadow(st) -> Forward("tools/call", "pass")
      [] OTHER -> Blocked

OnOther(st) == IF st \in Refusing THEN Blocked ELSE Forward("other", "pass")

OnNotify(st) == IF st \in Refusing THEN Blocked ELSE Done({}) /\ Notify

Dispatch(st) ==
    CASE req.method = "initialize" -> Forward("initialize", "init")
      [] req.method \in {"tools/list", "other/list"} -> OnCatalog(st, req.method)
      [] req.method = "tools/call" -> OnToolCall(st)
      [] req.method = "other" -> OnOther(st)
      [] req.method = "notify" -> OnNotify(st)

(***************************************************************************)
(* Steps.                                                                  *)
(***************************************************************************)
Arrive(r) ==
    /\ pc = "idle"
    /\ pc' = "revalidate"
    /\ req' = r
    /\ seen' = revs
    /\ found' = UNION {ByCid(Of[j].cid) : j \in admitted}
    /\ shown' = {}
    /\ UNCHANGED <<upstreamVars, mode, cache, session, presented>>

Leave(st) ==
    /\ state' = st
    /\ admitted' = {} /\ pinVerified' = FALSE /\ pinned' = {}

\* Mutant: in force as long as the connection has a contract.
RevalidateAnyArtifact ==
    /\ pc = "revalidate"
    /\ IF state = "Live" /\ found = {}
       THEN Leave("Contained") /\ Dispatch("Contained")
       ELSE UNCHANGED session /\ Dispatch(state)
    /\ UNCHANGED <<mode, cache>>

\* revalidate, on a live connection only, and on to the method.  A different
\* artifact for the connection is as good as none; observing changes nothing.
Revalidate ==
    /\ pc = "revalidate"
    /\ IF state = "Live" /\ ~ (Resolved(found) /\ found = admitted)
       THEN Leave("Contained") /\ Dispatch("Contained")
       ELSE UNCHANGED session /\ Dispatch(state)
    /\ UNCHANGED <<mode, cache>>

\* on_initialize, after the handshake was forwarded: whatever came back.
LookUp ==
    /\ pc = "init"
    /\ Take
    /\ found' = IF req.cid = {} THEN ByPair ELSE UNION {ByCid(c) : c \in req.cid}
    /\ pc' = "resolve"
    /\ UNCHANGED <<mode, cache, session, req, seen, presented, shown>>

\* Mutant: the pin is owed once per connection.
AdmitKeepingPin ==
    /\ pc = "resolve"
    /\ IF Resolved(found) /\ \A j \in found : AdmitContext(j)
       THEN state' = "Live" /\ admitted' = found /\ pinned' = {} /\ UNCHANGED pinVerified
       ELSE Leave(IF found = {} /\ mode = "Observe" THEN "Observed" ELSE "Denied")
    /\ Blocked
    /\ UNCHANGED <<mode, cache>>

\* resolve's second half and admit_context.  Only an absent contract is let
\* pass when observing.
Admit ==
    /\ pc = "resolve"
    /\ IF Resolved(found) /\ \A j \in found : AdmitContext(j)
       THEN /\ state' = "Live" /\ admitted' = found
            /\ pinVerified' = FALSE /\ pinned' = {}
       ELSE Leave(IF found = {} /\ mode = "Observe" THEN "Observed" ELSE "Denied")
    /\ Done({})
    /\ UNCHANGED <<upstreamVars, mode, cache>>

\* The catalogue came back.  No result: the agent is shown an empty one.  A
\* tool catalogue has its pin verified; one that cannot be read ends it.
Listed ==
    /\ pc = "list"
    /\ Take
    /\ UNCHANGED <<mode, cache>>
    /\ IF req.method = "other/list" \/ body.kind = "none"
       THEN Done({}) /\ UNCHANGED session
       ELSE IF body.kind = "plain"
       THEN Done({}) /\ Leave("Denied")
       ELSE /\ pc' = "pinlist"
            /\ presented' = body.tools
            /\ found' = UNION {ByCid(Of[j].cid) : j \in admitted}
            /\ UNCHANGED <<session, req, seen, shown>>

\* The mediator's own catalogue request, before the first call.
Probed ==
    /\ pc = "probe"
    /\ Take
    /\ UNCHANGED <<mode, cache>>
    /\ IF body.kind # "tools"
       THEN Done({}) /\ Leave("Denied")
       ELSE /\ pc' = "pinprobe"
            /\ presented' = body.tools
            /\ found' = UNION {ByCid(Of[j].cid) : j \in admitted}
            /\ UNCHANGED <<session, req, seen, shown>>

\* verify_pin: against the contract the connection has now.
PinHolds == Resolved(found) /\ \A j \in found : CheckPin(j, presented)

Matching == {j \in found : CheckPin(j, presented)}

\* Mutant: a surface that matches is shown as it is.
VerifyListedWhole ==
    /\ pc = "pinlist"
    /\ IF PinHolds
       THEN /\ pinVerified' = TRUE /\ pinned' = Matching
            /\ UNCHANGED <<state, admitted>>
            /\ Done(Presented(presented))
       ELSE Leave("Denied") /\ Done({})
    /\ UNCHANGED <<upstreamVars, mode, cache>>

\* Check 8 on the agent's own tools/list, and filter_catalog.
VerifyListed ==
    /\ pc = "pinlist"
    /\ IF PinHolds
       THEN /\ pinVerified' = TRUE /\ pinned' = Matching
            /\ UNCHANGED <<state, admitted>>
            /\ Done(Presented(presented) \cap Items)
       ELSE Leave("Denied") /\ Done({})
    /\ UNCHANGED <<upstreamVars, mode, cache>>

\* Check 8 on the probe, and on to the call.
VerifyProbed ==
    /\ pc = "pinprobe"
    /\ IF PinHolds
       THEN /\ pinVerified' = TRUE /\ pinned' = Matching
            /\ UNCHANGED <<state, admitted>>
            /\ Judge
       ELSE Leave("Denied") /\ Blocked
    /\ UNCHANGED <<mode, cache>>

\* The answer of a forwarded request goes back as it is.
PassBack ==
    /\ pc = "pass"
    /\ Take
    /\ Done(Presented(body.tools))
    /\ UNCHANGED <<mode, cache, session>>

GateStep ==
    \/ \E r \in Incoming : Arrive(r)
    \/ Revalidate \/ LookUp \/ Admit \/ Listed \/ Probed
    \/ VerifyListed \/ VerifyProbed \/ PassBack

\* The upstream's side of a request, and the server.
UpstreamStep ==
    /\ ReceiveLine \/ Eof \/ Timeout \/ ServerStep
    /\ UNCHANGED <<mode, cache, session, pc, req, found, seen, presented, shown>>

(***************************************************************************)
(* The refresh thread and the clock.  The deny-list only grows.            *)
(***************************************************************************)
Install(s) == snap' = s /\ UNCHANGED <<revs, distrusted, expired>>
SetRevocations(x, d) ==
    revs' = revs \cup x /\ distrusted' = d /\ UNCHANGED <<snap, expired>>
Expire(j) == expired' = expired \cup {j} /\ UNCHANGED <<snap, revs, distrusted>>

RefreshStep ==
    /\ \/ \E s \in Snapshots : Install(s)
       \/ \E x \in SUBSET Cuts, d \in BOOLEAN : SetRevocations(x, d)
       \/ \E j \in Expiring : Expire(j)
    /\ UNCHANGED <<upstreamVars, mode, session, pc, req, found, seen, presented, shown>>

Init ==
    /\ UpstreamInit
    /\ mode \in Modes
    /\ snap \in Snapshots
    /\ revs = {} /\ distrusted = FALSE /\ expired = {}
    /\ state = "New" /\ admitted = {} /\ pinVerified = FALSE /\ pinned = {}
    /\ pc = "idle" /\ req = NoReq
    /\ found = {} /\ seen = {} /\ presented = {} /\ shown = {}

Next == GateStep \/ UpstreamStep \/ RefreshStep

Spec == Init /\ [][Next]_vars

\* The loop goes on with the request it is handling, and recv_timeout returns.
FairSpec ==
    /\ Spec
    /\ WF_vars(Revalidate \/ LookUp \/ Admit \/ Listed \/ Probed
                 \/ VerifyListed \/ VerifyProbed \/ PassBack)
    /\ WF_vars(UpstreamStep /\ call' = "returned")

(***************************************************************************)
(* Properties.                                                             *)
(***************************************************************************)
TypeOK ==
    /\ UpstreamTypeOK
    /\ mode \in Modes
    /\ snap \in Snapshots
    /\ revs \subseteq Cuts /\ distrusted \in BOOLEAN /\ expired \subseteq Jti
    /\ state \in State
    /\ admitted \subseteq Jti /\ pinVerified \in BOOLEAN /\ pinned \subseteq Jti
    /\ pc \in PC
    /\ req \in Incoming
    /\ found \subseteq Jti /\ seen \subseteq Cuts
    /\ presented \in Surfaces \cup {{}}
    /\ shown \subseteq UNION {Presented(s) : s \in Surfaces}

\* A frame of method m is written to the server in this step.
Sent(m) == /\ Len(inbox') > Len(inbox)
           /\ inbox'[Len(inbox')].method = m

\* Containment reaches the wire: of a request that arrives when the deny-list
\* names the session's artifact, its connection or a party to it, and of any
\* request on a refused or contained connection, nothing but a handshake gets
\* to the server, notifications and the mediator's own probe included
\* (gate.rs, revalidate).
CutStopsTraffic ==
    [][\A m \in Method \ {"initialize"} :
          Sent(m) => /\ state' \notin Refusing
                     /\ \A j \in admitted' : Names(j) \cap seen = {}]_vars

\* Skipping discovery does not skip verification (gate.rs, module comment): a
\* call forwarded under a contract is for a contracted tool, before expiry, and
\* since this admission a catalogue the server presented has matched a contract
\* of the connection; without a contract calls pass only when observing.
PinBeforeCall ==
    [][Sent("tools/call") =>
          \/ Shadow(state) /\ mode = "Observe"
          \/ /\ pinned' # {}
             /\ \A j \in admitted' :
                   /\ req.tool \subseteq Of[j].items
                   /\ j \notin expired
                   /\ \A k \in pinned' : Of[k].cid = Of[j].cid]_vars

\* The agent of an enforcing mediator is shown tools of its contract only,
\* whatever it asked for and whatever the server was late with, as long as the
\* server writes answers only (filter.rs).
OnlyContractedShown ==
    [][mode = "Enforce" /\ pc # "idle" /\ pc' = "idle" /\ ~ strayed =>
          shown' \subseteq UNION {Of[j].items : j \in admitted'}]_vars

\* Neither direction goes past the contract: what the agent calls was pinned
\* first, and what it is shown is contracted (gate.rs, filter.rs).
ContractBounds == PinBeforeCall /\ OnlyContractedShown

\* A request or a notification is waiting for room in the child's stdin.
WriteHeld == pc # "idle" /\ call = "none" /\ child = "up" /\ ~ Room

\* Every request is answered, though the server may answer nothing or die over it
\* (upstream.rs: a hung upstream must not be a hung agent); the exception is the write,
\* which recv_timeout does not bound: it can wait for ever, but only for a child that
\* is up and never reads again.
RequestAnswered == <>[]WriteHeld \/ (pc # "idle" ~> pc = "idle")
=============================================================================
