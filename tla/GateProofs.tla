----------------------------- MODULE GateProofs -----------------------------
(***************************************************************************)
(* Proofs about Gate, for any contracts, snapshots, deny-lists, surfaces   *)
(* of the server and length of its input. The server may do all the model  *)
(* lets it do; where a theorem needs it to write answers only, the         *)
(* property it states says so.                                             *)
(***************************************************************************)
EXTENDS Gate, TLAPS

(***************************************************************************)
(* Types.                                                                  *)
(***************************************************************************)
Frame == [method: Method, own: BOOLEAN]
Line == [body: Body, own: BOOLEAN]

\* What was there before is still frames.
LEMMA StaleFrames == ASSUME NEW q \in Seq(Frame) PROVE Stale(q) \in Seq(Frame)
  <1>1. \A i \in 1 .. Len(q) : [q[i] EXCEPT !.own = FALSE] \in Frame
    <2> SUFFICES ASSUME NEW i \in 1 .. Len(q) PROVE [q[i] EXCEPT !.own = FALSE] \in Frame
      OBVIOUS
    <2>1. q[i] \in Frame
      OBVIOUS
    <2> QED BY <2>1 DEF Frame
  <1> QED BY <1>1 DEF Stale

\* What was there before is still lines.
LEMMA StaleLines == ASSUME NEW q \in Seq(Line) PROVE Stale(q) \in Seq(Line)
  <1>1. \A i \in 1 .. Len(q) : [q[i] EXCEPT !.own = FALSE] \in Line
    <2> SUFFICES ASSUME NEW i \in 1 .. Len(q) PROVE [q[i] EXCEPT !.own = FALSE] \in Line
      OBVIOUS
    <2>1. q[i] \in Line
      OBVIOUS
    <2> QED BY <2>1 DEF Line
  <1> QED BY <1>1 DEF Stale

UpstreamTypes ==
    /\ child \in {"up", "dead", "none"}
    /\ inbox \in Seq(Frame)
    /\ pipe \in Seq(Line)
    /\ strayed \in BOOLEAN
    /\ surface \in Surfaces
    /\ call \in {"none", "waiting", "returned"}
    /\ body \in Body
    /\ own \in BOOLEAN

\* The two ways of writing the types of the upstream agree.
LEMMA SameTypes == UpstreamTypes <=> UpstreamTypeOK
  BY DEF UpstreamTypes, UpstreamTypeOK, Frame, Line

\* Nothing waiting is well typed.
LEMMA Empty == <<>> \in Seq(Frame) /\ <<>> \in Seq(Line)
  OBVIOUS

\* The bodies the mediator and the server make up are bodies.
LEMMA Bodies ==
    /\ NoResult \in Body
    /\ \A m : surface \in Surfaces => ReplyTo(m) \subseteq Body
  BY DEF Body, ReplyTo

\* Writing a request keeps the types.
LEMMA SendTypes ==
    ASSUME UpstreamTypes, NEW m \in Method, Send(m)
    PROVE  UpstreamTypes'
  <1>0. [method |-> m, own |-> TRUE] \in Frame
    BY DEF Frame
  <1>1. Stale(inbox) \in Seq(Frame) /\ Stale(pipe) \in Seq(Line)
    BY StaleFrames, StaleLines DEF UpstreamTypes
  <1>x. Append(Stale(inbox), [method |-> m, own |-> TRUE]) \in Seq(Frame)
    BY <1>0, <1>1
  <1>y. <<[method |-> m, own |-> TRUE]>> \in Seq(Frame)
    BY <1>0
  <1>2. inbox' \in Seq(Frame) /\ pipe' \in Seq(Line)
    BY <1>1, <1>x, <1>y, Empty, Zenon DEF Send, Restart, UpstreamTypes
  <1>3. child' \in {"up", "dead", "none"} /\ surface' \in Surfaces
    BY DEF Send, Restart, UpstreamTypes
  <1>4. call' \in {"none", "waiting", "returned"}
    BY DEF Send, Return, UpstreamTypes
  <1>5. body' \in Body
    BY Bodies DEF Send, Return, UpstreamTypes
  <1>6. strayed' \in BOOLEAN /\ own' \in BOOLEAN
    BY Zenon DEF Send, Return, Restart, UpstreamTypes
  <1> QED BY <1>2, <1>3, <1>4, <1>5, <1>6 DEF UpstreamTypes

\* Notifying keeps the types.
LEMMA NotifyTypes == ASSUME UpstreamTypes, Notify PROVE UpstreamTypes'
  <1>1. [method |-> "notify", own |-> FALSE] \in Frame
    BY DEF Frame, Method
  <1>2. inbox' \in Seq(Frame)
    BY <1>1 DEF Notify, UpstreamTypes
  <1> QED BY <1>2 DEF Notify, UpstreamTypes

\* Taking an answer keeps the types.
LEMMA TakeTypes == ASSUME UpstreamTypes, Take PROVE UpstreamTypes'
  <1>1. body' \in Body
    BY Bodies DEF Take
  <1> QED BY <1>1 DEF Take, UpstreamTypes

\* The lines in the pipe are bodies with their owner.
LEMMA HeadOfPipe ==
    ASSUME UpstreamTypes, pipe # <<>>
    PROVE  Head(pipe).body \in Body /\ Head(pipe).own \in BOOLEAN /\ Tail(pipe) \in Seq(Line)
  <1>1. Head(pipe) \in Line /\ Tail(pipe) \in Seq(Line)
    BY DEF UpstreamTypes
  <1> QED BY <1>1 DEF Line

\* The wait and the server keep the types.
LEMMA WaitTypes ==
    ASSUME UpstreamTypes, ReceiveLine \/ Eof \/ Timeout \/ ServerStep
    PROVE  UpstreamTypes'
  <1>1. CASE ReceiveLine
    <2>1. pipe' \in Seq(Line) /\ body' \in Body /\ own' \in BOOLEAN
      BY <1>1, HeadOfPipe DEF ReceiveLine, Return
    <2> QED BY <1>1, <2>1 DEF ReceiveLine, Return, UpstreamTypes
  <1>2. CASE Eof \/ Timeout
    <2>1. body' \in Body
      BY <1>2, Bodies DEF Eof, Timeout, Return
    <2> QED BY <1>2, <2>1, Empty DEF Eof, Timeout, Return, Restart, UpstreamTypes
  <1>3. CASE Serve
    <2>1. Head(inbox) \in Frame /\ Tail(inbox) \in Seq(Frame)
      BY <1>3 DEF Serve, UpstreamTypes
    <2>2. \A b \in ReplyTo(Head(inbox).method) : [body |-> b, own |-> Head(inbox).own] \in Line
      BY <2>1, Bodies DEF UpstreamTypes, Frame, Line
    <2>3. ASSUME NEW b \in ReplyTo(Head(inbox).method)
          PROVE  Append(pipe, [body |-> b, own |-> Head(inbox).own]) \in Seq(Line)
      BY <2>2 DEF UpstreamTypes
    <2>4. pipe' \in Seq(Line)
      BY <1>3, <2>3 DEF Serve, UpstreamTypes
    <2> QED BY <1>3, <2>1, <2>4 DEF Serve, UpstreamTypes
  <1>4. CASE Chat
    <2>1. [body |-> NoResult, own |-> FALSE] \in Line
      BY Bodies DEF Line
    <2>2. pipe' \in Seq(Line)
      BY <1>4, <2>1 DEF Chat
    <2> QED BY <1>4, <2>2 DEF Chat, UpstreamTypes
  <1>5. CASE (\E s \in Surfaces : Drift(s)) \/ Crash
    BY <1>5, Empty DEF Drift, Crash, UpstreamTypes
  <1> QED BY <1>1, <1>2, <1>3, <1>4, <1>5 DEF ServerStep

CacheTypes ==
    /\ mode \in Modes
    /\ snap \in Snapshots
    /\ revs \subseteq Cuts /\ distrusted \in BOOLEAN /\ expired \subseteq Jti

SessionTypes ==
    /\ state \in State
    /\ admitted \subseteq Jti /\ pinVerified \in BOOLEAN /\ pinned \subseteq Jti

HandlingTypes ==
    /\ pc \in PC
    /\ req \in Incoming
    /\ found \subseteq Jti /\ seen \subseteq Cuts
    /\ presented \in Surfaces \cup {{}}
    /\ shown \subseteq UNION {Presented(s) : s \in Surfaces}

Types == UpstreamTypes /\ CacheTypes /\ SessionTypes /\ HandlingTypes

\* The parts make up the type invariant.
LEMMA TypesAgree == Types <=> TypeOK
  BY SameTypes DEF Types, TypeOK, CacheTypes, SessionTypes, HandlingTypes

\* What a lookup finds are artifacts.
LEMMA LookupTypes ==
    ASSUME snap \in Snapshots
    PROVE  /\ \A c : ByCid(c) \subseteq Jti
           /\ ByPair \subseteq Jti
  <1>1. snap \in Seq(Jti)
    BY GateAssumption
  <1>2. \A i \in DOMAIN snap : snap[i] \in Jti
    BY <1>1
  <1> QED BY <1>2 DEF ByCid, ByPair

\* An idle gate handles no request.
LEMMA DoneTypes ==
    ASSUME NEW T, T \subseteq UNION {Presented(s) : s \in Surfaces}, Done(T)
    PROVE  HandlingTypes'
  <1>1. NoReq \in Incoming
    BY DEF NoReq, Incoming, Request, Method
  <1> QED BY <1>1 DEF Done, HandlingTypes, PC

\* Refusing a request keeps the types.
LEMMA BlockedTypes == ASSUME Types, Blocked PROVE UpstreamTypes' /\ HandlingTypes'
  BY DoneTypes DEF Blocked, upstreamVars, Types, UpstreamTypes

\* Sending a request on keeps the types.
LEMMA ForwardTypes ==
    ASSUME Types, NEW m \in Method, NEW next \in PC, Forward(m, next)
    PROVE  UpstreamTypes' /\ HandlingTypes'
  <1>1. UpstreamTypes'
    BY SendTypes DEF Forward, Types
  <1> QED BY <1>1 DEF Forward, Types, HandlingTypes

\* What dispatching a request in state st may come to.
Outcome(st) ==
    \/ Blocked
    \/ Done({}) /\ Notify /\ st \notin Refusing
    \/ Forward("initialize", "init")
    \/ st = "Live" /\ \E m \in {"tools/list", "other/list"} : Forward(m, "list")
    \/ Shadow(st) /\ \E m \in {"tools/list", "other/list", "tools/call"} : Forward(m, "pass")
    \/ st = "Live" /\ Forward("tools/list", "probe")
    \/ st = "Live" /\ pinVerified /\ Judge
    \/ st \notin Refusing /\ Forward("other", "pass")

\* Nothing else comes of it.
LEMMA DispatchCases ==
    ASSUME NEW st, req \in Incoming, Dispatch(st)
    PROVE  Outcome(st)
  <1>0. req.method \in Method
    BY DEF Incoming, Request
  <1>1. CASE req.method = "initialize"
    BY <1>1 DEF Dispatch, Outcome
  <1>2. CASE req.method \in {"tools/list", "other/list"}
    <2>1. OnCatalog(st, req.method)
      BY <1>2 DEF Dispatch
    <2> QED BY <1>2, <2>1 DEF OnCatalog, Outcome
  <1>3. CASE req.method = "tools/call"
    <2>1. OnToolCall(st)
      BY <1>3 DEF Dispatch
    <2> QED BY <2>1 DEF OnToolCall, Outcome
  <1>4. CASE req.method = "other"
    BY <1>4 DEF Dispatch, OnOther, Outcome
  <1>5. CASE req.method = "notify"
    BY <1>5 DEF Dispatch, OnNotify, Outcome
  <1> QED BY <1>0, <1>1, <1>2, <1>3, <1>4, <1>5 DEF Method

\* Judging a call keeps the types.
LEMMA JudgeTypes == ASSUME Types, Judge PROVE UpstreamTypes' /\ HandlingTypes'
  <1>1. "tools/call" \in Method /\ "pass" \in PC
    BY DEF Method, PC
  <1> QED BY <1>1, ForwardTypes, BlockedTypes DEF Judge

\* Dispatching any request keeps the types.
LEMMA OutcomeTypes ==
    ASSUME Types, NEW st, Outcome(st)
    PROVE  UpstreamTypes' /\ HandlingTypes'
  <1>1. CASE Blocked
    BY <1>1, BlockedTypes
  <1>2. CASE Done({}) /\ Notify
    BY <1>2, NotifyTypes, DoneTypes DEF Types
  <1>3. ASSUME NEW m \in Method, NEW next \in PC, Forward(m, next)
        PROVE  UpstreamTypes' /\ HandlingTypes'
    BY <1>3, ForwardTypes
  <1>4. CASE Judge
    BY <1>4, JudgeTypes
  <1> QED BY <1>1, <1>2, <1>3, <1>4 DEF Outcome, Method, PC

\* Leaving for a state of the connection keeps the types.
LEMMA LeaveTypes == ASSUME NEW st \in State, Leave(st) PROVE SessionTypes'
  BY DEF Leave, SessionTypes

\* What a catalogue shows.
LEMMA ShownTypes ==
    /\ \A s \in Surfaces \cup {{}} : Presented(s) \subseteq UNION {Presented(x) : x \in Surfaces}
    /\ \A b \in Body : b.tools \in Surfaces \cup {{}}
  <1>1. Presented({}) = {}
    BY DEF Presented
  <1>2. \A b \in Body : b.tools \in Surfaces \cup {{}}
    BY DEF Body, NoResult, Plain, Listing
  <1> QED BY <1>1, <1>2

\* Types at the start.
LEMMA InitTypes == Init => Types
  <1> SUFFICES ASSUME Init PROVE Types
    OBVIOUS
  <1>1. UpstreamTypes
    BY Bodies, Empty DEF Init, UpstreamInit, UpstreamTypes
  <1>2. CacheTypes /\ SessionTypes
    BY DEF Init, CacheTypes, SessionTypes, State
  <1>3. NoReq \in Incoming
    BY DEF NoReq, Incoming, Request, Method
  <1>4. HandlingTypes
    BY <1>3 DEF Init, HandlingTypes, PC
  <1> QED BY <1>1, <1>2, <1>4 DEF Types

\* Types are kept.
LEMMA NextTypes == ASSUME Types, [Next]_vars PROVE Types'
  <1>0. UpstreamTypes /\ CacheTypes /\ SessionTypes /\ HandlingTypes
    BY DEF Types
  <1>c. UNCHANGED <<mode, cache>> => CacheTypes'
    BY <1>0 DEF cache, CacheTypes
  <1>s. UNCHANGED session => SessionTypes'
    BY <1>0 DEF session, SessionTypes
  <1>u. UNCHANGED upstreamVars => UpstreamTypes'
    BY <1>0 DEF upstreamVars, UpstreamTypes
  <1>b. \A c : ByCid(c) \subseteq Jti
    BY <1>0, LookupTypes DEF CacheTypes
  <1>t. body.tools \in Surfaces \cup {{}} /\ Presented(body.tools) \subseteq UNION {Presented(x) : x \in Surfaces}
    BY <1>0, ShownTypes DEF UpstreamTypes
  <1>p. Presented(presented) \subseteq UNION {Presented(x) : x \in Surfaces}
    BY <1>0, ShownTypes DEF HandlingTypes
  <1>1. ASSUME NEW r \in Incoming, Arrive(r) PROVE Types'
    <2>1. HandlingTypes'
      BY <1>0, <1>1, <1>b DEF Arrive, HandlingTypes, CacheTypes, PC
    <2> QED BY <1>1, <1>c, <1>s, <1>u, <2>1 DEF Arrive, Types
  <1>2. CASE Revalidate
    <2>1. PICK st : Dispatch(st)
      BY <1>2 DEF Revalidate
    <2>2. Outcome(st)
      BY <1>0, <2>1, DispatchCases DEF HandlingTypes
    <2>3. UpstreamTypes' /\ HandlingTypes'
      BY <2>2, OutcomeTypes
    <2>4. SessionTypes' /\ CacheTypes'
      BY <1>2, <1>c, <1>s, LeaveTypes DEF Revalidate, State
    <2> QED BY <2>3, <2>4 DEF Types
  <1>3. CASE LookUp
    <2>1. found' \subseteq Jti
      BY <1>0, <1>3, LookupTypes DEF LookUp, CacheTypes
    <2>2. HandlingTypes'
      BY <1>0, <1>3, <2>1 DEF LookUp, HandlingTypes, PC
    <2> QED BY <1>0, <1>3, <1>c, <1>s, <2>2, TakeTypes DEF LookUp, Types
  <1>4. CASE Admit
    <2>1. SessionTypes'
      <3>1. CASE Resolved(found) /\ \A j \in found : AdmitContext(j)
        BY <1>0, <1>4, <3>1 DEF Admit, SessionTypes, HandlingTypes, State
      <3>2. CASE ~ (Resolved(found) /\ \A j \in found : AdmitContext(j))
        BY <1>4, <3>2, LeaveTypes DEF Admit, State
      <3> QED BY <3>1, <3>2
    <2> QED BY <1>4, <1>c, <1>u, <2>1, DoneTypes DEF Admit, Types
  <1>5. CASE Listed
    <2>1. UpstreamTypes' /\ CacheTypes'
      BY <1>0, <1>5, <1>c, TakeTypes DEF Listed
    <2>2. CASE Done({}) /\ (UNCHANGED session \/ Leave("Denied"))
      BY <1>s, <2>1, <2>2, DoneTypes, LeaveTypes DEF Types, State
    <2>3. CASE /\ pc' = "pinlist" /\ presented' = body.tools
               /\ found' = UNION {ByCid(Of[j].cid) : j \in admitted}
               /\ UNCHANGED <<session, req, seen, shown>>
      <3>1. HandlingTypes'
        BY <1>0, <1>b, <1>t, <2>3 DEF HandlingTypes, PC
      <3> QED BY <1>s, <2>1, <2>3, <3>1 DEF Types
    <2> QED BY <1>5, <2>2, <2>3 DEF Listed
  <1>6. CASE Probed
    <2>1. UpstreamTypes' /\ CacheTypes'
      BY <1>0, <1>6, <1>c, TakeTypes DEF Probed
    <2>2. CASE Done({}) /\ Leave("Denied")
      BY <2>1, <2>2, DoneTypes, LeaveTypes DEF Types, State
    <2>3. CASE /\ pc' = "pinprobe" /\ presented' = body.tools
               /\ found' = UNION {ByCid(Of[j].cid) : j \in admitted}
               /\ UNCHANGED <<session, req, seen, shown>>
      <3>1. HandlingTypes'
        BY <1>0, <1>b, <1>t, <2>3 DEF HandlingTypes, PC
      <3> QED BY <1>s, <2>1, <2>3, <3>1 DEF Types
    <2> QED BY <1>6, <2>2, <2>3 DEF Probed
  <1>m. Matching \subseteq Jti
    BY <1>0 DEF Matching, HandlingTypes
  <1>7. CASE VerifyListed
    <2>1. UpstreamTypes' /\ CacheTypes'
      BY <1>7, <1>c, <1>u DEF VerifyListed
    <2>2. CASE PinHolds
      <3>1. HandlingTypes'
        BY <1>7, <1>p, <2>2, DoneTypes DEF VerifyListed
      <3>2. SessionTypes'
        BY <1>0, <1>7, <1>m, <2>2 DEF VerifyListed, SessionTypes
      <3> QED BY <2>1, <3>1, <3>2 DEF Types
    <2>3. CASE ~ PinHolds
      BY <1>7, <2>1, <2>3, DoneTypes, LeaveTypes DEF VerifyListed, Types, State
    <2> QED BY <2>2, <2>3
  <1>8. CASE VerifyProbed
    <2>1. CacheTypes'
      BY <1>8, <1>c DEF VerifyProbed
    <2>2. CASE PinHolds
      <3>1. UpstreamTypes' /\ HandlingTypes'
        BY <1>8, <2>2, JudgeTypes DEF VerifyProbed
      <3>2. SessionTypes'
        BY <1>0, <1>8, <1>m, <2>2 DEF VerifyProbed, SessionTypes
      <3> QED BY <2>1, <3>1, <3>2 DEF Types
    <2>3. CASE ~ PinHolds
      BY <1>8, <2>1, <2>3, BlockedTypes, LeaveTypes DEF VerifyProbed, Types, State
    <2> QED BY <2>2, <2>3
  <1>9. CASE PassBack
    BY <1>0, <1>9, <1>c, <1>s, <1>t, TakeTypes, DoneTypes DEF PassBack, Types
  <1>h. UNCHANGED <<pc, req, found, seen, presented, shown>> => HandlingTypes'
    BY <1>0 DEF HandlingTypes
  <1>10. CASE UpstreamStep
    BY <1>0, <1>10, <1>c, <1>s, <1>h, WaitTypes DEF UpstreamStep, Types
  <1>11. CASE RefreshStep
    <2>1. CacheTypes'
      <3>1. ASSUME NEW s \in Snapshots, Install(s), UNCHANGED mode PROVE CacheTypes'
        BY <1>0, <3>1 DEF Install, CacheTypes
      <3>2. ASSUME NEW x \in SUBSET Cuts, NEW d \in BOOLEAN, SetRevocations(x, d), UNCHANGED mode
            PROVE  CacheTypes'
        BY <1>0, <3>2 DEF SetRevocations, CacheTypes
      <3>3. ASSUME NEW j \in Expiring, Expire(j), UNCHANGED mode PROVE CacheTypes'
        BY <1>0, <3>3, GateAssumption DEF Expire, CacheTypes
      <3> QED BY <1>11, <3>1, <3>2, <3>3 DEF RefreshStep
    <2> QED BY <1>11, <1>s, <1>h, <1>u, <2>1 DEF RefreshStep, Types
  <1>12. CASE UNCHANGED vars
    BY <1>12, <1>c, <1>s, <1>h, <1>u DEF vars, Types
  <1> QED BY <1>1, <1>2, <1>3, <1>4, <1>5, <1>6, <1>7, <1>8, <1>9, <1>10, <1>11, <1>12
          DEF Next, GateStep

\* The gate, its cache and its upstream are well typed in every reachable state
\* (gate.rs State, cache.rs Snapshot and Revocations, upstream.rs StdioUpstream).
THEOREM GateTypes == Spec => []TypeOK
  <1>1. Types /\ [Next]_vars => Types'
    BY NextTypes
  <1>2. Spec => []Types
    BY InitTypes, <1>1, PTL DEF Spec
  <1> QED BY <1>2, TypesAgree, PTL

(***************************************************************************)
(* The session.  The inductive invariant says what the steps of a request  *)
(* rely on between them: that nothing but a live connection has an         *)
(* artifact or a pin, that there is one artifact and one connection, and   *)
(* that a request which passed revalidation was not cut when it arrived.   *)
(***************************************************************************)
Underway == {"list", "pinlist", "probe", "pinprobe"}

\* The deny-list has only grown since the request arrived.
Grown == seen \subseteq revs

\* Only a live connection has an artifact or a pin.
OnlyLive == state # "Live" => admitted = {} /\ ~ pinVerified /\ pinned = {}

\* Only an observing mediator observes.
ObservedHere == state = "Observed" => mode = "Observe"

\* A request that got this far was not cut when it arrived.
PassedCheck ==
    pc \in Underway => /\ state = "Live"
                       /\ \A j \in admitted : Names(j) \cap seen = {}

\* A verified pin was verified against something.
PinBacked == pinVerified => pinned # {}

\* One artifact, and one to be.
OneArtifact ==
    /\ \A j, k \in admitted : j = k
    /\ pc = "resolve" => \A j, k \in found : j = k

\* One connection: the admitted artifact's, what its pin was verified against,
\* and what it is being verified against.
OneConnection ==
    /\ \A j \in admitted : \A k \in pinned : Of[k].cid = Of[j].cid
    /\ pc \in {"pinlist", "pinprobe"} =>
          \A j \in admitted : \A k \in found : Of[k].cid = Of[j].cid

SessionInv ==
    /\ Grown /\ OnlyLive /\ ObservedHere /\ PassedCheck /\ PinBacked
    /\ OneArtifact /\ OneConnection

(***************************************************************************)
(* The pipe.  Until the server writes a line it was not asked for, nothing *)
(* but notifications is in front of a request, and nothing in the pipe but *)
(* its answer.                                                             *)
(***************************************************************************)
\* A request is out only while its sender waits.
Calling == call # "none" => pc \in {"init", "list", "probe", "pass"}

Notices(q) == \A i \in 1 .. Len(q) : q[i].method = "notify"

\* The frames of a request not yet served: it is the last one.
Waiting ==
    /\ pipe = <<>>
    /\ \A i \in 1 .. Len(inbox) :
          inbox[i].method = "notify" \/ (i = Len(inbox) /\ inbox[i].own)

\* Its answer is the only line.
Answered == Len(pipe) = 1 /\ pipe[1].own /\ Notices(inbox)

InOrder ==
    ~ strayed =>
        /\ call # "waiting" => pipe = <<>> /\ Notices(inbox)
        /\ call = "waiting" => Waiting \/ Answered
        /\ call = "returned" => own

PipeInv == Calling /\ InOrder

(***************************************************************************)
(* What a request that is passed on unfiltered can bring back.             *)
(***************************************************************************)
\* No result before one is returned.
Unanswered == call # "returned" => body = NoResult

Uncatalogued ==
    ~ strayed /\ mode = "Enforce" /\ pc = "pass" =>
        /\ \A i \in 1 .. Len(inbox) : inbox[i].method # "tools/list"
        /\ \A i \in 1 .. Len(pipe) : pipe[i].body.tools = {}
        /\ body.tools = {}

(***************************************************************************)
(* The session invariant.                                                  *)
(***************************************************************************)
\* A lookup finds at most one artifact: the set has one per connection, and a
\* pair has one first contract.
LEMMA LookupSingle ==
    ASSUME snap \in Snapshots
    PROVE  /\ \A c : \A j, k \in ByCid(c) : j = k
           /\ \A j, k \in ByPair : j = k
  <1>1. \A i, k \in DOMAIN snap : Of[snap[i]].cid = Of[snap[k]].cid => i = k
    BY GateAssumption
  <1>2. \A c : \A j, k \in ByCid(c) : j = k
    BY <1>1 DEF ByCid
  <1>3. DOMAIN snap \subseteq Nat
    <2>1. snap \in Seq(Jti)
      BY GateAssumption
    <2> QED BY <2>1
  <1>4. ASSUME NEW i \in DOMAIN snap, IsOurs(snap[i]), \A n \in DOMAIN snap : n < i => ~ IsOurs(snap[n]),
               NEW k \in DOMAIN snap, IsOurs(snap[k]), \A n \in DOMAIN snap : n < k => ~ IsOurs(snap[n])
        PROVE  i = k
    <2>1. ~ (i < k) /\ ~ (k < i)
      BY <1>4
    <2> QED BY <1>3, <2>1
  <1>5. \A j, k \in ByPair : j = k
    BY <1>4 DEF ByPair
  <1> QED BY <1>2, <1>5

\* What is looked up by the connection of the one admitted artifact.
LEMMA LookupConnection ==
    ASSUME \A j, k \in admitted : j = k
    PROVE  \A j \in admitted : \A k \in UNION {ByCid(Of[i].cid) : i \in admitted} :
              Of[k].cid = Of[j].cid
  BY DEF ByCid

\* What the handling of a request settles about the next state, when it ends or
\* goes on from dispatch.
LEMMA OutcomePc ==
    ASSUME NEW st, Outcome(st)
    PROVE  /\ pc' \in Underway => st = "Live"
           /\ pc' \notin {"resolve", "pinlist", "pinprobe"}
           /\ seen' \in {seen, {}}
           /\ pc' # "idle" => seen' = seen
  <1>1. CASE Done({})
    BY <1>1 DEF Done, Underway
  <1>2. ASSUME NEW m, NEW next, Forward(m, next) PROVE pc' = next /\ seen' = seen
    BY <1>2 DEF Forward
  <1>3. CASE Judge
    BY <1>1, <1>2, <1>3 DEF Judge, Blocked, Underway
  <1> QED BY <1>1, <1>2, <1>3 DEF Outcome, Blocked, Underway

\* Leaving the live state leaves nothing behind.
LEMMA LeaveSession ==
    ASSUME NEW st, st # "Live", Leave(st)
    PROVE  OnlyLive' /\ PinBacked' /\ admitted' = {} /\ state' = st
  BY DEF Leave, OnlyLive, PinBacked

\* At the start.
LEMMA InitSession == Init => SessionInv
  BY DEF Init, SessionInv, Grown, OnlyLive, ObservedHere, PassedCheck, PinBacked,
         OneArtifact, OneConnection, Underway

\* What an end of a request leaves to check.
LEMMA DoneSession ==
    ASSUME NEW T, Done(T), OnlyLive', ObservedHere', PinBacked',
           \A j, k \in admitted' : j = k,
           \A j \in admitted' : \A k \in pinned' : Of[k].cid = Of[j].cid
    PROVE  SessionInv'
  BY DEF Done, SessionInv, Grown, PassedCheck, OneArtifact, OneConnection, Underway

\* Leaving a state that is kept is a session that is kept.
LEMMA LeaveDone ==
    ASSUME SessionInv, NEW T, Done(T), NEW st \in {"Denied", "Contained"}, Leave(st)
    PROVE  SessionInv'
  <1>1. OnlyLive' /\ PinBacked' /\ admitted' = {} /\ state' = st
    BY LeaveSession
  <1>2. ObservedHere'
    BY <1>1 DEF ObservedHere
  <1> QED BY <1>1, <1>2, DoneSession

\* An end that leaves the session alone.
LEMMA KeepDone ==
    ASSUME SessionInv, NEW T, Done(T), UNCHANGED <<mode, session>>
    PROVE  SessionInv'
  <1>1. OnlyLive' /\ ObservedHere' /\ PinBacked'
    BY DEF SessionInv, OnlyLive, ObservedHere, PinBacked, session
  <1>2. /\ \A j, k \in admitted' : j = k
        /\ \A j \in admitted' : \A k \in pinned' : Of[k].cid = Of[j].cid
    BY DEF SessionInv, OneArtifact, OneConnection, session
  <1> QED BY <1>1, <1>2, DoneSession

\* Revalidation: a connection that stays live was not cut.
LEMMA RevalidateSession == ASSUME Types, SessionInv, Revalidate PROVE SessionInv'
  <1>0. req \in Incoming
    BY DEF Types, HandlingTypes
  <1>m. UNCHANGED <<mode, revs>>
    BY DEF Revalidate, cache
  <1>1. CASE state = "Live" /\ ~ (Resolved(found) /\ found = admitted)
    <2>1. Leave("Contained") /\ Outcome("Contained")
      BY <1>0, <1>1, DispatchCases DEF Revalidate
    <2>2. OnlyLive' /\ PinBacked' /\ admitted' = {} /\ state' = "Contained"
      BY <2>1, LeaveSession
    <2>3. /\ pc' \notin Underway
          /\ pc' \notin {"resolve", "pinlist", "pinprobe"}
          /\ seen' \in {seen, {}}
      BY <2>1, OutcomePc
    <2>4. Grown' /\ ObservedHere'
      BY <1>m, <2>2, <2>3 DEF SessionInv, Grown, ObservedHere
    <2> QED BY <2>2, <2>3, <2>4 DEF SessionInv, PassedCheck, OneArtifact, OneConnection
  <1>2. CASE ~ (state = "Live" /\ ~ (Resolved(found) /\ found = admitted))
    <2>1. UNCHANGED session /\ Outcome(state)
      BY <1>0, <1>2, DispatchCases DEF Revalidate
    <2>2. /\ pc' \in Underway => state = "Live"
          /\ pc' \notin {"resolve", "pinlist", "pinprobe"}
          /\ seen' \in {seen, {}}
      BY <2>1, OutcomePc
    <2>3. state = "Live" => \A j \in admitted : Names(j) \cap seen = {}
      BY <1>2 DEF SessionInv, Grown, Resolved
    <2>4. PassedCheck'
      BY <2>1, <2>2, <2>3 DEF PassedCheck, session, Names
    <2>5. Grown' /\ OnlyLive' /\ ObservedHere' /\ PinBacked'
      BY <1>m, <2>1, <2>2 DEF SessionInv, Grown, OnlyLive, ObservedHere, PinBacked, session
    <2>6. OneArtifact' /\ OneConnection'
      BY <2>1, <2>2 DEF SessionInv, OneArtifact, OneConnection, session
    <2> QED BY <2>4, <2>5, <2>6 DEF SessionInv
  <1> QED BY <1>1, <1>2

\* Admission: the one artifact found, and no pin yet.
LEMMA AdmitSession == ASSUME SessionInv, pc = "resolve", Admit PROVE SessionInv'
  <1>1. CASE Resolved(found) /\ \A j \in found : AdmitContext(j)
    <2>1. /\ state' = "Live" /\ admitted' = found
          /\ pinVerified' = FALSE /\ pinned' = {}
      BY <1>1 DEF Admit
    <2>2. \A j, k \in admitted' : j = k
      BY <2>1 DEF SessionInv, OneArtifact
    <2>3. OnlyLive' /\ ObservedHere' /\ PinBacked'
      BY <2>1 DEF OnlyLive, ObservedHere, PinBacked
    <2> QED BY <2>1, <2>2, <2>3, DoneSession DEF Admit
  <1>2. CASE ~ (Resolved(found) /\ \A j \in found : AdmitContext(j))
    <2>1. PICK st \in {"Observed", "Denied"} : Leave(st) /\ (st = "Observed" => mode = "Observe")
      BY <1>2 DEF Admit
    <2>2. OnlyLive' /\ PinBacked' /\ admitted' = {} /\ state' = st
      BY <2>1, LeaveSession
    <2>3. ObservedHere'
      BY <2>1, <2>2 DEF ObservedHere, Admit
    <2> QED BY <2>2, <2>3, DoneSession DEF Admit
  <1> QED BY <1>1, <1>2

\* The contract is looked up again for the pin.
LEMMA RelookSession ==
    ASSUME SessionInv, pc \in {"list", "probe"}, pc' \in {"pinlist", "pinprobe"},
           found' = UNION {ByCid(Of[j].cid) : j \in admitted},
           UNCHANGED <<mode, cache, session, seen>>
    PROVE  SessionInv'
  <1>1. PassedCheck'
    BY DEF SessionInv, PassedCheck, Underway, session, Names
  <1>2. Grown' /\ OnlyLive' /\ ObservedHere' /\ PinBacked'
    BY DEF SessionInv, Grown, OnlyLive, ObservedHere, PinBacked, session, cache
  <1>3. OneArtifact'
    BY DEF SessionInv, OneArtifact, session
  <1>4. \A j \in admitted : \A k \in found' : Of[k].cid = Of[j].cid
    BY LookupConnection DEF SessionInv, OneArtifact
  <1>5. OneConnection'
    BY <1>4 DEF SessionInv, OneConnection, session
  <1> QED BY <1>1, <1>2, <1>3, <1>5 DEF SessionInv

\* A pin that holds was verified against the connection's contract.
LEMMA PinnedSession ==
    ASSUME SessionInv, pc \in {"pinlist", "pinprobe"}, PinHolds,
           pinVerified' = TRUE, pinned' = Matching, UNCHANGED <<mode, state, admitted>>
    PROVE  /\ OnlyLive' /\ ObservedHere' /\ PinBacked' /\ pinned' # {}
           /\ \A j, k \in admitted' : j = k
           /\ \A j \in admitted' : \A k \in pinned' : Of[k].cid = Of[j].cid
  <1>1. pinned' = found /\ found # {}
    BY DEF PinHolds, Matching, Resolved
  <1>2. state' = "Live"
    BY DEF SessionInv, PassedCheck, Underway
  <1>3. OnlyLive' /\ ObservedHere' /\ PinBacked'
    BY <1>1, <1>2 DEF OnlyLive, ObservedHere, PinBacked
  <1>4. \A j, k \in admitted' : j = k
    BY DEF SessionInv, OneArtifact
  <1>5. \A j \in admitted' : \A k \in pinned' : Of[k].cid = Of[j].cid
    BY <1>1 DEF SessionInv, OneConnection
  <1> QED BY <1>1, <1>3, <1>4, <1>5

\* The invariant is kept by every step.
LEMMA NextSession == ASSUME Types, SessionInv, [Next]_vars PROVE SessionInv'
  <1>1. ASSUME NEW r \in Incoming, Arrive(r) PROVE SessionInv'
    BY <1>1 DEF Arrive, SessionInv, Grown, OnlyLive, ObservedHere, PassedCheck, PinBacked,
                OneArtifact, OneConnection, Underway, cache, session
  <1>2. CASE Revalidate
    BY <1>2, RevalidateSession
  <1>3. CASE LookUp
    <2>1. \A j, k \in found' : j = k
      <3>1. snap \in Snapshots
        BY DEF Types, CacheTypes
      <3>2. \A x, y \in req.cid : x = y
        BY DEF Types, HandlingTypes, Incoming, Request
      <3> QED BY <1>3, <3>1, <3>2, LookupSingle DEF LookUp
    <2> QED BY <1>3, <2>1 DEF LookUp, SessionInv, Grown, OnlyLive, ObservedHere, PassedCheck,
                PinBacked, OneArtifact, OneConnection, Underway, cache, session
  <1>4. CASE Admit
    BY <1>4, AdmitSession DEF Admit
  <1>5. CASE Listed
    <2>1. CASE Done({}) /\ UNCHANGED session
      BY <1>5, <2>1, KeepDone DEF Listed
    <2>2. CASE Done({}) /\ Leave("Denied")
      BY <2>2, LeaveDone
    <2> QED BY <1>5, <2>1, <2>2, RelookSession DEF Listed
  <1>6. CASE Probed
    <2>1. CASE Done({}) /\ Leave("Denied")
      BY <2>1, LeaveDone
    <2> QED BY <1>6, <2>1, RelookSession DEF Probed
  <1>7. CASE VerifyListed
    <2>1. CASE PinHolds
      BY <1>7, <2>1, PinnedSession, DoneSession DEF VerifyListed
    <2> QED BY <1>7, <2>1, LeaveDone DEF VerifyListed
  <1>8. CASE VerifyProbed
    <2>1. CASE ~ PinHolds
      BY <1>8, <2>1, LeaveDone DEF VerifyProbed, Blocked
    <2>2. CASE PinHolds
      <3>1. /\ OnlyLive' /\ ObservedHere' /\ PinBacked'
            /\ \A j, k \in admitted' : j = k
            /\ \A j \in admitted' : \A k \in pinned' : Of[k].cid = Of[j].cid
        BY <1>8, <2>2, PinnedSession DEF VerifyProbed
      <3>2. CASE Done({})
        BY <3>1, <3>2, DoneSession
      <3>3. CASE Forward("tools/call", "pass")
        <4>1. pc' = "pass" /\ UNCHANGED <<seen, revs>>
          BY <1>8, <3>3 DEF Forward, VerifyProbed, cache
        <4> QED BY <3>1, <4>1 DEF SessionInv, Grown, PassedCheck, OneArtifact, OneConnection, Underway
      <3> QED BY <1>8, <2>2, <3>2, <3>3 DEF VerifyProbed, Judge, Blocked
    <2> QED BY <2>1, <2>2
  <1>9. CASE PassBack
    BY <1>9, KeepDone DEF PassBack
  <1>10. CASE UpstreamStep \/ UNCHANGED vars
    BY <1>10 DEF UpstreamStep, vars, SessionInv, Grown, OnlyLive, ObservedHere, PassedCheck,
                PinBacked, OneArtifact, OneConnection, Names, cache, session
  <1>11. CASE RefreshStep
    <2>1. revs \subseteq revs'
      BY <1>11 DEF RefreshStep, Install, SetRevocations, Expire
    <2> QED BY <1>11, <2>1 DEF RefreshStep, SessionInv, Grown, OnlyLive, ObservedHere,
                PassedCheck, PinBacked, OneArtifact, OneConnection, Names, session
  <1> QED BY <1>1, <1>2, <1>3, <1>4, <1>5, <1>6, <1>7, <1>8, <1>9, <1>10, <1>11
          DEF Next, GateStep

(***************************************************************************)
(* What is written to the server, and when.                                *)
(***************************************************************************)
\* A request writes its own frame and no other.
LEMMA SendWrites == ASSUME Types, NEW m, Send(m), NEW x, Sent(x) PROVE x = m
  <1>0. inbox \in Seq(Frame)
    BY DEF Types, UpstreamTypes
  <1>1. Len(Stale(inbox)) = Len(inbox) /\ Stale(inbox) \in Seq(Frame)
    BY <1>0, StaleFrames DEF Stale
  <1>2. CASE inbox' = Append(Stale(inbox), [method |-> m, own |-> TRUE])
    <2>1. inbox'[Len(inbox')] = [method |-> m, own |-> TRUE]
      BY <1>1, <1>2
    <2> QED BY <2>1 DEF Sent
  <1>3. CASE inbox' = <<[method |-> m, own |-> TRUE]>>
    BY <1>3 DEF Sent
  <1>4. CASE inbox' = <<>> \/ inbox' = inbox
    BY <1>0, <1>4 DEF Sent
  <1> QED BY <1>2, <1>3, <1>4 DEF Send, Restart

\* Only revalidation, by dispatching the request, and a pin verified in between
\* write to the server.
LEMMA Writers ==
    ASSUME Types, [Next]_vars, NEW x, Sent(x)
    PROVE  Revalidate \/ VerifyProbed
  <1>0. inbox \in Seq(Frame)
    BY DEF Types, UpstreamTypes
  <1>1. inbox' # inbox /\ inbox' # <<>>
    BY <1>0 DEF Sent
  <1>2. inbox # <<>> => inbox' # Tail(inbox)
    BY <1>0 DEF Sent
  <1>3. ~ UpstreamStep
    BY <1>1, <1>2 DEF UpstreamStep, ReceiveLine, Eof, Timeout, Restart, ServerStep, Serve, Chat,
                      Drift, Crash
  <1>4. ~ (RefreshStep \/ UNCHANGED vars)
    BY <1>1 DEF RefreshStep, vars, upstreamVars
  <1> QED BY <1>1, <1>3, <1>4 DEF Next, GateStep, Arrive, LookUp, Admit, Listed, Probed, VerifyListed,
                      PassBack, Take, upstreamVars

\* What judging a call writes is the call.
LEMMA JudgeWrites ==
    ASSUME Types, Judge, NEW x, Sent(x)
    PROVE  x = "tools/call" /\ \E t \in req.tool : t \in Items /\ admitted \cap expired = {}
  <1>1. ~ Blocked
    <2>1. inbox \in Seq(Frame)
      BY DEF Types, UpstreamTypes
    <2> QED BY <2>1 DEF Blocked, Sent, upstreamVars
  <1> QED BY <1>1, SendWrites DEF Judge, Forward

\* What dispatching a request writes.
LEMMA OutcomeWrites ==
    ASSUME Types, NEW st, Outcome(st), NEW x, Sent(x)
    PROVE  \/ x = "initialize"
           \/ st = "Live" /\ x # "tools/call"
           \/ st = "Live" /\ pinVerified /\ Judge
           \/ Shadow(st)
           \/ st \notin Refusing /\ x # "tools/call"
  <1>0. inbox \in Seq(Frame)
    BY DEF Types, UpstreamTypes
  <1>1. ~ Blocked
    BY <1>0 DEF Blocked, Sent, upstreamVars
  <1>2. ASSUME Notify PROVE x = "notify"
    <2>1. inbox' = Append(inbox, [method |-> "notify", own |-> FALSE])
      BY <1>0, <1>2 DEF Notify, Sent
    <2>2. inbox'[Len(inbox')] = [method |-> "notify", own |-> FALSE]
      BY <1>0, <2>1
    <2> QED BY <2>2 DEF Sent
  <1>3. ASSUME NEW m, NEW next, Forward(m, next) PROVE x = m
    BY <1>3, SendWrites DEF Forward
  <1> QED BY <1>1, <1>2, <1>3 DEF Outcome

\* Nothing but a handshake is written for a connection that was cut when the
\* request arrived.
LEMMA CutStep ==
    ASSUME Types, SessionInv, [Next]_vars, NEW m \in Method \ {"initialize"}, Sent(m)
    PROVE  state' \notin Refusing /\ \A j \in admitted' : Names(j) \cap seen = {}
  <1>0. req \in Incoming
    BY DEF Types, HandlingTypes
  <1>1. CASE Revalidate
    <2>1. CASE state = "Live" /\ ~ (Resolved(found) /\ found = admitted)
      <3>1. Outcome("Contained")
        BY <1>0, <1>1, <2>1, DispatchCases DEF Revalidate
      <3> QED BY <3>1, OutcomeWrites DEF Refusing, Shadow
    <2>2. CASE ~ (state = "Live" /\ ~ (Resolved(found) /\ found = admitted))
      <3>1. UNCHANGED session /\ Outcome(state)
        BY <1>0, <1>1, <2>2, DispatchCases DEF Revalidate
      <3>2. state \notin Refusing
        BY <3>1, OutcomeWrites DEF Refusing, Shadow
      <3>3. state = "Live" => \A j \in admitted : Names(j) \cap seen = {}
        BY <2>2 DEF SessionInv, Grown, Resolved
      <3>4. state # "Live" => admitted = {}
        BY DEF SessionInv, OnlyLive
      <3> QED BY <3>1, <3>2, <3>3, <3>4 DEF session
    <2> QED BY <2>1, <2>2
  <1>2. CASE VerifyProbed
    <2>0. inbox \in Seq(Frame)
      BY DEF Types, UpstreamTypes
    <2>1. ~ Blocked
      BY <2>0 DEF Blocked, Sent, upstreamVars
    <2>2. UNCHANGED <<state, admitted>>
      BY <1>2, <2>1 DEF VerifyProbed
    <2>3. state = "Live" /\ \A j \in admitted : Names(j) \cap seen = {}
      BY <1>2 DEF VerifyProbed, SessionInv, PassedCheck, Underway
    <2> QED BY <2>2, <2>3 DEF Refusing
  <1> QED BY <1>1, <1>2, Writers

\* A call is written to the server after its pin was verified, or by observing.
LEMMA CallStep ==
    ASSUME Types, SessionInv, [Next]_vars, Sent("tools/call")
    PROVE  \/ Shadow(state) /\ mode = "Observe"
           \/ /\ pinned' # {}
              /\ \A j \in admitted' :
                    /\ req.tool \subseteq Of[j].items
                    /\ j \notin expired
                    /\ \A k \in pinned' : Of[k].cid = Of[j].cid
  <1>0. req \in Incoming
    BY DEF Types, HandlingTypes
  <1>a. \A x, y \in req.tool : x = y
    BY <1>0 DEF Incoming, Request
  <1>b. ASSUME Judge
        PROVE  \A j \in admitted : req.tool \subseteq Of[j].items /\ j \notin expired
    <2>1. PICK t \in req.tool : t \in Items /\ admitted \cap expired = {}
      BY <1>b, JudgeWrites
    <2>2. PICK j \in admitted : t \in Of[j].items
      BY <2>1 DEF Items
    <2>3. \A k \in admitted : k = j
      BY DEF SessionInv, OneArtifact
    <2> QED BY <1>a, <2>1, <2>2, <2>3
  <1>1. CASE Revalidate
    <2>1. CASE state = "Live" /\ ~ (Resolved(found) /\ found = admitted)
      <3>1. Outcome("Contained")
        BY <1>0, <1>1, <2>1, DispatchCases DEF Revalidate
      <3> QED BY <3>1, OutcomeWrites DEF Refusing, Shadow
    <2>2. CASE ~ (state = "Live" /\ ~ (Resolved(found) /\ found = admitted))
      <3>1. UNCHANGED session /\ Outcome(state)
        BY <1>0, <1>1, <2>2, DispatchCases DEF Revalidate
      <3>2. Shadow(state) \/ (pinVerified /\ Judge)
        BY <3>1, OutcomeWrites
      <3>3. Shadow(state) => mode = "Observe"
        BY DEF Shadow, SessionInv, ObservedHere
      <3>4. pinVerified => pinned # {} /\ \A j \in admitted : \A k \in pinned : Of[k].cid = Of[j].cid
        BY DEF SessionInv, PinBacked, OneConnection
      <3> QED BY <1>b, <3>1, <3>2, <3>3, <3>4 DEF session
    <2> QED BY <2>1, <2>2
  <1>2. CASE VerifyProbed
    <2>0. inbox \in Seq(Frame)
      BY DEF Types, UpstreamTypes
    <2>1. ~ Blocked
      BY <2>0 DEF Blocked, Sent, upstreamVars
    <2>2. PinHolds /\ Judge /\ UNCHANGED <<state, admitted>>
      BY <1>2, <2>1 DEF VerifyProbed
    <2>3. pinned' # {} /\ \A j \in admitted' : \A k \in pinned' : Of[k].cid = Of[j].cid
      BY <1>2, <2>2, PinnedSession DEF VerifyProbed
    <2> QED BY <1>b, <2>2, <2>3
  <1> QED BY <1>1, <1>2, Writers

\* The session invariant holds.
LEMMA SessionHolds == Spec => [](Types /\ SessionInv)
  <1>1. Types /\ SessionInv /\ [Next]_vars => (Types /\ SessionInv)'
    BY NextTypes, NextSession
  <1> QED BY InitTypes, InitSession, <1>1, PTL DEF Spec

\* Containment reaches the wire: of a request that finds the connection cut when
\* it arrives, nothing but a handshake gets to the server, whatever the refresh
\* thread and the server do meanwhile (gate.rs revalidate).
THEOREM CutStops == Spec => CutStopsTraffic
  <1>1. ASSUME Types, SessionInv, [Next]_vars
        PROVE  [\A m \in Method \ {"initialize"} :
                  Sent(m) => /\ state' \notin Refusing
                             /\ \A j \in admitted' : Names(j) \cap seen = {}]_vars
    BY <1>1, CutStep
  <1> QED BY SessionHolds, <1>1, PTL DEF Spec, CutStopsTraffic

\* No call reaches the server under a contract whose pin the server's catalogue
\* has not matched since admission (gate.rs on_tool_call, verify_pin_lazily).
THEOREM PinComesFirst == Spec => PinBeforeCall
  <1>1. ASSUME Types, SessionInv, [Next]_vars
        PROVE  [Sent("tools/call") =>
                  \/ Shadow(state) /\ mode = "Observe"
                  \/ /\ pinned' # {}
                     /\ \A j \in admitted' :
                           /\ req.tool \subseteq Of[j].items
                           /\ j \notin expired
                           /\ \A k \in pinned' : Of[k].cid = Of[j].cid]_vars
    BY <1>1, CallStep
  <1> QED BY SessionHolds, <1>1, PTL DEF Spec, PinBeforeCall

(***************************************************************************)
(* Answers.                                                                *)
(***************************************************************************)
\* Nothing waiting is in order.
LEMMA EmptyInOrder ==
    ASSUME inbox' = <<>>, pipe' = <<>>, call' = "returned", own' = TRUE
    PROVE  InOrder'
  BY DEF InOrder, Notices

\* A request is sent with nothing but notifications before it.
LEMMA SendInOrder == ASSUME Types, InOrder, NEW m, Send(m) PROVE InOrder'
  <1>0. inbox \in Seq(Frame) /\ pipe \in Seq(Line) /\ strayed \in BOOLEAN
    BY DEF Types, UpstreamTypes
  <1>1. CASE /\ inbox' = Append(Stale(inbox), [method |-> m, own |-> TRUE])
             /\ pipe' = Stale(pipe) /\ call' = "waiting" /\ strayed' = strayed
    <2> SUFFICES ASSUME ~ strayed PROVE Waiting'
      BY <1>1 DEF InOrder
    <2>1. pipe = <<>> /\ Notices(inbox)
      BY DEF InOrder, Send
    <2>2. pipe' = <<>>
      BY <1>1, <2>1 DEF Stale
    <2>3. Len(Stale(inbox)) = Len(inbox) /\ Stale(inbox) \in Seq(Frame)
      BY <1>0, StaleFrames DEF Stale
    <2>4. \A i \in 1 .. Len(inbox) : Stale(inbox)[i].method = "notify"
      <3> SUFFICES ASSUME NEW i \in 1 .. Len(inbox) PROVE Stale(inbox)[i].method = "notify"
        OBVIOUS
      <3>1. inbox[i] \in Frame /\ inbox[i].method = "notify"
        BY <1>0, <2>1 DEF Notices
      <3>2. Stale(inbox)[i] = [inbox[i] EXCEPT !.own = FALSE]
        BY DEF Stale
      <3> QED BY <3>1, <3>2 DEF Frame
    <2>5. ASSUME NEW i \in 1 .. Len(inbox')
          PROVE  inbox'[i].method = "notify" \/ (i = Len(inbox') /\ inbox'[i].own)
      <3>1. Len(inbox') = Len(inbox) + 1 /\ Len(inbox) \in Nat
        BY <1>0, <1>1, <2>3
      <3>2. CASE i = Len(inbox) + 1
        <4>1. inbox'[i] = [method |-> m, own |-> TRUE]
          BY <1>1, <2>3, <3>2
        <4> QED BY <3>1, <3>2, <4>1
      <3>3. CASE i \in 1 .. Len(inbox)
        <4>1. inbox'[i] = Stale(inbox)[i]
          BY <1>1, <2>3, <3>3
        <4> QED BY <2>4, <3>3, <4>1
      <3> QED BY <3>1, <3>2, <3>3
    <2> QED BY <2>2, <2>5 DEF Waiting
  <1>2. CASE Restart /\ Return(NoResult, TRUE)
    BY <1>2, EmptyInOrder DEF Restart, Return
  <1>3. CASE inbox' = <<[method |-> m, own |-> TRUE]>> /\ pipe' = <<>> /\ call' = "waiting"
    BY <1>3 DEF InOrder, Waiting
  <1>4. CASE /\ Return(NoResult, TRUE) /\ UNCHANGED <<inbox, pipe, strayed>>
             /\ call = "none"
    BY <1>4 DEF Return, InOrder, Notices
  <1> QED BY <1>1, <1>2, <1>3, <1>4 DEF Send

\* A notification is one more of them.
LEMMA NotifyInOrder == ASSUME Types, InOrder, call = "none", Notify PROVE InOrder'
  <1>0. inbox \in Seq(Frame)
    BY DEF Types, UpstreamTypes
  <1>1. CASE inbox' = Append(inbox, [method |-> "notify", own |-> FALSE])
    <2>1. Notices(inbox) => Notices(inbox')
      BY <1>0, <1>1 DEF Notices
    <2> QED BY <2>1 DEF Notify, InOrder, Notices
  <1>2. CASE inbox' = inbox
    BY <1>2 DEF Notify, InOrder, Notices
  <1> QED BY <1>1, <1>2 DEF Notify

\* Taking the answer leaves the pipe in order.
LEMMA TakeInOrder == ASSUME InOrder, Take PROVE InOrder'
  BY DEF Take, InOrder, Notices

\* A line that comes back is the answer, unless the server has written of itself.
LEMMA WaitInOrder ==
    ASSUME Types, InOrder, ReceiveLine \/ Eof \/ Timeout \/ ServerStep
    PROVE  InOrder'
  <1>0. inbox \in Seq(Frame) /\ pipe \in Seq(Line)
    BY DEF Types, UpstreamTypes
  <1>1. CASE ReceiveLine
    <2> SUFFICES ASSUME ~ strayed PROVE pipe' = <<>> /\ Notices(inbox)' /\ own'
      BY <1>1 DEF ReceiveLine, Return, InOrder
    <2>1. Answered
      BY <1>1 DEF ReceiveLine, InOrder, Waiting
    <2>2. pipe' = <<>> /\ Head(pipe) = pipe[1]
      BY <1>0, <1>1, <2>1 DEF ReceiveLine, Answered
    <2> QED BY <1>1, <2>1, <2>2 DEF ReceiveLine, Return, Answered, Notices
  <1>2. CASE Eof \/ Timeout
    BY <1>2, EmptyInOrder DEF Eof, Timeout, Return, Restart
  <1>3. CASE Serve
    <2> SUFFICES ASSUME ~ strayed
                 PROVE  /\ call # "waiting" => pipe' = <<>> /\ Notices(inbox)'
                        /\ call = "waiting" => Waiting' \/ Answered'
      BY <1>3 DEF Serve, InOrder
    <2>1. /\ Len(inbox) \in Nat /\ Len(inbox) > 0
          /\ Len(inbox') = Len(inbox) - 1
          /\ \A i \in 1 .. Len(inbox') : inbox'[i] = inbox[i + 1]
          /\ Head(inbox) = inbox[1]
      BY <1>0, <1>3 DEF Serve
    <2>2. Notices(inbox) => pipe' = pipe /\ Notices(inbox)'
      <3>1. Notices(inbox) => inbox[1].method = "notify"
        BY <2>1 DEF Notices
      <3>2. Notices(inbox) => Notices(inbox)'
        BY <2>1 DEF Notices
      <3> QED BY <1>3, <2>1, <3>1, <3>2 DEF Serve
    <2>3. call # "waiting" => pipe' = <<>> /\ Notices(inbox)'
      BY <2>2 DEF InOrder
    <2>4. Answered => Answered'
      BY <2>2 DEF Answered
    <2>5. CASE Waiting /\ inbox[1].method = "notify"
      <3>1. pipe' = <<>>
        BY <1>3, <2>1, <2>5 DEF Serve, Waiting
      <3>2. Waiting'
        BY <2>1, <2>5, <3>1 DEF Waiting
      <3> QED BY <2>3, <3>2
    <2>6. CASE Waiting /\ inbox[1].method # "notify"
      <3>1. Len(inbox) = 1 /\ inbox[1].own
        BY <2>1, <2>6 DEF Waiting
      <3>2. PICK b : pipe' = Append(pipe, [body |-> b, own |-> inbox[1].own])
        BY <1>3, <2>1, <2>6 DEF Serve
      <3>3. pipe' = <<[body |-> b, own |-> inbox[1].own]>>
        BY <2>6, <3>2 DEF Waiting
      <3>4. Len(pipe') = 1 /\ pipe'[1].own
        BY <3>1, <3>3
      <3>5. Answered'
        BY <2>1, <3>1, <3>4 DEF Answered, Notices
      <3> QED BY <2>3, <3>5
    <2> QED BY <2>3, <2>4, <2>5, <2>6 DEF InOrder
  <1>4. CASE Chat
    BY <1>4 DEF Chat, InOrder
  <1>5. CASE \E s \in Surfaces : Drift(s)
    BY <1>5 DEF Drift, InOrder, Waiting, Answered, Notices
  <1>6. CASE Crash
    BY <1>6 DEF Crash, InOrder, Waiting, Answered, Notices
  <1> QED BY <1>1, <1>2, <1>3, <1>4, <1>5, <1>6 DEF ServerStep

\* Judging a call leaves the pipe in order.
LEMMA JudgePipe == ASSUME Types, InOrder, call = "none", Judge PROVE PipeInv'
  <1>1. CASE Blocked
    BY <1>1 DEF Blocked, upstreamVars, PipeInv, Calling, InOrder, Waiting, Answered, Notices
  <1>2. CASE Forward("tools/call", "pass")
    BY <1>2, SendInOrder DEF Forward, PipeInv, Calling
  <1> QED BY <1>1, <1>2 DEF Judge

\* Dispatching a request leaves the pipe in order.
LEMMA OutcomePipe ==
    ASSUME Types, InOrder, call = "none", NEW st, Outcome(st)
    PROVE  PipeInv'
  <1>1. CASE Blocked
    BY <1>1 DEF Blocked, upstreamVars, PipeInv, Calling, InOrder, Waiting, Answered, Notices
  <1>2. CASE Done({}) /\ Notify
    <2>1. call' = "none"
      BY <1>2 DEF Notify
    <2> QED BY <1>2, <2>1, NotifyInOrder DEF PipeInv, Calling
  <1>3. ASSUME NEW m, NEW next \in {"init", "list", "probe", "pass"}, Forward(m, next)
        PROVE  PipeInv'
    BY <1>3, SendInOrder DEF Forward, PipeInv, Calling
  <1>4. CASE Judge
    BY <1>4, JudgePipe
  <1> QED BY <1>1, <1>2, <1>3, <1>4 DEF Outcome

\* An empty pipe is in order.
LEMMA InitPipe == Init => PipeInv
  BY DEF Init, UpstreamInit, PipeInv, Calling, InOrder, Notices

\* The pipe stays in order.
LEMMA NextPipe == ASSUME Types, PipeInv, [Next]_vars PROVE PipeInv'
  <1>0. Calling /\ InOrder /\ req \in Incoming
    BY DEF PipeInv, Types, HandlingTypes
  <1>u. UNCHANGED upstreamVars => InOrder' /\ call' = call
    BY <1>0 DEF upstreamVars, InOrder, Waiting, Answered, Notices
  <1>t. Take => PipeInv'
    BY <1>0, TakeInOrder DEF Take, PipeInv, Calling
  <1>1. CASE Revalidate
    <2>1. PICK st : Outcome(st)
      BY <1>0, <1>1, DispatchCases DEF Revalidate
    <2>2. call = "none"
      BY <1>0, <1>1 DEF Revalidate, Calling
    <2> QED BY <1>0, <2>1, <2>2, OutcomePipe
  <1>2. CASE VerifyProbed
    <2>1. call = "none"
      BY <1>0, <1>2 DEF VerifyProbed, Calling
    <2>2. CASE Judge
      BY <1>0, <2>1, <2>2, JudgePipe
    <2>3. CASE Blocked
      BY <1>u, <2>1, <2>3 DEF Blocked, PipeInv, Calling
    <2> QED BY <1>2, <2>2, <2>3 DEF VerifyProbed
  <1>3. CASE (\E r \in Incoming : Arrive(r)) \/ Admit \/ VerifyListed
    <2>1. call = "none" /\ UNCHANGED upstreamVars
      BY <1>0, <1>3 DEF Arrive, Admit, VerifyListed, Calling
    <2> QED BY <1>u, <2>1 DEF PipeInv, Calling
  <1>4. CASE LookUp \/ Listed \/ Probed \/ PassBack
    BY <1>4, <1>t DEF LookUp, Listed, Probed, PassBack
  <1>5. CASE UpstreamStep
    <2>1. InOrder'
      BY <1>0, <1>5, WaitInOrder DEF UpstreamStep
    <2>2. pc' = pc /\ (call' # "none" => call # "none")
      BY <1>5 DEF UpstreamStep, ReceiveLine, Eof, Timeout, ServerStep, Serve, Chat, Drift, Crash
    <2> QED BY <1>0, <2>1, <2>2 DEF PipeInv, Calling
  <1>6. CASE RefreshStep \/ UNCHANGED vars
    BY <1>0, <1>6, <1>u DEF RefreshStep, vars, PipeInv, Calling
  <1> QED BY <1>1, <1>2, <1>3, <1>4, <1>5, <1>6 DEF Next, GateStep

\* The pipe is always in order.
LEMMA PipeHolds == Spec => [](Types /\ PipeInv)
  <1>1. Types /\ PipeInv /\ [Next]_vars => (Types /\ PipeInv)'
    BY NextTypes, NextPipe
  <1> QED BY InitTypes, InitPipe, <1>1, PTL DEF Spec

\* A caller is given the answer to its own request, whatever timed out, died or
\* could not be launched before (upstream.rs request and restart).
THEOREM AnswersAreOwn == Spec => []AnswersOwn
  <1>1. Types /\ PipeInv => AnswersOwn
    BY DEF PipeInv, InOrder, AnswersOwn
  <1> QED BY PipeHolds, <1>1, PTL

(***************************************************************************)
(* What the agent is shown.                                                *)
(***************************************************************************)
ShownInv == Unanswered /\ Uncatalogued

\* A request passed on unfiltered by an enforcing mediator is no tools/list.
LEMMA SendShown ==
    ASSUME Types, PipeInv, ShownInv, NEW m, m # "tools/list", Send(m), UNCHANGED mode
    PROVE  ShownInv'
  <1>0. inbox \in Seq(Frame) /\ pipe \in Seq(Line)
    BY DEF Types, UpstreamTypes
  <1>1. body = NoResult /\ NoResult.tools = {}
    BY DEF ShownInv, Unanswered, Send, NoResult
  <1>2. body' = NoResult
    BY <1>1 DEF Send, Return
  <1>3. CASE /\ inbox' = Append(Stale(inbox), [method |-> m, own |-> TRUE])
             /\ pipe' = Stale(pipe) /\ strayed' = strayed
    <2> SUFFICES ASSUME ~ strayed
                 PROVE  /\ \A i \in 1 .. Len(inbox') : inbox'[i].method # "tools/list"
                        /\ pipe' = <<>>
      BY <1>1, <1>2, <1>3 DEF ShownInv, Unanswered, Uncatalogued
    <2>1. pipe = <<>> /\ Notices(inbox)
      BY DEF PipeInv, InOrder, Send
    <2>2. pipe' = <<>>
      BY <1>3, <2>1 DEF Stale
    <2>3. InOrder'
      BY SendInOrder DEF PipeInv
    <2>4. Len(Stale(inbox)) = Len(inbox) /\ Stale(inbox) \in Seq(Frame)
      BY <1>0, StaleFrames DEF Stale
    <2>5. inbox'[Len(inbox')].method = m
      BY <1>3, <2>4
    <2>6. call' = "waiting" \/ call' = "returned"
      BY DEF Send, Return
    <2>7. ASSUME NEW i \in 1 .. Len(inbox') PROVE inbox'[i].method # "tools/list"
      <3>1. inbox'[i].method = "notify" \/ i = Len(inbox')
        BY <1>3, <2>2, <2>3, <2>6 DEF InOrder, Waiting, Answered, Notices
      <3> QED BY <2>5, <3>1
    <2> QED BY <2>2, <2>7
  <1>4. CASE inbox' = <<[method |-> m, own |-> TRUE]>> /\ pipe' = <<>>
    BY <1>1, <1>2, <1>4 DEF ShownInv, Unanswered, Uncatalogued
  <1>5. CASE inbox' = <<>> /\ pipe' = <<>>
    BY <1>1, <1>2, <1>5 DEF ShownInv, Unanswered, Uncatalogued
  <1>6. CASE UNCHANGED <<inbox, pipe, strayed>>
    <2>1. ~ strayed => pipe = <<>> /\ Notices(inbox)
      BY DEF PipeInv, InOrder, Send
    <2> QED BY <1>1, <1>2, <1>6, <2>1 DEF ShownInv, Unanswered, Uncatalogued, Notices
  <1> QED BY <1>3, <1>4, <1>5, <1>6 DEF Send, Restart

\* Any other request only has to have had no answer yet.
LEMMA SendElsewhere ==
    ASSUME ShownInv, NEW m, Send(m), pc' # "pass" \/ mode' # "Enforce"
    PROVE  ShownInv'
  <1>1. body = NoResult
    BY DEF ShownInv, Unanswered, Send
  <1>2. body' = NoResult
    BY <1>1 DEF Send, Return
  <1> QED BY <1>2 DEF ShownInv, Unanswered, Uncatalogued

\* The wait and the server.
LEMMA WaitShown ==
    ASSUME Types, ShownInv, ReceiveLine \/ Eof \/ Timeout \/ ServerStep, UNCHANGED <<mode, pc>>
    PROVE  ShownInv'
  <1>0. inbox \in Seq(Frame) /\ pipe \in Seq(Line)
    BY DEF Types, UpstreamTypes
  <1>e. NoResult.tools = {} /\ Plain.tools = {}
    BY DEF NoResult, Plain
  <1>1. CASE ReceiveLine
    <2>1. /\ Head(pipe) = pipe[1] /\ 1 \in 1 .. Len(pipe)
          /\ Len(pipe) \in Nat /\ Len(pipe') = Len(pipe) - 1
          /\ \A i \in 1 .. Len(pipe') : pipe'[i] = pipe[i + 1] /\ i + 1 \in 1 .. Len(pipe)
      BY <1>0, <1>1 DEF ReceiveLine
    <2> QED BY <1>1, <2>1 DEF ReceiveLine, Return, ShownInv, Unanswered, Uncatalogued
  <1>2. CASE Eof \/ Timeout
    <2>1. body' = NoResult /\ inbox' = <<>> /\ pipe' = <<>>
      BY <1>2 DEF Eof, Timeout, Restart, Return
    <2> QED BY <1>e, <2>1 DEF ShownInv, Unanswered, Uncatalogued
  <1>3. CASE Serve
    <2>0. Unanswered'
      BY <1>3 DEF Serve, ShownInv, Unanswered
    <2> SUFFICES ASSUME ~ strayed, mode = "Enforce", pc = "pass"
                 PROVE  /\ \A i \in 1 .. Len(inbox') : inbox'[i].method # "tools/list"
                        /\ \A i \in 1 .. Len(pipe') : pipe'[i].body.tools = {}
                        /\ body.tools = {}
      BY <1>3, <2>0 DEF Serve, ShownInv, Uncatalogued
    <2>1. /\ Head(inbox) = inbox[1] /\ 1 \in 1 .. Len(inbox)
          /\ Len(inbox) \in Nat /\ Len(inbox') = Len(inbox) - 1
          /\ \A i \in 1 .. Len(inbox') : inbox'[i] = inbox[i + 1] /\ i + 1 \in 1 .. Len(inbox)
      BY <1>0, <1>3 DEF Serve
    <2>2. /\ \A i \in 1 .. Len(inbox) : inbox[i].method # "tools/list"
          /\ \A i \in 1 .. Len(pipe) : pipe[i].body.tools = {}
          /\ body.tools = {}
      BY DEF ShownInv, Uncatalogued
    <2>3. \A i \in 1 .. Len(inbox') : inbox'[i].method # "tools/list"
      BY <2>1, <2>2
    <2>4. \A b \in ReplyTo(Head(inbox).method) : b.tools = {}
      BY <1>e, <2>1, <2>2 DEF ReplyTo
    <2>5. CASE pipe' = pipe
      BY <2>2, <2>3, <2>5
    <2>6. ASSUME NEW b \in ReplyTo(Head(inbox).method),
                 pipe' = Append(pipe, [body |-> b, own |-> Head(inbox).own])
          PROVE  \A i \in 1 .. Len(pipe') : pipe'[i].body.tools = {}
      BY <1>0, <2>2, <2>4, <2>6
    <2> QED BY <1>3, <2>2, <2>3, <2>5, <2>6 DEF Serve
  <1>4. CASE Chat
    BY <1>4 DEF Chat, ShownInv, Unanswered, Uncatalogued
  <1>5. CASE (\E s \in Surfaces : Drift(s)) \/ Crash
    BY <1>5 DEF Drift, Crash, ShownInv, Unanswered, Uncatalogued
  <1> QED BY <1>1, <1>2, <1>3, <1>4, <1>5 DEF ServerStep

\* Nothing is waiting at the start.
LEMMA InitShown == Init => ShownInv
  BY DEF Init, UpstreamInit, ShownInv, Unanswered, Uncatalogued

\* What is passed on unfiltered by an enforcing mediator brings no catalogue back.
LEMMA NextShown ==
    ASSUME Types, SessionInv, PipeInv, ShownInv, [Next]_vars
    PROVE  ShownInv'
  <1>0. req \in Incoming
    BY DEF Types, HandlingTypes
  <1>i. UNCHANGED upstreamVars /\ pc' # "pass" => ShownInv'
    BY DEF upstreamVars, ShownInv, Unanswered, Uncatalogued
  <1>t. Take /\ pc' # "pass" => ShownInv'
    BY DEF Take, ShownInv, Unanswered, Uncatalogued
  <1>j. ASSUME Judge, UNCHANGED mode PROVE ShownInv'
    <2>1. CASE Blocked
      BY <1>i, <2>1 DEF Blocked, Done
    <2>2. CASE Forward("tools/call", "pass")
      BY <1>j, <2>2, SendShown DEF Forward
    <2> QED BY <1>j, <2>1, <2>2 DEF Judge
  <1>1. CASE Revalidate
    <2>1. PICK st : Outcome(st) /\ st \in {state, "Contained"}
      BY <1>0, <1>1, DispatchCases DEF Revalidate
    <2>m. UNCHANGED mode
      BY <1>1 DEF Revalidate
    <2>2. CASE Blocked
      BY <1>i, <2>2 DEF Blocked, Done
    <2>3. CASE Done({}) /\ Notify
      BY <2>3 DEF Done, Notify, ShownInv, Unanswered, Uncatalogued
    <2>4. ASSUME NEW m, NEW next, next # "pass", Forward(m, next) PROVE ShownInv'
      BY <2>4, SendElsewhere DEF Forward
    <2>5. ASSUME Shadow(st), NEW m, Forward(m, "pass") PROVE ShownInv'
      <3>1. mode = "Observe"
        BY <2>1, <2>5 DEF Shadow, SessionInv, ObservedHere
      <3> QED BY <2>5, <2>m, <3>1, SendElsewhere DEF Forward
    <2>6. CASE Judge
      BY <1>j, <2>6, <2>m
    <2>7. CASE Forward("other", "pass")
      BY <2>7, <2>m, SendShown DEF Forward
    <2> QED BY <2>1, <2>2, <2>3, <2>4, <2>5, <2>6, <2>7 DEF Outcome
  <1>2. CASE VerifyProbed
    <2>1. CASE Blocked
      BY <1>i, <2>1 DEF Blocked, Done
    <2> QED BY <1>2, <1>j, <2>1 DEF VerifyProbed
  <1>3. CASE (\E r \in Incoming : Arrive(r)) \/ Admit \/ VerifyListed
    <2>1. UNCHANGED upstreamVars /\ pc' # "pass"
      BY <1>3 DEF Arrive, Admit, VerifyListed, Done
    <2> QED BY <1>i, <2>1
  <1>4. CASE LookUp \/ Listed \/ Probed \/ PassBack
    <2>1. Take /\ pc' # "pass"
      BY <1>4 DEF LookUp, Listed, Probed, PassBack, Done
    <2> QED BY <1>t, <2>1
  <1>5. CASE UpstreamStep
    BY <1>5, WaitShown DEF UpstreamStep
  <1>6. CASE RefreshStep \/ UNCHANGED vars
    BY <1>6 DEF RefreshStep, vars, upstreamVars, ShownInv, Unanswered, Uncatalogued
  <1> QED BY <1>1, <1>2, <1>3, <1>4, <1>5, <1>6 DEF Next, GateStep

\* The end of a request shows tools of the contract only.
LEMMA ShownStep ==
    ASSUME Types, SessionInv, ShownInv, [Next]_vars,
           mode = "Enforce", pc # "idle", pc' = "idle", ~ strayed
    PROVE  shown' \subseteq UNION {Of[j].items : j \in admitted'}
  <1>0. req \in Incoming
    BY DEF Types, HandlingTypes
  <1>d. Done({}) => shown' = {}
    BY DEF Done
  <1>f. \A m, next : Forward(m, next) => pc' = next
    BY DEF Forward
  <1>j. Judge => shown' = {}
    BY <1>d, <1>f DEF Judge, Blocked
  <1>1. CASE Revalidate
    <2>1. PICK st : Outcome(st)
      BY <1>0, <1>1, DispatchCases DEF Revalidate
    <2>2. shown' = {}
      BY <1>d, <1>f, <1>j, <2>1 DEF Outcome, Blocked
    <2> QED BY <2>2
  <1>2. CASE VerifyProbed
    BY <1>2, <1>d, <1>j DEF VerifyProbed, Blocked
  <1>3. CASE VerifyListed
    <2>1. CASE PinHolds
      BY <1>3, <2>1 DEF VerifyListed, Done, Items
    <2> QED BY <1>3, <1>d, <2>1 DEF VerifyListed
  <1>4. CASE PassBack
    <2>1. body.tools = {}
      BY <1>4 DEF PassBack, ShownInv, Uncatalogued
    <2>2. shown' = {}
      BY <1>4, <2>1 DEF PassBack, Done, Presented
    <2> QED BY <2>2
  <1>5. CASE Admit \/ Listed \/ Probed
    BY <1>5, <1>d DEF Admit, Listed, Probed
  <1>6. CASE (\E r \in Incoming : Arrive(r)) \/ LookUp \/ UpstreamStep \/ RefreshStep \/ UNCHANGED vars
    BY <1>6 DEF Arrive, LookUp, UpstreamStep, RefreshStep, vars
  <1> QED BY <1>1, <1>2, <1>3, <1>4, <1>5, <1>6 DEF Next, GateStep

\* The agent of an enforcing mediator is shown tools of its contract only, as long
\* as the server writes answers only (filter.rs filter_catalog, gate.rs request).
THEOREM ShownIsContracted == Spec => OnlyContractedShown
  <1> DEFINE Inv == Types /\ SessionInv /\ PipeInv /\ ShownInv
  <1>1. Init => Inv
    BY InitTypes, InitSession, InitPipe, InitShown
  <1>2. Inv /\ [Next]_vars => Inv'
    BY NextTypes, NextSession, NextPipe, NextShown
  <1>3. ASSUME Inv, [Next]_vars
        PROVE  [mode = "Enforce" /\ pc # "idle" /\ pc' = "idle" /\ ~ strayed =>
                  shown' \subseteq UNION {Of[j].items : j \in admitted'}]_vars
    BY <1>3, ShownStep
  <1> QED BY <1>1, <1>2, <1>3, PTL DEF Spec, OnlyContractedShown

\* Neither direction goes past the contract (gate.rs, filter.rs).
THEOREM BoundsKept == Spec => ContractBounds
  BY PinComesFirst, ShownIsContracted, PTL DEF ContractBounds
=============================================================================
