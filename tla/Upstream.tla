------------------------------ MODULE Upstream ------------------------------
(***************************************************************************)
(* The stdio upstream (wc-mediator/src/upstream.rs): an MCP server run as  *)
(* a child process, one line per frame in, one line per answer out.  The   *)
(* caller writes a request, waits for one line and takes it for the        *)
(* answer; a fault replaces the child and both pipes.                      *)
(*                                                                         *)
(* A line is remembered with whether it answers the request that is being  *)
(* waited for.  The server itself is the environment.                      *)
(***************************************************************************)
EXTENDS Naturals, Sequences

CONSTANTS
    Surfaces, \* the tool catalogues the server may present: sets of
              \* <<tool, version>> pairs
    PipeRoom  \* frames the child's stdin holds before a write has to wait

ASSUME UpstreamAssumption == Surfaces # {} /\ PipeRoom \in Nat \ {0}

VARIABLES
    child,    \* "up", "dead" and not yet noticed, or "none": relaunch failed
    inbox,    \* frames in the child's stdin
    pipe,     \* lines in the child's stdout
    strayed,  \* whether this child has written a line nobody asked for
    surface,  \* what the server presents
    call,     \* the request: "none", "waiting" or "returned"
    body,     \* what it returned
    own       \* whether that answers it

upstreamVars == <<child, inbox, pipe, strayed, surface, call, body, own>>

\* A response without a result, a result that is not a catalogue, a catalogue.
NoResult == [kind |-> "none", tools |-> {}]
Plain == [kind |-> "plain", tools |-> {}]
Listing(s) == [kind |-> "tools", tools |-> s]
Body == {NoResult, Plain} \cup {Listing(s) : s \in Surfaces}

Method == {"initialize", "tools/list", "other/list", "tools/call", "other", "notify"}

\* Frames and lines that were there before the request now being sent.
Stale(q) == [i \in 1 .. Len(q) |-> [q[i] EXCEPT !.own = FALSE]]

\* restart: the child is killed and reaped, and launched again if it can be.
Restart ==
    /\ child' \in {"up", "none"}
    /\ inbox' = <<>> /\ pipe' = <<>> /\ strayed' = FALSE

Return(b, o) == call' = "returned" /\ body' = b /\ own' = o

(***************************************************************************)
(* StdioUpstream::request: write the frame, or give up where that fails.   *)
(* The write has no timeout: while the pipe is full it waits for the child *)
(* to read or to die.                                                      *)
(***************************************************************************)
Room == Len(inbox) < PipeRoom

Send(m) ==
    /\ call = "none"
    /\ UNCHANGED surface
    /\ \/ /\ child = "up" /\ Room
          /\ inbox' = Append(Stale(inbox), [method |-> m, own |-> TRUE])
          /\ pipe' = Stale(pipe)
          /\ call' = "waiting"
          /\ UNCHANGED <<child, strayed, body, own>>
       \/ /\ child = "dead"
          /\ Restart
          /\ Return(NoResult, TRUE)
       \/ /\ child = "none"
          /\ child' = "up"
          /\ inbox' = <<[method |-> m, own |-> TRUE]>>
          /\ pipe' = <<>>
          /\ call' = "waiting"
          /\ UNCHANGED <<strayed, body, own>>
       \/ /\ child = "none"
          /\ Return(NoResult, TRUE)
          /\ UNCHANGED <<child, inbox, pipe, strayed>>

\* Mutant: the line as it came, not the response in it.
ReceiveRaw ==
    /\ call = "waiting"
    /\ pipe # <<>>
    /\ pipe' = Tail(pipe)
    /\ Return(Head(pipe), Head(pipe).own)
    /\ UNCHANGED <<child, inbox, strayed, surface>>

\* One line came back; whatever it is, it is the answer.
ReceiveLine ==
    /\ call = "waiting"
    /\ pipe # <<>>
    /\ pipe' = Tail(pipe)
    /\ Return(Head(pipe).body, Head(pipe).own)
    /\ UNCHANGED <<child, inbox, strayed, surface>>

\* EOF, or a read that failed: the child is gone.
Eof ==
    /\ call = "waiting"
    /\ child = "dead"
    /\ pipe = <<>>
    /\ Restart
    /\ Return(NoResult, TRUE)
    /\ UNCHANGED surface

\* Mutant: the caller is answered, and the child left as it is.
TimeoutKeepsChild ==
    /\ call = "waiting"
    /\ Return(NoResult, TRUE)
    /\ UNCHANGED <<child, inbox, pipe, strayed, surface>>

\* Mutant: a read without a bound.
TimeoutNever ==
    /\ call = "waiting"
    /\ UNCHANGED upstreamVars

\* The timeout passes; a line that arrives at that moment is lost with the child.
Timeout ==
    /\ call = "waiting"
    /\ Restart
    /\ Return(NoResult, TRUE)
    /\ UNCHANGED surface

\* The caller takes what was returned.
Take == /\ call = "returned"
        /\ call' = "none" /\ body' = NoResult /\ own' = TRUE
        /\ UNCHANGED <<child, inbox, pipe, strayed, surface>>

\* StdioUpstream::notify: written if there is a child to write to, never read; this
\* write may have to wait as well.
Notify ==
    /\ child = "up" => Room
    /\ inbox' = IF child = "up"
                THEN Append(inbox, [method |-> "notify", own |-> FALSE])
                ELSE inbox
    /\ UNCHANGED <<child, pipe, strayed, surface, call, body, own>>

(***************************************************************************)
(* The server: answers in order, may write a line it was not asked for,     *)
(* changes its catalogue, dies.                                            *)
(***************************************************************************)
ReplyTo(m) == {NoResult, IF m = "tools/list" THEN Listing(surface) ELSE Plain}

Serve ==
    /\ child = "up"
    /\ inbox # <<>>
    /\ inbox' = Tail(inbox)
    /\ IF Head(inbox).method = "notify"
       THEN UNCHANGED pipe
       ELSE \E b \in ReplyTo(Head(inbox).method) :
               pipe' = Append(pipe, [body |-> b, own |-> Head(inbox).own])
    /\ UNCHANGED <<child, strayed, surface, call, body, own>>

\* Bound: once per child, while a request is out.
Chat ==
    /\ child = "up"
    /\ call = "waiting"
    /\ ~ strayed
    /\ pipe = <<>>
    /\ strayed' = TRUE
    /\ pipe' = <<[body |-> NoResult, own |-> FALSE]>>
    /\ UNCHANGED <<child, inbox, surface, call, body, own>>

Drift(s) ==
    /\ s # surface
    /\ surface' = s
    /\ UNCHANGED <<child, inbox, pipe, strayed, call, body, own>>

Crash ==
    /\ child = "up"
    /\ child' = "dead"
    /\ inbox' = <<>>
    /\ UNCHANGED <<pipe, strayed, surface, call, body, own>>

ServerStep ==
    \/ Serve
    \/ Chat
    \/ \E s \in Surfaces : Drift(s)
    \/ Crash

UpstreamInit ==
    /\ child = "up"
    /\ inbox = <<>>
    /\ pipe = <<>>
    /\ strayed = FALSE
    /\ surface \in Surfaces
    /\ call = "none"
    /\ body = NoResult
    /\ own = TRUE

UpstreamTypeOK ==
    /\ child \in {"up", "dead", "none"}
    /\ inbox \in Seq([method: Method, own: BOOLEAN])
    /\ pipe \in Seq([body: Body, own: BOOLEAN])
    /\ strayed \in BOOLEAN
    /\ surface \in Surfaces
    /\ call \in {"none", "waiting", "returned"}
    /\ body \in Body
    /\ own \in BOOLEAN

\* The caller is never given the answer to another request: not after a timeout,
\* a crash, a failed launch, or once a child that wrote a stray line has been
\* replaced.
AnswersOwn == call = "returned" /\ ~ strayed => own

\* upstream.rs, module comment: "restart on any fault" prevents "one bad call
\* poisoning every call after it": a result that comes back is the result of the
\* request it comes back for, whatever went wrong with earlier ones.
NeverPoisoned == call = "returned" /\ body.kind # "none" => own
=============================================================================
