----------------------------- MODULE FeedFiles -----------------------------
(***************************************************************************)
(* The files through which a cut and its confirmation travel: the signed   *)
(* revocation feed (contain.rs RevocationFeed), the ledger of containment  *)
(* orders (contain.rs AckLedger) and the ledger of installed contract sets *)
(* (dist.rs SetAckLedger), with the processes that write and read them:    *)
(* the plane or the command that holds the writer lock, a read-only plane, *)
(* the mediators, and the deploy gate (`connect distribution`).            *)
(*                                                                         *)
(* The feed is a text file that is appended to.  A write can stop inside a *)
(* line or in front of its end, and a sync can fail after the line is in   *)
(* the file; the ledgers are overwritten whole and can be cut short.  The  *)
(* holder of the lock numbers entries from what it has in memory.          *)
(***************************************************************************)
EXTENDS Integers, Sequences, FiniteSets

CONSTANTS
    FCut,          \* what an entry may name
    FMediator,     \* mediator ids
    FMaxLog,       \* bound on the state log
    FMaxLines,     \* bound on the lines of the feed
    FFaulty        \* may writes stop halfway and syncs fail

VARIABLES
    file,          \* the lines of the feed
    holder,        \* who holds the writer lock: "none", "plane" or "command"
    held,          \* the entries the holder has in memory
    order,         \* what the running command was told to cut
    todo,          \* the entries it has yet to append
    promised,      \* cuts whose append returned success
    orders,        \* the order ledger: a set of [seq, target, expected]
    spoiled,       \* the ledgers whose file no longer parses
    logSeq,        \* head of the state log
    reader,        \* the read-only plane: [up, held, seq]
    ackMem,        \* ackMem[p]: the set ledger in the memory of plane p
    ackFile,       \* the set ledger on disk
    installed,     \* installed[m]: the newest set m has really installed
    wire           \* acknowledgements on their way

feedVars == <<file, holder, held, order, todo, promised, orders, spoiled>>
ackVars == <<logSeq, reader, ackMem, ackFile, installed, wire>>
fileVars == <<feedVars, ackVars>>

Never == -1
None == "none"
Planes == {"plane", "reader"}
Empty == [m \in FMediator |-> Never]
NoReader == [up |-> FALSE, held |-> <<>>, seq |-> 0]

\* A line: a row, a row without its line end, part of a row, or two on one line.
Entry(n, c, ended) == [kind |-> "row", seq |-> n, cut |-> c, ended |-> ended]
Stub == [kind |-> "stub", ended |-> FALSE]
Junk == [kind |-> "junk", ended |-> TRUE]

Cuts(s) == {s[i].cut : i \in 1..Len(s)}

---------------------------------------------------------------------------
(* The feed.                                                               *)

\* A bug: lines that do not parse are skipped.
OpenSkipping(f) ==
    LET rows == SelectSeq(f, LAMBDA l : l.kind = "row")
    IN  IF \A i \in 1..Len(rows) : rows[i].seq = i THEN {rows} ELSE {}

\* RevocationFeed::open: the entries, or nothing when the file is refused.
OpenFeed(f) ==
    IF \A i \in 1..Len(f) : f[i].kind = "row" /\ f[i].seq = i THEN {f} ELSE {}

\* Opened for appending: what is written lands on an unfinished last line.
Append2(f, l) ==
    IF f # <<>> /\ ~f[Len(f)].ended
    THEN [f EXCEPT ![Len(f)] = [Junk EXCEPT !.ended = l.ended]]
    ELSE Append(f, l)

\* append and write_line: success, or one of the ways to fail.
AppendEntry(c, ok) ==
    LET n == Len(held) + 1 IN
    /\ Len(file) < FMaxLines
    /\ IF ok
       THEN /\ file' = Append2(file, Entry(n, c, TRUE))
            /\ held' = Append(held, Entry(n, c, TRUE))
            /\ promised' = promised \cup {c}
       ELSE /\ FFaulty
            /\ file' \in {file} \cup
                  {Append2(file, l) : l \in {Entry(n, c, TRUE), Entry(n, c, FALSE), Stub}}
            /\ UNCHANGED <<held, promised>>

FilesInit ==
    /\ file = <<>> /\ holder = "none" /\ held = <<>> /\ order = None /\ todo = <<>>
    /\ promised = {} /\ orders = {} /\ spoiled = {}
    /\ logSeq = 0 /\ reader = NoReader
    /\ ackMem = [p \in Planes |-> Empty] /\ ackFile = Empty
    /\ installed = Empty /\ wire = {}

\* serve: the lock, the set ledger and the feed, or no plane.
StartPlane ==
    /\ holder = "none" /\ "acks" \notin spoiled
    /\ \E f \in OpenFeed(file) : held' = f
    /\ holder' = "plane"
    /\ ackMem' = [ackMem EXCEPT !["plane"] = ackFile]
    /\ UNCHANGED <<file, order, todo, promised, orders, spoiled, logSeq, reader, ackFile, installed, wire>>

\* quarantine and revoke over the API: the register, then the feed.
PlaneCut(c, ok) ==
    /\ holder = "plane" /\ logSeq < FMaxLog
    /\ logSeq' = logSeq + 1
    /\ AppendEntry(c, ok)
    /\ UNCHANGED <<holder, order, todo, orders, spoiled, reader, ackMem, ackFile, installed, wire>>

\* The commands: the register first, then propagate opens the two files.
BeginCommand(s) ==
    /\ holder = "none" /\ logSeq < FMaxLog
    /\ logSeq' = logSeq + 1
    /\ IF "orders" \in spoiled \/ OpenFeed(file) = {}
       THEN UNCHANGED <<holder, held, order, todo>>
       ELSE /\ holder' = "command" /\ order' = s[1] /\ todo' = s
            /\ \E f \in OpenFeed(file) : held' = f
    /\ UNCHANGED <<file, promised, orders, spoiled, reader, ackMem, ackFile, installed, wire>>

\* contain: the order itself, then every contract by name; a failure ends it.
CommandAppend(ok) ==
    /\ holder = "command" /\ todo # <<>>
    /\ AppendEntry(Head(todo), ok)
    /\ todo' = IF ok THEN Tail(todo) ELSE <<>>
    /\ holder' = IF ok THEN holder ELSE "none"
    /\ order' = IF ok THEN order ELSE None
    /\ UNCHANGED <<orders, spoiled, logSeq, reader, ackMem, ackFile, installed, wire>>

\* AckLedger::expect: one order for each sequence.
Expect(o) == {p \in orders : p.seq # o.seq} \cup {o}

\* What a mediator set may list: each mediator once.
MediatorSet == SUBSET FMediator

\* expect and save, at the end of propagate: every mediator of the set has to
\* confirm the head of the feed.  The process may die in the write.
CommandOrders(expected) ==
    /\ holder = "command" /\ todo = <<>> /\ held # <<>>
    /\ LET o == [seq |-> Len(held), target |-> order, expected |-> expected] IN
       \/ orders' = Expect(o) /\ UNCHANGED spoiled
       \/ FFaulty /\ spoiled' = spoiled \cup {"orders"} /\ UNCHANGED orders
    /\ holder' = "none" /\ held' = <<>> /\ order' = None
    /\ UNCHANGED <<file, todo, promised, logSeq, reader, ackMem, ackFile, installed, wire>>

\* AckLedger::state_of: what a mediator has confirmed of an order.  Nothing calls
\* AckLedger::record, so the ledger holds no confirmation and each is awaited.
Confirmed == Empty
StateOf(o, m) == IF Confirmed[m] >= o.seq THEN "confirmed" ELSE "awaited"

\* AckLedger::outstanding, as `connect mediators' lists it from the ledger and
\* the feed, if both open.
Outstanding ==
    {o \in orders : \E m \in o.expected : StateOf(o, m) # "confirmed"}

HolderDies ==
    /\ holder # "none"
    /\ holder' = "none" /\ held' = <<>> /\ order' = None /\ todo' = <<>>
    /\ UNCHANGED <<file, promised, orders, spoiled, ackVars>>

---------------------------------------------------------------------------
(* The contract sets and their acknowledgements.                           *)

\* A read-only plane opens the same files and the log as it is.
StartReader ==
    /\ ~reader.up /\ "acks" \notin spoiled
    /\ \E f \in OpenFeed(file) : reader' = [up |-> TRUE, held |-> f, seq |-> logSeq]
    /\ ackMem' = [ackMem EXCEPT !["reader"] = ackFile]
    /\ UNCHANGED <<feedVars, logSeq, ackFile, installed, wire>>

\* Its refresh thread reads the log again, and nothing but the log.
RefreshReader ==
    /\ reader.up /\ reader.seq # logSeq
    /\ reader' = [reader EXCEPT !.seq = logSeq]
    /\ UNCHANGED <<feedVars, logSeq, ackMem, ackFile, installed, wire>>

ReaderDies ==
    /\ reader.up /\ reader' = NoReader
    /\ UNCHANGED <<feedVars, logSeq, ackMem, ackFile, installed, wire>>

Up(p) == IF p = "plane" THEN holder = "plane" ELSE reader.up
\* A bug: a read-only plane stamps the set with the head of the log and not with
\* the sequence its projection was built from.
ServesHead(p) ==
    logSeq

\* The sequence plane p puts on the set it serves: its projection's.
Serves(p) ==
    IF p = "plane" THEN logSeq ELSE reader.seq

\* A mediator installs the set plane p serves, and acknowledges it to whichever
\* plane answers then.  The acknowledgement may be delayed, repeated or lost.
InstallSet(m, p) ==
    /\ Up(p)
    /\ LET built == IF p = "plane" THEN logSeq ELSE reader.seq
       IN  installed' = [installed EXCEPT ![m] = IF @ > built THEN @ ELSE built]
    /\ wire' = wire \cup {[from |-> m, seq |-> Serves(p)]}
    /\ UNCHANGED <<feedVars, logSeq, reader, ackMem, ackFile>>

\* record: forward only.
Record(ledger, a) ==
    IF ledger[a.from] > a.seq THEN ledger ELSE [ledger EXCEPT ![a.from] = a.seq]

\* record_ack: a save that fails is not an error for the mediator.
RecordSetAck(p, a) ==
    /\ Up(p)
    /\ ackMem' = [ackMem EXCEPT ![p] = Record(@, a)]
    /\ \/ /\ ackMem[p][a.from] <= a.seq
          /\ ackFile' = ackMem'[p] /\ spoiled' = spoiled \ {"acks"}
       \/ /\ ackMem[p][a.from] > a.seq \/ FFaulty
          /\ UNCHANGED <<ackFile, spoiled>>
    /\ UNCHANGED <<file, holder, held, order, todo, promised, orders, logSeq, reader, installed, wire>>

\* The plane dies while it overwrites the ledger.
TearLedger(p) ==
    /\ FFaulty /\ Up(p) /\ wire # {}
    /\ spoiled' = spoiled \cup {"acks"}
    /\ IF p = "plane"
       THEN holder' = "none" /\ held' = <<>> /\ UNCHANGED reader
       ELSE reader' = NoReader /\ UNCHANGED <<holder, held>>
    /\ UNCHANGED <<file, order, todo, promised, orders, logSeq, ackMem, ackFile, installed, wire>>

\* An operator removes a ledger that no longer opens.
RemoveLedger ==
    /\ "acks" \in spoiled /\ spoiled' = spoiled \ {"acks"} /\ ackFile' = Empty
    /\ UNCHANGED <<file, holder, held, order, todo, promised, orders, logSeq, reader, ackMem, installed, wire>>

\* Distribution::caught_up.
CaughtUp(expected, target) ==
    expected # {} /\ \A m \in expected : ackFile[m] # Never /\ ackFile[m] >= target

\* `connect distribution`, at one of its polls: the ledger is read again every
\* time, and one that does not parse fails the gate.
GatePasses(expected, target) ==
    "acks" \notin spoiled /\ target <= logSeq /\ CaughtUp(expected, target)

FilesNext ==
    \/ StartPlane
    \/ \E c \in FCut, ok \in BOOLEAN : PlaneCut(c, ok)
    \/ \E s \in {<<c>> : c \in FCut} \cup {<<c, d>> : c, d \in FCut} : BeginCommand(s)
    \/ \E ok \in BOOLEAN : CommandAppend(ok)
    \/ \E expected \in MediatorSet : CommandOrders(expected)
    \/ HolderDies
    \/ StartReader
    \/ RefreshReader
    \/ ReaderDies
    \/ \E m \in FMediator, p \in Planes : InstallSet(m, p)
    \/ \E p \in Planes, a \in wire : RecordSetAck(p, a)
    \/ \E p \in Planes : TearLedger(p)
    \/ RemoveLedger

FilesSpec == FilesInit /\ [][FilesNext]_fileVars

---------------------------------------------------------------------------
(* Properties.                                                             *)

\* A step after which every feed that is served holds what was promised.
FeedStep ==
    /\ holder' = "plane" => promised' \subseteq Cuts(held')
    /\ reader'.up /\ ~reader.up => promised' \subseteq Cuts(reader'.held)

\* No promised cut is missing from a feed that is served: whatever writes were
\* torn, failed or glued together before, a plane that has opened the feed and a
\* read-only plane at the moment it opens it hold every cut whose append was
\* reported as a success (contain.rs open and append).
FeedComplete == [][FeedStep]_fileVars

\* The gate passes only on real installations: it names at least one mediator and
\* each of them has installed a set built at or after the target, however the
\* acknowledgements were lost, repeated and reordered, the planes restarted and
\* the ledger torn or written over by the other plane (dist.rs caught_up).
GateSound ==
    \A expected \in SUBSET FMediator, target \in 0..FMaxLog :
        GatePasses(expected, target)
          => expected # {} /\ \A m \in expected : installed[m] >= target

\* A mediator that has applied the feed as far as an order's sequence has applied
\* the order: in any feed that opens, the entry that cuts its target is at or
\* before that sequence, whatever was torn and repeated on the way
\* (contain.rs contain).
OrdersBacked ==
    \A f \in OpenFeed(file), o \in orders :
        \E i \in 1 .. Len(f) : i <= o.seq /\ f[i].cut = o.target

\* "an order nobody confirmed must stay visible": no later order takes its place
\* in the ledger (contain.rs expect).  It is about what the file was last given: a
\* write of the ledger that is cut short leaves a file that does not parse, which
\* every later command refuses, and its orders are then visible to nobody.
OrdersStay == [][Outstanding \subseteq Outstanding']_fileVars

\* What is read back from the three files can be relied on (contain.rs, dist.rs).
FilesSound == [](GateSound /\ OrdersBacked) /\ FeedComplete /\ OrdersStay
=============================================================================
