------------------------------ MODULE StateLog ------------------------------
(***************************************************************************)
(* The state store: a segmented append-only log with one elected writer,   *)
(* and the projection every process keeps of it                            *)
(* (wc-control/src/store.rs Log and Store, wc-control/src/lock.rs).        *)
(*                                                                         *)
(* The newline-terminated records that parse are `lines'.  What a write    *)
(* that ended early left behind them is `tail':                            *)
(*    "clean"    nothing                                                   *)
(*    "partial"  part of a record; the next append lands on the same line  *)
(*    "bare"     the last of `lines' lacks its newline                     *)
(*    "garbage"  a complete line that does not parse                       *)
(* and `broken' is the index of the first record after a malformed line    *)
(* inside a segment, 0 if there is none.  A projection is the sequence of  *)
(* records it has applied.                                                 *)
(***************************************************************************)
EXTENDS Naturals, Sequences

CONSTANTS
    Proc,        \* processes that open the tenant's state directory
    NoProc,      \* nobody
    Event,       \* writes; validation refuses one that is already applied
    OfferEvent,  \* the events a snapshot has no field for (offers, needs)
    SyncEvery,   \* records between syncs of batched appends
    SegLines,    \* records per segment (the code counts bytes)
    MaxLog,      \* bound on sequence numbers
    TornWrites,  \* whether a write may stop inside a record
    SyncFails,   \* whether an fsync may fail
    Snapshots    \* whether snapshots are taken

ASSUME StateLogAssumption ==
    /\ NoProc \notin Proc
    /\ OfferEvent \subseteq Event
    /\ SyncEvery \in Nat \ {0} /\ SegLines \in Nat \ {0} /\ MaxLog \in Nat
    /\ {TornWrites, SyncFails, Snapshots} \subseteq BOOLEAN

VARIABLES
    lines,   \* the log's records, oldest first
    tail, broken,
    segStart, \* how many records the full segments hold
    synced,  \* how many records are on stable storage
    lock,    \* who holds the writer lock
    pc,      \* what each process is doing
    lastSeq, \* Log::last_seq of each process
    since,   \* Log::since_sync of each process
    proj,    \* the projection of each process
    acked,   \* the records of the Durable commits that returned Ok
    snap     \* the newest snapshot: its sequence number and its records

disk == <<lines, tail, broken, segStart, synced>>
vars == <<disk, lock, pc, lastSeq, since, proj, acked, snap>>

Framed == [seq: Nat \ {0}, rec: Event]
NoSnap == [seq |-> 0, recs |-> <<>>]

\* "opening" is the non-blocking open of a command, "standby" the election of
\* a standby whose timeout has not passed, "overdue" of one whose has;
\* "gaveup" has ended by itself for want of the lock.
PC == {"off", "opening", "standby", "overdue", "gaveup", "elected", "active", "reader"}

(***************************************************************************)
(* Reading.                                                                *)
(***************************************************************************)
LastSeqIn(s) == IF s = <<>> THEN 0 ELSE s[Len(s)].seq

\* Log::assemble walks back over empty segments to the last record.
\* Mutant: only the newest segment is looked at.
LastSeqNewest == IF Len(lines) = segStart THEN 0 ELSE LastSeqIn(lines)
LastSeqOnDisk == LastSeqIn(lines)

\* Projection::rebuild: the newest snapshot, then the records after it.
Rebuild ==
    IF snap = NoSnap THEN lines
    ELSE snap.recs \o SelectSeq(lines, LAMBDA f : f.seq > snap.seq)

\* read_segment: a malformed line that is not its segment's last is fatal.
Readable == broken = 0

(***************************************************************************)
(* Writing one line.  write_all puts the bytes behind whatever is there.   *)
(***************************************************************************)
Break == IF broken = 0 THEN Len(lines) + 1 ELSE broken

WithLine(f) ==
    CASE tail = "clean" -> [lines |-> Append(lines, f), tail |-> "clean", broken |-> broken]
      [] tail = "partial" -> [lines |-> lines, tail |-> "garbage", broken |-> broken]
      [] tail = "bare" -> [lines |-> SubSeq(lines, 1, Len(lines) - 1),
                           tail |-> "garbage", broken |-> broken]
      [] tail = "garbage" -> [lines |-> Append(lines, f), tail |-> "clean", broken |-> Break]

\* A write that stops inside the record, or just before its newline.
WithPartOfLine(f) ==
    CASE tail = "clean" -> {[lines |-> lines, tail |-> "partial", broken |-> broken],
                            [lines |-> Append(lines, f), tail |-> "bare", broken |-> broken]}
      [] tail = "partial" -> {[lines |-> lines, tail |-> "partial", broken |-> broken]}
      [] tail = "bare" -> {[lines |-> SubSeq(lines, 1, Len(lines) - 1),
                            tail |-> "partial", broken |-> broken]}
      [] tail = "garbage" -> {[lines |-> lines, tail |-> "partial", broken |-> Break]}

Write(w) == lines' = w.lines /\ tail' = w.tail /\ broken' = w.broken

\* What is on stable storage of the log s, if nothing is synced now.
Still(s) == IF Len(s) < synced THEN Len(s) ELSE synced

(***************************************************************************)
(* Opening and the election.  flock is owned by the descriptor, so it goes *)
(* with the process however that ends.                                     *)
(***************************************************************************)
Start(p, how) ==
    /\ pc[p] \in {"off", "gaveup"}
    /\ how \in {"opening", "standby"}
    /\ pc' = [pc EXCEPT ![p] = how]
    /\ UNCHANGED <<disk, lock, lastSeq, since, proj, acked, snap>>

\* Mutant: a held lock is taken over.
AcquireAnyway(p) ==
    /\ pc[p] = "opening"
    /\ lock' = p /\ pc' = [pc EXCEPT ![p] = "elected"]
    /\ UNCHANGED <<disk, lastSeq, since, proj, acked, snap>>

\* acquire: a held lock is refused, after its short retries.
Acquire(p) ==
    /\ pc[p] = "opening"
    /\ IF lock = NoProc
       THEN lock' = p /\ pc' = [pc EXCEPT ![p] = "elected"]
       ELSE pc' = [pc EXCEPT ![p] = "gaveup"] /\ UNCHANGED lock
    /\ UNCHANGED <<disk, lastSeq, since, proj, acked, snap>>

\* Mutant: the timeout is looked at before the lock.
PollTimeoutFirst(p) ==
    /\ \/ /\ pc[p] = "standby" /\ lock = NoProc
          /\ lock' = p /\ pc' = [pc EXCEPT ![p] = "elected"]
       \/ /\ pc[p] = "overdue"
          /\ pc' = [pc EXCEPT ![p] = "gaveup"] /\ UNCHANGED lock
    /\ UNCHANGED <<disk, lastSeq, since, proj, acked, snap>>

\* One turn of acquire_waiting's loop that ends it.
Poll(p) ==
    /\ \/ /\ pc[p] \in {"standby", "overdue"} /\ lock = NoProc
          /\ lock' = p /\ pc' = [pc EXCEPT ![p] = "elected"]
       \/ /\ pc[p] = "overdue" /\ lock # NoProc
          /\ pc' = [pc EXCEPT ![p] = "gaveup"] /\ UNCHANGED lock
    /\ UNCHANGED <<disk, lastSeq, since, proj, acked, snap>>

StandbyTimeout(p) ==
    /\ pc[p] = "standby"
    /\ pc' = [pc EXCEPT ![p] = "overdue"]
    /\ UNCHANGED <<disk, lock, lastSeq, since, proj, acked, snap>>

\* Everything a process has in memory goes with it.
Forget(P) ==
    /\ lock' = IF lock \in P THEN NoProc ELSE lock
    /\ lastSeq' = [p \in Proc |-> IF p \in P THEN 0 ELSE lastSeq[p]]
    /\ since' = [p \in Proc |-> IF p \in P THEN 0 ELSE since[p]]
    /\ proj' = [p \in Proc |-> IF p \in P THEN <<>> ELSE proj[p]]
    /\ pc' = [p \in Proc |-> IF p \in P THEN "off" ELSE pc[p]]

\* Mutant: the projection is rebuilt before the lock is taken.
AssembleThenAcquire(p) ==
    /\ IF pc[p] = "opening" /\ Readable
       THEN /\ proj' = [proj EXCEPT ![p] = Rebuild]
            /\ UNCHANGED <<lock, pc, lastSeq, since>>
       ELSE /\ pc[p] = "elected"
            /\ lastSeq' = [lastSeq EXCEPT ![p] = LastSeqOnDisk]
            /\ pc' = [pc EXCEPT ![p] = "active"]
            /\ UNCHANGED <<lock, since, proj>>
    /\ UNCHANGED <<disk, acked, snap>>

\* Store::assemble, under the lock: rebuild, then open the log for appending.
\* A log that cannot be read fails the open.
Assemble(p) ==
    /\ pc[p] = "elected"
    /\ IF Readable
       THEN /\ proj' = [proj EXCEPT ![p] = Rebuild]
            /\ lastSeq' = [lastSeq EXCEPT ![p] = LastSeqOnDisk]
            /\ since' = [since EXCEPT ![p] = 0]
            /\ pc' = [pc EXCEPT ![p] = "active"]
            /\ UNCHANGED lock
       ELSE Forget({p})
    /\ UNCHANGED <<disk, acked, snap>>

\* Mutant: a refresh adds to the view it has.
ReadMore(p) ==
    /\ pc[p] \in {"off", "reader"}
    /\ Readable
    /\ proj' = [proj EXCEPT ![p] = @ \o Rebuild]
    /\ pc' = [pc EXCEPT ![p] = "reader"]
    /\ UNCHANGED <<disk, lock, lastSeq, since, acked, snap>>

\* open_read_only and refresh: no lock.  A refresh that fails keeps the view.
Read(p) ==
    /\ pc[p] \in {"off", "reader"}
    /\ Readable
    /\ proj' = [proj EXCEPT ![p] = Rebuild]
    /\ pc' = [pc EXCEPT ![p] = "reader"]
    /\ UNCHANGED <<disk, lock, lastSeq, since, acked, snap>>

\* The process exits or is killed between two operations.
Exit(p) ==
    /\ pc[p] \notin {"off", "gaveup"}
    /\ Forget({p})
    /\ UNCHANGED <<disk, acked, snap>>
(***************************************************************************)
(* commit: append, then apply.  The record is written and counted before   *)
(* it is synced, and the projection sees it only if everything succeeded.  *)
(***************************************************************************)
\* Mutant: the last number again.
LastRecord(p, e) == [seq |-> lastSeq[p], rec |-> e]
NextRecord(p, e) == [seq |-> lastSeq[p] + 1, rec |-> e]

\* Appending is for the lock's holder; validation looked at the projection.
MayCommit(p, e) ==
    /\ pc[p] = "active"
    /\ \A i \in 1 .. Len(proj[p]) : proj[p][i].rec # e
    /\ lastSeq[p] < MaxLog

\* Mutant: batched and durable appends are synced alike, every SyncEvery.
SyncDueBatched(p, durable) == since[p] + 1 >= SyncEvery
SyncDue(p, durable) == durable \/ since[p] + 1 >= SyncEvery

\* maybe_rotate.  The full segment is synced and a new one begun: a malformed
\* last line stays behind as the last line of its segment.
Rotates(ls) == Len(ls) >= segStart + SegLines

Commit(p, e, durable) ==
    /\ MayCommit(p, e)
    /\ LET f == NextRecord(p, e)
           w == WithLine(f)
           rotates == Rotates(w.lines)
           sync == SyncDue(p, durable) \/ rotates
       IN /\ Write(IF rotates THEN [w EXCEPT !.tail = "clean"] ELSE w)
          /\ segStart' = IF rotates THEN Len(w.lines) ELSE segStart
          /\ synced' = IF sync THEN Len(w.lines) ELSE Still(w.lines)
          /\ since' = [since EXCEPT ![p] = IF sync THEN 0 ELSE @ + 1]
          /\ proj' = [proj EXCEPT ![p] = Append(@, f)]
          /\ acked' = IF durable THEN acked \cup {f} ELSE acked
    /\ lastSeq' = [lastSeq EXCEPT ![p] = @ + 1]
    /\ UNCHANGED <<lock, pc, snap>>

\* Log::sync.
Sync(p) ==
    /\ pc[p] = "active"
    /\ synced' = Len(lines)
    /\ since' = [since EXCEPT ![p] = 0]
    /\ UNCHANGED <<lines, tail, broken, segStart, lock, pc, lastSeq, proj, acked, snap>>

\* The process dies after the write: nobody hears of it.
CommitDies(p, e) ==
    /\ MayCommit(p, e)
    /\ Write(WithLine(NextRecord(p, e)))
    /\ synced' \in {Still(lines'), Len(lines')}
    /\ Forget({p})
    /\ UNCHANGED <<segStart, acked, snap>>

\* The sync fails: last_seq has moved on, commit returns the error and the
\* projection stays as it was.
CommitSyncFails(p, e, durable) ==
    /\ SyncFails
    /\ MayCommit(p, e)
    /\ LET w == WithLine(NextRecord(p, e))
       IN Write(w) /\ (SyncDue(p, durable) \/ Rotates(w.lines))
    /\ lastSeq' = [lastSeq EXCEPT ![p] = @ + 1]
    /\ since' = [since EXCEPT ![p] = @ + 1]
    /\ synced' = Still(lines')
    /\ UNCHANGED <<segStart, lock, pc, proj, acked, snap>>

\* The write stops early; the process dies with it or reports the error.
CommitTorn(p, e) ==
    /\ TornWrites
    /\ MayCommit(p, e)
    /\ \E w \in WithPartOfLine(NextRecord(p, e)) : Write(w)
    /\ synced' = Still(lines')
    /\ UNCHANGED <<segStart, acked, snap>>
    /\ \/ Forget({p})
       \/ UNCHANGED <<lock, pc, lastSeq, since, proj>>

(***************************************************************************)
(* The machine loses power: what was not synced may be gone, from some     *)
(* record on.  Earlier segments were synced when they were left.           *)
(***************************************************************************)
\* What may stand behind the first n records afterwards.
TailAfterLoss(n) ==
    IF n = Len(lines)
    THEN IF tail = "partial" THEN {"partial", "clean"} ELSE {tail}
    ELSE {"clean"} \cup (IF TornWrites THEN {"partial"} ELSE {})
                   \cup (IF TornWrites /\ n > synced THEN {"bare"} ELSE {})
                   \cup (IF n + 1 = broken THEN {"garbage"} ELSE {})

PowerLoss ==
    /\ \E n \in synced .. Len(lines) :
          /\ lines' = SubSeq(lines, 1, n)
          /\ tail' \in TailAfterLoss(n)
          /\ broken' = IF n < broken THEN 0 ELSE broken
    /\ Forget(Proc)
    /\ UNCHANGED <<segStart, synced, acked, snap>>

\* Store::snapshot: the projection without its offers and needs.
Snapshot(p) ==
    /\ Snapshots
    /\ pc[p] = "active"
    /\ proj[p] # <<>>
    /\ LastSeqIn(proj[p]) >= snap.seq
    /\ snap' = [seq |-> LastSeqIn(proj[p]),
                recs |-> SelectSeq(proj[p], LAMBDA f : f.rec \notin OfferEvent)]
    /\ UNCHANGED <<disk, lock, pc, lastSeq, since, proj, acked>>

Init ==
    /\ lines = <<>> /\ tail = "clean" /\ broken = 0 /\ segStart = 0 /\ synced = 0
    /\ lock = NoProc
    /\ pc = [p \in Proc |-> "off"]
    /\ lastSeq = [p \in Proc |-> 0]
    /\ since = [p \in Proc |-> 0]
    /\ proj = [p \in Proc |-> <<>>]
    /\ acked = {}
    /\ snap = NoSnap

ProcStep(p) ==
    \/ \E how \in {"opening", "standby"} : Start(p, how)
    \/ Acquire(p) \/ Poll(p) \/ StandbyTimeout(p)
    \/ Assemble(p) \/ Read(p) \/ Exit(p) \/ Sync(p) \/ Snapshot(p)
    \/ \E e \in Event, durable \in BOOLEAN :
          Commit(p, e, durable) \/ CommitSyncFails(p, e, durable)
    \/ \E e \in Event : CommitDies(p, e) \/ CommitTorn(p, e)

Next == (\E p \in Proc : ProcStep(p)) \/ PowerLoss

Spec == Init /\ [][Next]_vars

\* A process that is running keeps running: its loop comes round, its clock
\* passes the timeout, its open completes.
Fairness == \A p \in Proc : WF_vars(Poll(p)) /\ WF_vars(StandbyTimeout(p))

FairSpec == Spec /\ Fairness

(***************************************************************************)
(* Properties.                                                             *)
(***************************************************************************)
TypeOK ==
    /\ lines \in Seq(Framed)
    /\ tail \in {"clean", "partial", "bare", "garbage"}
    /\ broken \in Nat /\ segStart \in Nat /\ synced \in Nat
    /\ lock \in Proc \cup {NoProc}
    /\ pc \in [Proc -> PC]
    /\ lastSeq \in [Proc -> Nat]
    /\ since \in [Proc -> Nat]
    /\ proj \in [Proc -> Seq(Framed)]
    /\ acked \subseteq Framed
    /\ snap.seq \in Nat /\ snap.recs \in Seq(Framed)

\* Framed::seq: "Monotonic sequence number, unique across all segments",
\* through crashes, restarts, failed syncs and torn writes.
SeqsIncrease ==
    \A i, j \in 1 .. Len(lines) : i < j => lines[i].seq < lines[j].seq

\* Durability::Durable: an acknowledged durable record is never lost, whoever
\* crashes and however often the machine loses power.
DurableSurvives ==
    \A f \in acked : \E i \in 1 .. Len(lines) : lines[i] = f

\* Store: "the log plus its projection, opened together so they cannot drift
\* apart".  An active writer's projection is the log, all of it: what earlier
\* writers wrote while it stood by included.
NoDrift == \A p \in Proc : pc[p] = "active" => proj[p] = lines

\* A reader holding no lock never shows what was not written, nor a later
\* record without the earlier ones.
ReaderBehind ==
    \A p \in Proc : pc[p] = "reader" =>
        /\ Len(proj[p]) <= Len(lines)
        /\ \A i \in 1 .. Len(proj[p]) : proj[p][i] = lines[i]

\* Nobody sees anything but the log: its writer all of it, its readers a prefix
\* (Store::open, open_reader, refresh).
ProjectionsTrue == NoDrift /\ ReaderBehind

\* No write is applied twice: one that was refused left nothing behind, so
\* that trying it again is safe (Store::commit).
AppliedOnce ==
    \A i, j \in 1 .. Len(lines) : lines[i].rec = lines[j].rec => i = j

\* While somebody stands by, the tenant does not stay without a writer: a
\* standby whose time is up tries the lock once more before it gives up, so
\* only being killed takes it out of the running (acquire_waiting).
StandbyTakesOver ==
    \A p \in Proc : (pc[p] \in {"standby", "overdue"} /\ lock = NoProc)
                        ~> (lock # NoProc \/ pc[p] = "off")

Events(s) == [i \in 1 .. Len(s) |-> s[i].rec]

Abstract == INSTANCE DurableLog
    WITH history <- Events(lines),
         kept <- synced,
         writer <- {p \in Proc : pc[p] = "active"},
         view <- [p \in Proc |-> Events(proj[p])]

\* The store, on a disk that neither tears a write nor fails a sync, is one
\* durable linear history: writers take turns, each continues where the log
\* ends, and failures take back only what was not synced (Store, Log).
Implements == Abstract!Spec
=============================================================================
