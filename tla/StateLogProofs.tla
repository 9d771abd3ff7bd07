--------------------------- MODULE StateLogProofs ---------------------------
(***************************************************************************)
(* Proofs about StateLog, for any processes, events and bounds.  The order *)
(* of the log holds on any disk; the rest on one that neither tears writes *)
(* nor fails syncs, with crashes and power losses at every point.          *)
(***************************************************************************)
EXTENDS StateLog, SequenceTheorems, TLAPS

Increasing(s) == \A i, j \in 1 .. Len(s) : i < j => s[i].seq < s[j].seq
Below(s, n) == \A i \in 1 .. Len(s) : s[i].seq <= n

\* The inductive invariant behind the order: the one process that may append
\* holds the lock, and its counter has caught up with the log, except for a
\* record left without its newline, which the next write destroys.
Bound(p) == IF tail = "bare" THEN lastSeq[p] + 1 ELSE lastSeq[p]

OrderInv ==
    /\ lines \in Seq(Framed)
    /\ tail \in {"clean", "partial", "bare", "garbage"}
    /\ synced \in Nat
    /\ pc \in [Proc -> PC]
    /\ lastSeq \in [Proc -> Nat]
    /\ Increasing(lines)
    /\ \A p \in Proc : pc[p] \in {"elected", "active"} => lock = p
    /\ \A p \in Proc : pc[p] = "active" => Below(lines, Bound(p))

\* Every number in a log is a number.
LEMMA Numbers ==
    ASSUME NEW s \in Seq(Framed)
    PROVE  \A i \in 1 .. Len(s) : s[i].seq \in Nat
  <1>1. \A i \in 1 .. Len(s) : s[i] \in Framed
    OBVIOUS
  <1>2. \A f \in Framed : f.seq \in Nat
    BY DEF Framed
  <1> QED BY <1>1, <1>2

\* The last record has the largest number.
LEMMA LastIsLargest ==
    ASSUME NEW s \in Seq(Framed), Increasing(s)
    PROVE  LastSeqIn(s) \in Nat /\ Below(s, LastSeqIn(s))
  <1>1. CASE s = <<>>
    BY <1>1 DEF Below, LastSeqIn
  <1>2. CASE s # <<>>
    <2>1. Len(s) \in 1 .. Len(s) /\ LastSeqIn(s) = s[Len(s)].seq
      BY <1>2 DEF LastSeqIn
    <2>2. \A i \in 1 .. Len(s) : s[i].seq \in Nat
      BY Numbers
    <2>3. \A i \in 1 .. Len(s) : i = Len(s) \/ i < Len(s)
      OBVIOUS
    <2>4. \A i \in 1 .. Len(s) : i < Len(s) => s[i].seq < s[Len(s)].seq
      BY <2>1 DEF Increasing
    <2> QED
      BY <2>1, <2>2, <2>3, <2>4 DEF Below
  <1> QED BY <1>1, <1>2

\* A prefix of an ordered log is ordered.
LEMMA PrefixOrdered ==
    ASSUME NEW s \in Seq(Framed), Increasing(s), NEW n \in Int, n <= Len(s)
    PROVE  /\ SubSeq(s, 1, n) \in Seq(Framed)
           /\ Increasing(SubSeq(s, 1, n))
           /\ \A k \in Nat : Below(s, k) => Below(SubSeq(s, 1, n), k)
  <1> DEFINE t == SubSeq(s, 1, n)
  <1>1. \A i \in 1 .. n : s[i] \in Framed
    OBVIOUS
  <1>2. /\ t \in Seq(Framed)
        /\ Len(t) = IF 1 <= n THEN n ELSE 0
        /\ \A i \in 1 .. n : t[i] = s[i]
    BY <1>1, SubSeqProperties
  <1>3. \A i \in 1 .. Len(t) : i \in 1 .. Len(s) /\ t[i] = s[i]
    BY <1>2
  <1> QED
    BY <1>2, <1>3 DEF Increasing, Below

\* Appending the next number keeps the order.
LEMMA AppendOrdered ==
    ASSUME NEW s \in Seq(Framed), Increasing(s), NEW n \in Nat, Below(s, n),
           NEW f \in Framed, f.seq = n + 1
    PROVE  /\ Append(s, f) \in Seq(Framed)
           /\ Increasing(Append(s, f))
           /\ Below(Append(s, f), n + 1)
  <1>1. /\ Append(s, f) \in Seq(Framed)
        /\ Len(Append(s, f)) = Len(s) + 1
        /\ \A i \in 1 .. Len(s) : Append(s, f)[i] = s[i]
        /\ Append(s, f)[Len(s) + 1] = f
    BY AppendProperties
  <1>2. \A i \in 1 .. Len(s) : s[i].seq \in Nat
    BY Numbers
  <1>3. \A i \in 1 .. Len(s) + 1 :
           \/ i \in 1 .. Len(s) /\ Append(s, f)[i] = s[i]
           \/ i = Len(s) + 1 /\ Append(s, f)[i] = f
    BY <1>1
  <1>4. ASSUME NEW i \in 1 .. Len(s) + 1, NEW j \in 1 .. Len(s) + 1, i < j
        PROVE  Append(s, f)[i].seq < Append(s, f)[j].seq
    <2>1. i \in 1 .. Len(s) /\ Append(s, f)[i] = s[i] /\ s[i].seq \in Nat
      BY <1>1, <1>2, <1>4
    <2>2. CASE j = Len(s) + 1
      BY <1>1, <2>1, <2>2 DEF Below
    <2>3. CASE j \in 1 .. Len(s)
      BY <1>1, <1>4, <2>1, <2>3 DEF Increasing
    <2> QED BY <2>2, <2>3
  <1>5. Increasing(Append(s, f))
    BY <1>1, <1>4 DEF Increasing
  <1>6. ASSUME NEW i \in 1 .. Len(s) + 1 PROVE Append(s, f)[i].seq <= n + 1
    BY <1>2, <1>3 DEF Below
  <1>7. Below(Append(s, f), n + 1)
    BY <1>1, <1>6 DEF Below
  <1> QED
    BY <1>1, <1>5, <1>7

\* Whatever a commit does to the file, whole line or part of one.
LEMMA WriteOrdered ==
    ASSUME OrderInv, NEW p \in Proc, NEW e \in Event, pc[p] = "active",
           NEW w \in {WithLine(NextRecord(p, e))} \cup WithPartOfLine(NextRecord(p, e))
    PROVE  /\ w.lines \in Seq(Framed)
           /\ w.tail \in {"clean", "partial", "bare", "garbage"}
           /\ Increasing(w.lines)
           /\ Below(w.lines, lastSeq[p] + 1)
           /\ w \in WithPartOfLine(NextRecord(p, e)) /\ w.tail # "bare" =>
                 Below(w.lines, lastSeq[p])
  <1> DEFINE f == NextRecord(p, e)
             t == SubSeq(lines, 1, Len(lines) - 1)
  <1>1. f \in Framed /\ f.seq = lastSeq[p] + 1 /\ lastSeq[p] \in Nat
    BY DEF OrderInv, NextRecord, Framed
  <1>2. /\ lines \in Seq(Framed) /\ Increasing(lines)
        /\ tail # "bare" => Below(lines, lastSeq[p])
        /\ tail = "bare" => Below(lines, lastSeq[p] + 1)
    BY DEF OrderInv, Bound
  <1>3. ASSUME NEW s, s \in Seq(Framed), Below(s, lastSeq[p])
        PROVE  Below(s, lastSeq[p] + 1)
    <2>1. \A i \in 1 .. Len(s) : s[i].seq \in Nat
      BY <1>3, Numbers
    <2> QED BY <1>1, <1>3, <2>1 DEF Below
  <1>4. CASE tail # "bare"
    <2>1. /\ Append(lines, f) \in Seq(Framed)
          /\ Increasing(Append(lines, f))
          /\ Below(Append(lines, f), lastSeq[p] + 1)
      BY <1>1, <1>2, <1>4, AppendOrdered
    <2>2. /\ w.lines \in {lines, Append(lines, f)}
          /\ w.tail \in {"clean", "partial", "bare", "garbage"}
          /\ w \in WithPartOfLine(f) /\ w.tail # "bare" => w.lines = lines
      BY <1>4 DEF OrderInv, WithLine, WithPartOfLine
    <2> QED
      BY <1>2, <1>3, <1>4, <2>1, <2>2
  <1>5. CASE tail = "bare"
    <2>1. Len(lines) - 1 \in Int /\ Len(lines) - 1 <= Len(lines)
      BY <1>2
    <2>2. t \in Seq(Framed) /\ Increasing(t)
      BY <1>2, <2>1, PrefixOrdered
    <2>3. ASSUME NEW i \in 1 .. Len(t) PROVE t[i].seq <= lastSeq[p]
      <3>1. \A k \in 1 .. Len(lines) - 1 : lines[k] \in Framed
        BY <1>2
      <3>2. /\ Len(t) = IF 1 <= Len(lines) - 1 THEN Len(lines) - 1 ELSE 0
            /\ \A k \in 1 .. Len(lines) - 1 : t[k] = lines[k]
        BY <2>1, <3>1, SubSeqProperties
      <3>3. /\ i \in 1 .. Len(lines) /\ i < Len(lines) /\ t[i] = lines[i]
            /\ Len(lines) \in 1 .. Len(lines)
        BY <1>2, <3>2
      <3>4. lines[i].seq \in Nat /\ lines[Len(lines)].seq \in Nat
        BY <1>2, <3>3, Numbers
      <3>5. lines[i].seq < lines[Len(lines)].seq
        BY <1>2, <3>3 DEF Increasing
      <3>6. lines[Len(lines)].seq <= lastSeq[p] + 1
        BY <1>2, <1>5, <3>3 DEF Below
      <3> QED
        BY <1>1, <3>3, <3>4, <3>5, <3>6
    <2>4. Below(t, lastSeq[p])
      BY <2>3 DEF Below
    <2>5. w.lines = t /\ w.tail \in {"partial", "garbage"}
      BY <1>5 DEF WithLine, WithPartOfLine
    <2> QED
      BY <1>3, <2>2, <2>4, <2>5
  <1> QED BY <1>4, <1>5

\* A process that goes away takes nothing but its own role with it.
LEMMA ForgetOrdered ==
    ASSUME OrderInv, NEW P \in SUBSET Proc, Forget(P),
           lines' \in Seq(Framed), tail' \in {"clean", "partial", "bare", "garbage"},
           synced' \in Nat, Increasing(lines'),
           \A q \in Proc \ P : pc[q] = "active" => Below(lines', Bound(q)')
    PROVE  OrderInv'
  BY DEF OrderInv, Forget, PC

LEMMA LeaveOrdered ==
    ASSUME OrderInv, NEW p \in Proc, Forget({p}), UNCHANGED disk
    PROVE  OrderInv'
  <1>1. \A q \in Proc \ {p} : Bound(q)' = Bound(q)
    BY DEF Bound, Forget, disk
  <1> QED
    BY <1>1, ForgetOrdered DEF OrderInv, disk

LEMMA StillNat == ASSUME NEW s \in Seq(Framed), synced \in Nat PROVE Still(s) \in Nat
  BY DEF Still

\* Only one process is elected or active.
LEMMA Alone ==
    ASSUME OrderInv, NEW p \in Proc, NEW q \in Proc,
           pc[p] = "active", pc[q] = "active"
    PROVE  p = q
  BY DEF OrderInv

\* Every step keeps the order, torn writes, failed syncs and snapshots included.
LEMMA OrderStep == OrderInv /\ [Next]_vars => OrderInv'
  <1> SUFFICES ASSUME OrderInv, [Next]_vars PROVE OrderInv'
    OBVIOUS
  <1> USE StateLogAssumption
  <1>1. ASSUME NEW p \in Proc, NEW how \in {"opening", "standby"}, Start(p, how)
        PROVE OrderInv'
    BY <1>1 DEF OrderInv, Bound, Start, disk, PC
  <1>2. ASSUME NEW p \in Proc, Acquire(p) \/ Poll(p) \/ StandbyTimeout(p)
        PROVE OrderInv'
    BY <1>2 DEF OrderInv, Bound, Acquire, Poll, StandbyTimeout, disk, PC
  <1>3. ASSUME NEW p \in Proc, Assemble(p) PROVE OrderInv'
    <2>1. CASE Readable
      <3>1. LastSeqIn(lines) \in Nat /\ Below(lines, LastSeqIn(lines))
        BY LastIsLargest DEF OrderInv
      <3>2. Below(lines, LastSeqIn(lines) + 1)
        BY <3>1, Numbers DEF Below, OrderInv
      <3> QED
        BY <1>3, <2>1, <3>1, <3>2 DEF OrderInv, Bound, Assemble, LastSeqOnDisk, disk, PC
    <2>2. CASE ~ Readable
      <3>1. Forget({p}) /\ UNCHANGED disk
        BY <1>3, <2>2 DEF Assemble
      <3> QED BY <3>1, LeaveOrdered
    <2> QED BY <2>1, <2>2
  <1>4. ASSUME NEW p \in Proc, Read(p) PROVE OrderInv'
    BY <1>4 DEF OrderInv, Bound, Read, disk, PC
  <1>5. ASSUME NEW p \in Proc, Exit(p) PROVE OrderInv'
    BY <1>5, LeaveOrdered DEF Exit
  <1>6. ASSUME NEW p \in Proc, Sync(p) PROVE OrderInv'
    BY <1>6 DEF OrderInv, Bound, Sync
  <1>7. ASSUME NEW p \in Proc, Snapshot(p) PROVE OrderInv'
    BY <1>7 DEF OrderInv, Bound, Snapshot, disk
  <1>8. ASSUME NEW p \in Proc, NEW e \in Event, NEW durable \in BOOLEAN,
               Commit(p, e, durable) \/ CommitSyncFails(p, e, durable)
        PROVE OrderInv'
    <2> DEFINE w == WithLine(NextRecord(p, e))
    <2>1. pc[p] = "active"
      BY <1>8 DEF Commit, CommitSyncFails, MayCommit
    <2>2. /\ w.lines \in Seq(Framed) /\ Increasing(w.lines)
          /\ w.tail \in {"clean", "partial", "bare", "garbage"}
          /\ Below(w.lines, lastSeq[p] + 1)
      BY <2>1, WriteOrdered
    <2>3. /\ lines' = w.lines
          /\ tail' \in {"clean", "garbage"}
          /\ pc' = pc /\ lock' = lock
          /\ lastSeq' = [lastSeq EXCEPT ![p] = @ + 1]
      BY <1>8, <2>2 DEF Commit, CommitSyncFails, Write, WithLine, OrderInv
    <2>4. synced' \in Nat
      BY <1>8, <2>2, <2>3, StillNat DEF Commit, CommitSyncFails, OrderInv
    <2>5. \A q \in Proc : pc[q] = "active" => q = p
      BY <2>1, Alone
    <2>6. lastSeq'[p] = lastSeq[p] + 1 /\ Bound(p)' = lastSeq[p] + 1
      BY <2>3 DEF Bound, OrderInv
    <2>7. \A q \in Proc : pc'[q] = "active" => Below(lines, Bound(q))'
      BY <2>2, <2>3, <2>5, <2>6
    <2> QED
      BY <2>2, <2>3, <2>4, <2>7 DEF OrderInv
  <1>9. ASSUME NEW p \in Proc, NEW e \in Event, CommitDies(p, e) PROVE OrderInv'
    <2>1. pc[p] = "active"
      BY <1>9 DEF CommitDies, MayCommit
    <2> DEFINE w == WithLine(NextRecord(p, e))
    <2>2. /\ w.lines \in Seq(Framed) /\ Increasing(w.lines)
          /\ w.tail \in {"clean", "partial", "bare", "garbage"}
      BY <2>1, WriteOrdered
    <2>3. lines' = w.lines /\ tail' = w.tail /\ Forget({p})
      BY <1>9 DEF CommitDies, Write
    <2>4. synced' \in Nat
      BY <1>9, <2>2, <2>3, StillNat DEF CommitDies, OrderInv
    <2>5. \A q \in Proc \ {p} : pc[q] # "active"
      BY <2>1, Alone
    <2> QED
      BY <2>2, <2>3, <2>4, <2>5, ForgetOrdered
  <1>10. ASSUME NEW p \in Proc, NEW e \in Event, CommitTorn(p, e) PROVE OrderInv'
    <2>1. pc[p] = "active"
      BY <1>10 DEF CommitTorn, MayCommit
    <2>2. PICK w \in WithPartOfLine(NextRecord(p, e)) : Write(w)
      BY <1>10 DEF CommitTorn
    <2>3. /\ w.lines \in Seq(Framed) /\ Increasing(w.lines)
          /\ w.tail \in {"clean", "partial", "bare", "garbage"}
          /\ Below(w.lines, lastSeq[p] + 1)
          /\ w.tail # "bare" => Below(w.lines, lastSeq[p])
      BY <2>1, WriteOrdered
    <2>4. lines' = w.lines /\ tail' = w.tail
      BY <2>2 DEF Write
    <2>5. synced' \in Nat
      BY <1>10, <2>3, <2>4, StillNat DEF CommitTorn, OrderInv
    <2>6. \A q \in Proc : pc[q] = "active" => q = p
      BY <2>1, Alone
    <2>7. CASE Forget({p})
      BY <2>3, <2>4, <2>5, <2>6, <2>7, ForgetOrdered
    <2>8. CASE UNCHANGED <<lock, pc, lastSeq, since, proj>>
      <3>1. Below(lines, Bound(p))'
        BY <2>3, <2>4, <2>8 DEF Bound
      <3> QED
        BY <2>3, <2>4, <2>5, <2>6, <2>8, <3>1 DEF OrderInv
    <2> QED
      BY <1>10, <2>7, <2>8 DEF CommitTorn
  <1>11. ASSUME PowerLoss PROVE OrderInv'
    <2>1. PICK n \in synced .. Len(lines) :
            /\ lines' = SubSeq(lines, 1, n)
            /\ tail' \in TailAfterLoss(n)
      BY <1>11 DEF PowerLoss
    <2>2. n \in Int /\ n <= Len(lines)
      BY <2>1 DEF OrderInv
    <2>3. lines' \in Seq(Framed) /\ Increasing(lines')
      BY <2>1, <2>2, PrefixOrdered DEF OrderInv
    <2>4. tail' \in {"clean", "partial", "bare", "garbage"}
      BY <2>1 DEF TailAfterLoss, OrderInv
    <2> QED
      BY <1>11, <2>3, <2>4, ForgetOrdered DEF PowerLoss, OrderInv
  <1>12. CASE UNCHANGED vars
    BY <1>12 DEF OrderInv, Bound, vars, disk
  <1> QED
    BY <1>1, <1>2, <1>3, <1>4, <1>5, <1>6, <1>7, <1>8, <1>9, <1>10, <1>11, <1>12
       DEF Next, ProcStep

\* Sequence numbers are unique and grow along the log, across segments, crashes,
\* takeovers, power losses, failed syncs and torn writes (Log::append,
\* Log::assemble).
THEOREM NumbersOrdered == Spec => []SeqsIncrease
  <1>1. Init => OrderInv
    BY DEF Init, OrderInv, Bound, Increasing, Below, PC
  <1>2. OrderInv => SeqsIncrease
    BY DEF OrderInv, SeqsIncrease, Increasing
  <1> QED
    BY <1>1, <1>2, OrderStep, PTL DEF Spec
(***************************************************************************)
(* A reliable disk: no torn write, no failing sync, and no snapshot.       *)
(***************************************************************************)
Reliable == ~ TornWrites /\ ~ SyncFails /\ ~ Snapshots

\* An acknowledged durable record is among the records already synced: what
\* makes it survive the next power loss.
Anchored == \A f \in acked : \E i \in 1 .. synced : lines[i] = f

Memory == /\ segStart \in Nat
          /\ lock \in Proc \cup {NoProc}
          /\ since \in [Proc -> Nat]
          /\ proj \in [Proc -> Seq(Framed)]
          /\ acked \subseteq Framed

CleanDisk == tail = "clean" /\ broken = 0 /\ snap = NoSnap /\ synced <= Len(lines)

RInv == /\ OrderInv /\ Memory /\ CleanDisk
        /\ NoDrift /\ ReaderBehind /\ AppliedOnce /\ Anchored

\* What a successful write does to a reliable log.
LEMMA ReliableWrite ==
    ASSUME RInv, NEW p \in Proc, NEW e \in Event, pc[p] = "active",
           \A i \in 1 .. Len(proj[p]) : proj[p][i].rec # e
    PROVE  LET f == NextRecord(p, e)
               s == Append(lines, f)
           IN /\ WithLine(f) = [lines |-> s, tail |-> "clean", broken |-> 0]
              /\ f \in Framed /\ f.rec = e
              /\ proj[p] = lines
              /\ s \in Seq(Framed)
              /\ Len(s) = Len(lines) + 1
              /\ \A i \in 1 .. Len(lines) : s[i] = lines[i]
              /\ s[Len(lines) + 1] = f
              /\ Still(s) = synced
              /\ \A i, j \in 1 .. Len(s) : s[i].rec = s[j].rec => i = j
  <1> DEFINE f == NextRecord(p, e)
             s == Append(lines, f)
  <1>1. lines \in Seq(Framed) /\ synced \in Nat /\ synced <= Len(lines)
    BY DEF RInv, OrderInv, CleanDisk
  <1>2. f \in Framed /\ f.rec = e
    BY DEF RInv, OrderInv, NextRecord, Framed
  <1>3. proj[p] = lines
    BY DEF RInv, NoDrift
  <1>4. /\ s \in Seq(Framed) /\ Len(s) = Len(lines) + 1
        /\ \A i \in 1 .. Len(lines) : s[i] = lines[i]
        /\ s[Len(lines) + 1] = f
    BY <1>1, <1>2, AppendProperties
  <1>5. WithLine(f) = [lines |-> s, tail |-> "clean", broken |-> 0]
    BY DEF WithLine, RInv, CleanDisk
  <1>6. Still(s) = synced
    BY <1>1, <1>4 DEF Still
  <1>7. ASSUME NEW i \in 1 .. Len(s), NEW j \in 1 .. Len(s), s[i].rec = s[j].rec
        PROVE  i = j
    <2>1. \A k \in 1 .. Len(lines) : s[k].rec # e
      BY <1>3, <1>4
    <2>2. i \in 1 .. Len(lines) \/ i = Len(lines) + 1
      BY <1>1, <1>4
    <2>3. j \in 1 .. Len(lines) \/ j = Len(lines) + 1
      BY <1>1, <1>4
    <2>4. CASE i \in 1 .. Len(lines) /\ j \in 1 .. Len(lines)
      <3>1. lines[i].rec = lines[j].rec
        BY <1>4, <1>7, <2>4
      <3> QED
        BY <2>4, <3>1 DEF RInv, AppliedOnce
    <2> QED
      BY <1>2, <1>4, <1>7, <2>1, <2>2, <2>3, <2>4
  <1> QED
    BY <1>2, <1>3, <1>4, <1>5, <1>6, <1>7

\* A process that goes away does not disturb what the others have.
LEMMA ReliableForget ==
    ASSUME RInv, OrderInv', NEW P \in SUBSET Proc, Forget(P),
           segStart' \in Nat, acked' = acked, CleanDisk', AppliedOnce', Anchored',
           \A q \in Proc \ P :
              /\ pc[q] = "active" => lines' = lines
              /\ pc[q] = "reader" =>
                    /\ Len(proj[q]) <= Len(lines')
                    /\ \A i \in 1 .. Len(proj[q]) : proj[q][i] = lines'[i]
    PROVE  RInv'
  <1>1. Memory'
    BY DEF RInv, Memory, Forget
  <1>2. \A q \in Proc : pc'[q] \in {"active", "reader"} =>
           q \notin P /\ pc[q] = pc'[q] /\ proj'[q] = proj[q]
    BY DEF Forget, RInv, OrderInv
  <1>3. NoDrift' /\ ReaderBehind'
    BY <1>2 DEF NoDrift, ReaderBehind, RInv
  <1> QED BY <1>1, <1>3 DEF RInv

\* Every step of a reliable store keeps its projections and its promises.
LEMMA ReliableStep ==
    ASSUME Reliable, RInv, [Next]_vars
    PROVE  RInv'
  <1> USE StateLogAssumption
  <1>0. OrderInv'
    BY OrderStep DEF RInv
  <1>1. ASSUME NEW p \in Proc, NEW how \in {"opening", "standby"},
               Start(p, how) \/ Acquire(p) \/ Poll(p) \/ StandbyTimeout(p)
        PROVE RInv'
    <2>1. UNCHANGED <<lines, tail, broken, segStart, synced, lastSeq, since, proj, acked, snap>>
      BY <1>1 DEF Start, Acquire, Poll, StandbyTimeout, disk
    <2>2. /\ lock' \in Proc \cup {NoProc}
          /\ \A q \in Proc : pc'[q] \in {"active", "reader"} => pc[q] = pc'[q]
      BY <1>1 DEF Start, Acquire, Poll, StandbyTimeout, disk, RInv, Memory, OrderInv
    <2>3. Memory' /\ CleanDisk' /\ AppliedOnce' /\ Anchored'
      BY <2>1, <2>2 DEF RInv, Memory, CleanDisk, AppliedOnce, Anchored
    <2>4. NoDrift' /\ ReaderBehind'
      BY <2>1, <2>2 DEF RInv, NoDrift, ReaderBehind
    <2> QED
      BY <1>0, <2>3, <2>4 DEF RInv
  <1>2. ASSUME NEW p \in Proc, Assemble(p) PROVE RInv'
    <2>1. /\ UNCHANGED <<lines, tail, broken, segStart, synced, acked, snap, lock>>
          /\ proj' = [proj EXCEPT ![p] = lines]
          /\ since' = [since EXCEPT ![p] = 0]
          /\ pc' = [pc EXCEPT ![p] = "active"]
      BY <1>2 DEF Assemble, Readable, Rebuild, RInv, CleanDisk, disk
    <2>2. Memory'
      BY <2>1 DEF Memory, RInv, OrderInv
    <2>3. NoDrift' /\ ReaderBehind'
      BY <2>1 DEF NoDrift, ReaderBehind, RInv, OrderInv, Memory
    <2> QED
      BY <1>0, <2>1, <2>2, <2>3 DEF RInv, CleanDisk, AppliedOnce, Anchored
  <1>3. ASSUME NEW p \in Proc, Read(p) PROVE RInv'
    <2>1. /\ UNCHANGED <<lines, tail, broken, segStart, synced, acked, snap, lock, since>>
          /\ proj' = [proj EXCEPT ![p] = lines]
          /\ pc' = [pc EXCEPT ![p] = "reader"]
      BY <1>3 DEF Read, Rebuild, RInv, CleanDisk, disk
    <2>2. Memory'
      BY <2>1 DEF Memory, RInv, OrderInv
    <2>3. NoDrift' /\ ReaderBehind'
      BY <2>1 DEF NoDrift, ReaderBehind, RInv, OrderInv, Memory
    <2> QED
      BY <1>0, <2>1, <2>2, <2>3 DEF RInv, CleanDisk, AppliedOnce, Anchored
  <1>4. ASSUME NEW p \in Proc, Exit(p) PROVE RInv'
    <2>1. /\ UNCHANGED <<lines, tail, broken, segStart, synced, acked, snap>>
          /\ Forget({p})
      BY <1>4 DEF Exit, disk
    <2>2. CleanDisk' /\ AppliedOnce' /\ Anchored' /\ segStart' \in Nat
      BY <2>1 DEF RInv, Memory, CleanDisk, AppliedOnce, Anchored
    <2> QED
      BY <1>0, <2>1, <2>2, ReliableForget DEF RInv, ReaderBehind
  <1>5. ASSUME NEW p \in Proc, Sync(p) PROVE RInv'
    <2>1. /\ UNCHANGED <<lines, tail, broken, segStart, acked, snap, lock, pc, proj>>
          /\ synced' = Len(lines) /\ since' = [since EXCEPT ![p] = 0]
      BY <1>5 DEF Sync
    <2>2. CleanDisk' /\ Anchored'
      BY <2>1 DEF RInv, OrderInv, CleanDisk, Anchored
    <2>3. Memory'
      BY <2>1 DEF RInv, Memory
    <2> QED
      BY <1>0, <2>1, <2>2, <2>3 DEF RInv, NoDrift, ReaderBehind, AppliedOnce
  <1>6. ASSUME NEW p \in Proc, NEW e \in Event, NEW durable \in BOOLEAN,
               Commit(p, e, durable)
        PROVE RInv'
    <2> DEFINE f == NextRecord(p, e)
               s == Append(lines, f)
    <2>1. pc[p] = "active" /\ \A i \in 1 .. Len(proj[p]) : proj[p][i].rec # e
      BY <1>6 DEF Commit, MayCommit
    <2>2. /\ WithLine(f) = [lines |-> s, tail |-> "clean", broken |-> 0]
          /\ f \in Framed
          /\ proj[p] = lines
          /\ s \in Seq(Framed)
          /\ Len(s) = Len(lines) + 1
          /\ \A i \in 1 .. Len(lines) : s[i] = lines[i]
          /\ s[Len(lines) + 1] = f
          /\ Still(s) = synced
          /\ \A i, j \in 1 .. Len(s) : s[i].rec = s[j].rec => i = j
      BY <2>1, ReliableWrite
    <2>3. lines' = s /\ tail' = "clean" /\ broken' = 0
      BY <1>6, <2>2 DEF Commit, Write
    <2>4. /\ synced' \in {synced, Len(s)}
          /\ durable => synced' = Len(s)
          /\ segStart' \in Nat
          /\ acked' \in {acked, acked \cup {f}}
          /\ ~ durable => acked' = acked
          /\ since' \in [Proc -> Nat]
          /\ proj' = [proj EXCEPT ![p] = s]
          /\ UNCHANGED <<lock, pc, snap>>
      BY <1>6, <2>2 DEF Commit, SyncDue, RInv, Memory
    <2>5. Memory'
      BY <2>2, <2>4 DEF Memory, RInv
    <2>6. CleanDisk'
      BY <2>2, <2>3, <2>4 DEF CleanDisk, RInv, OrderInv
    <2>7. \A q \in Proc : pc[q] = "active" => q = p
      BY <2>1, Alone DEF RInv
    <2>8. NoDrift'
      BY <2>3, <2>4, <2>7 DEF NoDrift, RInv, Memory
    <2>9. ReaderBehind'
      BY <2>1, <2>2, <2>3, <2>4 DEF ReaderBehind, RInv, Memory, OrderInv
    <2>10. AppliedOnce'
      BY <2>2, <2>3 DEF AppliedOnce
    <2>11. Anchored'
      <3> SUFFICES ASSUME NEW g \in acked' PROVE \E i \in 1 .. synced' : s[i] = g
        BY <2>3 DEF Anchored
      <3>1. synced \in Nat /\ synced <= Len(lines) /\ lines \in Seq(Framed)
        BY DEF RInv, OrderInv, CleanDisk
      <3>2. CASE g \in acked
        <4>1. PICK i \in 1 .. synced : lines[i] = g
          BY <3>2 DEF RInv, Anchored
        <4>2. i \in 1 .. Len(lines) /\ i \in 1 .. synced'
          BY <2>2, <2>4, <3>1
        <4> QED BY <2>2, <4>1, <4>2
      <3>3. CASE g \notin acked
        <4>1. g = f /\ durable
          BY <2>4, <3>3
        <4>2. Len(lines) + 1 \in 1 .. synced'
          BY <2>2, <2>4, <3>1, <4>1
        <4> QED BY <2>2, <4>1, <4>2
      <3> QED BY <3>2, <3>3
    <2> QED
      BY <1>0, <2>5, <2>6, <2>8, <2>9, <2>10, <2>11 DEF RInv
  <1>7. ASSUME NEW p \in Proc, NEW e \in Event, CommitDies(p, e) PROVE RInv'
    <2> DEFINE f == NextRecord(p, e)
               s == Append(lines, f)
    <2>1. pc[p] = "active" /\ \A i \in 1 .. Len(proj[p]) : proj[p][i].rec # e
      BY <1>7 DEF CommitDies, MayCommit
    <2>2. /\ WithLine(f) = [lines |-> s, tail |-> "clean", broken |-> 0]
          /\ s \in Seq(Framed)
          /\ Len(s) = Len(lines) + 1
          /\ \A i \in 1 .. Len(lines) : s[i] = lines[i]
          /\ Still(s) = synced
          /\ \A i, j \in 1 .. Len(s) : s[i].rec = s[j].rec => i = j
      BY <2>1, ReliableWrite
    <2>3. /\ lines' = s /\ tail' = "clean" /\ broken' = 0
          /\ synced' \in {synced, Len(s)}
          /\ UNCHANGED <<segStart, acked, snap>>
          /\ Forget({p})
      BY <1>7, <2>2 DEF CommitDies, Write
    <2>4. synced \in Nat /\ synced <= Len(lines) /\ lines \in Seq(Framed)
      BY DEF RInv, OrderInv, CleanDisk
    <2>5. CleanDisk' /\ AppliedOnce' /\ segStart' \in Nat
      BY <2>2, <2>3, <2>4 DEF RInv, Memory, CleanDisk, AppliedOnce
    <2>6. Anchored'
      <3> SUFFICES ASSUME NEW g \in acked PROVE \E i \in 1 .. synced' : s[i] = g
        BY <2>3 DEF Anchored
      <3>1. PICK i \in 1 .. synced : lines[i] = g
        BY DEF RInv, Anchored
      <3>2. i \in 1 .. Len(lines) /\ i \in 1 .. synced'
        BY <2>2, <2>3, <2>4
      <3> QED BY <2>2, <3>1, <3>2
    <2>7. \A q \in Proc \ {p} :
              /\ pc[q] = "active" => lines' = lines
              /\ pc[q] = "reader" =>
                    /\ Len(proj[q]) <= Len(lines')
                    /\ \A i \in 1 .. Len(proj[q]) : proj[q][i] = lines'[i]
      <3>1. \A q \in Proc \ {p} : pc[q] # "active"
        BY <2>1, Alone DEF RInv
      <3> QED
        BY <2>2, <2>3, <2>4, <3>1 DEF RInv, ReaderBehind, Memory
    <2> QED
      BY <1>0, <2>3, <2>5, <2>6, <2>7, ReliableForget
  <1>8. ASSUME PowerLoss PROVE RInv'
    <2>1. PICK n \in synced .. Len(lines) :
            /\ lines' = SubSeq(lines, 1, n)
            /\ tail' \in TailAfterLoss(n)
            /\ broken' = IF n < broken THEN 0 ELSE broken
      BY <1>8 DEF PowerLoss
    <2>2. /\ synced \in Nat /\ lines \in Seq(Framed) /\ n \in Nat /\ n <= Len(lines)
          /\ synced <= n
      BY <2>1 DEF RInv, OrderInv, CleanDisk
    <2>3. \A i \in 1 .. n : lines[i] \in Framed
      BY <2>2
    <2>4. Len(lines') = n /\ \A i \in 1 .. n : lines'[i] = lines[i]
      BY <2>1, <2>2, <2>3, SubSeqProperties
    <2>5. /\ tail' = "clean" /\ broken' = 0
          /\ UNCHANGED <<segStart, synced, acked, snap>> /\ Forget(Proc)
      BY <1>8, <2>1, <2>2 DEF PowerLoss, TailAfterLoss, Reliable, RInv, CleanDisk
    <2>6. CleanDisk' /\ segStart' \in Nat
      BY <2>2, <2>4, <2>5 DEF RInv, CleanDisk, Memory
    <2>7. AppliedOnce'
      BY <2>2, <2>4 DEF AppliedOnce, RInv
    <2>8. Anchored'
      BY <2>2, <2>4, <2>5 DEF Anchored, RInv
    <2> QED
      BY <1>0, <2>5, <2>6, <2>7, <2>8, ReliableForget
  <1>9. CASE UNCHANGED vars
    BY <1>0, <1>9 DEF RInv, Memory, CleanDisk, NoDrift, ReaderBehind, AppliedOnce,
                      Anchored, vars, disk
  <1>10. ASSUME NEW p \in Proc, NEW e \in Event, NEW durable \in BOOLEAN,
                Snapshot(p) \/ CommitSyncFails(p, e, durable) \/ CommitTorn(p, e)
         PROVE FALSE
    BY <1>10 DEF Reliable, Snapshot, CommitSyncFails, CommitTorn
  <1>11. ASSUME NEW p \in Proc, ProcStep(p) PROVE RInv'
    <2>1. CASE Snapshot(p)
      BY <2>1 DEF Reliable, Snapshot
    <2> QED
      BY <1>1, <1>2, <1>3, <1>4, <1>5, <1>6, <1>7, <1>10, <1>11, <2>1 DEF ProcStep
  <1> QED
    BY <1>8, <1>9, <1>11 DEF Next
LEMMA ReliableInit == Init => RInv
  <1> SUFFICES ASSUME Init PROVE RInv
    OBVIOUS
  <1>1. OrderInv
    BY DEF Init, OrderInv, Bound, Increasing, Below, PC
  <1>2. Memory /\ CleanDisk
    BY StateLogAssumption DEF Init, Memory, CleanDisk
  <1>3. NoDrift /\ ReaderBehind /\ AppliedOnce /\ Anchored
    BY DEF Init, NoDrift, ReaderBehind, AppliedOnce, Anchored
  <1> QED BY <1>1, <1>2, <1>3 DEF RInv

\* On a reliable disk the store keeps its invariant, through every crash,
\* takeover and power loss.
THEOREM ReliableInductive ==
    ASSUME Reliable
    PROVE  Spec => []RInv
  <1>1. RInv /\ [Next]_vars => RInv'
    BY ReliableStep
  <1> QED
    BY <1>1, ReliableInit, PTL DEF Spec

\* Every state of the store is well typed.
THEOREM StoreTypes ==
    ASSUME Reliable
    PROVE  Spec => []TypeOK
  <1>1. RInv => TypeOK
    BY DEF RInv, OrderInv, Memory, CleanDisk, TypeOK, NoSnap
  <1> QED BY <1>1, ReliableInductive, PTL

\* A durable commit that returned Ok is never lost (Durability::Durable).
THEOREM DurableKept ==
    ASSUME Reliable
    PROVE  Spec => []DurableSurvives
  <1>1. ASSUME RInv PROVE DurableSurvives
    <2>1. \A i \in 1 .. synced : i \in 1 .. Len(lines)
      BY <1>1 DEF RInv, CleanDisk, OrderInv
    <2> QED
      BY <1>1, <2>1 DEF RInv, Anchored, DurableSurvives
  <1> QED BY <1>1, ReliableInductive, PTL

\* An active writer's projection is the log (Store: "they cannot drift apart").
THEOREM ProjectionIsLog ==
    ASSUME Reliable
    PROVE  Spec => []NoDrift
  <1>1. RInv => NoDrift
    BY DEF RInv
  <1> QED BY <1>1, ReliableInductive, PTL

\* A reader without the lock sees a prefix of the log (open_read_only, refresh).
THEOREM ReadersSeePrefixes ==
    ASSUME Reliable
    PROVE  Spec => []ReaderBehind
  <1>1. RInv => ReaderBehind
    BY DEF RInv
  <1> QED BY <1>1, ReliableInductive, PTL

\* Nobody sees anything but the log (Store::open, open_reader, refresh).
THEOREM NothingButTheLog ==
    ASSUME Reliable
    PROVE  Spec => []ProjectionsTrue
  BY ProjectionIsLog, ReadersSeePrefixes, PTL DEF ProjectionsTrue

(***************************************************************************)
(* The store implements DurableLog.                                        *)
(***************************************************************************)
LEMMA EventsOf ==
    ASSUME NEW s \in Seq(Framed)
    PROVE  /\ Events(s) \in Seq(Event)
           /\ Len(Events(s)) = Len(s)
           /\ \A i \in 1 .. Len(s) : Events(s)[i] = s[i].rec
  <1>1. \A i \in 1 .. Len(s) : s[i].rec \in Event
    <2>1. \A i \in 1 .. Len(s) : s[i] \in Framed
      OBVIOUS
    <2>2. \A f \in Framed : f.rec \in Event
      BY DEF Framed
    <2> QED BY <2>1, <2>2
  <1>2. Len(s) \in Nat
    OBVIOUS
  <1>3. Events(s) \in Seq(Event)
    <2>1. Events(s) \in [1 .. Len(s) -> Event]
      BY <1>1 DEF Events
    <2> QED BY <1>2, <2>1, SeqDef
  <1>4. DOMAIN Events(s) = 1 .. Len(s)
    BY DEF Events
  <1>5. Len(Events(s)) = Len(s)
    BY <1>2, <1>3, <1>4, LenProperties
  <1> QED BY <1>3, <1>5 DEF Events

LEMMA EventsAppend ==
    ASSUME NEW s \in Seq(Framed), NEW f \in Framed
    PROVE  Events(Append(s, f)) = Append(Events(s), f.rec)
  <1> DEFINE a == Events(Append(s, f))
             b == Append(Events(s), f.rec)
  <1>1. /\ Append(s, f) \in Seq(Framed) /\ Len(Append(s, f)) = Len(s) + 1
        /\ \A i \in 1 .. Len(s) : Append(s, f)[i] = s[i]
        /\ Append(s, f)[Len(s) + 1] = f
    BY AppendProperties
  <1>2. f.rec \in Event
    BY DEF Framed
  <1>3. /\ a \in Seq(Event) /\ Len(a) = Len(s) + 1
        /\ \A i \in 1 .. Len(s) + 1 : a[i] = Append(s, f)[i].rec
    BY <1>1, EventsOf
  <1>4. /\ Events(s) \in Seq(Event) /\ Len(Events(s)) = Len(s)
        /\ \A i \in 1 .. Len(s) : Events(s)[i] = s[i].rec
    BY EventsOf
  <1>5. /\ b \in Seq(Event) /\ Len(b) = Len(s) + 1
        /\ \A i \in 1 .. Len(s) : b[i] = Events(s)[i]
        /\ b[Len(s) + 1] = f.rec
    BY <1>2, <1>4, AppendProperties
  <1>6. ASSUME NEW i \in 1 .. Len(s) + 1 PROVE a[i] = b[i]
    <2>1. CASE i \in 1 .. Len(s)
      BY <1>1, <1>3, <1>4, <1>5, <2>1
    <2>2. CASE i = Len(s) + 1
      BY <1>1, <1>3, <1>5, <2>2
    <2>3. i \in 1 .. Len(s) \/ i = Len(s) + 1
      OBVIOUS
    <2> QED BY <2>1, <2>2, <2>3, Zenon
  <1> QED
    BY <1>3, <1>5, <1>6, SeqEqual

LEMMA EventsPrefix ==
    ASSUME NEW s \in Seq(Framed), NEW n \in 0 .. Len(s)
    PROVE  Events(SubSeq(s, 1, n)) = SubSeq(Events(s), 1, n)
  <1> DEFINE a == Events(SubSeq(s, 1, n))
             b == SubSeq(Events(s), 1, n)
  <1>1. n \in Int /\ \A i \in 1 .. n : s[i] \in Framed
    OBVIOUS
  <1>2. /\ SubSeq(s, 1, n) \in Seq(Framed) /\ Len(SubSeq(s, 1, n)) = n
        /\ \A i \in 1 .. n : SubSeq(s, 1, n)[i] = s[i]
    BY <1>1, SubSeqProperties
  <1>3. /\ a \in Seq(Event) /\ Len(a) = n
        /\ \A i \in 1 .. n : a[i] = s[i].rec
    BY <1>2, EventsOf
  <1>4. /\ Events(s) \in Seq(Event) /\ Len(Events(s)) = Len(s)
        /\ \A i \in 1 .. n : Events(s)[i] = s[i].rec
    BY EventsOf
  <1>5. \A i \in 1 .. n : Events(s)[i] \in Event
    BY <1>4
  <1>6. /\ b \in Seq(Event) /\ Len(b) = n
        /\ \A i \in 1 .. n : b[i] = Events(s)[i]
    BY <1>1, <1>5, SubSeqProperties
  <1> QED
    BY <1>3, <1>4, <1>6, SeqEqual
\* Every step of the store is a step of the history or leaves it alone.
LEMMA RefinesStep ==
    ASSUME Reliable, RInv, RInv', [Next]_vars
    PROVE  [Abstract!Next]_(Abstract!vars)
  <1> DEFINE view == [q \in Proc |-> Events(proj[q])]
             writer == {q \in Proc : pc[q] = "active"}
  <1> USE DEF Abstract!Next, Abstract!vars
  <1>a. /\ lines \in Seq(Framed) /\ pc \in [Proc -> PC] /\ synced \in Nat
        /\ synced <= Len(lines) /\ proj \in [Proc -> Seq(Framed)]
    BY DEF RInv, OrderInv, Memory, CleanDisk
  <1>b. Events(<<>>) = <<>>
    BY DEF Events
  <1>1. ASSUME NEW p \in Proc, NEW how \in {"opening", "standby"},
               Start(p, how) \/ Acquire(p) \/ Poll(p) \/ StandbyTimeout(p)
        PROVE  UNCHANGED Abstract!vars
    <2>1. UNCHANGED <<lines, synced, proj>>
      BY <1>1 DEF Start, Acquire, Poll, StandbyTimeout, disk
    <2>2. \A q \in Proc : pc'[q] = "active" <=> pc[q] = "active"
      BY <1>1, <1>a DEF Start, Acquire, Poll, StandbyTimeout
    <2>3. writer' = writer
      BY <2>2
    <2> QED BY <2>1, <2>3
  <1>2. ASSUME NEW p \in Proc, Assemble(p) \/ Read(p)
        PROVE  Abstract!Look(p)
    <2>1. /\ UNCHANGED <<lines, synced>>
          /\ proj' = [proj EXCEPT ![p] = lines]
          /\ \/ /\ pc[p] = "elected"
                /\ pc' = [pc EXCEPT ![p] = "active"]
             \/ /\ pc[p] \in {"off", "reader"}
                /\ pc' = [pc EXCEPT ![p] = "reader"]
      BY <1>2 DEF Assemble, Read, Readable, Rebuild, RInv, CleanDisk, disk
    <2>2. view' = [view EXCEPT ![p] = Events(lines)]
      BY <1>a, <2>1
    <2>3. CASE pc[p] = "elected"
      <3>1. writer = {} /\ writer' = {p}
        BY <1>a, <2>1, <2>3 DEF RInv, OrderInv
      <3> QED BY <2>1, <2>2, <3>1 DEF Abstract!Look
    <2>4. CASE pc[p] \in {"off", "reader"}
      <3>1. writer' = writer /\ p \notin writer
        BY <1>a, <2>1, <2>4
      <3> QED BY <2>1, <2>2, <3>1 DEF Abstract!Look
    <2> QED BY <2>1, <2>3, <2>4
  <1>3. ASSUME NEW p \in Proc, Exit(p) PROVE Abstract!Leave(p)
    <2>1. UNCHANGED <<lines, synced>> /\ Forget({p})
      BY <1>3 DEF Exit, disk
    <2>2. view' = [view EXCEPT ![p] = <<>>]
      BY <1>a, <1>b, <2>1 DEF Forget
    <2>3. writer' = writer \ {p}
      BY <1>a, <2>1 DEF Forget
    <2> QED BY <2>1, <2>2, <2>3 DEF Abstract!Leave
  <1>4. ASSUME NEW p \in Proc, Sync(p) PROVE Abstract!Keep
    <2>1. UNCHANGED <<lines, pc, proj>> /\ synced' = Len(lines)
      BY <1>4 DEF Sync
    <2>2. synced' \in synced .. Len(Events(lines))
      BY <1>a, <2>1, EventsOf
    <2> QED BY <2>1, <2>2 DEF Abstract!Keep
  <1>5. ASSUME NEW p \in Proc, NEW e \in Event, NEW durable \in BOOLEAN,
               Commit(p, e, durable) \/ CommitDies(p, e)
        PROVE  Abstract!Append1(p, e)
    <2> DEFINE f == NextRecord(p, e)
               s == Append(lines, f)
    <2>1. pc[p] = "active" /\ \A i \in 1 .. Len(proj[p]) : proj[p][i].rec # e
      BY <1>5 DEF Commit, CommitDies, MayCommit
    <2>2. /\ WithLine(f) = [lines |-> s, tail |-> "clean", broken |-> 0]
          /\ f \in Framed /\ f.rec = e
          /\ proj[p] = lines
          /\ Len(s) = Len(lines) + 1
          /\ Still(s) = synced
      BY <2>1, ReliableWrite
    <2>3. lines' = s /\ synced' \in {synced, Len(lines) + 1}
      <3>1. CASE Commit(p, e, durable)
        BY <2>2, <3>1 DEF Commit, Write
      <3>2. CASE CommitDies(p, e)
        BY <2>2, <3>2 DEF CommitDies, Write
      <3> QED BY <1>5, <3>1, <3>2
    <2>4. Events(lines)' = Append(Events(lines), e)
      BY <1>a, <2>2, <2>3, EventsAppend
    <2>5. Len(Events(lines)) = Len(lines) /\ \A i \in 1 .. Len(lines) : Events(lines)[i] # e
      BY <1>a, <2>1, <2>2, EventsOf
    <2>6. writer = {p}
      BY <2>1, Alone DEF RInv
    <2>7. CASE Commit(p, e, durable)
      <3>1. pc' = pc /\ proj' = [proj EXCEPT ![p] = s]
        BY <2>2, <2>7 DEF Commit
      <3>2. view' = [view EXCEPT ![p] = Events(s)]
        BY <1>a, <3>1
      <3>3. writer' = writer
        BY <3>1
      <3> QED
        BY <2>3, <2>4, <2>5, <2>6, <3>2, <3>3 DEF Abstract!Append1
    <2>8. CASE CommitDies(p, e)
      <3>1. Forget({p})
        BY <2>8 DEF CommitDies
      <3>2. view' = [view EXCEPT ![p] = <<>>]
        BY <1>a, <1>b, <3>1 DEF Forget
      <3>3. writer' = {}
        BY <1>a, <2>6, <3>1 DEF Forget
      <3> QED
        BY <2>3, <2>4, <2>5, <2>6, <3>2, <3>3 DEF Abstract!Append1
    <2> QED BY <1>5, <2>7, <2>8
  <1>6. ASSUME PowerLoss PROVE Abstract!Lose
    <2>1. PICK n \in synced .. Len(lines) : lines' = SubSeq(lines, 1, n)
      BY <1>6 DEF PowerLoss
    <2>2. n \in 0 .. Len(lines) /\ n \in synced .. Len(Events(lines))
      BY <1>a, <2>1, EventsOf
    <2>3. Events(lines)' = SubSeq(Events(lines), 1, n)
      BY <1>a, <2>1, <2>2, EventsPrefix
    <2>4. Forget(Proc) /\ synced' = synced
      BY <1>6 DEF PowerLoss
    <2>5. view' = [q \in Proc |-> <<>>] /\ writer' = {}
      BY <1>b, <2>4 DEF Forget
    <2> QED BY <2>2, <2>3, <2>4, <2>5 DEF Abstract!Lose
  <1>7. CASE UNCHANGED vars
    BY <1>7 DEF vars, disk
  <1>8. ASSUME NEW p \in Proc, ProcStep(p) PROVE [Abstract!Next]_(Abstract!vars)
    <2>1. CASE \E how \in {"opening", "standby"} : Start(p, how)
      BY <1>1, <2>1
    <2>2. CASE Acquire(p) \/ Poll(p) \/ StandbyTimeout(p)
      BY <1>1, <2>2
    <2>3. CASE Assemble(p) \/ Read(p) \/ Exit(p) \/ Sync(p)
      BY <1>2, <1>3, <1>4, <2>3
    <2>4. CASE \E e \in Event, durable \in BOOLEAN : Commit(p, e, durable)
      BY <1>5, <2>4
    <2>5. CASE \E e \in Event : CommitDies(p, e)
      BY <1>5, <2>5
    <2> QED
      BY <1>8, <2>1, <2>2, <2>3, <2>4, <2>5
         DEF ProcStep, Reliable, Snapshot, CommitSyncFails, CommitTorn
  <1> QED
    BY <1>6, <1>7, <1>8 DEF Next

\* On a reliable disk the store implements one durable linear history: the
\* detailed specification, for any processes and events, refines DurableLog.
THEOREM StoreImplements ==
    ASSUME Reliable
    PROVE  Spec => Implements
  <1>1. Init => Abstract!Init
    <2>1. Events(<<>>) = <<>>
      BY DEF Events
    <2> QED
      BY <2>1 DEF Init, Abstract!Init
  <1>2. RInv /\ RInv' /\ [Next]_vars => [Abstract!Next]_(Abstract!vars)
    BY RefinesStep
  <1> QED
    BY <1>1, <1>2, ReliableInductive, PTL DEF Spec, Implements, Abstract!Spec
=============================================================================
