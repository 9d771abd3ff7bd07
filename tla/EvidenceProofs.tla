--------------------------- MODULE EvidenceProofs ---------------------------
(***************************************************************************)
(* Proofs about EvidenceChain, for any kinds, sinks, keys, interval,       *)
(* window and bounds: what audit verify and restore answer can be relied   *)
(* on.                                                                     *)
(*                                                                         *)
(* That a checkpoint over one row attests every row before it rests on one *)
(* fact: two linked files that meet in a row agree from there back, since  *)
(* a hash determines its row.  That an untouched chain verifies rests on   *)
(* another: every file is a stretch of one history, and the places where   *)
(* the stretches meet are known at every step of a retirement.             *)
(***************************************************************************)
EXTENDS EvidenceChain, WellFoundedInduction, TLAPS

(***************************************************************************)
(* Sequences whose elements have no type of their own: a row holds the     *)
(* hash of the one before it, so rows of all depths occur.                 *)
(***************************************************************************)
IsSeq(s) == \E S : s \in Seq(S)

LEMMA SeqFacts ==
    ASSUME NEW s, IsSeq(s)
    PROVE  Len(s) \in Nat /\ DOMAIN s = 1 .. Len(s)
  BY DEF IsSeq

LEMMA SeqEqual ==
    ASSUME NEW s, IsSeq(s), NEW t, IsSeq(t), Len(s) = Len(t),
           \A i \in 1 .. Len(s) : s[i] = t[i]
    PROVE  s = t
  BY DEF IsSeq

LEMMA AppendFacts ==
    ASSUME NEW s, IsSeq(s), NEW e
    PROVE  /\ IsSeq(Append(s, e))
           /\ Len(Append(s, e)) = Len(s) + 1
           /\ DOMAIN Append(s, e) = 1 .. Len(s) + 1
           /\ \A i \in 1 .. Len(s) : Append(s, e)[i] = s[i]
           /\ Append(s, e)[Len(s) + 1] = e
  <1>1. PICK S : s \in Seq(S)
    BY DEF IsSeq
  <1>2. s \in Seq(S \cup {e}) /\ e \in S \cup {e}
    BY <1>1
  <1>3. Append(s, e) \in Seq(S \cup {e})
    BY <1>2
  <1> QED
    BY <1>2, <1>3 DEF IsSeq

LEMMA FunctionSeq ==
    ASSUME NEW n \in Nat, NEW f, f = [i \in 1 .. n |-> f[i]]
    PROVE  IsSeq(f) /\ Len(f) = n
  <1> DEFINE S == {f[i] : i \in 1 .. n}
  <1>1. f \in [1 .. n -> S]
    OBVIOUS
  <1> HIDE DEF S
  <1>2. f \in Seq(S) /\ Len(f) = n
    BY <1>1
  <1> QED
    BY <1>2 DEF IsSeq

LEMMA SubSeqFacts ==
    ASSUME NEW s, IsSeq(s), NEW m \in Nat, m >= 1, NEW n \in Nat, n <= Len(s), m <= n + 1
    PROVE  /\ IsSeq(SubSeq(s, m, n))
           /\ Len(SubSeq(s, m, n)) = n - m + 1
           /\ \A i \in 1 .. n - m + 1 : SubSeq(s, m, n)[i] = s[m + i - 1]
  <1>1. PICK S : s \in Seq(S)
    BY DEF IsSeq
  <1>2. SubSeq(s, m, n) \in Seq(S)
    BY <1>1
  <1> QED
    BY <1>1, <1>2 DEF IsSeq

LEMMA EmptySeq == IsSeq(<<>>) /\ Len(<<>>) = 0 /\ \A s : IsSeq(s) /\ Len(s) = 0 => s = <<>>
  <1>1. <<>> \in Seq({})
    OBVIOUS
  <1> QED
    BY <1>1 DEF IsSeq

\* A set of numbers that is not empty has a least member: induction, as the
\* provers can use it.
LEMMA LeastNumber ==
    ASSUME NEW T, T \subseteq Nat, T # {}
    PROVE  \E x \in T : \A y \in T : x <= y
  <1> DEFINE R == {ss \in Nat \X Nat : ss[1] < ss[2]}
  <1>1. IsWellFoundedOn(R, Nat)
    BY NatLessThanWellFounded, Zenon DEF OpToRel
  <1>2. \A u, v \in Nat : ~ (<<v, u>> \in R) => u <= v
    OBVIOUS
  <1> HIDE DEF R
  <1>3. \E x \in T : \A y \in T : ~ (<<y, x>> \in R)
    BY <1>1, WFMin
  <1> QED
    BY <1>2, <1>3

\* A row and no more than a row.
IsRow(r) == /\ r = [seq |-> r.seq, ts |-> r.ts, kind |-> r.kind, prev |-> r.prev,
                    hash |-> r.hash]
            /\ r.seq \in Nat
AreRows(rows) == IsSeq(rows) /\ \A i \in 1 .. Len(rows) : IsRow(rows[i])

\* A hash is over everything in the row: equal hashes, equal rows.
LEMMA HashInjective ==
    ASSUME NEW r, NEW s, IsRow(r), IsRow(s), r.hash = s.hash,
           r.hash = RowHash(r), s.hash = RowHash(s)
    PROVE  r = s
  <1>1. RowHash(r) = RowHash(s)
    OBVIOUS
  <1>2. r.seq = s.seq /\ r.ts = s.ts /\ r.kind = s.kind /\ r.prev = s.prev
    BY <1>1 DEF RowHash
  <1> QED
    BY <1>2 DEF IsRow

\* A row made is a row, and its hash is its own.
LEMMA RowIsRow ==
    ASSUME NEW seq \in Nat, NEW ts, NEW kind, NEW prev
    PROVE  LET r == Row(seq, ts, kind, prev)
           IN  /\ IsRow(r)
               /\ r.seq = seq /\ r.ts = ts /\ r.kind = kind /\ r.prev = prev
               /\ r.hash = <<seq, ts, kind, prev>> /\ r.hash = RowHash(r)
  BY DEF Row, RowHash, IsRow

\* The rows of a linked file are numbered from the tombstone on.
LEMMA LinkedFacts ==
    ASSUME NEW rows, AreRows(rows), NEW t, Linked(rows, t), NEW i \in 1 .. Len(rows)
    PROVE  /\ IsRow(rows[i]) /\ rows[i].hash = RowHash(rows[i])
           /\ i > 1 => rows[i].prev = rows[i - 1].hash
  <1>1. i \in DOMAIN rows /\ IsRow(rows[i]) /\ Len(rows) \in Nat
    BY SeqFacts DEF AreRows
  <1>2. /\ rows[i].hash = RowHash(rows[i])
        /\ rows[i].prev = IF i = 1 THEN t.last ELSE rows[i - 1].hash
    BY <1>1 DEF Linked
  <1> QED
    BY <1>1, <1>2

LEMMA LinkedNumbers ==
    ASSUME NEW rows, AreRows(rows), NEW t, t.to \in Nat, Linked(rows, t)
    PROVE  \A i \in 1 .. Len(rows) : rows[i].seq = t.to + i
  <1> DEFINE T == {i \in 1 .. Len(rows) : rows[i].seq # t.to + i}
  <1>0. Len(rows) \in Nat /\ DOMAIN rows = 1 .. Len(rows)
    BY SeqFacts DEF AreRows
  <1>1. SUFFICES ASSUME T # {} PROVE FALSE
    OBVIOUS
  <1>2. PICK x \in T : \A y \in T : x <= y
    <2>1. T \subseteq Nat
      BY <1>0
    <2> HIDE DEF T
    <2> QED
      BY <1>1, <2>1, LeastNumber
  <1>3. rows[x].seq = (IF x = 1 THEN t.to ELSE rows[x - 1].seq) + 1
    BY <1>0 DEF Linked
  <1>4. x # 1 => rows[x - 1].seq = t.to + (x - 1)
    BY <1>2
  <1> QED
    BY <1>0, <1>3, <1>4

(***************************************************************************)
(* Two linked files that meet in one row agree from there back: what makes *)
(* the checkpoint of the last row a checkpoint of all of them.             *)
(***************************************************************************)
Numbered(rows, n) ==
    \A i \in 1 .. Len(rows) : /\ IsRow(rows[i])
                              /\ rows[i].seq = n + i
                              /\ rows[i].hash = RowHash(rows[i])
                              /\ i > 1 => rows[i].prev = rows[i - 1].hash

LEMMA MeetingRowsAgree ==
    ASSUME NEW X, IsSeq(X), NEW p \in Nat, Numbered(X, p),
           NEW Y, IsSeq(Y), NEW d \in Nat, Numbered(Y, p + d),
           NEW j \in Nat, j >= 1, j <= Len(Y), j + d = Len(X), Y[j].hash = X[j + d].hash
    PROVE  \A r : r \in RowsOf(X) /\ r.seq > p + d <=> r \in RowsOf(Y) /\ r.seq <= p + d + j
  <1>0. /\ Len(X) \in Nat /\ DOMAIN X = 1 .. Len(X)
        /\ Len(Y) \in Nat /\ DOMAIN Y = 1 .. Len(Y)
        /\ j + d = Len(X) /\ j >= 1 /\ j <= Len(Y)
    BY SeqFacts
  <1>1. /\ \A i \in 1 .. Len(X) : X[i].seq = p + i
        /\ \A i \in 1 .. Len(Y) : Y[i].seq = p + d + i
    BY DEF Numbered
  <1>2. j \in 1 .. Len(Y) /\ j + d \in 1 .. Len(X)
    BY <1>0
  <1>3. /\ \A i \in 1 .. Len(X) : /\ IsRow(X[i]) /\ X[i].hash = RowHash(X[i])
                                  /\ i > 1 => X[i].prev = X[i - 1].hash
        /\ \A i \in 1 .. Len(Y) : /\ IsRow(Y[i]) /\ Y[i].hash = RowHash(Y[i])
                                  /\ i > 1 => Y[i].prev = Y[i - 1].hash
    BY DEF Numbered
  <1>4. Y[j] = X[j + d]
    BY <1>2, <1>3, HashInjective
  <1>5. \A k \in 1 .. j : Y[k] = X[k + d]
    <2> DEFINE T == {e \in 0 .. j - 1 : Y[j - e] # X[j - e + d]}
    <2>1. SUFFICES ASSUME T # {} PROVE FALSE
      <3>1. ASSUME NEW k \in 1 .. j, Y[k] # X[k + d] PROVE FALSE
        <4>1. j - k \in T
          <5>1. j - (j - k) = k /\ j - k \in 0 .. j - 1
            BY <1>0, <1>2
          <5> QED
            BY <3>1, <5>1
        <4> QED
          BY <2>1, <4>1
      <3> QED
        BY <3>1
    <2>2. PICK e \in T : \A y \in T : e <= y
      <3>1. T \subseteq Nat
        BY <1>0, <1>2
      <3> HIDE DEF T
      <3> QED
        BY <2>1, <3>1, LeastNumber
    <2>3. e # 0 /\ e \in 1 .. j - 1
      BY <1>0, <1>2, <1>4
    <2>4. PICK k \in 1 .. j : k = j - e
      BY <1>0, <1>2, <2>3
    <2>5. Y[k + 1] = X[k + 1 + d] /\ k + 1 <= j
      <3>1. e - 1 \notin T /\ e - 1 \in 0 .. j - 1
        <4>1. e - 1 \in 0 .. j - 1 /\ ~ (e <= e - 1)
          BY <1>0, <2>3
        <4> HIDE DEF T
        <4> QED
          BY <2>2, <4>1
      <3>2. j - (e - 1) = k + 1
        BY <1>0, <1>2, <2>3, <2>4
      <3>3. k + 1 <= j
        BY <1>0, <2>3, <2>4
      <3> QED
        BY <3>1, <3>2, <3>3
    <2>6. /\ k + 1 \in 1 .. Len(Y) /\ k \in 1 .. Len(Y)
          /\ k + 1 + d \in 1 .. Len(X) /\ k + d \in 1 .. Len(X)
      BY <1>0, <1>2, <2>5
    <2>7. Y[k].hash = X[k + d].hash
      <3>1. Y[k + 1].prev = Y[k].hash
        BY <1>3, <2>6
      <3>2. X[k + 1 + d].prev = X[k + d].hash
        BY <1>0, <1>2, <1>3, <2>6
      <3> QED
        BY <2>5, <3>1, <3>2
    <2>8. Y[k] = X[k + d]
      BY <1>3, <2>6, <2>7, HashInjective
    <2> QED
      BY <2>2, <2>4, <2>8
  <1>6. ASSUME NEW r, r \in RowsOf(X), r.seq > p + d
        PROVE  r \in RowsOf(Y) /\ r.seq <= p + d + j
    <2>1. PICK i \in 1 .. Len(X) : r = X[i]
      BY <1>0, <1>6 DEF RowsOf
    <2>2. i - d \in 1 .. j
      BY <1>0, <1>1, <1>2, <1>6, <2>1
    <2>3. Y[i - d] = X[i]
      <3>1. (i - d) + d = i
        BY <1>0, <1>2
      <3> QED
        BY <1>5, <2>2, <3>1
    <2>4. i - d \in DOMAIN Y /\ r.seq <= p + d + j
      BY <1>0, <1>1, <1>2, <2>1, <2>2
    <2> QED
      BY <2>1, <2>3, <2>4 DEF RowsOf
  <1>7. ASSUME NEW r, r \in RowsOf(Y), r.seq <= p + d + j
        PROVE  r \in RowsOf(X) /\ r.seq > p + d
    <2>1. PICK k \in 1 .. Len(Y) : r = Y[k]
      BY <1>0, <1>7 DEF RowsOf
    <2>2. k \in 1 .. j /\ r.seq > p + d
      BY <1>0, <1>1, <1>2, <1>7, <2>1
    <2>3. r = X[k + d] /\ k + d \in 1 .. Len(X)
      BY <1>0, <1>2, <1>5, <2>1, <2>2
    <2> QED
      BY <1>0, <2>2, <2>3 DEF RowsOf
  <1> QED
    BY <1>6, <1>7

\* A linked file is numbered.
LEMMA LinkedNumbered ==
    ASSUME NEW rows, AreRows(rows), NEW t, t.to \in Nat, Linked(rows, t)
    PROVE  Numbered(rows, t.to)
  BY LinkedNumbers, LinkedFacts DEF Numbered

LEMMA MeetingFilesAgree ==
    ASSUME NEW X, IsSeq(X), X # <<>>, NEW p \in Nat, Numbered(X, p),
           NEW Y, IsSeq(Y), NEW q \in Nat, Numbered(Y, q), p <= q,
           NEW j \in DOMAIN Y, Y[j].seq = LastOf(X).seq, Y[j].hash = LastOf(X).hash
    PROVE  \A r : r \in RowsOf(X) /\ r.seq > q <=> r \in RowsOf(Y) /\ r.seq <= LastOf(X).seq
  <1>0. /\ Len(X) \in Nat /\ Len(X) >= 1 /\ Len(Y) \in Nat
        /\ j \in Nat /\ j >= 1 /\ j <= Len(Y) /\ j \in 1 .. Len(Y)
    BY SeqFacts, EmptySeq
  <1>1. LastOf(X).seq = p + Len(X) /\ Y[j].seq = q + j
    BY <1>0 DEF LastOf, Numbered
  <1>2. PICK d \in Nat : q = p + d
    <2>1. q - p \in Nat /\ q = p + (q - p)
      OBVIOUS
    <2> QED
      BY <2>1
  <1>3. q + j = p + Len(X)
    BY <1>1
  <1>4. j + d = Len(X)
    BY <1>0, <1>2, <1>3
  <1>5. Y[j].hash = X[j + d].hash /\ Numbered(Y, p + d)
    BY <1>2, <1>4 DEF LastOf
  <1>6. \A r : r \in RowsOf(X) /\ r.seq > p + d <=> r \in RowsOf(Y) /\ r.seq <= p + d + j
    BY <1>0, <1>4, <1>5, MeetingRowsAgree
  <1>7. LastOf(X).seq = p + d + j
    BY <1>1, <1>2
  <1> QED
    BY <1>2, <1>6, <1>7

IsRec(r) == r = [pc |-> r.pc, kind |-> r.kind, ts |-> r.ts]
IsRetirement(r) == r = [pc |-> r.pc, upto |-> r.upto, out |-> r.out, kept |-> r.kept,
                        cp |-> r.cp]

\* A checkpoint and no more than a checkpoint.
IsCheckpoint(cp) == /\ cp = [seq |-> cp.seq, hash |-> cp.hash, key |-> cp.key]
                    /\ cp.seq \in Nat
AreCheckpoints(as) == IsSeq(as) /\ \A i \in 1 .. Len(as) : IsCheckpoint(as[i])

\* The shapes of the files and of the programs' positions, whatever is altered.
FilesShaped ==
    /\ AreRows(chain) /\ AreRows(hist)
    /\ AreCheckpoints(anchors)
    /\ tomb.to \in Nat
    /\ plane.seq \in Nat
    /\ IsRec(rec)
    /\ IsRetirement(retire) /\ AreRows(retire.kept) /\ retire.upto \in Nat
    /\ retire.pc \in {"idle", "segment", "tombstone", "truncate", "survivors"}
    /\ retire.pc \in {"segment", "tombstone"} => retire.upto > tomb.to

\* as is before with a line more, or with its last line spoiled.
Grown(before, as, line) ==
    /\ AreCheckpoints(as) /\ Len(before) <= Len(as)
    /\ \A i \in 1 .. Len(before) : /\ i \in 1 .. Len(as)
                                   /\ as[i].seq = before[i].seq
                                   /\ as[i].hash = before[i].hash
                                   /\ as[i].key \in {before[i].key, NoKey}
    /\ \A i \in 1 .. Len(as) : i \notin 1 .. Len(before) => as[i] = line

LEMMA AppendGrows ==
    ASSUME NEW lines, AreCheckpoints(lines), NEW cp, IsCheckpoint(cp)
    PROVE  Grown(lines, Append(lines, cp), cp)
  <1>1. IsSeq(lines) /\ Len(lines) \in Nat
    BY SeqFacts DEF AreCheckpoints
  <1>2. /\ IsSeq(Append(lines, cp))
        /\ Len(Append(lines, cp)) = Len(lines) + 1
        /\ \A i \in 1 .. Len(lines) : Append(lines, cp)[i] = lines[i]
        /\ Append(lines, cp)[Len(lines) + 1] = cp
    BY <1>1, AppendFacts DEF AreCheckpoints, IsCheckpoint
  <1> DEFINE new == Append(lines, cp)
  <1>3. /\ IsSeq(new) /\ Len(new) = Len(lines) + 1
        /\ \A i \in 1 .. Len(lines) : new[i] = lines[i]
        /\ new[Len(lines) + 1] = cp
    BY <1>2
  <1> HIDE DEF new
  <1>4. \A i \in 1 .. Len(new) : i \in 1 .. Len(lines) \/ i = Len(lines) + 1
    BY <1>1, <1>3 DEF AreCheckpoints
  <1>5. AreCheckpoints(new)
    BY <1>3, <1>4 DEF AreCheckpoints
  <1>6. Len(lines) <= Len(new) /\ \A i \in 1 .. Len(lines) : i \in 1 .. Len(new)
    BY <1>1, <1>3 DEF AreCheckpoints
  <1>7. Grown(lines, new, cp)
    BY <1>3, <1>4, <1>5, <1>6 DEF Grown
  <1> QED
    BY <1>7 DEF new

\* What an append leaves of the lines there were: numbers and hashes stay, and a
\* line without its newline is spoiled by what is written behind it.
LEMMA WrittenGrows ==
    ASSUME AreCheckpoints(anchors), NEW line, IsCheckpoint(line)
    PROVE  Grown(anchors, Written(line), line)
  <1>1. CASE ~ ragged
    BY <1>1, AppendGrows DEF Written
  <1>2. CASE ragged
    <2> DEFINE new == Written(line)
    <2>0. /\ IsSeq(anchors) /\ Len(anchors) \in Nat /\ DOMAIN anchors = 1 .. Len(anchors)
          /\ \A i \in 1 .. Len(anchors) : IsCheckpoint(anchors[i])
      BY SeqFacts DEF AreCheckpoints
    <2>1. new = [anchors EXCEPT ![Len(anchors)] = [anchors[Len(anchors)] EXCEPT !.key = NoKey]]
      BY <1>2 DEF Written
    <2>2. new = [i \in 1 .. Len(anchors) |->
                   IF i = Len(anchors) THEN [anchors[i] EXCEPT !.key = NoKey] ELSE anchors[i]]
      BY <2>0, <2>1
    <2> HIDE DEF new
    <2>3. \A i \in 1 .. Len(anchors) :
             new[i] = (IF i = Len(anchors) THEN [anchors[i] EXCEPT !.key = NoKey]
                       ELSE anchors[i])
      BY <2>2
    <2>4. ASSUME NEW i \in 1 .. Len(anchors)
          PROVE  /\ IsCheckpoint(new[i]) /\ new[i].seq = anchors[i].seq
                 /\ new[i].hash = anchors[i].hash /\ new[i].key \in {anchors[i].key, NoKey}
      <3>1. PICK cp : cp = anchors[i] /\ IsCheckpoint(cp)
        BY <2>0
      <3>2. LET c == [cp EXCEPT !.key = NoKey]
            IN  IsCheckpoint(c) /\ c.seq = cp.seq /\ c.hash = cp.hash /\ c.key = NoKey
        BY <3>1 DEF IsCheckpoint
      <3> QED
        BY <2>3, <3>1, <3>2
    <2>5. new = [i \in 1 .. Len(anchors) |-> new[i]]
      BY <2>2
    <2>6. IsSeq(new) /\ Len(new) = Len(anchors)
      BY <2>0, <2>5, FunctionSeq
    <2>7. Grown(anchors, new, line)
      BY <2>0, <2>4, <2>6 DEF Grown, AreCheckpoints
    <2> QED
      BY <2>7 DEF new
  <1> QED
    BY <1>1, <1>2

LEMMA NothingGrows ==
    ASSUME NEW lines, AreCheckpoints(lines), NEW cp
    PROVE  Grown(lines, lines, cp)
  <1>1. Len(lines) \in Nat
    BY SeqFacts DEF AreCheckpoints
  <1> QED
    BY <1>1 DEF Grown, AreCheckpoints

\* What the plane does to anchor.jsonl, finished, failed or cut short.
LEMMA AnchorGrows ==
    ASSUME AreCheckpoints(anchors), plane.seq \in Nat,
           \/ anchors' = Written(HeadLine(AnchorKey)) \/ AnchorStops
    PROVE  \E key \in {AnchorKey, NoKey} : Grown(anchors, anchors', HeadLine(key))
  <1>1. ASSUME NEW key PROVE IsCheckpoint(HeadLine(key))
    BY DEF IsCheckpoint, HeadLine
  <1>2. \/ anchors' = anchors
        \/ \E key \in {AnchorKey, NoKey} : anchors' = Written(HeadLine(key))
    BY DEF AnchorStops
  <1>3. CASE anchors' = anchors
    BY <1>3, NothingGrows
  <1>4. ASSUME NEW key \in {AnchorKey, NoKey}, anchors' = Written(HeadLine(key))
        PROVE  Grown(anchors, anchors', HeadLine(key))
    BY <1>1, <1>4, WrittenGrows
  <1> QED
    BY <1>2, <1>3, <1>4

LEMMA AppendAreRows ==
    ASSUME NEW rows, AreRows(rows), NEW r, IsRow(r)
    PROVE  AreRows(Append(rows, r))
  <1>1. Len(rows) \in Nat
    BY SeqFacts DEF AreRows
  <1> QED
    BY <1>1, AppendFacts DEF AreRows

LEMMA SubSeqAreRows ==
    ASSUME NEW rows, AreRows(rows), NEW m \in Nat, m >= 1, NEW n \in Nat,
           n <= Len(rows), m <= n + 1
    PROVE  AreRows(SubSeq(rows, m, n))
  <1>0. IsSeq(rows) /\ Len(rows) \in Nat
    BY SeqFacts DEF AreRows
  <1>1. /\ IsSeq(SubSeq(rows, m, n))
        /\ Len(SubSeq(rows, m, n)) = n - m + 1
        /\ \A i \in 1 .. n - m + 1 : SubSeq(rows, m, n)[i] = rows[m + i - 1]
    BY <1>0, SubSeqFacts
  <1>2. \A i \in 1 .. n - m + 1 : m + i - 1 \in 1 .. Len(rows)
    BY <1>0
  <1> QED
    BY <1>1, <1>2 DEF AreRows

\* The cut lies inside the chain.
LEMMA CutInside ==
    ASSUME AreRows(chain), tomb.to \in Nat, NEW upto \in Nat, MayRetire(upto)
    PROVE  /\ Numbered(chain, tomb.to) /\ Linked(chain, tomb) /\ ~ torn
           /\ Len(chain) \in Nat
           /\ upto > tomb.to
           /\ upto - tomb.to \in Nat /\ upto - tomb.to >= 1
           /\ upto - tomb.to < Len(chain)
  <1>1. Linked(chain, tomb) /\ ~ torn
    BY DEF MayRetire, AuditVerify, IntactAnchored, Intact
  <1>2. Numbered(chain, tomb.to)
    BY <1>1, LinkedNumbered
  <1>3. Len(chain) \in Nat /\ DOMAIN chain = 1 .. Len(chain)
    BY SeqFacts DEF AreRows
  <1>4. upto > tomb.to
    BY DEF MayRetire
  <1>5. PICK i \in 1 .. Len(chain) : chain[i].seq > upto
    <2>1. Retiring(upto) # DOMAIN chain
      BY DEF MayRetire
    <2>2. PICK i \in DOMAIN chain : ~ (chain[i].seq <= upto)
      BY <2>1 DEF Retiring
    <2>3. chain[i].seq \in Nat
      BY <1>3, <2>2 DEF AreRows, IsRow
    <2> QED
      BY <1>3, <2>2, <2>3
  <1>6. tomb.to + i > upto
    BY <1>2, <1>5 DEF Numbered
  <1> QED
    BY <1>1, <1>2, <1>3, <1>4, <1>6

\* A rewritten file is a file of rows made from the rows it had.
LEMMA RewrittenRows ==
    ASSUME NEW rows, NEW n \in Nat, DOMAIN rows = 1 .. n, NEW i, NEW k,
           NEW new, new = Rewritten(rows, i, k)
    PROVE  /\ new = [j \in 1 .. n |-> new[j]]
           /\ \A j \in 1 .. n :
                 \/ new[j] = rows[j]
                 \/ \E kk, pp : new[j] = Row(rows[j].seq, rows[j].ts, kk, pp)
  <1>1. PICK kindAt, prevAt :
           new = [j \in DOMAIN rows |->
                     IF j < i THEN rows[j]
                     ELSE Row(rows[j].seq, rows[j].ts, kindAt[j], prevAt[j])]
    <2> DEFINE kinds == [j \in DOMAIN rows |-> IF j = i THEN k ELSE rows[j].kind]
               hash == CHOOSE f : f = [j \in 1 .. Len(rows) |->
                          IF j < i THEN rows[j].hash
                          ELSE <<rows[j].seq, rows[j].ts, IF j = i THEN k ELSE rows[j].kind,
                                 IF j = 1 THEN rows[1].prev ELSE f[j - 1]>>]
               prevs == [j \in DOMAIN rows |-> IF j = 1 THEN rows[1].prev ELSE hash[j - 1]]
    <2>1. new = [j \in DOMAIN rows |->
                    IF j < i THEN rows[j]
                    ELSE Row(rows[j].seq, rows[j].ts, IF j = i THEN k ELSE rows[j].kind,
                             IF j = 1 THEN rows[1].prev ELSE hash[j - 1])]
      BY DEF Rewritten
    <2>2. \A j \in DOMAIN rows : /\ kinds[j] = (IF j = i THEN k ELSE rows[j].kind)
                                 /\ prevs[j] = (IF j = 1 THEN rows[1].prev ELSE hash[j - 1])
      OBVIOUS
    <2> HIDE DEF kinds, prevs, hash
    <2>3. new = [j \in DOMAIN rows |->
                    IF j < i THEN rows[j] ELSE Row(rows[j].seq, rows[j].ts, kinds[j], prevs[j])]
      BY <2>1, <2>2
    <2> QED
      BY <2>3
  <1> QED
    BY <1>1

LEMMA FilesShapedStep ==
    ASSUME FilesShaped, [ChainNext]_chainVars
    PROVE  FilesShaped'
  <1> USE DEF FilesShaped
  <1>1. CASE UNCHANGED <<chain, hist, anchors, tomb, plane, rec, retire>>
    BY <1>1
  <1>2. CASE Open
    <2>1. plane'.seq \in Nat
      <3>1. chain # <<>> => LastOf(chain).seq \in Nat
        <4>1. chain # <<>> => Len(chain) \in 1 .. Len(chain)
          BY SeqFacts, EmptySeq DEF AreRows
        <4>2. \A i \in 1 .. Len(chain) : chain[i].seq \in Nat
          BY DEF AreRows, IsRow
        <4> QED
          BY <4>1, <4>2 DEF LastOf
      <3> QED
        BY <1>2, <3>1 DEF Open, HeadOf
    <2> QED
      BY <1>2, <2>1 DEF Open, files
  <1>3. ASSUME NEW k \in Kinds, ShipBlocking(k)
        PROVE  FilesShaped'
    <2>1. IsRec(rec')
      BY <1>3 DEF ShipBlocking, IsRec
    <2> QED
      BY <1>3, <2>1 DEF ShipBlocking, files
  <1>4. CASE AppendRow
    <2> DEFINE row == NextRow(rec.kind, rec.ts)
    <2>1. IsRow(row) /\ row.seq \in Nat
      <3>1. plane.seq + 1 \in Nat
        OBVIOUS
      <3> QED
        BY <3>1, RowIsRow DEF NextRow
    <2>3. IsRec(rec')
      BY <1>4 DEF AppendRow, IsRec, NotRecording
    <2>2. /\ chain' = chain \/ chain' = Append(chain, row)
          /\ hist' = hist \/ hist' = Append(hist, row)
          /\ plane' = plane \/ plane'.seq = row.seq
          /\ UNCHANGED <<anchors, tomb, retire>>
      <3> HIDE DEF FilesShaped
      <3>1. /\ chain' = chain \/ chain' = Append(chain, row)
            /\ hist' = hist \/ hist' = Append(hist, row)
            /\ plane' = plane \/ plane' = [open |-> TRUE, seq |-> row.seq, hash |-> row.hash]
            /\ anchors' = anchors /\ tomb' = tomb /\ retire' = retire
        <4> HIDE DEF row
        <4> QED
          BY <1>4 DEF AppendRow, row
      <3> QED
        BY <3>1
    <2> HIDE DEF row
    <2>4. AreRows(chain') /\ AreRows(hist') /\ plane'.seq \in Nat
      BY <2>1, <2>2, AppendAreRows
    <2> QED
      BY <2>2, <2>3, <2>4
  <1>5. CASE WriteAnchor
    <2>1. IsRec(rec') /\ UNCHANGED <<chain, hist, tomb, plane, retire>>
      BY <1>5 DEF WriteAnchor, IsRec, NotRecording
    <2>2. anchors' = Written(HeadLine(AnchorKey)) \/ AnchorStops
      BY <1>5 DEF WriteAnchor
    <2>3. AreCheckpoints(anchors')
      BY <2>2, AnchorGrows DEF Grown
    <2> QED
      BY <2>1, <2>3
  <1>6. CASE ShipFailSafe \/ CommitState
    <2>1. IsRec(rec')
      BY <1>6 DEF ShipFailSafe, CommitState, IsRec, NotRecording
    <2> QED
      BY <1>6, <2>1 DEF ShipFailSafe, CommitState, files
  <1>10. CASE Crash
    <2>1. IsRec(rec') /\ plane'.seq \in Nat /\ UNCHANGED <<chain, hist, tomb, retire>>
      BY <1>10 DEF Crash, IsRec, NotRecording, Closed
    <2>2. anchors' = anchors \/ AnchorStops
      BY <1>10 DEF Crash
    <2>3. AreCheckpoints(anchors')
      BY <2>2, AnchorGrows DEF Grown
    <2> QED
      BY <2>1, <2>3
  <1>7. ASSUME NEW upto \in 1 .. MaxRows, BeginRetire(upto)
        PROVE  FilesShaped'
    <2>0. upto \in Nat
      BY BoundsAssumption
    <2>1. /\ Len(chain) \in Nat /\ upto > tomb.to
          /\ upto - tomb.to \in Nat /\ upto - tomb.to >= 1
          /\ upto - tomb.to < Len(chain)
      BY <1>7, <2>0, CutInside DEF BeginRetire
    <2>2. /\ IsRetirement(retire') /\ retire'.pc = "segment" /\ retire'.upto = upto
          /\ retire'.kept = SubSeq(chain, upto - tomb.to + 1, Len(chain))
      BY <1>7 DEF BeginRetire, IsRetirement
    <2>3. AreRows(retire'.kept)
      <3>1. PICK m \in Nat : m = upto - tomb.to + 1
        BY <2>1
      <3>2. m >= 1 /\ Len(chain) <= Len(chain) /\ m <= Len(chain) + 1
        BY <2>1, <3>1
      <3> QED
        BY <2>1, <2>2, <3>1, <3>2, SubSeqAreRows
    <2> QED
      BY <1>7, <2>0, <2>1, <2>2, <2>3 DEF BeginRetire, files
  <1>8. CASE WriteSegment \/ WriteTombstone \/ TruncateChain \/ WriteSurvivors \/ RetireCrash
    <2>1. /\ IsRetirement(retire') /\ AreRows(retire'.kept) /\ retire'.upto \in Nat
          /\ retire'.pc \in {"idle", "segment", "tombstone", "truncate", "survivors"}
          /\ retire'.pc \in {"segment", "tombstone"} =>
                retire'.upto = retire.upto /\ retire.pc = "segment" /\ tomb' = tomb
      <3>1. AreRows(<<>>)
        BY EmptySeq DEF AreRows
      <3>2. retire' = NoRetirement \/ (\E pc \in {"tombstone", "truncate", "survivors"} :
                retire' = [retire EXCEPT !.pc = pc])
        BY <1>8 DEF WriteSegment, WriteTombstone, TruncateChain, WriteSurvivors, RetireCrash
      <3>3. retire'.pc = "tombstone" => retire.pc = "segment" /\ tomb' = tomb
        BY <1>8 DEF WriteSegment, WriteTombstone, TruncateChain, WriteSurvivors,
           RetireCrash, NoRetirement, IsRetirement
      <3> QED
        BY <3>1, <3>2, <3>3 DEF NoRetirement, IsRetirement
    <2>2. AreRows(chain') /\ tomb'.to \in Nat
      <3>1. AreRows(<<>>)
        BY EmptySeq DEF AreRows
      <3> QED
        BY <1>8, <3>1 DEF WriteSegment, WriteTombstone, TruncateChain, WriteSurvivors,
           RetireCrash, files
    <2>3. UNCHANGED <<hist, anchors, plane, rec>>
      BY <1>8 DEF WriteSegment, WriteTombstone, TruncateChain, WriteSurvivors,
           RetireCrash, files
    <2> QED
      BY <2>1, <2>2, <2>3
  <1>9. CASE Edit
    <2>1. UNCHANGED <<hist, tomb, plane, rec, retire>>
      BY <1>9 DEF Edit
    <2>2. AreRows(chain')
      <3>0. IsSeq(chain) /\ Len(chain) \in Nat /\ DOMAIN chain = 1 .. Len(chain)
        BY SeqFacts DEF AreRows
      <3>1. ASSUME NEW i \in DOMAIN chain, NEW k, chain' = Altered(chain, i, k)
            PROVE  AreRows(chain')
        <4>1. /\ DOMAIN chain' = 1 .. Len(chain)
              /\ \A j \in 1 .. Len(chain) : j # i => chain'[j] = chain[j]
              /\ chain'[i] = [chain[i] EXCEPT !.kind = k]
              /\ chain' = [j \in 1 .. Len(chain) |-> chain'[j]]
          BY <3>0, <3>1 DEF Altered
        <4>2. IsRow(chain[i])
          BY <3>0 DEF AreRows
        <4>3. IsRow([chain[i] EXCEPT !.kind = k])
          BY <4>2 DEF IsRow
        <4>4. IsSeq(chain') /\ Len(chain') = Len(chain)
          BY <3>0, <4>1, FunctionSeq
        <4> QED
          BY <4>1, <4>3, <4>4 DEF AreRows
      <3>2. ASSUME NEW i \in DOMAIN chain, NEW k, chain' = Rewritten(chain, i, k)
            PROVE  AreRows(chain')
        <4>1. /\ chain' = [j \in 1 .. Len(chain) |-> chain'[j]]
              /\ \A j \in 1 .. Len(chain) :
                    \/ chain'[j] = chain[j]
                    \/ \E kk, pp : chain'[j] = Row(chain[j].seq, chain[j].ts, kk, pp)
          <5> HIDE DEF FilesShaped
          <5>1. Len(chain) \in Nat /\ DOMAIN chain = 1 .. Len(chain)
            BY <3>0
          <5>2. ASSUME NEW rows, NEW n \in Nat, DOMAIN rows = 1 .. n, NEW new,
                       new = Rewritten(rows, i, k)
                PROVE  /\ new = [j \in 1 .. n |-> new[j]]
                       /\ \A j \in 1 .. n :
                             \/ new[j] = rows[j]
                             \/ \E kk, pp : new[j] = Row(rows[j].seq, rows[j].ts, kk, pp)
            BY <5>2, RewrittenRows
          <5>3. chain' = Rewritten(chain, i, k)
            BY <3>2
          <5>4. PICK n \in Nat : n = Len(chain)
            BY <5>1
          <5>5. DOMAIN chain = 1 .. n
            BY <5>1, <5>4
          <5>6. /\ chain' = [j \in 1 .. n |-> chain'[j]]
                /\ \A j \in 1 .. n :
                      \/ chain'[j] = chain[j]
                      \/ \E kk, pp : chain'[j] = Row(chain[j].seq, chain[j].ts, kk, pp)
            BY <5>2, <5>3, <5>5
          <5> QED
            BY <5>4, <5>6
        <4>2. \A j \in 1 .. Len(chain) : IsRow(chain'[j])
          <5>1. \A j \in 1 .. Len(chain) : IsRow(chain[j]) /\ chain[j].seq \in Nat
            BY DEF AreRows, IsRow
          <5> QED
            BY <4>1, <5>1, RowIsRow
        <4>3. IsSeq(chain') /\ Len(chain') = Len(chain)
          BY <3>0, <4>1, FunctionSeq
        <4> QED
          BY <4>2, <4>3 DEF AreRows
      <3>3. ASSUME NEW i \in DOMAIN chain, chain' = Without(chain, i)
            PROVE  AreRows(chain')
        <4>0. Len(chain) - 1 \in Nat
          BY <3>0
        <4>1. /\ chain' = [j \in 1 .. Len(chain) - 1 |-> chain'[j]]
              /\ \A j \in 1 .. Len(chain) - 1 :
                    \E m \in 1 .. Len(chain) : chain'[j] = chain[m]
          BY <3>0, <3>3, <4>0 DEF Without
        <4>2. IsSeq(chain') /\ Len(chain') = Len(chain) - 1
          BY <4>0, <4>1, FunctionSeq
        <4> QED
          BY <4>1, <4>2 DEF AreRows
      <3> QED
        BY <1>9, <3>1, <3>2, <3>3 DEF Edit
    <2>3. AreCheckpoints(anchors')
      <3>1. \/ anchors' = anchors
            \/ \E k, n : n \in 1 .. MaxRows /\
                  anchors' = Append(anchors, [seq |-> n, hash |-> Genesis, key |-> k])
        BY <1>9 DEF Edit
      <3>2. \A n \in 1 .. MaxRows : n \in Nat
        BY BoundsAssumption
      <3>3. ASSUME NEW k, NEW n \in 1 .. MaxRows,
                   anchors' = Append(anchors, [seq |-> n, hash |-> Genesis, key |-> k])
            PROVE  AreCheckpoints(anchors')
        <4> DEFINE cp == [seq |-> n, hash |-> Genesis, key |-> k]
        <4>1. IsCheckpoint(cp) /\ anchors' = Append(anchors, cp)
          BY <3>2, <3>3 DEF IsCheckpoint
        <4> HIDE DEF cp
        <4> QED
          BY <4>1, AppendGrows DEF Grown
      <3> QED
        BY <3>1, <3>3
    <2> QED
      BY <2>1, <2>2, <2>3
  <1> QED
    BY <1>1, <1>2, <1>3, <1>4, <1>5, <1>6, <1>7, <1>8, <1>9, <1>10
       DEF ChainNext, RecordEvent, RetentionCmd, BackupCmd, RestoreCmd, chainVars, files,
           Tick, BackupVerify, CopyState, CopyFile, WriteManifest, Restore

\* What a checkpoint attests was a linked file that ended in the row it names,
\* and the checkpoint is on file.
Attests(a, rows, t) ==
    /\ AreRows(rows) /\ t.to \in Nat /\ t.to <= tomb.to /\ Linked(rows, t)
    /\ a.rows = RowsOf(rows)
    /\ rows = <<>> => a.seq = t.to
    /\ rows # <<>> =>
          /\ a.seq = LastOf(rows).seq
          /\ \E i \in 1 .. Len(anchors) : /\ anchors[i].seq = a.seq
                                          /\ anchors[i].hash = LastOf(rows).hash
Attested == \A a \in attested : \E rows, t : Attests(a, rows, t)

LEMMA AttestedStep ==
    ASSUME FilesShaped, Attested, [ChainNext]_chainVars
    PROVE  Attested'
  <1>0. /\ Len(anchors) \in Nat /\ IsSeq(anchors) /\ tomb.to \in Nat
        /\ AreCheckpoints(anchors) /\ plane.seq \in Nat
    BY SeqFacts DEF FilesShaped, AreCheckpoints
  <1>1. tomb'.to \in Nat /\ tomb.to <= tomb'.to
    <2>1. CASE tomb' = tomb
      BY <1>0, <2>1
    <2>2. CASE WriteTombstone
      BY <1>0, <2>2 DEF WriteTombstone, FilesShaped
    <2> QED
      BY <2>1, <2>2 DEF ChainNext, RecordEvent, RetentionCmd, BackupCmd, RestoreCmd,
         chainVars, files, Tick, Open, ShipBlocking, AppendRow, WriteAnchor, ShipFailSafe,
         CommitState, Crash, BeginRetire, WriteSegment, TruncateChain, WriteSurvivors,
         RetireCrash, BackupVerify, CopyState, CopyFile, WriteManifest, Restore, Edit
  <1>2. \/ anchors' = anchors
        \/ anchors' = Written(HeadLine(AnchorKey)) \/ AnchorStops
        \/ \E cp : anchors' = Append(anchors, cp)
    BY DEF ChainNext, RecordEvent, RetentionCmd, BackupCmd, RestoreCmd,
         chainVars, files, Tick, Open, ShipBlocking, AppendRow, WriteAnchor, ShipFailSafe,
         CommitState, Crash, BeginRetire, WriteSegment, WriteTombstone, TruncateChain,
         WriteSurvivors, RetireCrash, BackupVerify, CopyState, CopyFile, WriteManifest,
         Restore, Edit
  <1>3. \A i \in 1 .. Len(anchors) : /\ i \in 1 .. Len(anchors')
                                     /\ anchors'[i].seq = anchors[i].seq
                                     /\ anchors'[i].hash = anchors[i].hash
    <2>1. CASE anchors' = anchors
      BY <2>1
    <2>2. CASE anchors' = Written(HeadLine(AnchorKey)) \/ AnchorStops
      BY <1>0, <2>2, AnchorGrows DEF Grown
    <2>3. ASSUME NEW cp, anchors' = Append(anchors, cp)
          PROVE  \A i \in 1 .. Len(anchors) : i \in 1 .. Len(anchors') /\ anchors'[i] = anchors[i]
      BY <1>0, <2>3, AppendFacts
    <2> QED
      BY <1>2, <2>1, <2>2, <2>3
  <1>4. ASSUME NEW a, NEW rows, NEW t, Attests(a, rows, t)
        PROVE  Attests(a, rows, t)'
    <2>1. t.to <= tomb'.to
      BY <1>0, <1>1, <1>4 DEF Attests
    <2>2. rows # <<>> => \E i \in 1 .. Len(anchors') : /\ anchors'[i].seq = a.seq
                                                       /\ anchors'[i].hash = LastOf(rows).hash
      BY <1>3, <1>4 DEF Attests
    <2> QED
      BY <1>4, <2>1, <2>2 DEF Attests
  <1>5. CASE attested' = attested
    BY <1>4, <1>5 DEF Attested
  <1>6. CASE WriteAnchor
    <2>0. PICK a, cp, rows, t : /\ a = [seq |-> plane.seq, rows |-> RowsOf(chain)]
                                /\ cp = [seq |-> plane.seq, hash |-> plane.hash,
                                         key |-> AnchorKey]
                                /\ rows = chain /\ t = tomb
      OBVIOUS
    <2>1. CASE /\ attested' = attested \cup {a} /\ anchors' = Append(anchors, cp)
               /\ Linked(chain, tomb) /\ HeadOf(chain, tomb) = plane
      <3>1. /\ AreRows(rows) /\ t.to \in Nat /\ t.to <= tomb'.to /\ Linked(rows, t)
            /\ a.rows = RowsOf(rows) /\ a.seq = plane.seq
            /\ cp.seq = plane.seq /\ cp.hash = plane.hash /\ HeadOf(rows, t) = plane
        BY <1>0, <1>1, <2>0, <2>1 DEF FilesShaped
      <3>2. Len(anchors) + 1 \in 1 .. Len(anchors') /\ anchors'[Len(anchors) + 1] = cp
        BY <1>0, <2>1, AppendFacts
      <3>3. rows = <<>> => a.seq = t.to
        BY <3>1 DEF HeadOf
      <3>4. rows # <<>> => a.seq = LastOf(rows).seq /\ cp.hash = LastOf(rows).hash
        BY <3>1 DEF HeadOf
      <3>5. Attests(a, rows, t)'
        BY <3>1, <3>2, <3>3, <3>4 DEF Attests
      <3> QED
        BY <1>4, <2>1, <3>5 DEF Attested
    <2>2. CASE attested' = attested
      BY <1>5, <2>2
    <2>3. \/ attested' = attested
          \/ /\ attested' = attested \cup {a} /\ anchors' = Append(anchors, cp)
             /\ Linked(chain, tomb) /\ HeadOf(chain, tomb) = plane
      BY <1>6, <2>0 DEF WriteAnchor, Written, HeadLine
    <2> QED
      BY <2>1, <2>2, <2>3
  <1> QED
    BY <1>5, <1>6 DEF ChainNext, RecordEvent, RetentionCmd, BackupCmd, RestoreCmd,
         chainVars, files, Tick, Open, ShipBlocking, AppendRow, ShipFailSafe,
         CommitState, Crash, BeginRetire, WriteSegment, WriteTombstone, TruncateChain,
         WriteSurvivors, RetireCrash, BackupVerify, CopyState, CopyFile, WriteManifest,
         Restore, Edit

\* A checkpoint is signed over one row and attests them all.
LEMMA AttestedEvident ==
    ASSUME FilesShaped, Attested
    PROVE  TamperEvident
  <1> SUFFICES ASSUME AuditVerify(TRUE), NEW a \in attested, a.seq > tomb.to
               PROVE  {r \in a.rows : r.seq > tomb.to} =
                      {r \in RowsOf(chain) : r.seq <= a.seq}
    BY DEF TamperEvident
  <1>1. PICK rows, t : Attests(a, rows, t)
    BY DEF Attested
  <1>2. /\ AreRows(chain) /\ tomb.to \in Nat /\ Linked(chain, tomb)
        /\ \A i \in DOMAIN anchors : AnchorAgrees(anchors[i], chain, tomb)
    BY DEF FilesShaped, AuditVerify, IntactAnchored, Intact
  <1>3. rows # <<>>
    BY <1>1, <1>2 DEF Attests
  <1>4. PICK i \in DOMAIN anchors : /\ anchors[i].seq = a.seq
                                    /\ anchors[i].hash = LastOf(rows).hash
    <2>1. DOMAIN anchors = 1 .. Len(anchors)
      BY SeqFacts DEF FilesShaped, AreCheckpoints
    <2> QED
      BY <1>1, <1>3, <2>1 DEF Attests
  <1>5. a.seq = LastOf(rows).seq
    BY <1>1, <1>3 DEF Attests
  <1>6. PICK j \in DOMAIN chain : chain[j].seq = a.seq /\ chain[j].hash = LastOf(rows).hash
    <2>1. AnchorAgrees(anchors[i], chain, tomb)
      BY <1>2
    <2>2. a.seq \in Nat
      <3>1. DOMAIN anchors = 1 .. Len(anchors)
        BY SeqFacts DEF FilesShaped, AreCheckpoints
      <3> QED
        BY <1>4, <3>1 DEF FilesShaped, AreCheckpoints, IsCheckpoint
    <2> QED
      BY <1>2, <1>4, <2>1, <2>2 DEF AnchorAgrees
  <1>7. Numbered(rows, t.to) /\ Numbered(chain, tomb.to)
    BY <1>1, <1>2, LinkedNumbered DEF Attests
  <1>8. ASSUME NEW p \in Nat, NEW q \in Nat, Numbered(rows, p), Numbered(chain, q), p <= q
        PROVE  \A r : r \in RowsOf(rows) /\ r.seq > q
                         <=> r \in RowsOf(chain) /\ r.seq <= LastOf(rows).seq
    <2>1. IsSeq(rows) /\ IsSeq(chain)
      BY <1>1, <1>2 DEF Attests, AreRows
    <2>2. chain[j].seq = LastOf(rows).seq /\ chain[j].hash = LastOf(rows).hash
      BY <1>5, <1>6
    <2> QED
      BY <1>3, <1>8, <2>1, <2>2, MeetingFilesAgree
  <1>9. t.to \in Nat /\ t.to <= tomb.to /\ a.rows = RowsOf(rows)
    BY <1>1 DEF Attests
  <1>10. \A r : r \in RowsOf(rows) /\ r.seq > tomb.to
                         <=> r \in RowsOf(chain) /\ r.seq <= LastOf(rows).seq
    BY <1>2, <1>7, <1>8, <1>9
  <1> QED
    BY <1>5, <1>9, <1>10

(***************************************************************************)
(* What is recorded.  While a record is being made the plane is open and   *)
(* its head is where the record started from or ends.                      *)
(***************************************************************************)
Recording ==
    /\ rec.pc \in {"idle", "append", "anchor", "safe", "commit"}
    /\ rec.pc # "idle" => plane.open
    /\ DOMAIN shipped = DOMAIN SinkList
    /\ rec.pc = "append" =>
          \A s \in Wanting("Blocking", rec.kind) :
              NextRow(rec.kind, rec.ts).hash \in shipped[s]
    /\ rec.pc \in {"anchor", "safe", "commit"} =>
          \E r \in RowsOf(hist) : r.hash = plane.hash

LEMMA AppendRowsOf ==
    ASSUME NEW s, IsSeq(s), NEW e
    PROVE  RowsOf(Append(s, e)) = RowsOf(s) \cup {e}
  <1>1. /\ Len(s) \in Nat /\ DOMAIN s = 1 .. Len(s)
        /\ DOMAIN Append(s, e) = 1 .. Len(s) + 1
        /\ \A i \in 1 .. Len(s) : Append(s, e)[i] = s[i]
        /\ Append(s, e)[Len(s) + 1] = e
    BY SeqFacts, AppendFacts
  <1>2. Len(s) + 1 \in 1 .. Len(s) + 1 /\ 1 .. Len(s) \subseteq 1 .. Len(s) + 1
        /\ \A i \in 1 .. Len(s) + 1 : i \in 1 .. Len(s) \/ i = Len(s) + 1
    BY <1>1
  <1> DEFINE A == Append(s, e)
  <1> HIDE DEF A
  <1>3. /\ DOMAIN A = 1 .. Len(s) + 1 /\ A[Len(s) + 1] = e
        /\ \A i \in 1 .. Len(s) : A[i] = s[i]
    BY <1>1 DEF A
  <1>4. RowsOf(A) = RowsOf(s) \cup {e}
    BY <1>1, <1>2, <1>3 DEF RowsOf
  <1> QED
    BY <1>4 DEF A

LEMMA RecordingStep ==
    ASSUME FilesShaped, Recording, BlockingTrail, [ChainNext]_chainVars
    PROVE  Recording' /\ BlockingTrail'
  <1>0. IsRec(rec) /\ IsSeq(hist)
    BY DEF FilesShaped, AreRows
  <1>1. CASE UNCHANGED <<rec, plane, shipped, hist, state>>
    <2>1. Recording'
      BY <1>1 DEF Recording, NextRow
    <2>2. BlockingTrail'
      BY <1>1 DEF BlockingTrail
    <2> QED
      BY <2>1, <2>2
  <1>2. CASE Open
    <2>1. rec.pc = "idle" /\ UNCHANGED <<rec, shipped, hist, state>>
      BY <1>2 DEF Open, Recording
    <2>2. Recording'
      BY <2>1 DEF Recording
    <2>3. BlockingTrail'
      BY <2>1 DEF BlockingTrail
    <2> QED
      BY <2>2, <2>3
  <1>3. ASSUME NEW k \in Kinds, ShipBlocking(k)
        PROVE  Recording' /\ BlockingTrail'
    <2>1. plane.open /\ rec = NotRecording /\ UNCHANGED <<plane, hist, state>>
      BY <1>3 DEF ShipBlocking
    <2>2. PICK n \in {0} \cup Wanting("Blocking", k) :
             /\ shipped' = [s \in DOMAIN shipped |->
                              IF s \in {s1 \in Wanting("Blocking", k) : n = 0 \/ s1 < n}
                              THEN shipped[s] \cup {NextRow(k, clock).hash}
                              ELSE shipped[s]]
             /\ IF n = 0 THEN rec' = [pc |-> "append", kind |-> k, ts |-> clock]
                ELSE rec' = rec
      BY <1>3 DEF ShipBlocking
    <2>3. DOMAIN shipped' = DOMAIN SinkList /\ \A s \in DOMAIN SinkList : shipped[s] \subseteq shipped'[s]
      BY <2>2 DEF Recording
    <2>4. BlockingTrail'
      <3>1. \A kk : Wanting("Blocking", kk) \subseteq DOMAIN SinkList
        BY DEF Wanting
      <3> QED
        BY <2>1, <2>3, <3>1 DEF BlockingTrail
    <2>5. CASE n = 0
      <3>1. \A s \in Wanting("Blocking", k) : NextRow(k, clock).hash \in shipped'[s]
        <4>1. Wanting("Blocking", k) \subseteq DOMAIN shipped
          BY DEF Wanting, Recording
        <4> QED
          BY <2>2, <2>5, <4>1
      <3>2. rec'.pc = "append" /\ rec'.kind = k /\ rec'.ts = clock
        BY <2>2, <2>5
      <3>3. NextRow(k, clock)' = NextRow(k, clock') /\ NextRow(rec.kind, rec.ts)' = NextRow(k, clock)
        BY <2>1, <3>2, <1>3 DEF NextRow, ShipBlocking
      <3> QED
        BY <2>1, <2>3, <2>4, <3>1, <3>2, <3>3 DEF Recording
    <2>6. CASE n # 0
      BY <2>1, <2>2, <2>3, <2>4, <2>6 DEF Recording, NotRecording
    <2> QED
      BY <2>5, <2>6
  <1>4. CASE AppendRow
    <2> DEFINE row == NextRow(rec.kind, rec.ts)
    <2>0. plane.open /\ rec.pc = "append" /\ UNCHANGED <<shipped, state>>
      BY <1>4 DEF AppendRow, Recording
    <2>1. row.kind = rec.kind
      <3>1. plane.seq + 1 \in Nat
        BY DEF FilesShaped
      <3> QED
        BY <3>1, RowIsRow DEF NextRow
    <2>2. \/ /\ hist' = Append(hist, row)
             /\ plane' = [open |-> TRUE, seq |-> row.seq, hash |-> row.hash]
             /\ rec' = [rec EXCEPT !.pc = IF row.seq % Interval = 0 THEN "anchor" ELSE "safe"]
          \/ hist' \in {hist, Append(hist, row)} /\ rec' = NotRecording /\ plane' = plane
      <3> HIDE DEF row
      <3> QED
        BY <1>4, Zenon DEF AppendRow, row
    <2>3. \/ /\ rec'.pc \in {"anchor", "safe"} /\ plane'.open /\ plane'.hash = row.hash
             /\ hist' = Append(hist, row)
          \/ rec'.pc = "idle"
      <3>1. ASSUME NEW x, rec' = [rec EXCEPT !.pc = IF x THEN "anchor" ELSE "safe"]
            PROVE  rec'.pc \in {"anchor", "safe"}
        BY <1>0, <3>1 DEF IsRec
      <3> HIDE DEF row
      <3> QED
        BY <2>2, <3>1 DEF NotRecording
    <2>4. RowsOf(hist') \in {RowsOf(hist), RowsOf(hist) \cup {row}}
          /\ (hist' = Append(hist, row) => row \in RowsOf(hist'))
      <3> HIDE DEF row
      <3>1. hist' = hist \/ hist' = Append(hist, row)
        BY <2>2
      <3>2. CASE hist' = hist
        <4>1. hist = Append(hist, row) => row \in RowsOf(hist)
          BY <1>0, AppendRowsOf
        <4> QED
          BY <3>2, <4>1, Zenon
      <3>3. CASE hist' = Append(hist, row)
        <4>1. RowsOf(hist') = RowsOf(hist) \cup {row}
          BY <1>0, <3>3, AppendRowsOf, Zenon
        <4> QED
          BY <4>1
      <3> QED
        BY <3>1, <3>2, <3>3
    <2>5. \A s \in Wanting("Blocking", row.kind) : row.hash \in shipped[s]
      BY <2>0, <2>1 DEF Recording
    <2> HIDE DEF row
    <2>6. BlockingTrail'
      BY <2>0, <2>4, <2>5 DEF BlockingTrail
    <2>7. Recording'
      BY <2>0, <2>3, <2>4 DEF Recording
    <2> QED
      BY <2>6, <2>7
  <1>5. CASE WriteAnchor \/ ShipFailSafe
    <2>1. /\ rec.pc \in {"anchor", "safe"} /\ UNCHANGED <<plane, hist, state>>
          /\ rec'.pc \in {"safe", "commit", "idle"}
      BY <1>0, <1>5 DEF WriteAnchor, ShipFailSafe, IsRec, NotRecording
    <2>2. /\ DOMAIN shipped' = DOMAIN SinkList
          /\ \A s \in DOMAIN SinkList : shipped[s] \subseteq shipped'[s]
      BY <1>5 DEF WriteAnchor, ShipFailSafe, Recording
    <2>3. Recording'
      BY <2>1, <2>2 DEF Recording
    <2>4. BlockingTrail'
      <3>1. \A kk : Wanting("Blocking", kk) \subseteq DOMAIN SinkList
        BY DEF Wanting
      <3> QED
        BY <2>1, <2>2, <3>1 DEF BlockingTrail
    <2> QED
      BY <2>3, <2>4
  <1>6. CASE CommitState
    <2>1. /\ rec.pc = "commit" /\ rec'.pc = "idle" /\ state' = state \cup {plane.hash}
          /\ UNCHANGED <<plane, hist, shipped>>
      BY <1>6 DEF CommitState, NotRecording
    <2>2. Recording'
      BY <2>1 DEF Recording
    <2>3. BlockingTrail'
      BY <2>1 DEF Recording, BlockingTrail
    <2> QED
      BY <2>2, <2>3
  <1>7. CASE Crash
    <2>1. rec'.pc = "idle" /\ UNCHANGED <<hist, shipped, state>>
      BY <1>7 DEF Crash, NotRecording
    <2>2. Recording'
      BY <2>1 DEF Recording
    <2>3. BlockingTrail'
      BY <2>1 DEF BlockingTrail
    <2> QED
      BY <2>2, <2>3
  <1> QED
    BY <1>1, <1>2, <1>3, <1>4, <1>5, <1>6, <1>7
       DEF ChainNext, RecordEvent, RetentionCmd, BackupCmd, RestoreCmd, chainVars,
           Tick, BeginRetire, WriteSegment, WriteTombstone, TruncateChain, WriteSurvivors,
           RetireCrash, BackupVerify, CopyState, CopyFile, WriteManifest, Restore, Edit

(***************************************************************************)
(* Files as parts of the history h: the rows after number o up to t.       *)
(***************************************************************************)
HashAt(h, k) == IF k = 0 THEN Genesis ELSE h[k].hash

WholeHistory(h) ==
    /\ AreRows(h)
    /\ \A i \in 1 .. Len(h) : /\ h[i].seq = i
                              /\ h[i].prev = HashAt(h, i - 1)
                              /\ h[i].hash = RowHash(h[i])

Copies(h, s, o, t) ==
    /\ o \in Nat /\ t \in Nat /\ o <= t /\ t <= Len(h)
    /\ IsSeq(s) /\ Len(s) = t - o
    /\ \A i \in 1 .. t - o : s[i] = h[o + i]

LEMMA CopiesAppend ==
    ASSUME NEW h, IsSeq(h), NEW e, NEW s, NEW o, NEW t, Copies(h, s, o, t)
    PROVE  Copies(Append(h, e), s, o, t)
  <1>1. /\ Len(h) \in Nat /\ Len(Append(h, e)) = Len(h) + 1
        /\ \A i \in 1 .. Len(h) : Append(h, e)[i] = h[i]
    BY SeqFacts, AppendFacts
  <1>2. \A i \in 1 .. t - o : o + i \in 1 .. Len(h)
    BY <1>1 DEF Copies
  <1> QED
    BY <1>1, <1>2 DEF Copies

LEMMA CopiesExtend ==
    ASSUME NEW h, IsSeq(h), NEW e, NEW s, NEW o, Copies(h, s, o, Len(h))
    PROVE  Copies(Append(h, e), Append(s, e), o, Len(h) + 1)
  <1>1. /\ Len(h) \in Nat /\ Len(Append(h, e)) = Len(h) + 1
        /\ \A i \in 1 .. Len(h) : Append(h, e)[i] = h[i]
        /\ Append(h, e)[Len(h) + 1] = e
    BY SeqFacts, AppendFacts
  <1>2. o \in Nat /\ o <= Len(h) /\ IsSeq(s) /\ Len(s) = Len(h) - o
    BY DEF Copies
  <1>3. /\ IsSeq(Append(s, e)) /\ Len(Append(s, e)) = Len(h) + 1 - o
        /\ \A i \in 1 .. Len(s) : Append(s, e)[i] = s[i]
        /\ Append(s, e)[Len(s) + 1] = e
    BY <1>1, <1>2, AppendFacts
  <1>4. ASSUME NEW i \in 1 .. Len(h) + 1 - o
        PROVE  Append(s, e)[i] = Append(h, e)[o + i]
    <2>1. CASE i = Len(h) + 1 - o
      <3>1. i = Len(s) + 1 /\ o + i = Len(h) + 1
        BY <1>1, <1>2, <2>1
      <3> QED
        BY <1>1, <1>3, <3>1
    <2>2. CASE i # Len(h) + 1 - o
      <3>1. i \in 1 .. Len(s) /\ o + i \in 1 .. Len(h) /\ i \in 1 .. Len(h) - o
        BY <1>1, <1>2, <2>2
      <3>2. s[i] = h[o + i]
        BY <3>1 DEF Copies
      <3> QED
        BY <1>1, <1>3, <3>1, <3>2
    <2> QED
      BY <2>1, <2>2
  <1> QED
    BY <1>1, <1>2, <1>3, <1>4 DEF Copies

LEMMA CopiesCut ==
    ASSUME NEW h, IsSeq(h), NEW s, NEW o, NEW t, Copies(h, s, o, t),
           NEW c \in Nat, c <= Len(s)
    PROVE  /\ Copies(h, SubSeq(s, 1, c), o, o + c)
           /\ Copies(h, SubSeq(s, c + 1, Len(s)), o + c, t)
  <1>0. /\ Len(h) \in Nat /\ IsSeq(s) /\ Len(s) = t - o /\ o \in Nat /\ t \in Nat
        /\ o <= t /\ t <= Len(h) /\ Len(s) \in Nat /\ c <= t - o
    BY SeqFacts DEF Copies
  <1>1. /\ IsSeq(SubSeq(s, 1, c)) /\ Len(SubSeq(s, 1, c)) = c
        /\ \A i \in 1 .. c : SubSeq(s, 1, c)[i] = s[i]
    BY <1>0, SubSeqFacts
  <1>2. /\ IsSeq(SubSeq(s, c + 1, Len(s))) /\ Len(SubSeq(s, c + 1, Len(s))) = Len(s) - c
        /\ \A i \in 1 .. Len(s) - c : SubSeq(s, c + 1, Len(s))[i] = s[c + i]
    <2>1. ASSUME NEW m \in Nat, m >= 1, NEW n \in Nat, n <= Len(s), m <= n + 1
          PROVE  /\ IsSeq(SubSeq(s, m, n))
                 /\ Len(SubSeq(s, m, n)) = n - m + 1
                 /\ \A i \in 1 .. n - m + 1 : SubSeq(s, m, n)[i] = s[m + i - 1]
      BY <1>0, <2>1, SubSeqFacts
    <2>2. ASSUME NEW n \in Nat, n <= Len(s), c <= n
          PROVE  /\ IsSeq(SubSeq(s, c + 1, n)) /\ Len(SubSeq(s, c + 1, n)) = n - c
                 /\ \A i \in 1 .. n - c : SubSeq(s, c + 1, n)[i] = s[c + i]
      <3>1. c + 1 \in Nat /\ c + 1 >= 1 /\ c + 1 <= n + 1 /\ n - (c + 1) + 1 = n - c
            /\ \A i \in 1 .. n - c : (c + 1) + i - 1 = c + i
        BY <2>2
      <3>2. /\ IsSeq(SubSeq(s, c + 1, n))
            /\ Len(SubSeq(s, c + 1, n)) = n - (c + 1) + 1
            /\ \A i \in 1 .. n - (c + 1) + 1 : SubSeq(s, c + 1, n)[i] = s[(c + 1) + i - 1]
        BY <2>1, <2>2, <3>1
      <3> QED
        BY <3>1, <3>2
    <2>3. Len(s) <= Len(s) /\ c <= Len(s)
      BY <1>0
    <2> QED
      BY <1>0, <2>2, <2>3
  <1>3. \A i \in 1 .. t - o : s[i] = h[o + i]
    BY DEF Copies
  <1>4. Copies(h, SubSeq(s, 1, c), o, o + c)
    <2>1. o + c \in Nat /\ o <= o + c /\ o + c <= Len(h) /\ o + c - o = c
      BY <1>0
    <2>2. \A i \in 1 .. c : i \in 1 .. t - o
      BY <1>0
    <2> QED
      BY <1>0, <1>1, <1>3, <2>1, <2>2 DEF Copies
  <1>5. Copies(h, SubSeq(s, c + 1, Len(s)), o + c, t)
    <2>1. o + c \in Nat /\ o + c <= t /\ t - (o + c) = Len(s) - c
      BY <1>0
    <2>2. \A i \in 1 .. Len(s) - c : c + i \in 1 .. t - o /\ o + (c + i) = o + c + i
      BY <1>0
    <2>3. \A i \in 1 .. Len(s) - c : SubSeq(s, c + 1, Len(s))[i] = h[o + c + i]
      BY <1>2, <1>3, <2>2
    <2> QED
      BY <1>0, <1>2, <2>1, <2>3 DEF Copies
  <1> QED
    BY <1>4, <1>5

LEMMA CopiesUnique ==
    ASSUME NEW h, NEW s, NEW u, NEW o, NEW t, Copies(h, s, o, t), Copies(h, u, o, t)
    PROVE  s = u
  BY SeqEqual DEF Copies

LEMMA CopiesLast ==
    ASSUME NEW h, NEW s, NEW o, NEW t, Copies(h, s, o, t)
    PROVE  /\ s = <<>> => o = t
           /\ o = t => s = <<>>
           /\ s # <<>> => o < t /\ LastOf(s) = h[t]
           /\ t \in Nat /\ o \in Nat /\ o <= t /\ t <= Len(h)
  <1>1. IsSeq(s) /\ Len(s) = t - o /\ o \in Nat /\ t \in Nat /\ o <= t /\ t <= Len(h)
    BY DEF Copies
  <1>2. (s = <<>> => Len(s) = 0) /\ (Len(s) = 0 => s = <<>>)
    BY <1>1, EmptySeq
  <1>3. o < t => LastOf(s) = h[t]
    <2>1. o < t => t - o \in 1 .. t - o /\ o + (t - o) = t
      BY <1>1
    <2> QED
      BY <1>1, <2>1 DEF Copies, LastOf
  <1> QED
    BY <1>1, <1>2, <1>3

LEMMA CopiesRows ==
    ASSUME NEW h, NEW s, NEW o, NEW t, Copies(h, s, o, t)
    PROVE  RowsOf(s) = {h[i] : i \in o + 1 .. t}
  <1>1. /\ o \in Nat /\ t \in Nat /\ DOMAIN s = 1 .. t - o
        /\ \A i \in 1 .. t - o : s[i] = h[o + i]
    BY SeqFacts DEF Copies
  <1>2. ASSUME NEW r \in RowsOf(s) PROVE r \in {h[i] : i \in o + 1 .. t}
    <2>1. PICK i \in 1 .. t - o : r = s[i]
      BY <1>1 DEF RowsOf
    <2>2. o + i \in o + 1 .. t /\ r = h[o + i]
      BY <1>1, <2>1
    <2> QED
      BY <2>2
  <1>3. ASSUME NEW i \in o + 1 .. t PROVE h[i] \in RowsOf(s)
    <2>1. i - o \in 1 .. t - o /\ o + (i - o) = i
      BY <1>1
    <2>2. s[i - o] = h[i]
      BY <1>1, <2>1
    <2> QED
      BY <1>1, <2>1, <2>2 DEF RowsOf
  <1> QED
    BY <1>2, <1>3

LEMMA CopiesChained ==
    ASSUME NEW h, WholeHistory(h), NEW s, NEW p \in Nat, NEW m, Copies(h, s, p, m),
           NEW i \in 1 .. Len(s)
    PROVE  /\ s[i].seq = (IF i = 1 THEN p ELSE s[i - 1].seq) + 1
           /\ s[i].prev = IF i = 1 THEN HashAt(h, p) ELSE s[i - 1].hash
           /\ s[i].hash = RowHash(s[i])
           /\ s[i].seq = p + i
  <1>1. /\ m \in Nat /\ m <= Len(h) /\ Len(s) = m - p
        /\ \A k \in 1 .. m - p : s[k] = h[p + k]
    BY SeqFacts DEF Copies
  <1>2. Len(h) \in Nat /\ Len(s) \in Nat
    BY SeqFacts DEF WholeHistory, AreRows, Copies
  <1>3. /\ i \in 1 .. m - p /\ p + i \in 1 .. Len(h)
        /\ (i = 1 => p + i - 1 = p)
        /\ (i # 1 => /\ i - 1 \in 1 .. m - p /\ p + (i - 1) = p + i - 1
                     /\ p + i - 1 # 0 /\ p + i - 1 \in 1 .. Len(h))
    BY <1>1, <1>2
  <1>4. /\ s[i] = h[p + i]
        /\ h[p + i].seq = p + i
        /\ h[p + i].prev = HashAt(h, p + i - 1)
        /\ h[p + i].hash = RowHash(h[p + i])
    BY <1>1, <1>3 DEF WholeHistory
  <1>5. CASE i = 1
    BY <1>1, <1>3, <1>4, <1>5
  <1>6. CASE i # 1
    <2>1. s[i - 1] = h[p + i - 1] /\ h[p + i - 1].seq = p + i - 1
      BY <1>1, <1>3, <1>6 DEF WholeHistory
    <2>2. s[i].prev = s[i - 1].hash
      BY <1>3, <1>4, <1>6, <2>1 DEF HashAt
    <2>3. s[i].seq = s[i - 1].seq + 1
      BY <1>1, <1>4, <2>1
    <2> QED
      BY <1>4, <1>6, <2>2, <2>3
  <1> QED
    BY <1>5, <1>6

LEMMA CopiesLinked ==
    ASSUME NEW h, WholeHistory(h), NEW s, NEW t, NEW m, Copies(h, s, t.to, m),
           t.last = HashAt(h, t.to)
    PROVE  Linked(s, t)
  <1>1. t.to \in Nat /\ DOMAIN s = 1 .. Len(s)
    BY SeqFacts DEF Copies
  <1>2. ASSUME NEW i \in 1 .. Len(s)
        PROVE  /\ s[i].seq = (IF i = 1 THEN t.to ELSE s[i - 1].seq) + 1
               /\ s[i].prev = IF i = 1 THEN HashAt(h, t.to) ELSE s[i - 1].hash
               /\ s[i].hash = RowHash(s[i])
    BY <1>1, CopiesChained
  <1> QED
    BY <1>1, <1>2 DEF Linked

LEMMA HashAtAppend ==
    ASSUME NEW h, IsSeq(h), NEW e, NEW k \in 0 .. Len(h)
    PROVE  HashAt(Append(h, e), k) = HashAt(h, k)
  <1>1. Len(h) \in Nat /\ \A i \in 1 .. Len(h) : Append(h, e)[i] = h[i]
    BY SeqFacts, AppendFacts
  <1> QED
    BY <1>1 DEF HashAt

LEMMA WholeAppend ==
    ASSUME NEW h, WholeHistory(h), NEW ts, NEW kind
    PROVE  WholeHistory(Append(h, Row(Len(h) + 1, ts, kind, HashAt(h, Len(h)))))
  <1>1. Len(h) \in Nat /\ IsSeq(h) /\ AreRows(h)
    BY SeqFacts DEF WholeHistory, AreRows
  <1>2. PICK e : e = Row(Len(h) + 1, ts, kind, HashAt(h, Len(h)))
    OBVIOUS
  <1>3. IsRow(e) /\ e.seq = Len(h) + 1 /\ e.prev = HashAt(h, Len(h)) /\ e.hash = RowHash(e)
    <2>1. Len(h) + 1 \in Nat
      BY <1>1
    <2> QED
      BY <1>2, <2>1, RowIsRow
  <1>4. /\ AreRows(Append(h, e)) /\ Len(Append(h, e)) = Len(h) + 1
        /\ \A i \in 1 .. Len(h) : Append(h, e)[i] = h[i]
        /\ Append(h, e)[Len(h) + 1] = e
    BY <1>1, <1>3, AppendFacts, AppendAreRows
  <1>5. ASSUME NEW i \in 1 .. Len(h) + 1
        PROVE  /\ Append(h, e)[i].seq = i
               /\ Append(h, e)[i].prev = HashAt(Append(h, e), i - 1)
               /\ Append(h, e)[i].hash = RowHash(Append(h, e)[i])
    <2>1. HashAt(Append(h, e), i - 1) = HashAt(h, i - 1)
      <3>1. i - 1 \in 0 .. Len(h)
        BY <1>1
      <3> QED
        BY <1>1, <3>1, HashAtAppend
    <2>2. CASE i \in 1 .. Len(h)
      BY <1>4, <2>1, <2>2 DEF WholeHistory
    <2>3. CASE i = Len(h) + 1
      <3>1. i - 1 = Len(h)
        BY <1>1, <2>3
      <3> QED
        BY <1>3, <1>4, <2>1, <2>3, <3>1
    <2> QED
      BY <1>1, <2>2, <2>3
  <1>6. WholeHistory(Append(h, e))
    BY <1>4, <1>5 DEF WholeHistory
  <1> QED
    BY <1>2, <1>6

\* Two places of the history have two hashes.
LEMMA HashAtDiffers ==
    ASSUME NEW h, WholeHistory(h), NEW m \in 0 .. Len(h), NEW n \in 0 .. Len(h),
           HashAt(h, m) = HashAt(h, n)
    PROVE  m = n
  <1>0. Len(h) \in Nat
    BY SeqFacts DEF WholeHistory, AreRows
  <1>1. \A k \in 1 .. Len(h) : h[k].hash = <<k, h[k].ts, h[k].kind, h[k].prev>>
    BY DEF WholeHistory, RowHash
  <1>2. ASSUME NEW a, NEW b, NEW c, NEW d PROVE <<a, b, c, d>> # Genesis
    <2>1. 1 \in DOMAIN <<a, b, c, d>>
      OBVIOUS
    <2>2. 1 \notin DOMAIN Genesis
      BY DEF Genesis
    <2> QED
      BY <2>1, <2>2
  <1>3. \A a, b, c, d, e, f, g, i : <<a, b, c, d>> = <<e, f, g, i>> => a = e
    OBVIOUS
  <1>4. CASE m = 0 \/ n = 0
    <2>1. \A k \in 0 .. Len(h) : HashAt(h, k) = Genesis => k = 0
      <3>1. ASSUME NEW k \in 1 .. Len(h) PROVE h[k].hash # Genesis
        <4>1. h[k].hash = <<k, h[k].ts, h[k].kind, h[k].prev>>
          BY <1>1
        <4> QED
          BY <1>2, <4>1, Zenon
      <3> QED
        BY <1>0, <3>1 DEF HashAt
    <2>2. HashAt(h, 0) = Genesis
      BY DEF HashAt
    <2> QED
      BY <1>4, <2>1, <2>2
  <1>5. CASE m # 0 /\ n # 0
    <2>1. m \in 1 .. Len(h) /\ n \in 1 .. Len(h)
      BY <1>0, <1>5
    <2>2. h[m].hash = h[n].hash
      BY <1>5 DEF HashAt
    <2> QED
      BY <1>1, <1>3, <2>1, <2>2
  <1> QED
    BY <1>4, <1>5

(***************************************************************************)
(* What is true of the files as long as nobody altered them, no write was  *)
(* numbered twice and no retirement overlapped anything or was cut short.  *)
(***************************************************************************)
TombTrue(h, t) ==
    /\ t.to \in Nat /\ t.to <= Len(h) /\ (t.to = 0 \/ t.to < Len(h))
    /\ t.last = HashAt(h, t.to)
    /\ (t # NoTomb => /\ t.from \in Nat /\ t.from >= 1 /\ t.file # <<>>
                      /\ Copies(h, t.file, t.from - 1, t.to))

\* The file holds what follows the tombstone; a retirement under way holds the
\* two parts of it.
ChainTrue(h, c, tn, t, rt) ==
    /\ (rt.pc = "idle" /\ ~ tn => Copies(h, c, t.to, Len(h)))
    /\ (rt.pc \in {"segment", "tombstone"} =>
           /\ Copies(h, c, t.to, Len(h)) /\ rt.upto > t.to /\ rt.upto < Len(h)
           /\ Copies(h, rt.out, t.to, rt.upto) /\ Copies(h, rt.kept, rt.upto, Len(h)))
    /\ (rt.pc = "truncate" =>
           /\ c # <<>> /\ \E o \in Nat : Copies(h, c, o, Len(h))
           /\ Copies(h, rt.kept, t.to, Len(h)))
    /\ (rt.pc = "survivors" => c = <<>> /\ Copies(h, rt.kept, t.to, Len(h)))

PlaneTrue(h, p) == p.open => p.seq \in 0 .. Len(h) /\ p.hash = HashAt(h, p.seq)

CheckpointTrue(h, cp) ==
    cp.key \in {AnchorKey, NoKey} /\ cp.seq \in 0 .. Len(h) /\ cp.hash = HashAt(h, cp.seq)
AnchorsTrue(h, as) == IsSeq(as) /\ \A i \in 1 .. Len(as) : CheckpointTrue(h, as[i])

\* Every archived file holds the rows its name says, and every retired row is in one.
SegmentTrue(h, s) ==
    /\ s.name[1] \in Nat /\ s.name[1] >= 1 /\ s.name[2] \in Nat
    /\ Copies(h, s.rows, s.name[1] - 1, s.name[2])
SegmentsTrue(h, ss, t, rt) ==
    /\ \A s \in ss : SegmentTrue(h, s)
    /\ \A i \in 1 .. t.to : \E s \in ss : s.name[1] <= i /\ i <= s.name[2]
    /\ (rt.pc = "tombstone" => \E s \in ss : s.name = <<t.to + 1, rt.upto>>)

\* A root that may be placed.
Placeable(h, b) ==
    /\ Intact(b.chain, b.tomb, b.anchors)
    /\ \A x \in b.state : \E r \in RowsOf(h) :
          r.hash = x /\ (r \in RowsOf(b.chain) \/ r.seq <= b.tomb.to)

EndOf(rows) == IF rows = <<>> THEN Genesis ELSE LastOf(rows).hash

\* Each copy is of the history as it was when the copy was made; that the head
\* still is the copied one tells that nothing was written in between.
Copying(h, b, t) ==
    /\ \A x \in b.state : \E i \in 1 .. Len(h) : h[i].hash = x
    /\ ("tomb" \notin b.left => b.tomb = t)
    /\ ("anchors" \notin b.left =>
           \A i \in DOMAIN b.anchors : b.anchors[i].seq \in 0 .. Len(h))
    /\ ("chain" \notin b.left /\ ~ b.torn =>
           \E m \in Nat : /\ Copies(h, b.chain, t.to, m)
                          /\ \A x \in b.state : \E i \in 1 .. m : h[i].hash = x)
BackupTrue(h, b, t, rt) ==
    /\ (b.pc \in {"verified", "copying"} => rt.pc = "idle")
    /\ (b.pc = "copying" => Copying(h, b, t))
    /\ (b.pc = "taken" /\ ~ b.torn /\ b.head = EndOf(b.chain) => Placeable(h, b))
RootTrue(h, b) == b.placed => Placeable(h, b)

IsBackup(b) == b = [pc |-> b.pc, state |-> b.state, chain |-> b.chain, torn |-> b.torn,
                    anchors |-> b.anchors, tomb |-> b.tomb, left |-> b.left,
                    head |-> b.head, altered |-> b.altered]

Honest == ~ edited /\ ~ mishap /\ NoSyncLost
Truth ==
    /\ WholeHistory(hist)
    /\ TombTrue(hist, tomb)
    /\ ChainTrue(hist, chain, torn, tomb, retire)
    /\ PlaneTrue(hist, plane)
    /\ AnchorsTrue(hist, anchors)
    /\ SegmentsTrue(hist, segments, tomb, retire)
    /\ BackupTrue(hist, backup, tomb, retire)
    /\ RootTrue(hist, restored)
HonestTruth == IsBackup(backup) /\ (Honest => Truth)

-----------------------------------------------------------------------------
\* What was true of the history stays true of a longer one.
LEMMA TombAppend ==
    ASSUME NEW h, IsSeq(h), NEW e, NEW t, TombTrue(h, t)
    PROVE  TombTrue(Append(h, e), t)
  <1>1. Len(h) \in Nat /\ Len(Append(h, e)) = Len(h) + 1
    BY SeqFacts, AppendFacts
  <1>2. t.to \in 0 .. Len(h)
    BY <1>1 DEF TombTrue
  <1>3. HashAt(Append(h, e), t.to) = HashAt(h, t.to)
    BY <1>2, HashAtAppend
  <1>4. t # NoTomb => Copies(Append(h, e), t.file, t.from - 1, t.to)
    BY CopiesAppend DEF TombTrue
  <1>5. t.to <= Len(Append(h, e)) /\ (t.to = 0 \/ t.to < Len(Append(h, e)))
    BY <1>1, <1>2
  <1> QED
    BY <1>3, <1>4, <1>5 DEF TombTrue

LEMMA PlaneAppend ==
    ASSUME NEW h, IsSeq(h), NEW e, NEW p, PlaneTrue(h, p)
    PROVE  PlaneTrue(Append(h, e), p)
  <1>1. Len(h) \in Nat /\ Len(Append(h, e)) = Len(h) + 1
    BY SeqFacts, AppendFacts
  <1>2. p.seq \in 0 .. Len(h) => p.seq \in 0 .. Len(Append(h, e))
    BY <1>1
  <1> QED
    BY <1>2, HashAtAppend DEF PlaneTrue

LEMMA AnchorsAppend ==
    ASSUME NEW h, IsSeq(h), NEW e, NEW as, AnchorsTrue(h, as)
    PROVE  AnchorsTrue(Append(h, e), as)
  <1>1. Len(h) \in Nat /\ Len(Append(h, e)) = Len(h) + 1
    BY SeqFacts, AppendFacts
  <1>2. ASSUME NEW cp, CheckpointTrue(h, cp) PROVE CheckpointTrue(Append(h, e), cp)
    <2>1. cp.seq \in 0 .. Len(h) /\ cp.seq \in 0 .. Len(Append(h, e))
      BY <1>1, <1>2 DEF CheckpointTrue
    <2> QED
      BY <1>2, <2>1, HashAtAppend DEF CheckpointTrue
  <1> QED
    BY <1>2 DEF AnchorsTrue

LEMMA SegmentsAppend ==
    ASSUME NEW h, IsSeq(h), NEW e, NEW ss, NEW t, NEW rt, SegmentsTrue(h, ss, t, rt)
    PROVE  SegmentsTrue(Append(h, e), ss, t, rt)
  <1>1. \A s \in ss : SegmentTrue(Append(h, e), s)
    BY CopiesAppend DEF SegmentsTrue, SegmentTrue
  <1> QED
    BY <1>1 DEF SegmentsTrue

LEMMA PlaceableAppend ==
    ASSUME NEW h, IsSeq(h), NEW e, NEW b, Placeable(h, b)
    PROVE  Placeable(Append(h, e), b)
  <1>1. \A r \in RowsOf(h) : r \in RowsOf(Append(h, e))
    BY AppendRowsOf
  <1> QED
    BY <1>1 DEF Placeable

LEMMA BackupAppend ==
    ASSUME NEW h, IsSeq(h), NEW e, NEW b, NEW t, NEW rt, BackupTrue(h, b, t, rt)
    PROVE  BackupTrue(Append(h, e), b, t, rt)
  <1>1. /\ Len(h) \in Nat /\ Len(Append(h, e)) = Len(h) + 1
        /\ \A i \in 1 .. Len(h) : Append(h, e)[i] = h[i]
    BY SeqFacts, AppendFacts
  <1>2. ASSUME Copying(h, b, t) PROVE Copying(Append(h, e), b, t)
    <2>1. \A i \in 1 .. Len(h) : i \in 1 .. Len(Append(h, e)) /\ Append(h, e)[i].hash = h[i].hash
      BY <1>1
    <2>2. \A i \in 0 .. Len(h) : i \in 0 .. Len(Append(h, e))
      BY <1>1
    <2>3. ASSUME NEW m \in Nat, Copies(h, b.chain, t.to, m),
                 \A x \in b.state : \E i \in 1 .. m : h[i].hash = x
          PROVE  /\ Copies(Append(h, e), b.chain, t.to, m)
                 /\ \A x \in b.state : \E i \in 1 .. m : Append(h, e)[i].hash = x
      <3>1. \A i \in 1 .. m : i \in 1 .. Len(h)
        BY <1>1, <2>3 DEF Copies
      <3> QED
        BY <2>1, <2>3, <3>1, CopiesAppend
    <2> QED
      BY <1>2, <2>1, <2>2, <2>3 DEF Copying
  <1> QED
    BY <1>2, PlaceableAppend DEF BackupTrue

-----------------------------------------------------------------------------
\* Honesty is not regained.
LEMMA HonestBefore ==
    ASSUME FilesShaped, [ChainNext]_chainVars, Honest'
    PROVE  Honest
  <1>1. edited' = edited \/ edited' = TRUE
    BY DEF ChainNext, RecordEvent, RetentionCmd, BackupCmd, RestoreCmd,
         chainVars, files, Tick, Open, ShipBlocking, AppendRow, WriteAnchor, ShipFailSafe,
         CommitState, Crash, BeginRetire, WriteSegment, WriteTombstone, TruncateChain,
         WriteSurvivors, RetireCrash, BackupVerify, CopyState, CopyFile, WriteManifest,
         Restore, Edit
  <1>4. \/ mishap' = mishap
        \/ mishap' = (mishap \/ retire.pc # "idle")
        \/ mishap' = (mishap \/ rec.pc = "append" \/ backup.pc \in {"verified", "copying"})
        \/ mishap' = (mishap \/ retire.pc \in {"truncate", "survivors"})
    BY Zenon DEF ChainNext, RecordEvent, RetentionCmd, BackupCmd, RestoreCmd,
         chainVars, files, Tick, Open, ShipBlocking, AppendRow, WriteAnchor, ShipFailSafe,
         CommitState, Crash, BeginRetire, WriteSegment, WriteTombstone, TruncateChain,
         WriteSurvivors, RetireCrash, BackupVerify, CopyState, CopyFile, WriteManifest,
         Restore, Edit
  <1>5. (edited => edited') /\ (mishap => mishap')
    <2>1. ASSUME mishap, NEW x \in BOOLEAN, mishap' = (mishap \/ x) PROVE mishap'
      BY <2>1
    <2>2. mishap => mishap'
      BY <1>4, <2>1
    <2> QED
      BY <1>1, <2>2
  <1>2. hist' = hist \/ \E e : hist' = Append(hist, e)
    BY DEF ChainNext, RecordEvent, RetentionCmd, BackupCmd, RestoreCmd,
         chainVars, files, Tick, Open, ShipBlocking, AppendRow, WriteAnchor, ShipFailSafe,
         CommitState, Crash, BeginRetire, WriteSegment, WriteTombstone, TruncateChain,
         WriteSurvivors, RetireCrash, BackupVerify, CopyState, CopyFile, WriteManifest,
         Restore, Edit
  <1>3. \A i \in DOMAIN hist : i \in DOMAIN hist' /\ hist'[i] = hist[i]
    <2>1. Len(hist) \in Nat /\ IsSeq(hist) /\ DOMAIN hist = 1 .. Len(hist)
      BY SeqFacts DEF FilesShaped, AreRows
    <2> QED
      BY <1>2, <2>1, AppendFacts
  <1> QED
    BY <1>3, <1>5 DEF Honest, NoSyncLost

\* While the chain reads whole, a plane that opens it resumes at a place of the
\* history.
LEMMA OpenTruth ==
    ASSUME FilesShaped, Truth, Open
    PROVE  Truth'
  <1>0. Len(hist) \in Nat /\ IsSeq(hist) /\ WholeHistory(hist)
    BY SeqFacts DEF Truth, WholeHistory, AreRows
  <1>1. ASSUME NEW o, Copies(hist, chain, o, Len(hist)), chain = <<>> => o = tomb.to
        PROVE  PlaneTrue(hist, plane')
    <2>1. CASE chain = <<>>
      <3>1. plane' = [open |-> TRUE, seq |-> tomb.to, hash |-> tomb.last]
        BY <2>1 DEF Open, HeadOf
      <3>2. tomb.to \in 0 .. Len(hist) /\ tomb.last = HashAt(hist, tomb.to)
        BY <1>0 DEF Truth, TombTrue
      <3> QED
        BY <3>1, <3>2 DEF PlaneTrue
    <2>2. CASE chain # <<>>
      <3>1. plane' = [open |-> TRUE, seq |-> LastOf(chain).seq, hash |-> LastOf(chain).hash]
        BY <2>2 DEF Open, HeadOf
      <3>2. o < Len(hist) /\ o \in Nat /\ LastOf(chain) = hist[Len(hist)]
        BY <1>1, <2>2, CopiesLast
      <3>3. Len(hist) \in 1 .. Len(hist) /\ Len(hist) # 0
        BY <1>0, <3>2
      <3>4. hist[Len(hist)].seq = Len(hist) /\ hist[Len(hist)].hash = HashAt(hist, Len(hist))
        BY <1>0, <3>3 DEF WholeHistory, HashAt
      <3>5. Len(hist) \in 0 .. Len(hist)
        BY <1>0
      <3> QED
        BY <3>1, <3>2, <3>4, <3>5 DEF PlaneTrue
    <2> QED
      BY <2>1, <2>2
  <1>2. PlaneTrue(hist, plane')
    <2>1. ~ torn /\ ChainTrue(hist, chain, torn, tomb, retire)
      BY DEF Open, Truth
    <2>2. CASE retire.pc \in {"idle", "segment", "tombstone"}
      <3>1. Copies(hist, chain, tomb.to, Len(hist))
        BY <2>1, <2>2 DEF ChainTrue
      <3> QED
        BY <1>1, <3>1
    <2>3. CASE retire.pc = "truncate"
      BY <1>1, <2>1, <2>3 DEF ChainTrue
    <2>4. CASE retire.pc = "survivors"
      <3>1. plane' = [open |-> TRUE, seq |-> tomb.to, hash |-> tomb.last]
        BY <2>1, <2>4 DEF Open, HeadOf, ChainTrue
      <3>2. tomb.to \in 0 .. Len(hist) /\ tomb.last = HashAt(hist, tomb.to)
        BY <1>0 DEF Truth, TombTrue
      <3> QED
        BY <3>1, <3>2 DEF PlaneTrue
    <2> QED
      BY <2>2, <2>3, <2>4 DEF FilesShaped
  <1> QED
    BY <1>2 DEF Truth, Open, files

\* The lines the plane writes are of its head, which is a place of the history.
LEMMA GrownTrue ==
    ASSUME Truth, plane.open, NEW key \in {AnchorKey, NoKey}, NEW as,
           Grown(anchors, as, HeadLine(key))
    PROVE  AnchorsTrue(hist, as)
  <1>1. CheckpointTrue(hist, HeadLine(key))
    BY DEF CheckpointTrue, HeadLine, Truth, PlaneTrue
  <1>2. \A i \in 1 .. Len(anchors) : CheckpointTrue(hist, anchors[i])
    BY DEF Truth, AnchorsTrue
  <1>3. ASSUME NEW i \in 1 .. Len(as) PROVE CheckpointTrue(hist, as[i])
    <2>1. CASE i \in 1 .. Len(anchors)
      BY <1>2, <2>1 DEF Grown, CheckpointTrue
    <2>2. CASE i \notin 1 .. Len(anchors)
      BY <1>1, <2>2 DEF Grown
    <2> QED
      BY <2>1, <2>2
  <1> QED
    BY <1>3 DEF AnchorsTrue, Grown, AreCheckpoints

LEMMA CrashTruth ==
    ASSUME FilesShaped, Truth, Crash
    PROVE  Truth'
  <1>1. PlaneTrue(hist, plane')
    BY DEF Crash, Closed, PlaneTrue
  <1>2. ~ torn' => ~ torn
    BY DEF Crash
  <1>3. ChainTrue(hist, chain, torn', tomb, retire)
    BY <1>2 DEF ChainTrue, Truth
  <1>4. AnchorsTrue(hist, anchors')
    <2>1. CASE anchors' = anchors
      BY <2>1 DEF Truth
    <2>2. CASE AnchorStops
      BY <2>2, AnchorGrows, GrownTrue DEF FilesShaped, Crash
    <2> QED
      BY <2>1, <2>2 DEF Crash
  <1>5. UNCHANGED <<chain, tomb, segments, retire, backup, restored, hist>>
    BY DEF Crash
  <1> QED
    BY <1>1, <1>3, <1>4, <1>5 DEF Truth

\* A row that is not numbered a second time is the next of the history.
LEMMA AppendTruth ==
    ASSUME FilesShaped, Recording, Truth, Honest', AppendRow
    PROVE  Truth'
  <1>0. Len(hist) \in Nat /\ IsSeq(hist) /\ WholeHistory(hist) /\ IsRec(rec)
    BY SeqFacts DEF Truth, WholeHistory, AreRows, FilesShaped
  <1>1. retire.pc = "idle" /\ plane.open /\ UNCHANGED <<anchors, tomb, segments, retire, backup, restored>>
    <2>1. mishap' = (mishap \/ retire.pc # "idle") /\ ~ mishap'
      BY DEF AppendRow, Honest
    <2> QED
      BY <2>1 DEF AppendRow, Recording
  <1>2. PICK row : row = NextRow(rec.kind, rec.ts)
    OBVIOUS
  <1>3. /\ row = Row(plane.seq + 1, rec.ts, rec.kind, plane.hash)
        /\ row.seq = plane.seq + 1 /\ row.hash = RowHash(row) /\ row.prev = plane.hash
    <2>1. plane.seq + 1 \in Nat
      BY DEF FilesShaped
    <2> QED
      BY <1>2, <2>1, RowIsRow DEF NextRow
  <1>4. \/ /\ chain' = IF torn THEN chain ELSE Append(chain, row)
           /\ hist' = Append(hist, row) /\ torn' = torn
           /\ plane' = plane \/ plane' = [open |-> TRUE, seq |-> row.seq, hash |-> row.hash]
        \/ torn' \in {torn, TRUE} /\ UNCHANGED <<chain, hist, plane>>
    BY <1>2, Zenon DEF AppendRow
  <1>5. CASE torn' \in {torn, TRUE} /\ UNCHANGED <<chain, hist, plane>>
    <2>1. ChainTrue(hist, chain, torn', tomb, retire)
      BY <1>5 DEF ChainTrue, Truth
    <2> QED
      BY <1>1, <1>5, <2>1 DEF Truth
  <1>6. CASE /\ chain' = IF torn THEN chain ELSE Append(chain, row)
             /\ hist' = Append(hist, row) /\ torn' = torn
             /\ plane' = plane \/ plane' = [open |-> TRUE, seq |-> row.seq, hash |-> row.hash]
    <2>0. /\ Len(hist') = Len(hist) + 1 /\ DOMAIN hist' = 1 .. Len(hist) + 1
          /\ \A i \in 1 .. Len(hist) : hist'[i] = hist[i]
          /\ hist'[Len(hist) + 1] = row
      BY <1>0, <1>6, AppendFacts
    <2>1. plane.seq \in 0 .. Len(hist) /\ plane.hash = HashAt(hist, plane.seq)
      BY <1>1 DEF Truth, PlaneTrue
    <2>2. plane.seq = Len(hist)
      <3>1. SUFFICES ASSUME plane.seq # Len(hist) PROVE FALSE
        OBVIOUS
      <3>2. /\ plane.seq + 1 \in 1 .. Len(hist) /\ plane.seq + 1 \in 1 .. Len(hist) + 1
            /\ Len(hist) + 1 \in 1 .. Len(hist) + 1 /\ plane.seq + 1 # Len(hist) + 1
        BY <1>0, <2>1, <3>1
      <3>3. hist[plane.seq + 1].seq = plane.seq + 1
        BY <1>0, <3>2 DEF WholeHistory
      <3>4. hist'[plane.seq + 1].seq = hist'[Len(hist) + 1].seq
        BY <1>3, <2>0, <3>2, <3>3
      <3>5. \A i, j \in DOMAIN hist' : hist'[i].seq = hist'[j].seq => i = j
        BY DEF Honest, NoSyncLost
      <3> QED
        BY <2>0, <3>2, <3>4, <3>5
    <2>3. row = Row(Len(hist) + 1, rec.ts, rec.kind, HashAt(hist, Len(hist)))
      BY <1>3, <2>1, <2>2
    <2>4. WholeHistory(hist')
      BY <1>0, <1>6, <2>3, WholeAppend
    <2>5. PlaneTrue(hist', plane')
      <3>1. CASE plane' = plane
        <4>1. PlaneTrue(Append(hist, row), plane)
          BY <1>0, PlaneAppend DEF Truth
        <4> QED
          BY <1>6, <3>1, <4>1
      <3>2. CASE plane' = [open |-> TRUE, seq |-> row.seq, hash |-> row.hash]
        <4>1. row.seq = Len(hist) + 1 /\ Len(hist) + 1 \in 0 .. Len(hist') /\ Len(hist) + 1 # 0
          BY <1>0, <1>3, <2>0, <2>2
        <4>2. row.hash = HashAt(hist', Len(hist) + 1)
          BY <2>0, <4>1 DEF HashAt
        <4> QED
          BY <3>2, <4>1, <4>2 DEF PlaneTrue
      <3> QED
        BY <1>6, <3>1, <3>2
    <2>6. ChainTrue(hist', chain', torn', tomb, retire)
      <3>1. ~ torn => Copies(hist', chain', tomb.to, Len(hist'))
        <4>1. ~ torn => Copies(hist, chain, tomb.to, Len(hist))
          BY <1>1 DEF Truth, ChainTrue
        <4>2. ~ torn => Copies(Append(hist, row), Append(chain, row), tomb.to, Len(hist) + 1)
          BY <1>0, <4>1, CopiesExtend
        <4> QED
          BY <1>6, <2>0, <4>2
      <3> QED
        BY <1>1, <1>6, <3>1 DEF ChainTrue
    <2>7. /\ TombTrue(Append(hist, row), tomb) /\ AnchorsTrue(Append(hist, row), anchors)
          /\ SegmentsTrue(Append(hist, row), segments, tomb, retire)
          /\ BackupTrue(Append(hist, row), backup, tomb, retire)
      BY <1>0, TombAppend, AnchorsAppend, SegmentsAppend, BackupAppend DEF Truth
    <2>8. RootTrue(Append(hist, row), restored)
      BY <1>0, PlaceableAppend DEF Truth, RootTrue
    <2> QED
      BY <1>1, <1>6, <2>4, <2>5, <2>6, <2>7, <2>8 DEF Truth
  <1> QED
    BY <1>4, <1>5, <1>6

LEMMA AnchorTruth ==
    ASSUME FilesShaped, Recording, Truth, WriteAnchor
    PROVE  Truth'
  <1>1. /\ anchors' = Written(HeadLine(AnchorKey)) \/ AnchorStops
        /\ UNCHANGED <<chain, torn, tomb, segments, plane, retire, backup, restored, hist>>
    BY DEF WriteAnchor
  <1>2. plane.open
    BY DEF WriteAnchor, Recording
  <1>3. AnchorsTrue(hist, anchors')
    BY <1>1, <1>2, AnchorGrows, GrownTrue DEF FilesShaped
  <1> QED
    BY <1>1, <1>3 DEF Truth

LEMMA BeginRetireTruth ==
    ASSUME FilesShaped, Truth, Honest', NEW upto \in Nat, BeginRetire(upto)
    PROVE  Truth'
  <1>0. /\ IsSeq(hist) /\ Len(hist) \in Nat /\ tomb.to \in Nat /\ AreRows(chain)
        /\ UNCHANGED <<hist, tomb, chain, torn, plane, anchors, segments, backup, restored>>
    BY SeqFacts DEF FilesShaped, AreRows, BeginRetire, files
  <1>1. /\ ~ torn /\ Len(chain) \in Nat
        /\ upto - tomb.to \in Nat /\ upto - tomb.to >= 1 /\ upto - tomb.to < Len(chain)
    BY <1>0, CutInside DEF BeginRetire
  <1>2. retire.pc = "idle"
    BY DEF BeginRetire, NoRetirement
  <1>3. Copies(hist, chain, tomb.to, Len(hist))
    BY <1>1, <1>2 DEF Truth, ChainTrue
  <1>4. PICK c \in Nat : c = upto - tomb.to
    BY <1>1
  <1>5. /\ c <= Len(chain) /\ tomb.to + c = upto /\ upto > tomb.to /\ upto < Len(hist)
    <2>1. Len(chain) = Len(hist) - tomb.to
      BY <1>3 DEF Copies
    <2> QED
      BY <1>0, <1>1, <1>4, <2>1
  <1>6. /\ Copies(hist, SubSeq(chain, 1, c), tomb.to, upto)
        /\ Copies(hist, SubSeq(chain, c + 1, Len(chain)), upto, Len(hist))
    <2>1. /\ Copies(hist, SubSeq(chain, 1, c), tomb.to, tomb.to + c)
          /\ Copies(hist, SubSeq(chain, c + 1, Len(chain)), tomb.to + c, Len(hist))
      BY <1>0, <1>3, <1>5, CopiesCut
    <2> QED
      BY <1>5, <2>1
  <1>7. /\ retire'.pc = "segment" /\ retire'.upto = upto
        /\ retire'.out = SubSeq(chain, 1, c)
        /\ retire'.kept = SubSeq(chain, c + 1, Len(chain))
    BY <1>4 DEF BeginRetire
  <1>8. ChainTrue(hist, chain, torn, tomb, retire')
    BY <1>3, <1>5, <1>6, <1>7 DEF ChainTrue
  <1>9. SegmentsTrue(hist, segments, tomb, retire')
    BY <1>7 DEF SegmentsTrue, Truth
  <1>10. BackupTrue(hist, backup, tomb, retire')
    <2>1. mishap' = (mishap \/ rec.pc = "append" \/ backup.pc \in {"verified", "copying"})
          /\ ~ mishap'
      BY DEF BeginRetire, Honest
    <2>2. backup.pc \notin {"verified", "copying"}
      BY <2>1
    <2> QED
      BY <2>2 DEF BackupTrue, Truth
  <1> QED
    BY <1>0, <1>8, <1>9, <1>10 DEF Truth

\* No backup is being made while the retirement runs.
LEMMA NoBackupBeside ==
    ASSUME Truth, retire.pc # "idle", NEW t, NEW rt
    PROVE  BackupTrue(hist, backup, t, rt)
  BY DEF Truth, BackupTrue

LEMMA WriteSegmentTruth ==
    ASSUME FilesShaped, Truth, WriteSegment
    PROVE  Truth'
  <1>0. /\ IsSeq(hist) /\ Len(hist) \in Nat /\ tomb.to \in Nat
        /\ UNCHANGED <<hist, tomb, chain, torn, plane, anchors, backup, restored>>
    BY SeqFacts DEF FilesShaped, AreRows, WriteSegment
  <1>1. retire.pc = "segment" /\ IsRetirement(retire) /\ retire.upto \in Nat
    BY DEF WriteSegment, FilesShaped
  <1>2. /\ retire'.pc = "tombstone" /\ retire'.upto = retire.upto
        /\ retire'.out = retire.out /\ retire'.kept = retire.kept
    BY <1>1 DEF WriteSegment, IsRetirement
  <1>3. Copies(hist, retire.out, tomb.to, retire.upto)
    BY <1>1 DEF Truth, ChainTrue
  <1>4. ChainTrue(hist, chain, torn, tomb, retire')
    BY <1>1, <1>2 DEF Truth, ChainTrue
  <1>5. SegmentsTrue(hist, segments', tomb, retire')
    <2>1. PICK n, s : n = <<tomb.to + 1, retire.upto>> /\ s = [name |-> n, rows |-> retire.out]
      OBVIOUS
    <2>2. segments' = {x \in segments : x.name # n} \cup {s}
      BY <2>1 DEF WriteSegment
    <2>3. /\ s.name = n /\ s.rows = retire.out
          /\ n[1] = tomb.to + 1 /\ n[2] = retire.upto
      BY <2>1
    <2>4. SegmentTrue(hist, s)
      <3>1. tomb.to + 1 \in Nat /\ tomb.to + 1 >= 1 /\ (tomb.to + 1) - 1 = tomb.to
        BY <1>0
      <3> QED
        BY <1>1, <1>3, <2>3, <3>1 DEF SegmentTrue
    <2>5. ASSUME NEW i \in 1 .. tomb.to
          PROVE  \E x \in segments' : x.name[1] <= i /\ i <= x.name[2]
      <3>1. PICK x \in segments : x.name[1] <= i /\ i <= x.name[2]
        BY DEF Truth, SegmentsTrue
      <3>2. ~ (tomb.to + 1 <= i)
        BY <1>0
      <3>3. x.name # n
        BY <2>3, <3>1, <3>2
      <3> QED
        BY <2>2, <3>1, <3>3
    <2>6. \A x \in segments : SegmentTrue(hist, x)
      BY DEF Truth, SegmentsTrue
    <2> QED
      BY <1>2, <2>1, <2>2, <2>3, <2>4, <2>5, <2>6 DEF SegmentsTrue
  <1>6. BackupTrue(hist, backup, tomb, retire')
    BY <1>1, NoBackupBeside
  <1> QED
    BY <1>0, <1>4, <1>5, <1>6 DEF Truth

LEMMA WriteTombstoneTruth ==
    ASSUME FilesShaped, Truth, WriteTombstone
    PROVE  Truth'
  <1>0. /\ IsSeq(hist) /\ Len(hist) \in Nat /\ tomb.to \in Nat /\ WholeHistory(hist)
        /\ UNCHANGED <<hist, chain, torn, plane, anchors, segments, backup, restored>>
    BY SeqFacts DEF FilesShaped, AreRows, WriteTombstone, Truth
  <1>1. retire.pc = "tombstone" /\ IsRetirement(retire) /\ retire.upto \in Nat
    BY DEF WriteTombstone, FilesShaped
  <1>2. /\ retire'.pc = "truncate" /\ retire'.kept = retire.kept
    BY <1>1 DEF WriteTombstone, IsRetirement
  <1>3. /\ Copies(hist, retire.out, tomb.to, retire.upto)
        /\ Copies(hist, retire.kept, retire.upto, Len(hist))
        /\ Copies(hist, chain, tomb.to, Len(hist))
        /\ retire.upto > tomb.to /\ retire.upto < Len(hist)
    BY <1>1 DEF Truth, ChainTrue
  <1>4. /\ tomb'.to = retire.upto /\ tomb'.from = tomb.to + 1
        /\ tomb'.last = LastOf(retire.out).hash /\ tomb'.file = retire.out
    BY DEF WriteTombstone
  <1>5. retire.out # <<>> /\ LastOf(retire.out) = hist[retire.upto] /\ chain # <<>>
    BY <1>0, <1>3, CopiesLast
  <1>6. TombTrue(hist, tomb')
    <2>1. tomb'.last = HashAt(hist, tomb'.to)
      BY <1>0, <1>1, <1>3, <1>4, <1>5 DEF HashAt
    <2>2. /\ tomb.to + 1 \in Nat /\ tomb.to + 1 >= 1 /\ (tomb.to + 1) - 1 = tomb.to
          /\ retire.upto <= Len(hist)
      BY <1>0, <1>1, <1>3
    <2> QED
      BY <1>1, <1>3, <1>4, <1>5, <2>1, <2>2 DEF TombTrue
  <1>7. ChainTrue(hist, chain, torn, tomb', retire')
    BY <1>0, <1>2, <1>3, <1>4, <1>5 DEF ChainTrue
  <1>8. SegmentsTrue(hist, segments, tomb', retire')
    <2>1. PICK s \in segments : s.name = <<tomb.to + 1, retire.upto>>
      BY <1>1 DEF Truth, SegmentsTrue
    <2>2. s.name[1] = tomb.to + 1 /\ s.name[2] = retire.upto
      BY <2>1
    <2>3. ASSUME NEW i \in 1 .. retire.upto
          PROVE  \E x \in segments : x.name[1] <= i /\ i <= x.name[2]
      <3>1. CASE i \in 1 .. tomb.to
        BY <3>1 DEF Truth, SegmentsTrue
      <3>2. CASE i \notin 1 .. tomb.to
        <4>1. tomb.to + 1 <= i /\ i <= retire.upto
          BY <1>0, <1>1, <3>2
        <4> QED
          BY <2>2, <4>1
      <3> QED
        BY <3>1, <3>2
    <2> QED
      BY <1>2, <1>4, <2>3 DEF SegmentsTrue, Truth
  <1>9. BackupTrue(hist, backup, tomb', retire')
    BY <1>1, NoBackupBeside
  <1> QED
    BY <1>0, <1>6, <1>7, <1>8, <1>9 DEF Truth

LEMMA RewriteTruth ==
    ASSUME FilesShaped, Truth, TruncateChain \/ WriteSurvivors
    PROVE  Truth'
  <1>0. UNCHANGED <<hist, tomb, plane, anchors, segments, backup, restored>>
    BY DEF TruncateChain, WriteSurvivors
  <1>1. retire.pc \in {"truncate", "survivors"} /\ IsRetirement(retire)
    BY DEF FilesShaped, TruncateChain, WriteSurvivors
  <1>2. Copies(hist, retire.kept, tomb.to, Len(hist))
    BY <1>1 DEF Truth, ChainTrue
  <1>3. ChainTrue(hist, chain', torn', tomb, retire') /\ retire'.pc # "tombstone"
    <2>1. CASE TruncateChain
      <3>1. retire'.pc = "survivors" /\ retire'.kept = retire.kept /\ chain' = <<>>
        BY <1>1, <2>1 DEF TruncateChain, IsRetirement
      <3> QED
        BY <1>2, <3>1 DEF ChainTrue
    <2>2. CASE WriteSurvivors
      <3>1. retire'.pc = "idle" /\ chain' = retire.kept
        BY <2>2 DEF WriteSurvivors, NoRetirement
      <3> QED
        BY <1>2, <3>1 DEF ChainTrue
    <2> QED
      BY <2>1, <2>2
  <1>4. SegmentsTrue(hist, segments, tomb, retire')
    BY <1>3 DEF SegmentsTrue, Truth
  <1>5. BackupTrue(hist, backup, tomb, retire')
    BY <1>1, NoBackupBeside
  <1> QED
    BY <1>0, <1>3, <1>4, <1>5 DEF Truth

LEMMA RetireCrashTruth ==
    ASSUME FilesShaped, Truth, Honest', RetireCrash
    PROVE  Truth'
  <1>0. UNCHANGED <<hist, tomb, chain, torn, plane, anchors, segments, backup, restored>>
    BY DEF RetireCrash, files
  <1>1. retire.pc \in {"segment", "tombstone"}
    <2>1. mishap' = (mishap \/ retire.pc \in {"truncate", "survivors"}) /\ ~ mishap'
          /\ retire.pc # "idle"
      BY DEF RetireCrash, Honest
    <2> QED
      BY <2>1 DEF FilesShaped
  <1>2. retire'.pc = "idle"
    BY DEF RetireCrash, NoRetirement
  <1>3. ChainTrue(hist, chain, torn, tomb, retire')
    BY <1>1, <1>2 DEF ChainTrue, Truth
  <1>4. SegmentsTrue(hist, segments, tomb, retire')
    BY <1>2 DEF SegmentsTrue, Truth
  <1>5. BackupTrue(hist, backup, tomb, retire')
    BY <1>1, NoBackupBeside
  <1> QED
    BY <1>0, <1>3, <1>4, <1>5 DEF Truth

LEMMA BackupVerifyTruth ==
    ASSUME IsBackup(backup), Truth, Honest', NEW withKey, BackupVerify(withKey)
    PROVE  Truth'
  <1>1. UNCHANGED <<hist, tomb, chain, torn, plane, anchors, segments, retire, restored>>
    BY DEF BackupVerify, files
  <1>2. backup'.pc = "verified"
    BY DEF BackupVerify, IsBackup
  <1>3. retire.pc = "idle"
    <2>1. mishap' = (mishap \/ retire.pc # "idle") /\ ~ mishap'
      BY DEF BackupVerify, Honest
    <2> QED
      BY <2>1
  <1>4. BackupTrue(hist, backup', tomb, retire)
    BY <1>2, <1>3 DEF BackupTrue
  <1> QED
    BY <1>1, <1>4 DEF Truth

\* The hashes in the state log are hashes of the history.
LEMMA StateRecorded ==
    ASSUME FilesShaped, BlockingTrail
    PROVE  \A x \in state : \E i \in 1 .. Len(hist) : hist[i].hash = x
  <1>1. DOMAIN hist = 1 .. Len(hist)
    BY SeqFacts DEF FilesShaped, AreRows
  <1> QED
    BY <1>1 DEF BlockingTrail, RowsOf

LEMMA CopyStateTruth ==
    ASSUME FilesShaped, BlockingTrail, IsBackup(backup), Truth, CopyState
    PROVE  Truth'
  <1>1. UNCHANGED <<hist, tomb, chain, torn, plane, anchors, segments, retire, restored>>
    BY DEF CopyState, files
  <1>2. /\ backup'.pc = "copying" /\ backup'.state = state
        /\ backup'.left = {"chain", "anchors", "tomb"} /\ backup.pc = "verified"
    BY DEF CopyState, IsBackup
  <1>3. retire.pc = "idle"
    BY <1>2 DEF Truth, BackupTrue
  <1>4. Copying(hist, backup', tomb)
    BY <1>2, StateRecorded DEF Copying
  <1>5. BackupTrue(hist, backup', tomb, retire)
    BY <1>2, <1>3, <1>4 DEF BackupTrue
  <1> QED
    BY <1>1, <1>5 DEF Truth

LEMMA CopyFileTruth ==
    ASSUME FilesShaped, Recording, IsBackup(backup), Truth,
           NEW f \in {"chain", "anchors", "tomb"}, CopyFile(f)
    PROVE  Truth'
  <1>1. UNCHANGED <<hist, tomb, chain, torn, plane, anchors, segments, retire, restored>>
    BY DEF CopyFile, files
  <1>2. PICK cut \in BOOLEAN :
           /\ backup'.pc = "copying" /\ backup'.state = backup.state
           /\ backup'.left = backup.left \ {f}
           /\ backup'.chain = (IF f = "chain" THEN chain ELSE backup.chain)
           /\ backup'.torn = (IF f = "chain" THEN torn \/ cut ELSE backup.torn)
           /\ cut /\ f = "anchors" => rec.pc = "anchor"
           /\ backup'.anchors = (IF f # "anchors" THEN backup.anchors
                                 ELSE IF cut THEN Written(HeadLine(NoKey)) ELSE anchors)
           /\ backup'.tomb = (IF f = "tomb" THEN tomb ELSE backup.tomb)
    BY DEF CopyFile, IsBackup
  <1>3. retire.pc = "idle" /\ Copying(hist, backup, tomb)
    BY DEF Truth, BackupTrue, CopyFile
  <1>4. Copying(hist, backup', tomb)
    <2>1. "tomb" \notin backup'.left => backup'.tomb = tomb
      BY <1>2, <1>3 DEF Copying
    <2>2. "anchors" \notin backup'.left =>
             \A i \in DOMAIN backup'.anchors : backup'.anchors[i].seq \in 0 .. Len(hist)
      <3>1. ASSUME NEW as, AnchorsTrue(hist, as)
            PROVE  \A i \in DOMAIN as : as[i].seq \in 0 .. Len(hist)
        BY <3>1, SeqFacts DEF AnchorsTrue, CheckpointTrue
      <3>2. AnchorsTrue(hist, anchors)
        BY DEF Truth
      <3>3. rec.pc = "anchor" => AnchorsTrue(hist, Written(HeadLine(NoKey)))
        <4>1. IsCheckpoint(HeadLine(NoKey)) /\ AreCheckpoints(anchors)
          BY DEF IsCheckpoint, HeadLine, FilesShaped
        <4>2. Grown(anchors, Written(HeadLine(NoKey)), HeadLine(NoKey))
          BY <4>1, WrittenGrows
        <4> QED
          BY <4>2, GrownTrue DEF Recording
      <3>4. CASE f = "anchors"
        <4>1. AnchorsTrue(hist, backup'.anchors)
          BY <1>2, <3>2, <3>3, <3>4
        <4> QED
          BY <3>1, <4>1
      <3>5. CASE f # "anchors"
        BY <1>2, <1>3, <3>5 DEF Copying
      <3> QED
        BY <3>4, <3>5
    <2>3. "chain" \notin backup'.left /\ ~ backup'.torn =>
             \E m \in Nat : /\ Copies(hist, backup'.chain, tomb.to, m)
                            /\ \A x \in backup'.state : \E i \in 1 .. m : hist[i].hash = x
      <3>1. CASE f = "chain"
        <4>1. ~ backup'.torn => ~ torn
          BY <1>2, <3>1
        <4>2. ~ torn => Copies(hist, chain, tomb.to, Len(hist))
          BY <1>3 DEF Truth, ChainTrue
        <4>3. Len(hist) \in Nat /\ \A x \in backup.state : \E i \in 1 .. Len(hist) : hist[i].hash = x
          BY <1>3, SeqFacts DEF Copying, FilesShaped, AreRows
        <4> QED
          BY <1>2, <3>1, <4>1, <4>2, <4>3
      <3>2. CASE f # "chain"
        BY <1>2, <1>3, <3>2 DEF Copying
      <3> QED
        BY <3>1, <3>2
    <2> QED
      BY <1>2, <1>3, <2>1, <2>2, <2>3 DEF Copying
  <1>5. BackupTrue(hist, backup', tomb, retire)
    BY <1>2, <1>3, <1>4 DEF BackupTrue
  <1> QED
    BY <1>1, <1>5 DEF Truth

\* The end of a copy of the history is the hash at its place.
LEMMA EndOfCopy ==
    ASSUME NEW h, WholeHistory(h), NEW t, TombTrue(h, t), NEW s, NEW m, Copies(h, s, t.to, m)
    PROVE  /\ s # <<>> => m \in 1 .. Len(h) /\ EndOf(s) = HashAt(h, m) /\ LastOf(s).seq = m
           /\ s = <<>> => m = t.to /\ EndOf(s) = HashAt(h, 0)
  <1>1. /\ m \in Nat /\ m <= Len(h) /\ t.to \in Nat
        /\ (s = <<>> => t.to = m) /\ (s # <<>> => t.to < m /\ LastOf(s) = h[m])
    BY CopiesLast
  <1>2. s # <<>> => m \in 1 .. Len(h) /\ m # 0
    <2>1. Len(h) \in Nat
      BY SeqFacts DEF WholeHistory, AreRows
    <2> QED
      BY <1>1, <2>1
  <1>3. s # <<>> => LastOf(s).seq = m /\ EndOf(s) = HashAt(h, m)
    BY <1>1, <1>2 DEF WholeHistory, EndOf, HashAt
  <1> QED
    BY <1>1, <1>2, <1>3 DEF EndOf, HashAt

LEMMA ManifestTruth ==
    ASSUME FilesShaped, IsBackup(backup), Truth, WriteManifest
    PROVE  Truth'
  <1>0. /\ Len(hist) \in Nat /\ WholeHistory(hist) /\ TombTrue(hist, tomb)
        /\ UNCHANGED <<hist, tomb, chain, torn, plane, anchors, segments, retire, restored>>
    BY SeqFacts DEF WriteManifest, files, Truth, WholeHistory, AreRows
  <1>1. /\ backup'.pc = "taken" /\ backup'.head = EndOf(chain)
        /\ backup'.state = backup.state /\ backup'.chain = backup.chain
        /\ backup'.torn = backup.torn /\ backup'.anchors = backup.anchors
        /\ backup'.tomb = backup.tomb
    BY DEF WriteManifest, IsBackup, EndOf
  <1>2. retire.pc = "idle" /\ Copying(hist, backup, tomb) /\ backup.left = {} /\ ~ torn
    BY DEF Truth, BackupTrue, WriteManifest
  <1>3. Copies(hist, chain, tomb.to, Len(hist))
    BY <1>2 DEF Truth, ChainTrue
  <1>4. EndOf(chain) = HashAt(hist, Len(hist))
    <2>1. chain = <<>> => Len(hist) = 0
      <3>1. chain = <<>> => Len(hist) = tomb.to
        BY <1>0, <1>3, EndOfCopy
      <3> QED
        BY <1>0, <3>1 DEF TombTrue
    <2> QED
      BY <1>0, <1>3, <2>1, EndOfCopy
  <1>5. ASSUME ~ backup.torn, EndOf(chain) = EndOf(backup.chain)
        PROVE  Placeable(hist, backup)
    <2>1. PICK m \in Nat : /\ Copies(hist, backup.chain, tomb.to, m)
                           /\ \A x \in backup.state : \E i \in 1 .. m : hist[i].hash = x
      BY <1>2, <1>5 DEF Copying
    <2>2. /\ backup.tomb = tomb
          /\ \A i \in DOMAIN backup.anchors : backup.anchors[i].seq \in 0 .. Len(hist)
      BY <1>2 DEF Copying
    <2>3. /\ 0 \in 0 .. Len(hist) /\ Len(hist) \in 0 .. Len(hist)
          /\ \A k \in 1 .. Len(hist) : k \in 0 .. Len(hist)
      BY <1>0
    <2>7. /\ (backup.chain # <<>> => /\ m \in 1 .. Len(hist)
                                     /\ EndOf(backup.chain) = HashAt(hist, m)
                                     /\ LastOf(backup.chain).seq = m)
          /\ (backup.chain = <<>> => EndOf(backup.chain) = HashAt(hist, 0))
      <3>1. Copies(hist, backup.chain, tomb.to, m)
        BY <2>1
      <3>2. WholeHistory(hist) /\ TombTrue(hist, tomb)
        BY <1>0
      <3> QED
        BY <3>1, <3>2, EndOfCopy, Zenon
    <2>4. HeadSeq(backup.chain) = Len(hist)
      <3>1. CASE backup.chain = <<>>
        <4>0. EndOf(backup.chain) = HashAt(hist, 0)
          BY <2>7, <3>1
        <4>1. HashAt(hist, 0) = HashAt(hist, Len(hist))
          BY <1>4, <1>5, <4>0
        <4>2. Len(hist) = 0
          BY <1>0, <2>3, <4>1, HashAtDiffers
        <4> QED
          BY <3>1, <4>2 DEF HeadSeq
      <3>2. CASE backup.chain # <<>>
        <4>1. /\ m \in 1 .. Len(hist) /\ LastOf(backup.chain).seq = m
              /\ EndOf(backup.chain) = HashAt(hist, m)
          BY <2>7, <3>2
        <4>2. m = Len(hist)
          <5>1. HashAt(hist, m) = HashAt(hist, Len(hist)) /\ m \in 0 .. Len(hist)
            BY <1>4, <1>5, <2>3, <4>1
          <5> QED
            BY <1>0, <2>3, <5>1, HashAtDiffers
        <4> QED
          BY <3>2, <4>1, <4>2 DEF HeadSeq
      <3> QED
        BY <3>1, <3>2
    <2>5. Intact(backup.chain, backup.tomb, backup.anchors)
      <3>1. Linked(backup.chain, tomb)
        BY <1>0, <2>1, CopiesLinked DEF TombTrue
      <3>2. NotTruncated(backup.chain, backup.anchors)
        BY <1>0, <2>2, <2>4 DEF NotTruncated
      <3> QED
        BY <2>2, <3>1, <3>2 DEF Intact
    <2>6. ASSUME NEW x \in backup.state
          PROVE  \E r \in RowsOf(hist) :
                     r.hash = x /\ (r \in RowsOf(backup.chain) \/ r.seq <= backup.tomb.to)
      <3>1. PICK i \in 1 .. m : hist[i].hash = x
        BY <2>1
      <3>2. m <= Len(hist) /\ tomb.to \in Nat
        BY <2>1 DEF Copies
      <3>3. i \in 1 .. Len(hist) /\ hist[i].seq = i
        <4>1. i \in 1 .. Len(hist)
          BY <1>0, <3>2
        <4> QED
          BY <1>0, <4>1 DEF WholeHistory
      <3>4. hist[i] \in RowsOf(hist)
        BY <1>0, <3>3, SeqFacts DEF RowsOf, WholeHistory, AreRows
      <3>5. CASE i <= tomb.to
        BY <2>2, <3>1, <3>3, <3>4, <3>5
      <3>6. CASE ~ (i <= tomb.to)
        <4>1. i \in tomb.to + 1 .. m
          BY <3>2, <3>6
        <4>2. hist[i] \in RowsOf(backup.chain)
          BY <2>1, <4>1, CopiesRows
        <4> QED
          BY <3>1, <3>4, <4>2
      <3> QED
        BY <3>5, <3>6
    <2> QED
      BY <2>5, <2>6 DEF Placeable
  <1>6. BackupTrue(hist, backup', tomb, retire)
    <2>1. Placeable(hist, backup) => Placeable(hist, backup')
      BY <1>1 DEF Placeable
    <2> QED
      BY <1>1, <1>5, <2>1 DEF BackupTrue
  <1> QED
    BY <1>0, <1>6 DEF Truth

LEMMA RestoreTruth ==
    ASSUME Truth, Restore
    PROVE  Truth'
  <1>1. UNCHANGED <<hist, tomb, chain, torn, plane, anchors, segments, retire, backup>>
    BY DEF Restore, files
  <1>2. Placeable(hist, backup)
    BY DEF Restore, Truth, BackupTrue, EndOf
  <1>3. /\ restored'.state = backup.state /\ restored'.chain = backup.chain
        /\ restored'.anchors = backup.anchors /\ restored'.tomb = backup.tomb
    BY DEF Restore
  <1>4. RootTrue(hist, restored')
    BY <1>2, <1>3 DEF RootTrue, Placeable
  <1> QED
    BY <1>1, <1>4 DEF Truth

LEMMA HonestTruthStep ==
    ASSUME FilesShaped, Recording, BlockingTrail, HonestTruth, [ChainNext]_chainVars
    PROVE  HonestTruth'
  <1>0. IsBackup(backup)
    BY DEF HonestTruth
  <1>1. IsBackup(backup')
    <2>1. CASE backup' = backup
      BY <1>0, <2>1
    <2>3. CASE CopyState
      BY <1>0, <2>3 DEF CopyState, IsBackup
    <2>4. ASSUME NEW f, CopyFile(f) PROVE IsBackup(backup')
      BY <1>0, <2>4 DEF CopyFile, IsBackup
    <2>5. CASE WriteManifest
      BY <1>0, <2>5 DEF WriteManifest, IsBackup
    <2>6. ASSUME NEW w, BackupVerify(w) PROVE IsBackup(backup')
      BY <1>0, <2>6 DEF BackupVerify, IsBackup
    <2>7. CASE Edit
      BY <1>0, <2>7 DEF Edit, IsBackup
    <2> QED
      BY <2>1, <2>3, <2>4, <2>5, <2>6, <2>7 DEF ChainNext, RecordEvent, RetentionCmd,
         BackupCmd, RestoreCmd, chainVars, Tick, Open, ShipBlocking, AppendRow, WriteAnchor,
         ShipFailSafe, CommitState, Crash, BeginRetire, WriteSegment, WriteTombstone,
         TruncateChain, WriteSurvivors, RetireCrash, Restore
  <1>2. SUFFICES ASSUME Honest' PROVE Truth'
    BY <1>1 DEF HonestTruth
  <1>3. Truth
    BY <1>2, HonestBefore DEF HonestTruth
  <1>4. CASE UNCHANGED <<files, plane, retire, backup, restored, hist>>
    BY <1>3, <1>4 DEF Truth, files
  <1>5. CASE Open
    BY <1>3, <1>5, OpenTruth
  <1>6. CASE AppendRow
    BY <1>2, <1>3, <1>6, AppendTruth
  <1>7. CASE WriteAnchor
    BY <1>3, <1>7, AnchorTruth
  <1>8. CASE Crash
    BY <1>3, <1>8, CrashTruth
  <1>9. ASSUME NEW n \in 1 .. MaxRows, BeginRetire(n) PROVE Truth'
    <2>1. n \in Nat
      BY BoundsAssumption
    <2> QED
      BY <1>2, <1>3, <1>9, <2>1, BeginRetireTruth
  <1>10. CASE WriteSegment
    BY <1>3, <1>10, WriteSegmentTruth
  <1>11. CASE WriteTombstone
    BY <1>3, <1>11, WriteTombstoneTruth
  <1>12. CASE TruncateChain \/ WriteSurvivors
    BY <1>3, <1>12, RewriteTruth
  <1>13. CASE RetireCrash
    BY <1>2, <1>3, <1>13, RetireCrashTruth
  <1>14. ASSUME NEW w \in BOOLEAN, BackupVerify(w) PROVE Truth'
    BY <1>0, <1>2, <1>3, <1>14, BackupVerifyTruth
  <1>15. CASE CopyState
    BY <1>0, <1>3, <1>15, CopyStateTruth
  <1>16. ASSUME NEW f \in {"chain", "anchors", "tomb"}, CopyFile(f) PROVE Truth'
    BY <1>0, <1>3, <1>16, CopyFileTruth
  <1>17. CASE WriteManifest
    BY <1>0, <1>3, <1>17, ManifestTruth
  <1>18. CASE Restore
    BY <1>3, <1>18, RestoreTruth
  <1>19. CASE Edit
    BY <1>2, <1>19 DEF Edit, Honest
  <1>20. CASE Tick \/ (\E k \in Kinds : ShipBlocking(k)) \/ ShipFailSafe \/ CommitState
    BY <1>4, <1>20 DEF Tick, ShipBlocking, ShipFailSafe, CommitState
  <1>21. CASE UNCHANGED chainVars
    BY <1>4, <1>21 DEF chainVars
  <1> QED
    BY <1>5, <1>6, <1>7, <1>8, <1>9, <1>10, <1>11, <1>12, <1>13, <1>14, <1>15, <1>16,
       <1>17, <1>18, <1>19, <1>20, <1>21
       DEF ChainNext, RecordEvent, RetentionCmd, BackupCmd, RestoreCmd

\* An untouched chain verifies, nothing of it is lost, and the archive fits.
LEMMA TruthVerifies ==
    ASSUME FilesShaped, HonestTruth
    PROVE  HonestVerifies
  <1> SUFFICES ASSUME ~ edited, ~ mishap, ~ torn, AnchorsLegible, retire.pc = "idle",
                      NoSyncLost
               PROVE  /\ IntactAnchored(chain, tomb, anchors)
                      /\ RowsOf(hist) = (UNION {RowsOf(s.rows) : s \in segments})
                                           \cup RowsOf(chain)
                      /\ tomb # NoTomb => SegmentProblems(tomb) = {}
    BY DEF HonestVerifies
  <1>1. Truth
    BY DEF HonestTruth, Honest
  <1>2. /\ Len(hist) \in Nat /\ WholeHistory(hist) /\ TombTrue(hist, tomb)
        /\ DOMAIN hist = 1 .. Len(hist) /\ tomb.to \in Nat
    BY <1>1, SeqFacts DEF Truth, WholeHistory, AreRows, TombTrue
  <1>3. Copies(hist, chain, tomb.to, Len(hist))
    BY <1>1 DEF Truth, ChainTrue
  <1>4. RowsOf(chain) = {hist[i] : i \in tomb.to + 1 .. Len(hist)}
    BY <1>3, CopiesRows
  <1>5. IntactAnchored(chain, tomb, anchors)
    <2>1. Linked(chain, tomb)
      BY <1>2, <1>3, CopiesLinked DEF TombTrue
    <2>2. HeadSeq(chain) = Len(hist)
      <3>1. /\ (chain # <<>> => LastOf(chain).seq = Len(hist))
            /\ (chain = <<>> => Len(hist) = tomb.to)
        BY <1>2, <1>3, EndOfCopy
      <3> QED
        BY <1>2, <3>1 DEF HeadSeq, TombTrue
    <2>3. \A i \in DOMAIN anchors : CheckpointTrue(hist, anchors[i])
      BY <1>1, SeqFacts DEF Truth, AnchorsTrue
    <2>4. NotTruncated(chain, anchors) /\ Genuine(anchors)
      BY <1>2, <2>2, <2>3 DEF NotTruncated, Genuine, CheckpointTrue, AnchorsLegible
    <2>5. ASSUME NEW cp, CheckpointTrue(hist, cp) PROVE AnchorAgrees(cp, chain, tomb)
      <3>1. cp.seq \in 0 .. Len(hist) /\ cp.hash = HashAt(hist, cp.seq)
        BY <2>5 DEF CheckpointTrue
      <3>2. CASE cp.seq = tomb.to
        BY <1>2, <3>1, <3>2 DEF AnchorAgrees, TombTrue
      <3>3. CASE cp.seq > tomb.to
        <4>1. cp.seq \in tomb.to + 1 .. Len(hist) /\ cp.seq \in 1 .. Len(hist) /\ cp.seq # 0
          BY <1>2, <3>1, <3>3
        <4>2. hist[cp.seq] \in RowsOf(chain)
          BY <1>4, <4>1
        <4>3. PICK j \in DOMAIN chain : chain[j] = hist[cp.seq]
          BY <4>2 DEF RowsOf
        <4>4. hist[cp.seq].seq = cp.seq /\ hist[cp.seq].hash = cp.hash
          BY <1>2, <3>1, <4>1 DEF WholeHistory, HashAt
        <4> QED
          BY <3>3, <4>3, <4>4 DEF AnchorAgrees
      <3>4. CASE cp.seq < tomb.to
        BY <3>4 DEF AnchorAgrees
      <3> QED
        BY <1>2, <3>1, <3>2, <3>3, <3>4
    <2> QED
      BY <2>1, <2>3, <2>4, <2>5 DEF IntactAnchored, Intact
  <1>6. RowsOf(hist) = (UNION {RowsOf(s.rows) : s \in segments}) \cup RowsOf(chain)
    <2>1. ASSUME NEW s \in segments
          PROVE  RowsOf(s.rows) = {hist[i] : i \in s.name[1] .. s.name[2]}
                 /\ s.name[1] \in Nat /\ s.name[1] >= 1 /\ s.name[2] \in Nat
                 /\ s.name[2] <= Len(hist)
      <3>1. SegmentTrue(hist, s)
        BY <1>1 DEF Truth, SegmentsTrue
      <3>2. Copies(hist, s.rows, s.name[1] - 1, s.name[2])
        BY <3>1 DEF SegmentTrue
      <3>3. RowsOf(s.rows) = {hist[i] : i \in (s.name[1] - 1) + 1 .. s.name[2]}
        BY <3>2, CopiesRows
      <3>4. (s.name[1] - 1) + 1 = s.name[1]
        BY <3>1 DEF SegmentTrue
      <3>5. s.name[2] <= Len(hist)
        BY <3>2 DEF Copies
      <3> QED
        BY <3>1, <3>3, <3>4, <3>5 DEF SegmentTrue
    <2>2. ASSUME NEW i \in 1 .. Len(hist)
          PROVE  hist[i] \in (UNION {RowsOf(s.rows) : s \in segments}) \cup RowsOf(chain)
      <3>1. CASE i \in 1 .. tomb.to
        <4>1. PICK s \in segments : s.name[1] <= i /\ i <= s.name[2]
          BY <1>1, <3>1 DEF Truth, SegmentsTrue
        <4>2. i \in s.name[1] .. s.name[2]
          BY <2>1, <4>1
        <4>3. hist[i] \in RowsOf(s.rows)
          BY <2>1, <4>2
        <4> QED
          BY <4>3
      <3>2. CASE i \notin 1 .. tomb.to
        <4>1. i \in tomb.to + 1 .. Len(hist)
          BY <1>2, <3>2
        <4> QED
          BY <1>4, <4>1
      <3> QED
        BY <3>1, <3>2
    <2>3. ASSUME NEW s \in segments, NEW r \in RowsOf(s.rows) PROVE r \in RowsOf(hist)
      <3>1. PICK i \in s.name[1] .. s.name[2] : r = hist[i]
        BY <2>1
      <3>2. i \in DOMAIN hist
        BY <1>2, <2>1
      <3> QED
        BY <3>1, <3>2 DEF RowsOf
    <2>4. ASSUME NEW r \in RowsOf(chain) PROVE r \in RowsOf(hist)
      <3>1. PICK i \in tomb.to + 1 .. Len(hist) : r = hist[i]
        BY <1>4
      <3>2. i \in DOMAIN hist
        BY <1>2
      <3> QED
        BY <3>1, <3>2 DEF RowsOf
    <2>5. \A r \in RowsOf(hist) : \E i \in 1 .. Len(hist) : r = hist[i]
      BY <1>2 DEF RowsOf
    <2> QED
      BY <2>2, <2>3, <2>4, <2>5
  <1>7. ASSUME tomb # NoTomb PROVE SegmentProblems(tomb) = {}
    <2>1. /\ tomb.from \in Nat /\ tomb.from >= 1 /\ tomb.file # <<>>
          /\ Copies(hist, tomb.file, tomb.from - 1, tomb.to)
      BY <1>2, <1>7 DEF TombTrue
    <2>2. ASSUME NEW s \in segments, s.name = <<tomb.from, tomb.to>> PROVE s.rows = tomb.file
      <3>1. Copies(hist, s.rows, s.name[1] - 1, s.name[2])
        BY <1>1 DEF Truth, SegmentsTrue, SegmentTrue
      <3>2. s.name[1] = tomb.from /\ s.name[2] = tomb.to
        BY <2>2
      <3>3. Copies(hist, s.rows, tomb.from - 1, tomb.to)
        BY <3>1, <3>2
      <3> QED
        BY <2>1, <3>3, CopiesUnique
    <2>3. ASSUME NEW i \in DOMAIN tomb.file
          PROVE  /\ tomb.file[i].seq = tomb.from + i - 1
                 /\ (i > 1 => tomb.file[i].prev = tomb.file[i - 1].hash)
                 /\ tomb.file[i].hash = RowHash(tomb.file[i])
      <3>1. PICK p \in Nat : p = tomb.from - 1
        BY <2>1
      <3>2. Copies(hist, tomb.file, p, tomb.to)
        BY <2>1, <3>1
      <3>3. i \in 1 .. Len(tomb.file) /\ Len(tomb.file) \in Nat
        BY <2>1, SeqFacts DEF Copies
      <3>4. /\ tomb.file[i].prev = (IF i = 1 THEN HashAt(hist, p) ELSE tomb.file[i - 1].hash)
            /\ tomb.file[i].hash = RowHash(tomb.file[i])
            /\ tomb.file[i].seq = p + i
        BY <1>2, <3>2, <3>3, CopiesChained
      <3>5. p + i = tomb.from + i - 1 /\ (i > 1 => i # 1)
        BY <2>1, <3>1, <3>3
      <3> QED
        BY <3>4, <3>5
    <2>4. LastOf(tomb.file).hash = tomb.last
      <3>1. LastOf(tomb.file) = hist[tomb.to] /\ tomb.from - 1 < tomb.to
        BY <2>1, CopiesLast
      <3>2. tomb.to # 0
        BY <1>2, <2>1, <3>1
      <3> QED
        BY <1>2, <3>1, <3>2 DEF TombTrue, HashAt
    <2>5. {s \in segments : s.name = <<tomb.from, tomb.to>> /\ s.rows # tomb.file} = {}
      BY <2>2
    <2>6. {i \in DOMAIN tomb.file : \/ tomb.file[i].seq # tomb.from + i - 1
                                    \/ i > 1 /\ tomb.file[i].prev # tomb.file[i - 1].hash
                                    \/ tomb.file[i].hash # RowHash(tomb.file[i])} = {}
      BY <2>3
    <2>7. {x \in {tomb.file} : x = <<>> \/ LastOf(x).hash # tomb.last} = {}
      BY <2>1, <2>4
    <2> QED
      BY <2>5, <2>6, <2>7 DEF SegmentProblems
  <1> QED
    BY <1>5, <1>6, <1>7

LEMMA TruthRestores ==
    ASSUME HonestTruth
    PROVE  RestoreSound
  BY DEF HonestTruth, Honest, Truth, RootTrue, Placeable, RestoreSound

LEMMA TruthAtFirst ==
    ASSUME ChainInit
    PROVE  HonestTruth /\ FilesShaped /\ Attested /\ Recording /\ BlockingTrail
  <1>1. /\ IsSeq(<<>>) /\ Len(<<>>) = 0 /\ AreRows(<<>>) /\ RowsOf(<<>>) = {}
        /\ \A h : IsSeq(h) => Copies(h, <<>>, 0, 0)
    <2>1. IsSeq(<<>>) /\ Len(<<>>) = 0 /\ DOMAIN <<>> = {}
      BY EmptySeq
    <2>2. AreRows(<<>>) /\ RowsOf(<<>>) = {}
      BY <2>1 DEF AreRows, RowsOf
    <2>3. \A h : IsSeq(h) => Copies(h, <<>>, 0, 0)
      BY <2>1, SeqFacts DEF Copies
    <2> QED
      BY <2>1, <2>2, <2>3
  <1>2. FilesShaped
    BY <1>1 DEF ChainInit, FilesShaped, AreCheckpoints, NoTomb, Closed, NotRecording, NoRetirement, IsRec,
       IsRetirement
  <1>3. Attested
    BY DEF ChainInit, Attested
  <1>4. Recording
    <2>1. rec.pc = "idle" /\ DOMAIN shipped = DOMAIN SinkList
      BY DEF ChainInit, NotRecording
    <2> QED
      BY <2>1 DEF Recording
  <1>5. BlockingTrail
    BY <1>1 DEF ChainInit, BlockingTrail
  <1>6. HonestTruth
    <2>1. IsBackup(backup) /\ backup.pc = "none"
      BY DEF ChainInit, IsBackup, NoBackup
    <2>2. WholeHistory(hist)
      BY <1>1 DEF ChainInit, WholeHistory
    <2>3. TombTrue(hist, tomb) /\ tomb.to = 0
      BY <1>1 DEF ChainInit, TombTrue, NoTomb, HashAt
    <2>4. retire.pc = "idle" /\ ~ plane.open /\ ~ restored.placed
      BY DEF ChainInit, NoRetirement, Closed, NoRoot
    <2>5. Copies(hist, chain, tomb.to, Len(hist))
      BY <1>1, <2>3 DEF ChainInit
    <2>6. ChainTrue(hist, chain, torn, tomb, retire)
      BY <2>4, <2>5 DEF ChainTrue
    <2>7. PlaneTrue(hist, plane) /\ RootTrue(hist, restored)
      BY <2>4 DEF PlaneTrue, RootTrue
    <2>8. AnchorsTrue(hist, anchors)
      BY <1>1 DEF ChainInit, AnchorsTrue
    <2>9. SegmentsTrue(hist, segments, tomb, retire)
      BY <2>3, <2>4 DEF ChainInit, SegmentsTrue
    <2>10. BackupTrue(hist, backup, tomb, retire)
      BY <2>1 DEF BackupTrue
    <2> QED
      BY <2>1, <2>2, <2>3, <2>6, <2>7, <2>8, <2>9, <2>10 DEF HonestTruth, Truth
  <1> QED
    BY <1>2, <1>3, <1>4, <1>5, <1>6

\* Whatever is recorded, retired, backed up, restored, cut short or altered, and
\* in whatever order: audit verify with the key passes no chain in which an
\* attested row was lost or changed, a blocking sink has its evidence before the
\* chain and the state do, and a restore places a chain that covers its state.  An
\* untouched chain verifies with its archive as long as every line was written whole
\* and no retirement was cut short after its tombstone, two crashes after which the
\* code does not (chain.rs, evidence.rs, backup.rs; HonestVerifies).
THEOREM EvidenceIsSound == ChainSpec => []EvidenceSound
  <1> DEFINE Inv == FilesShaped /\ Attested /\ Recording /\ BlockingTrail /\ HonestTruth
  <1>1. ChainInit => Inv
    BY TruthAtFirst
  <1>2. Inv /\ [ChainNext]_chainVars => Inv'
    BY FilesShapedStep, AttestedStep, RecordingStep, HonestTruthStep
  <1>3. Inv => EvidenceSound
    BY AttestedEvident, TruthVerifies, TruthRestores DEF EvidenceSound
  <1> QED
    BY <1>1, <1>2, <1>3, PTL DEF ChainSpec
=============================================================================
