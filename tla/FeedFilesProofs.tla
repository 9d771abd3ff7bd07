-------------------------- MODULE FeedFilesProofs --------------------------
(***************************************************************************)
(* The feed and the acknowledgement ledger as files, for any mediators,    *)
(* cuts and bounds, with torn writes and failed syncs (contain.rs,         *)
(* dist.rs).                                                               *)
(*                                                                         *)
(* The gate looks at the ledger's file only, so that it is sound rests on  *)
(* every place an acknowledgement passes through: the wire, the memory of  *)
(* both planes, the file.  That a served feed is complete rests on what    *)
(* the file says when it opens at all, through every way to damage it;     *)
(* that no order takes another's place, on a command having in memory what *)
(* the file has.                                                           *)
(*                                                                         *)
(* A bundle carried by hand (bundle.rs) is bounded by its signature: the   *)
(* invariant is about what was signed, which no courier changes, and that  *)
(* what was in force at the time of the export was cut no earlier.         *)
(*                                                                         *)
(* What the estate says about itself (export.rs, broker.rs, assurance.rs): *)
(* a replay and a traversal are recursive functions, and what they compute *)
(* is shown by the least step at which it would be otherwise.              *)
(***************************************************************************)
EXTENDS FeedFiles, Bundles, Views, TLAPS, WellFoundedInduction

---------------------------------------------------------------------------
(* The acknowledgements.                                                   *)

AckTypes ==
    /\ logSeq \in Nat
    /\ reader.seq \in Nat
    /\ installed \in [FMediator -> Int]
    /\ ackFile \in [FMediator -> Int]
    /\ ackMem \in [Planes -> [FMediator -> Int]]
    /\ wire \subseteq [from : FMediator, seq : Int]

\* Nobody has been told of more than was installed.
WireTrue == \A a \in wire : a.seq <= installed[a.from]
LedgerTrue ==
    /\ \A m \in FMediator : Never <= installed[m]
    /\ \A m \in FMediator : ackFile[m] <= installed[m]
    /\ \A p \in Planes : \A m \in FMediator : ackMem[p][m] <= installed[m]

AckInv == AckTypes /\ WireTrue /\ LedgerTrue

\* A step that touches none of it.
LEMMA AckUntouched ==
    ASSUME AckInv, UNCHANGED <<ackFile, ackMem, installed, wire>>,
           logSeq' \in Nat, reader'.seq \in Nat
    PROVE  AckInv'
  BY DEF AckInv, AckTypes, WireTrue, LedgerTrue

\* A plane starts with the ledger on disk (serve, and serve --read-only).
LEMMA AckLoaded ==
    ASSUME AckInv, NEW p \in Planes, ackMem' = [ackMem EXCEPT ![p] = ackFile],
           UNCHANGED <<ackFile, installed, wire, logSeq>>, reader'.seq \in Nat
    PROVE  AckInv'
  BY DEF AckInv, AckTypes, WireTrue, LedgerTrue

\* A mediator installs a set and acknowledges what it was stamped with.
LEMMA AckInstall ==
    ASSUME AckInv, NEW m \in FMediator, NEW p \in Planes, InstallSet(m, p)
    PROVE  AckInv'
<1>1. Serves(p) \in Nat
  BY DEF AckInv, AckTypes, Serves
<1>2. /\ installed' \in [FMediator -> Int]
      /\ installed'[m] >= Serves(p)
      /\ \A n \in FMediator : installed'[n] >= installed[n]
  BY DEF AckInv, AckTypes, InstallSet, Serves
<1>3. wire' = wire \cup {[from |-> m, seq |-> Serves(p)]}
  BY DEF InstallSet
<1>4. UNCHANGED <<logSeq, reader, ackMem, ackFile>>
  BY DEF InstallSet
<1>5. wire' \subseteq [from : FMediator, seq : Int]
  BY <1>1, <1>3 DEF AckInv, AckTypes
<1>6. WireTrue'
  <2> SUFFICES ASSUME NEW a \in wire' PROVE a.seq <= installed'[a.from]
    BY DEF WireTrue
  <2>1. CASE a \in wire
    <3>1. a.from \in FMediator /\ a.seq \in Int /\ a.seq <= installed[a.from]
      BY <2>1 DEF AckInv, AckTypes, WireTrue
    <3> QED
      BY <3>1, <1>2 DEF AckInv, AckTypes
  <2>2. CASE a = [from |-> m, seq |-> Serves(p)]
    BY <2>2, <1>1, <1>2
  <2> QED
    BY <1>3, <2>1, <2>2
<1>7. LedgerTrue'
  BY <1>2, <1>4 DEF AckInv, AckTypes, LedgerTrue, Never
<1> QED
  BY <1>2, <1>4, <1>5, <1>6, <1>7 DEF AckInv, AckTypes

\* A plane records an acknowledgement and may save its ledger over the file.
LEMMA AckRecord ==
    ASSUME AckInv, NEW p \in Planes, NEW a \in wire, RecordSetAck(p, a)
    PROVE  AckInv'
<1> DEFINE L == Record(ackMem[p], a)
<1>1. a.from \in FMediator /\ a.seq \in Int /\ a.seq <= installed[a.from]
  BY DEF AckInv, AckTypes, WireTrue
<1>2. L \in [FMediator -> Int] /\ \A m \in FMediator : L[m] <= installed[m]
  BY <1>1 DEF AckInv, AckTypes, LedgerTrue, Record
<1>3. ackMem' = [ackMem EXCEPT ![p] = L]
  BY DEF RecordSetAck
<1> HIDE DEF L
<1>4. ackMem'[p] = L /\ ackMem' \in [Planes -> [FMediator -> Int]]
  BY <1>2, <1>3 DEF AckInv, AckTypes
<1>5. ackFile' = L \/ ackFile' = ackFile
  BY <1>4 DEF RecordSetAck
<1>6. UNCHANGED <<logSeq, reader, installed, wire>>
  BY DEF RecordSetAck
<1>7. AckTypes'
  BY <1>2, <1>4, <1>5, <1>6 DEF AckInv, AckTypes
<1>8. LedgerTrue'
  BY <1>2, <1>3, <1>5, <1>6 DEF AckInv, AckTypes, LedgerTrue
<1> QED
  BY <1>6, <1>7, <1>8 DEF AckInv, WireTrue

\* The operator removes a ledger that does not open: an empty one claims nothing.
LEMMA AckRemoved ==
    ASSUME AckInv, RemoveLedger
    PROVE  AckInv'
  BY DEF AckInv, AckTypes, WireTrue, LedgerTrue, RemoveLedger, Empty, Never

LEMMA AckStep ==
    ASSUME AckInv, [FilesNext]_fileVars
    PROVE  AckInv'
<1> USE DEF Planes
<1>1. CASE StartPlane
  BY <1>1, AckLoaded DEF StartPlane, AckInv, AckTypes
<1>2. ASSUME NEW c \in FCut, NEW ok \in BOOLEAN, PlaneCut(c, ok)
      PROVE  AckInv'
  BY <1>2, AckUntouched DEF PlaneCut, AckInv, AckTypes
<1>3. ASSUME NEW s, BeginCommand(s)
      PROVE  AckInv'
  BY <1>3, AckUntouched DEF BeginCommand, AckInv, AckTypes
<1>4. ASSUME NEW ok \in BOOLEAN, CommandAppend(ok)
      PROVE  AckInv'
  BY <1>4, AckUntouched DEF CommandAppend, AckInv, AckTypes
<1>5. ASSUME NEW expected \in MediatorSet, CommandOrders(expected)
      PROVE  AckInv'
  BY <1>5, AckUntouched DEF CommandOrders, AckInv, AckTypes
<1>6. CASE HolderDies
  BY <1>6, AckUntouched DEF HolderDies, ackVars, AckInv, AckTypes
<1>7. CASE StartReader
  <2>1. reader'.seq \in Nat
    BY <1>7 DEF StartReader, AckInv, AckTypes
  <2> QED
    BY <1>7, <2>1, AckLoaded DEF StartReader
<1>8. CASE RefreshReader
  <2>1. reader'.seq \in Nat
    BY <1>8 DEF RefreshReader, AckInv, AckTypes
  <2> QED
    BY <1>8, <2>1, AckUntouched DEF RefreshReader, AckInv, AckTypes
<1>9. CASE ReaderDies
  BY <1>9, AckUntouched DEF ReaderDies, NoReader, AckInv, AckTypes
<1>10. ASSUME NEW p \in Planes, TearLedger(p)
       PROVE  AckInv'
  BY <1>10, AckUntouched DEF TearLedger, NoReader, AckInv, AckTypes
<1>11. CASE UNCHANGED fileVars
  BY <1>11, AckUntouched DEF fileVars, ackVars, AckInv, AckTypes
<1> QED
  BY <1>1, <1>2, <1>3, <1>4, <1>5, <1>6, <1>7, <1>8, <1>9, <1>10, <1>11,
     AckInstall, AckRecord, AckRemoved DEF FilesNext

LEMMA AckInitial ==
    ASSUME FilesInit
    PROVE  AckInv
  BY DEF FilesInit, AckInv, AckTypes, WireTrue, LedgerTrue, NoReader, Empty, Never, Planes

\* The ledger's claims are true, so a gate that passes on them is right.
LEMMA AckGate ==
    ASSUME AckInv
    PROVE  GateSound
<1> SUFFICES ASSUME NEW expected \in SUBSET FMediator, NEW target \in 0 .. FMaxLog,
                    GatePasses(expected, target)
             PROVE  expected # {} /\ \A m \in expected : installed[m] >= target
  BY DEF GateSound
<1>1. expected # {} /\ \A m \in expected : ackFile[m] >= target
  BY DEF GatePasses, CaughtUp
<1>2. ASSUME NEW m \in expected
      PROVE  installed[m] >= target
  <2>1. m \in FMediator /\ target \in Int
    OBVIOUS
  <2>2. ackFile[m] \in Int /\ installed[m] \in Int /\ ackFile[m] <= installed[m]
    BY <2>1 DEF AckInv, AckTypes, LedgerTrue
  <2> QED
    BY <1>1, <2>1, <2>2
<1> QED
  BY <1>1, <1>2

---------------------------------------------------------------------------
(* The feed.                                                               *)

Lines ==
    [kind : {"row"}, seq : Int, cut : FCut, ended : BOOLEAN]
    \cup [kind : {"stub"}, ended : BOOLEAN] \cup [kind : {"junk"}, ended : BOOLEAN]

Opens(f) == \A i \in 1 .. Len(f) : f[i].kind = "row" /\ f[i].seq = i

FeedTypes ==
    /\ file \in Seq(Lines)
    /\ held \in Seq(Lines)
    /\ todo \in Seq(FCut)

\* A file that opens at all has every promised cut.
FileComplete == Opens(file) => promised \subseteq Cuts(file)
\* So has the memory of a plane.
PlaneComplete == holder = "plane" => promised \subseteq Cuts(held)

FeedInv == FeedTypes /\ FileComplete /\ PlaneComplete

LEMMA EmptySeqs == <<>> \in Seq(Lines) /\ <<>> \in Seq(FCut)
  OBVIOUS

LEMMA OpenedIsFile ==
    ASSUME NEW f, NEW g \in OpenFeed(f)
    PROVE  g = f /\ Opens(f)
  BY DEF OpenFeed, Opens

LEMMA CutsAppend ==
    ASSUME NEW s \in Seq(Lines), NEW l \in Lines
    PROVE  /\ Append(s, l) \in Seq(Lines)
           /\ Cuts(Append(s, l)) = Cuts(s) \cup {l.cut}
<1>1. /\ Append(s, l) \in Seq(Lines) /\ Len(s) \in Nat
      /\ Len(Append(s, l)) = Len(s) + 1
      /\ Append(s, l)[Len(s) + 1] = l
      /\ \A i \in 1 .. Len(s) : Append(s, l)[i] = s[i]
  OBVIOUS
<1>2. 1 .. Len(s) + 1 = (1 .. Len(s)) \cup {Len(s) + 1}
  BY <1>1
<1> QED
  BY <1>1, <1>2, Zenon DEF Cuts

\* Whatever a write leaves of a line: a file that opens afterwards opened before,
\* and the line is a row of its own.
LEMMA AppendOpens ==
    ASSUME NEW f \in Seq(Lines), NEW l \in Lines
    PROVE  /\ Append2(f, l) \in Seq(Lines)
           /\ Opens(Append2(f, l)) => Opens(f) /\ Append2(f, l) = Append(f, l)
<1>1. CASE f # <<>> /\ ~f[Len(f)].ended
  <2> DEFINE j == [Junk EXCEPT !.ended = l.ended]
  <2>1. l.ended \in BOOLEAN /\ j = [kind |-> "junk", ended |-> l.ended]
    BY DEF Lines, Junk
  <2>2. j \in Lines /\ j.kind = "junk"
    BY <2>1 DEF Lines
  <2>3. Append2(f, l) = [f EXCEPT ![Len(f)] = j]
    BY <1>1 DEF Append2
  <2>4. Len(f) \in 1 .. Len(f)
    BY <1>1
  <2> HIDE DEF j
  <2>5. /\ [f EXCEPT ![Len(f)] = j] \in Seq(Lines)
        /\ Len([f EXCEPT ![Len(f)] = j]) = Len(f)
        /\ [f EXCEPT ![Len(f)] = j][Len(f)] = j
    BY <2>2, <2>4
  <2>6. ~Opens(Append2(f, l))
    BY <2>2, <2>3, <2>4, <2>5 DEF Opens
  <2> QED
    BY <2>3, <2>5, <2>6
<1>2. CASE ~(f # <<>> /\ ~f[Len(f)].ended)
  <2>1. Append2(f, l) = Append(f, l)
    BY <1>2 DEF Append2
  <2>2. /\ Append(f, l) \in Seq(Lines) /\ Len(Append(f, l)) = Len(f) + 1
        /\ \A i \in 1 .. Len(f) : Append(f, l)[i] = f[i]
    OBVIOUS
  <2>3. Opens(Append(f, l)) => Opens(f)
    BY <2>2 DEF Opens
  <2> QED
    BY <2>1, <2>2, <2>3
<1> QED
  BY <1>1, <1>2

\* An append that succeeds, fails, stops inside the line or in front of its end
\* (contain.rs append and write_line).
LEMMA AppendKeeps ==
    ASSUME FeedInv, NEW c \in FCut, NEW ok \in BOOLEAN, AppendEntry(c, ok)
    PROVE  /\ file' \in Seq(Lines) /\ held' \in Seq(Lines)
           /\ FileComplete'
           /\ promised \subseteq Cuts(held) => promised' \subseteq Cuts(held')
<1> DEFINE n == Len(held) + 1
           r == Entry(n, c, TRUE)
           h == Entry(n, c, FALSE)
<1>1. n \in Int /\ r \in Lines /\ h \in Lines /\ Stub \in Lines /\ r.cut = c
  BY DEF FeedInv, FeedTypes, Lines, Entry, Stub
<1>2. ASSUME NEW l \in Lines, file' = Append2(file, l), Opens(file')
      PROVE  promised \cup {l.cut} \subseteq Cuts(file')
  <2>1. Opens(file) /\ file' = Append(file, l)
    BY <1>2, AppendOpens DEF FeedInv, FeedTypes
  <2> QED
    BY <2>1, CutsAppend DEF FeedInv, FeedTypes, FileComplete
<1>3. CASE ok
  <2>1. /\ file' = Append2(file, r) /\ held' = Append(held, r)
        /\ promised' = promised \cup {c}
    BY <1>3 DEF AppendEntry
  <2>2. file' \in Seq(Lines)
    BY <1>1, <2>1, AppendOpens DEF FeedInv, FeedTypes
  <2>3. held' \in Seq(Lines) /\ Cuts(held') = Cuts(held) \cup {c}
    BY <1>1, <2>1, CutsAppend DEF FeedInv, FeedTypes
  <2>4. FileComplete'
    BY <1>1, <1>2, <2>1 DEF FileComplete
  <2> QED
    BY <2>1, <2>2, <2>3, <2>4
<1>4. CASE ~ok
  <2>1. /\ file' = file \/ \E l \in {r, h, Stub} : file' = Append2(file, l)
        /\ UNCHANGED <<held, promised>>
    BY <1>4 DEF AppendEntry
  <2> HIDE DEF r, h
  <2>2. CASE file' = file
    BY <2>1, <2>2 DEF FeedInv, FeedTypes, FileComplete, Opens, Cuts
  <2>3. ASSUME NEW l \in {r, h, Stub}, file' = Append2(file, l)
        PROVE  file' \in Seq(Lines) /\ FileComplete'
    <3>1. l \in Lines
      BY <1>1, <2>3
    <3>2. file' \in Seq(Lines)
      BY <2>3, <3>1, AppendOpens DEF FeedInv, FeedTypes
    <3>3. FileComplete'
      BY <1>2, <2>1, <2>3, <3>1 DEF FileComplete
    <3> QED
      BY <3>2, <3>3
  <2> QED
    BY <2>1, <2>2, <2>3 DEF FeedInv, FeedTypes, Cuts
<1> QED
  BY <1>3, <1>4

\* Every step keeps the feed complete, and shows a complete feed to a plane that
\* opens it.
LEMMA FeedKept ==
    ASSUME FeedInv, [FilesNext]_fileVars
    PROVE  FeedInv' /\ (FilesNext => FeedStep)
<1>1. CASE StartPlane
  <2>1. held' = file /\ Opens(file)
    BY <1>1, OpenedIsFile DEF StartPlane
  <2>2. FeedInv'
    BY <1>1, <2>1 DEF StartPlane, FeedInv, FeedTypes, FileComplete, PlaneComplete, Opens, Cuts
  <2> QED
    BY <1>1, <2>2 DEF StartPlane, FeedInv, PlaneComplete, FeedStep
<1>2. ASSUME NEW c \in FCut, NEW ok \in BOOLEAN, PlaneCut(c, ok)
      PROVE  FeedInv' /\ FeedStep
  <2>1. /\ AppendEntry(c, ok) /\ holder = "plane"
        /\ UNCHANGED <<holder, todo, reader>>
    BY <1>2 DEF PlaneCut
  <2>2. promised \subseteq Cuts(held)
    BY <2>1 DEF FeedInv, PlaneComplete
  <2>3. /\ file' \in Seq(Lines) /\ held' \in Seq(Lines) /\ FileComplete'
        /\ promised' \subseteq Cuts(held')
    BY <2>1, <2>2, AppendKeeps
  <2> QED
    BY <2>1, <2>3 DEF FeedInv, FeedTypes, PlaneComplete, FeedStep
<1>3. ASSUME NEW s \in {<<c>> : c \in FCut} \cup {<<c, d>> : c, d \in FCut},
             BeginCommand(s)
      PROVE  FeedInv' /\ FeedStep
  <2>1. s \in Seq(FCut)
    <3>1. CASE s \in {<<c>> : c \in FCut}
      <4>1. PICK c \in FCut : s = <<c>>
        BY <3>1
      <4> QED
        BY <4>1
    <3>2. CASE s \in {<<c, d>> : c, d \in FCut}
      <4>1. PICK c \in FCut, d \in FCut : s = <<c, d>>
        BY <3>2
      <4> QED
        BY <4>1
    <3> QED
      BY <3>1, <3>2
  <2>2. CASE UNCHANGED <<holder, held, order, todo>>
    BY <1>3, <2>2 DEF BeginCommand, FeedInv, FeedTypes, FileComplete, PlaneComplete,
         Opens, Cuts, FeedStep
  <2>3. CASE /\ holder' = "command" /\ order' = s[1] /\ todo' = s
             /\ \E f \in OpenFeed(file) : held' = f
    <3>1. held' = file
      BY <2>3, OpenedIsFile
    <3> QED
      BY <1>3, <2>1, <2>3, <3>1 DEF BeginCommand, FeedInv, FeedTypes, FileComplete,
         PlaneComplete, Opens, Cuts, FeedStep
  <2> QED
    BY <1>3, <2>2, <2>3 DEF BeginCommand
<1>4. ASSUME NEW ok \in BOOLEAN, CommandAppend(ok)
      PROVE  FeedInv' /\ FeedStep
  <2>1. /\ AppendEntry(Head(todo), ok) /\ todo # <<>>
        /\ todo' = IF ok THEN Tail(todo) ELSE <<>>
        /\ holder' \in {"command", "none"} /\ UNCHANGED reader
    BY <1>4 DEF CommandAppend
  <2>2. Head(todo) \in FCut /\ todo' \in Seq(FCut)
    BY <2>1 DEF FeedInv, FeedTypes
  <2>3. file' \in Seq(Lines) /\ held' \in Seq(Lines) /\ FileComplete'
    BY <2>1, <2>2, AppendKeeps
  <2> QED
    BY <2>1, <2>2, <2>3 DEF FeedInv, FeedTypes, PlaneComplete, FeedStep
<1>5. CASE (\E expected \in MediatorSet : CommandOrders(expected)) \/ HolderDies
  <2>1. /\ UNCHANGED <<file, promised, reader>> /\ holder' = "none" /\ held' = <<>>
        /\ todo' = todo \/ todo' = <<>>
    BY <1>5 DEF CommandOrders, HolderDies, ackVars
  <2>2. FeedTypes'
    BY <2>1, EmptySeqs DEF FeedInv, FeedTypes
  <2>3. FileComplete'
    BY <2>1 DEF FeedInv, FileComplete, Opens, Cuts
  <2>4. PlaneComplete' /\ FeedStep
    BY <2>1 DEF FeedInv, PlaneComplete, Cuts, FeedStep
  <2> QED
    BY <2>2, <2>3, <2>4 DEF FeedInv
<1>6. CASE StartReader
  <2>1. Opens(file) /\ reader'.held = file
    BY <1>6, OpenedIsFile DEF StartReader
  <2> QED
    BY <1>6, <2>1 DEF StartReader, feedVars, FeedInv, FeedTypes, FileComplete,
       PlaneComplete, Opens, Cuts, FeedStep
<1>7. CASE RefreshReader \/ ReaderDies
  <2>1. /\ UNCHANGED <<file, holder, held, todo, promised>>
        /\ (reader'.up => reader.up)
    BY <1>7 DEF RefreshReader, ReaderDies, NoReader, feedVars
  <2> QED
    BY <2>1 DEF FeedInv, FeedTypes, FileComplete, PlaneComplete, Opens, Cuts, FeedStep
<1>8. ASSUME NEW m \in FMediator, NEW p \in Planes, InstallSet(m, p)
      PROVE  FeedInv' /\ FeedStep
  BY <1>8 DEF InstallSet, feedVars, FeedInv, FeedTypes, FileComplete,
     PlaneComplete, Opens, Cuts, FeedStep
<1>9. ASSUME NEW p \in Planes, NEW a \in wire, RecordSetAck(p, a)
      PROVE  FeedInv' /\ FeedStep
  BY <1>9 DEF RecordSetAck, FeedInv, FeedTypes, FileComplete,
     PlaneComplete, Opens, Cuts, FeedStep
<1>10. ASSUME NEW p \in Planes, TearLedger(p)
       PROVE  FeedInv' /\ FeedStep
  <2>1. /\ UNCHANGED <<file, promised, todo>>
        /\ \/ holder' = "none" /\ held' = <<>> /\ reader' = reader
           \/ holder' = holder /\ held' = held /\ ~reader'.up
    BY <1>10 DEF TearLedger, NoReader
  <2>2. FeedTypes'
    BY <2>1, EmptySeqs DEF FeedInv, FeedTypes
  <2>3. FileComplete'
    BY <2>1 DEF FeedInv, FileComplete, Opens, Cuts
  <2>4. PlaneComplete' /\ FeedStep
    BY <2>1 DEF FeedInv, PlaneComplete, Cuts, FeedStep
  <2> QED
    BY <2>2, <2>3, <2>4 DEF FeedInv
<1>11. CASE RemoveLedger
  BY <1>11 DEF RemoveLedger, FeedInv, FeedTypes, FileComplete,
     PlaneComplete, Opens, Cuts, FeedStep
<1>12. CASE UNCHANGED fileVars
  BY <1>12 DEF fileVars, feedVars, ackVars, FeedInv, FeedTypes, FileComplete,
     PlaneComplete, Opens, Cuts, FeedStep
<1> QED
  BY <1>1, <1>2, <1>3, <1>4, <1>5, <1>6, <1>7, <1>8, <1>9, <1>10, <1>11, <1>12
  DEF FilesNext

---------------------------------------------------------------------------
(* The orders.                                                             *)

Backed(o) == o.seq <= Len(file) /\ \E i \in 1 .. Len(file) : i <= o.seq /\ file[i].cut = o.target

OrdersTyped == \A o \in orders : o.seq \in Nat
\* What the file says of the orders, if it opens.
OrdersInFile == Opens(file) => \A o \in orders : Backed(o)
\* A command has the file in memory, and once it has written it is past every
\* earlier order.
CommandAhead ==
    holder = "command" =>
        /\ Opens(file) => held = file
        /\ \A o \in orders : o.seq <= Len(held)
        /\ \/ todo # <<>> /\ Head(todo) = order
           \/ order \in Cuts(held) /\ \A o \in orders : o.seq < Len(held)

OrderInv == OrdersTyped /\ OrdersInFile /\ CommandAhead

\* A file that is written to and still opens backs what it backed.
LEMMA WrittenBacks ==
    ASSUME FeedInv, OrderInv, NEW l \in Lines, file' = Append2(file, l), Opens(file'),
           NEW o \in orders
    PROVE  Backed(o)'
<1>1. Opens(file) /\ file' = Append(file, l)
  BY AppendOpens DEF FeedInv, FeedTypes
<1>2. Backed(o) /\ o.seq \in Nat
  BY <1>1 DEF OrderInv, OrdersTyped, OrdersInFile
<1>3. /\ Len(file) \in Nat /\ Len(file') = Len(file) + 1
      /\ \A i \in 1 .. Len(file) : file'[i] = file[i]
  BY <1>1 DEF FeedInv, FeedTypes
<1>4. PICK i \in 1 .. Len(file) : i <= o.seq /\ file[i].cut = o.target
  BY <1>2 DEF Backed
<1>5. i \in 1 .. Len(file') /\ file'[i].cut = o.target /\ o.seq <= Len(file')
  BY <1>2, <1>3, <1>4 DEF Backed
<1> QED
  BY <1>4, <1>5 DEF Backed

LEMMA AppendBacks ==
    ASSUME FeedInv, OrderInv, NEW c \in FCut, NEW ok \in BOOLEAN, AppendEntry(c, ok),
           orders' = orders
    PROVE  OrdersTyped' /\ OrdersInFile'
<1> DEFINE n == Len(held) + 1
<1>1. Entry(n, c, TRUE) \in Lines /\ Entry(n, c, FALSE) \in Lines /\ Stub \in Lines
  BY DEF FeedInv, FeedTypes, Lines, Entry, Stub
<1>2. file' = file \/ \E l \in Lines : file' = Append2(file, l)
  BY <1>1 DEF AppendEntry
<1>3. CASE file' = file
  BY <1>3 DEF OrderInv, OrdersTyped, OrdersInFile, Backed, Opens
<1>4. CASE \E l \in Lines : file' = Append2(file, l)
  BY <1>4, WrittenBacks DEF OrderInv, OrdersTyped, OrdersInFile
<1> QED
  BY <1>2, <1>3, <1>4

\* contain writes the order first, then the contracts.
LEMMA CommandAppendsAhead ==
    ASSUME FeedInv, OrderInv, NEW ok \in BOOLEAN, CommandAppend(ok)
    PROVE  CommandAhead'
<1>1. CASE ~ok
  BY <1>1 DEF CommandAppend, CommandAhead
<1>2. CASE ok
  <2> DEFINE l == Entry(Len(held) + 1, Head(todo), TRUE)
  <2>1. /\ holder = "command" /\ todo # <<>> /\ todo' = Tail(todo)
        /\ file' = Append2(file, l) /\ held' = Append(held, l)
        /\ UNCHANGED <<order, orders>>
    BY <1>2 DEF CommandAppend, AppendEntry
  <2>2. Head(todo) \in FCut /\ l \in Lines /\ l.cut = Head(todo)
    BY <2>1 DEF FeedInv, FeedTypes, Lines, Entry
  <2> HIDE DEF l
  <2>3. Opens(file') => held' = file'
    <3>1. Opens(file') => Opens(file) /\ file' = Append(file, l)
      BY <2>1, <2>2, AppendOpens DEF FeedInv, FeedTypes
    <3> QED
      BY <2>1, <3>1 DEF OrderInv, CommandAhead
  <2>4. Cuts(held') = Cuts(held) \cup {Head(todo)} /\ Len(held') = Len(held) + 1
    BY <2>1, <2>2, CutsAppend DEF FeedInv, FeedTypes
  <2>5. order \in Cuts(held')
    BY <2>1, <2>4 DEF OrderInv, CommandAhead
  <2>6. ASSUME NEW o \in orders PROVE o.seq < Len(held')
    <3>1. o.seq \in Nat /\ o.seq <= Len(held) /\ Len(held) \in Nat
      BY <2>1 DEF OrderInv, OrdersTyped, CommandAhead, FeedInv, FeedTypes
    <3> QED
      BY <2>4, <3>1
  <2>7. \A o \in orders : o.seq <= Len(held')
    <3>1. Len(held') \in Nat /\ \A o \in orders : o.seq \in Nat
      BY <2>4 DEF OrderInv, OrdersTyped, FeedInv, FeedTypes
    <3> QED
      BY <2>6, <3>1
  <2> QED
    BY <2>1, <2>3, <2>5, <2>6, <2>7 DEF CommandAhead
<1> QED
  BY <1>1, <1>2

\* The order is filed under a sequence no other has, and the file backs it.
LEMMA OrderFiled ==
    ASSUME FeedInv, OrderInv, NEW expected \in MediatorSet, CommandOrders(expected)
    PROVE  OrderInv' /\ orders \subseteq orders'
<1> DEFINE o == [seq |-> Len(held), target |-> order, expected |-> expected]
<1>1. /\ holder = "command" /\ todo = <<>> /\ holder' = "none" /\ file' = file
      /\ orders' = Expect(o) \/ orders' = orders
  BY DEF CommandOrders
<1>2. /\ order \in Cuts(held)
      /\ (Opens(file) => held = file)
      /\ \A p \in orders : p.seq < Len(held)
  BY <1>1 DEF OrderInv, CommandAhead
<1>3. Len(held) \in Nat /\ o.seq = Len(held) /\ o.target = order
  BY DEF FeedInv, FeedTypes
<1>4. \A p \in orders : p.seq # o.seq
  BY <1>2, <1>3 DEF OrderInv, OrdersTyped
<1>5. orders' = orders \cup {o} \/ orders' = orders
  BY <1>1, <1>4 DEF Expect
<1>6. Opens(file) => Backed(o)
  <2> SUFFICES ASSUME Opens(file) PROVE Backed(o)
    OBVIOUS
  <2>1. PICK i \in 1 .. Len(held) : held[i].cut = order
    BY <1>2 DEF Cuts
  <2> QED
    BY <1>2, <1>3, <2>1 DEF Backed
<1> HIDE DEF o
<1>7. OrdersTyped' /\ OrdersInFile'
  BY <1>1, <1>3, <1>5, <1>6 DEF OrderInv, OrdersTyped, OrdersInFile, Backed, Opens
<1>8. CommandAhead'
  BY <1>1 DEF CommandAhead
<1> QED
  BY <1>5, <1>7, <1>8 DEF OrderInv

\* Nothing else writes the ledger of orders.
LEMMA OrdersUntouched ==
    ASSUME OrderInv, UNCHANGED <<file, orders>>,
           holder' # "command" \/ UNCHANGED <<holder, held, order, todo>>
    PROVE  OrderInv'
<1>1. OrdersTyped' /\ OrdersInFile'
  BY DEF OrderInv, OrdersTyped, OrdersInFile, Backed, Opens
<1>2. CommandAhead'
  BY DEF OrderInv, CommandAhead, Opens, Cuts
<1> QED
  BY <1>1, <1>2 DEF OrderInv

LEMMA OrdersKept ==
    ASSUME FeedInv, OrderInv, [FilesNext]_fileVars
    PROVE  OrderInv' /\ orders \subseteq orders'
<1>1. CASE StartPlane
  BY <1>1, OrdersUntouched DEF StartPlane
<1>2. ASSUME NEW c \in FCut, NEW ok \in BOOLEAN, PlaneCut(c, ok)
      PROVE  OrderInv' /\ orders \subseteq orders'
  <2>1. AppendEntry(c, ok) /\ holder = "plane" /\ UNCHANGED <<holder, orders>>
    BY <1>2 DEF PlaneCut
  <2> QED
    BY <2>1, AppendBacks DEF OrderInv, CommandAhead
<1>3. ASSUME NEW s \in {<<c>> : c \in FCut} \cup {<<c, d>> : c, d \in FCut},
             BeginCommand(s)
      PROVE  OrderInv' /\ orders \subseteq orders'
  <2>1. UNCHANGED <<file, orders>>
    BY <1>3 DEF BeginCommand
  <2>2. CASE UNCHANGED <<holder, held, order, todo>>
    BY <2>1, <2>2, OrdersUntouched
  <2>3. CASE /\ holder' = "command" /\ order' = s[1] /\ todo' = s
             /\ \E f \in OpenFeed(file) : held' = f
    <3>1. held' = file /\ Opens(file)
      BY <2>3, OpenedIsFile
    <3>2. \A o \in orders : o.seq <= Len(held')
      BY <3>1 DEF OrderInv, OrdersInFile, Backed
    <3>3. s # <<>> /\ Head(s) = s[1]
      OBVIOUS
    <3>4. CommandAhead'
      BY <2>1, <2>3, <3>1, <3>2, <3>3 DEF CommandAhead
    <3> QED
      BY <2>1, <3>4 DEF OrderInv, OrdersTyped, OrdersInFile, Backed, Opens
  <2> QED
    BY <1>3, <2>2, <2>3 DEF BeginCommand
<1>4. ASSUME NEW ok \in BOOLEAN, CommandAppend(ok)
      PROVE  OrderInv' /\ orders \subseteq orders'
  <2>1. AppendEntry(Head(todo), ok) /\ todo # <<>> /\ orders' = orders
    BY <1>4 DEF CommandAppend
  <2>2. Head(todo) \in FCut
    BY <2>1 DEF FeedInv, FeedTypes
  <2> QED
    BY <1>4, <2>1, <2>2, AppendBacks, CommandAppendsAhead DEF OrderInv
<1>5. CASE \E expected \in MediatorSet : CommandOrders(expected)
  BY <1>5, OrderFiled
<1>6. CASE HolderDies
  BY <1>6, OrdersUntouched DEF HolderDies
<1>7. CASE StartReader \/ RefreshReader \/ ReaderDies
  BY <1>7, OrdersUntouched DEF StartReader, RefreshReader, ReaderDies, feedVars
<1>8. ASSUME NEW m \in FMediator, NEW p \in Planes, InstallSet(m, p)
      PROVE  OrderInv' /\ orders \subseteq orders'
  BY <1>8, OrdersUntouched DEF InstallSet, feedVars
<1>9. ASSUME NEW p \in Planes, NEW a \in wire, RecordSetAck(p, a)
      PROVE  OrderInv' /\ orders \subseteq orders'
  BY <1>9, OrdersUntouched DEF RecordSetAck
<1>10. ASSUME NEW p \in Planes, TearLedger(p)
       PROVE  OrderInv' /\ orders \subseteq orders'
  BY <1>10, OrdersUntouched DEF TearLedger
<1>11. CASE RemoveLedger
  BY <1>11, OrdersUntouched DEF RemoveLedger
<1>12. CASE UNCHANGED fileVars
  BY <1>12, OrdersUntouched DEF fileVars, feedVars
<1> QED
  BY <1>1, <1>2, <1>3, <1>4, <1>5, <1>6, <1>7, <1>8, <1>9, <1>10, <1>11, <1>12
  DEF FilesNext

LEMMA OrdersShown ==
    ASSUME orders \subseteq orders'
    PROVE  Outstanding \subseteq Outstanding'
  BY DEF Outstanding, StateOf, Confirmed, Empty

LEMMA OrdersAreBacked ==
    ASSUME OrderInv
    PROVE  OrdersBacked
<1> SUFFICES ASSUME NEW f \in OpenFeed(file), NEW o \in orders
             PROVE  \E i \in 1 .. Len(f) : i <= o.seq /\ f[i].cut = o.target
  BY DEF OrdersBacked
<1> QED
  BY OpenedIsFile DEF OrderInv, OrdersInFile, Backed

---------------------------------------------------------------------------
\* No promised cut is missing from a feed that is served, an order is in the feed
\* at or before its sequence and stays in the ledger, and the deploy gate passes
\* only on real installations, for any mediators, cuts and bounds, whatever
\* writes are torn or fail, processes die and acknowledgements do (contain.rs open
\* and append, dist.rs record and caught_up).
THEOREM FilesAreSound == FilesSpec => FilesSound
<1>1. FilesInit => AckInv /\ FeedInv /\ OrderInv
  <2>1. FilesInit => FeedInv
    BY DEF FilesInit, FeedInv, FeedTypes, FileComplete, PlaneComplete
  <2>2. FilesInit => OrderInv
    BY DEF FilesInit, OrderInv, OrdersTyped, OrdersInFile, CommandAhead
  <2> QED
    BY <2>1, <2>2, AckInitial
<1>2. AckInv /\ FeedInv /\ OrderInv /\ [FilesNext]_fileVars => AckInv' /\ FeedInv' /\ OrderInv'
  BY AckStep, FeedKept, OrdersKept
<1>3. FeedInv /\ [FilesNext]_fileVars => [FeedStep]_fileVars
  BY FeedKept
<1>4. FeedInv /\ OrderInv /\ [FilesNext]_fileVars => [Outstanding \subseteq Outstanding']_fileVars
  BY OrdersKept, OrdersShown
<1>5. AckInv /\ OrderInv => GateSound /\ OrdersBacked
  BY AckGate, OrdersAreBacked
<1> QED
  BY <1>1, <1>2, <1>3, <1>4, <1>5, PTL DEF FilesSpec, FilesSound, FeedComplete, OrdersStay

---------------------------------------------------------------------------
(* Bundles.                                                                *)

\* Contract d is in the register and was in force at time `when' or later.
InForceSince(d, when) ==
    /\ d \in Deal /\ register[d] # Unnamed
    /\ register[d].cut # Unnamed => register[d].cut >= when

\* Artifacts of such contracts, with what a mediator verifies.
Genuine(contracts, when) ==
    \A x \in contracts :
        /\ InForceSince(x.deal, when)
        /\ x.iss = IssuerId[DealOf[x.deal]] /\ x.key = TenantKey(DealOf[x.deal])
        /\ x.aud = DealFor[x.deal]
Whole(contracts, live) == \A d \in live : \E x \in contracts : x.deal = d

ExportTrue(x) ==
    /\ x.at \in {"none", "projection", "artifacts"}
    /\ x.at # "none" => x.ts \in Nat /\ x.ts <= today
    /\ x.at = "projection" => \A d \in x.live : InForceSince(d, x.ts)
    /\ x.at = "artifacts" => Genuine(x.contracts, x.ts) /\ Whole(x.contracts, x.live)

\* What a bundle's signature is over, whatever its courier has made of it.
SignedTrue(b) ==
    /\ b = [body |-> b.body, by |-> b.by, live |-> b.live, claims |-> b.claims]
    /\ b.claims.digest.issued \in Nat /\ b.claims.digest.issued <= today
    /\ b.claims.digest.exp \in Nat /\ b.claims.digest.exp <= b.claims.digest.issued + MaxTtl
    /\ Genuine(b.claims.digest.contracts, b.claims.digest.issued)
    /\ Whole(b.claims.digest.contracts, b.live)

TakenTrue(i) ==
    /\ i.at \in Nat /\ i.at <= today
    /\ \A d \in i.deals : /\ d \in Deal /\ register[d] # Unnamed
                          /\ DealOf[d] = i.tenant /\ DealFor[d] = i.site
                          /\ register[d].cut = Unnamed \/ register[d].cut + MaxTtl >= i.at
    /\ i.clean => i.live \subseteq i.deals

BundlesInv ==
    /\ today \in Nat
    /\ register \in [Deal -> DealEntry \cup {Unnamed}]
    /\ ExportTrue(exporting)
    /\ \A b \in carried : SignedTrue(b)
    /\ \A i \in loaded : TakenTrue(i)

\* The clock and the register move on: what was in force since a time still is.
Onwards ==
    /\ today' \in Nat /\ today <= today'
    /\ register' \in [Deal -> DealEntry \cup {Unnamed}]
    /\ \A d \in Deal : register[d] # Unnamed =>
        /\ register'[d] # Unnamed
        /\ register'[d].cut = register[d].cut \/ register'[d].cut = today

LEMMA StillInForce ==
    ASSUME BundlesInv, Onwards, NEW d, NEW when \in Nat, when <= today, InForceSince(d, when)
    PROVE  InForceSince(d, when)'
  BY DEF BundlesInv, Onwards, InForceSince, DealEntry

LEMMA StillGenuine ==
    ASSUME BundlesInv, Onwards, NEW S, NEW when \in Nat, when <= today, Genuine(S, when)
    PROVE  Genuine(S, when)'
  BY StillInForce DEF Genuine

LEMMA StillTrue ==
    ASSUME BundlesInv, Onwards
    PROVE  /\ ExportTrue(exporting)' \/ exporting' # exporting
           /\ \A b \in carried : SignedTrue(b)'
           /\ \A i \in loaded : TakenTrue(i)'
  <1>0. today \in Nat /\ today' \in Nat /\ today <= today'
    BY DEF BundlesInv, Onwards
  <1>1. ASSUME exporting' = exporting PROVE ExportTrue(exporting)'
    <2>1. exporting.at \in {"none", "projection", "artifacts"}
          /\ (exporting.at # "none" => exporting.ts \in Nat /\ exporting.ts <= today)
      BY DEF BundlesInv, ExportTrue
    <2>2. CASE exporting.at = "none"
      BY <2>2, <1>1 DEF ExportTrue
    <2>3. CASE exporting.at = "projection"
      <3>1. \A d \in exporting.live : InForceSince(d, exporting.ts)
        BY <2>3 DEF BundlesInv, ExportTrue
      <3>2. \A d \in exporting.live : InForceSince(d, exporting.ts)'
        BY <3>1, <2>1, <2>3, StillInForce, <1>1
      <3> QED BY <3>2, <2>1, <2>3, <1>0, <1>1 DEF ExportTrue
    <2>4. CASE exporting.at = "artifacts"
      <3>1. Genuine(exporting.contracts, exporting.ts) /\ Whole(exporting.contracts, exporting.live)
        BY <2>4 DEF BundlesInv, ExportTrue
      <3>2. Genuine(exporting.contracts, exporting.ts)'
        BY <3>1, <2>1, <2>4, StillGenuine, <1>1
      <3> QED BY <3>1, <3>2, <2>1, <2>4, <1>0, <1>1 DEF ExportTrue, Whole
    <2> QED BY <2>1, <2>2, <2>3, <2>4
  <1>2. ASSUME NEW b \in carried PROVE SignedTrue(b)'
    <2>1. SignedTrue(b)
      BY DEF BundlesInv
    <2>2. Genuine(b.claims.digest.contracts, b.claims.digest.issued)'
      BY <2>1, StillGenuine DEF SignedTrue
    <2> QED BY <2>1, <2>2, <1>0, TenantAssumption DEF SignedTrue
  <1>3. ASSUME NEW i \in loaded PROVE TakenTrue(i)'
    <2>1. TakenTrue(i)
      BY DEF BundlesInv
    <2>2. ASSUME NEW d \in i.deals
          PROVE  /\ d \in Deal /\ register'[d] # Unnamed
                 /\ register'[d].cut = Unnamed \/ register'[d].cut + MaxTtl >= i.at
      <3>1. /\ d \in Deal /\ register[d] # Unnamed
            /\ register[d].cut = Unnamed \/ register[d].cut + MaxTtl >= i.at
            /\ i.at \in Nat /\ i.at <= today
        BY <2>1 DEF TakenTrue
      <3>2. register'[d] # Unnamed
            /\ (register'[d].cut = register[d].cut \/ register'[d].cut = today)
        BY <3>1 DEF Onwards
      <3> QED BY <3>1, <3>2, <1>0, TenantAssumption
    <2> QED BY <2>1, <2>2, <1>0 DEF TakenTrue
  <1> QED BY <1>1, <1>2, <1>3

LEMMA StillOnwards ==
    ASSUME BundlesInv, UNCHANGED <<today, register>>
    PROVE  Onwards
  BY DEF BundlesInv, Onwards

\* Minting, cutting, and a day that passes.
LEMMA RegisterMovesOn ==
    ASSUME BundlesInv,
           \/ \E d \in Deal, until \in {1, MaxNow + 1}, stored \in BOOLEAN : MintDeal(d, until, stored)
           \/ \E d \in Deal : CutDeal(d)
           \/ NextDay
    PROVE  Onwards
  <1>0. today \in Nat /\ register \in [Deal -> DealEntry \cup {Unnamed}]
    BY DEF BundlesInv
  <1>1. ASSUME NEW d \in Deal, NEW until \in {1, MaxNow + 1}, NEW stored \in BOOLEAN,
               MintDeal(d, until, stored)
        PROVE  Onwards
    <2>1. [until |-> until, cut |-> Unnamed, stored |-> stored] \in DealEntry
      BY TenantAssumption DEF DealEntry
    <2>2. register[d] = Unnamed /\ today' = today
          /\ register' = [register EXCEPT ![d] = [until |-> until, cut |-> Unnamed, stored |-> stored]]
      BY <1>1 DEF MintDeal
    <2> QED BY <2>1, <2>2, <1>0 DEF Onwards
  <1>2. ASSUME NEW d \in Deal, CutDeal(d) PROVE Onwards
    <2>1. register[d] # Unnamed /\ today' = today
          /\ register' = [register EXCEPT ![d] = [register[d] EXCEPT !.cut = today]]
      BY <1>2 DEF CutDeal
    <2>2. register[d] \in DealEntry
      BY <2>1, <1>0
    <2>3. [register[d] EXCEPT !.cut = today] \in DealEntry
          /\ [register[d] EXCEPT !.cut = today].cut = today
      BY <2>2, <1>0 DEF DealEntry
    <2>4. [register[d] EXCEPT !.cut = today] # Unnamed
      BY <2>3, TenantAssumption
    <2> QED BY <2>1, <2>3, <2>4, <1>0 DEF Onwards
  <1>3. ASSUME NextDay PROVE Onwards
    BY <1>3, <1>0 DEF NextDay, Onwards
  <1> QED BY <1>1, <1>2, <1>3

LEMMA BundlesStart == BundlesInit => BundlesInv
  BY DEF BundlesInit, BundlesInv, ExportTrue, NoExport

\* The export: the projection is read at ts, the artifacts after it, and the
\* signature is over both.
LEMMA ExportKeeps ==
    ASSUME BundlesInv,
           \/ \E flag, env \in TenantName \cup {Unnamed}, site \in Site,
                 ttl \in {0, MaxTtl, MaxTtl + 1} : OpenProjection(flag, env, site, ttl)
           \/ ReadArtifacts \/ ExportBundle
    PROVE  BundlesInv'
  <1>0. today \in Nat /\ register \in [Deal -> DealEntry \cup {Unnamed}] /\ ExportTrue(exporting)
    BY DEF BundlesInv
  <1>1. UNCHANGED <<today, register, loaded>> /\ Onwards
    BY StillOnwards DEF OpenProjection, ReadArtifacts, ExportBundle
  <1>2. (\A b \in carried : SignedTrue(b)') /\ (\A i \in loaded' : TakenTrue(i)')
    BY <1>1, StillTrue
  <1>3. ASSUME NEW flag, NEW env, NEW site, NEW ttl, OpenProjection(flag, env, site, ttl)
        PROVE  BundlesInv'
    <2> DEFINE live == {d \in Below(TenantFor(flag, env)) : Alive(d, today) /\ DealFor[d] = site}
    <2>1. /\ carried' = carried
          /\ exporting' = [at |-> "projection", tenant |-> TenantFor(flag, env), site |-> site,
                           ttl |-> ttl, ts |-> today, live |-> live]
      BY <1>3 DEF OpenProjection
    <2>2. exporting'.at = "projection" /\ exporting'.ts = today /\ exporting'.live = live
      BY <2>1
    <2>3. \A d \in live : InForceSince(d, today)'
      BY <1>1 DEF Below, Alive, InForceSince
    <2>4. ExportTrue(exporting)'
      BY <2>2, <2>3, <1>0, <1>1 DEF ExportTrue
    <2> QED BY <2>4, <2>1, <1>0, <1>1, <1>2 DEF BundlesInv
  <1>4. ASSUME ReadArtifacts PROVE BundlesInv'
    <2>0. exporting.at = "projection" /\ carried' = carried
      BY <1>4 DEF ReadArtifacts
    <2>1. CASE exporting' = NoExport
      BY <2>1, <2>0, <1>0, <1>1, <1>2 DEF BundlesInv, ExportTrue, NoExport
    <2>2. CASE exporting' # NoExport
      <3> DEFINE arts == {Artifact(d) : d \in exporting.live}
      <3>1. exporting' = [at |-> "artifacts", tenant |-> exporting.tenant, site |-> exporting.site,
                          ttl |-> exporting.ttl, ts |-> exporting.ts, live |-> exporting.live,
                          contracts |-> arts]
        BY <1>4, <2>2 DEF ReadArtifacts
      <3>2. /\ exporting'.at = "artifacts" /\ exporting'.ts = exporting.ts
            /\ exporting'.live = exporting.live /\ exporting'.contracts = arts
        BY <3>1
      <3>3. exporting.ts \in Nat /\ exporting.ts <= today
            /\ \A d \in exporting.live : InForceSince(d, exporting.ts)
        BY <2>0, <1>0 DEF ExportTrue
      <3>4. \A d : /\ Artifact(d).deal = d /\ Artifact(d).aud = DealFor[d]
                   /\ Artifact(d).iss = IssuerId[DealOf[d]]
                   /\ Artifact(d).key = TenantKey(DealOf[d])
        BY DEF Artifact
      <3>5. Genuine(arts, exporting.ts)
        BY <3>3, <3>4 DEF Genuine
      <3>6. Whole(arts, exporting.live)
        BY <3>4 DEF Whole
      <3> HIDE DEF arts
      <3>7. PICK S, T, L : S = arts /\ T = exporting.ts /\ L = exporting.live
        OBVIOUS
      <3>8. Genuine(S, T)' /\ Whole(S, L)
        BY <3>5, <3>6, <3>7, <1>1 DEF Genuine, InForceSince
      <3>9. exporting'.at = "artifacts" /\ exporting'.ts = T /\ exporting'.contracts = S
            /\ exporting'.live = L /\ T \in Nat /\ T <= today'
        BY <3>2, <3>3, <3>7, <1>1
      <3>10. ExportTrue(exporting)'
        BY <3>8, <3>9 DEF ExportTrue, Whole
      <3> QED BY <3>10, <2>0, <1>0, <1>1, <1>2 DEF BundlesInv
    <2> QED BY <2>1, <2>2
  <1>5. ASSUME ExportBundle PROVE BundlesInv'
    <2> DEFINE x == exporting
               body == [site |-> x.site, issued |-> x.ts, exp |-> x.ts + x.ttl,
                        contracts |-> x.contracts, revocations |-> listed \cap Below(x.tenant)]
               new == [body |-> body, by |-> TenantKey(x.tenant), live |-> x.live,
                       claims |-> [digest |-> body, site |-> body.site, exp |-> body.exp]]
    <2>1. /\ x.at = "artifacts" /\ exporting' = NoExport
          /\ carried' = IF x.ttl \in 1 .. MaxTtl THEN carried \cup {new} ELSE carried
      BY <1>5 DEF ExportBundle
    <2>2. ExportTrue(exporting)'
      BY <2>1 DEF ExportTrue, NoExport
    <2>3. x.ts \in Nat /\ x.ts <= today /\ Genuine(x.contracts, x.ts) /\ Whole(x.contracts, x.live)
      BY <2>1, <1>0 DEF ExportTrue
    <2>4. /\ new = [body |-> new.body, by |-> new.by, live |-> new.live, claims |-> new.claims]
          /\ new.claims.digest.issued = x.ts /\ new.claims.digest.exp = x.ts + x.ttl
          /\ new.claims.digest.contracts = x.contracts /\ new.live = x.live
      OBVIOUS
    <2> HIDE DEF new
    <2>5. PICK N, S, T : N = new /\ S = x.contracts /\ T = x.ts
      OBVIOUS
    <2>6. ASSUME x.ttl \in 1 .. MaxTtl PROVE SignedTrue(N)'
      <3>1. x.ts + x.ttl \in Nat /\ x.ts + x.ttl <= x.ts + MaxTtl
        BY <2>3, <2>6, TenantAssumption
      <3>2. Genuine(S, T)'
        BY <2>3, <2>5, <1>1 DEF Genuine, InForceSince
      <3>3. /\ N = [body |-> N.body, by |-> N.by, live |-> N.live, claims |-> N.claims]
            /\ N.claims.digest.issued = T /\ N.claims.digest.contracts = S
            /\ N.claims.digest.exp \in Nat /\ N.claims.digest.exp <= T + MaxTtl
            /\ T \in Nat /\ T <= today' /\ Whole(S, N.live)
        BY <3>1, <2>3, <2>4, <2>5, <1>1
      <3> QED BY <3>2, <3>3 DEF SignedTrue, Whole
    <2>7. \A b \in carried' : SignedTrue(b)'
      BY <2>1, <2>5, <2>6, <1>2
    <2> QED BY <2>2, <2>7, <1>0, <1>1, <1>2 DEF BundlesInv
  <1> QED BY <1>3, <1>4, <1>5

\* The courier: what the signature is over is not in his reach.
LEMMA TamperKeeps ==
    ASSUME BundlesInv, NEW b \in carried, Tamper(b)
    PROVE  BundlesInv'
  <1>1. UNCHANGED <<today, register, exporting, loaded>> /\ Onwards
    BY StillOnwards DEF Tamper
  <1>2. ExportTrue(exporting)' /\ (\A c \in carried : SignedTrue(c)') /\ (\A i \in loaded' : TakenTrue(i)')
    BY <1>1, StillTrue
  <1>3. PICK body : carried' = (carried \ {b}) \cup {[b EXCEPT !.body = body]}
    BY DEF Tamper
  <1>4. PICK N : N = [b EXCEPT !.body = body]
    OBVIOUS
  <1>5. SignedTrue(b)'
    BY <1>2
  <1>6. /\ N = [body |-> N.body, by |-> N.by, live |-> N.live, claims |-> N.claims]
        /\ N.claims = b.claims /\ N.live = b.live
    <2>1. b = [body |-> b.body, by |-> b.by, live |-> b.live, claims |-> b.claims]
      BY <1>5 DEF SignedTrue
    <2>2. N = [body |-> body, by |-> b.by, live |-> b.live, claims |-> b.claims]
      BY <2>1, <1>4
    <2> QED BY <2>2
  <1>7. SignedTrue(N)'
    BY <1>5, <1>6 DEF SignedTrue
  <1> QED BY <1>1, <1>2, <1>3, <1>4, <1>7 DEF BundlesInv

\* An import takes what the signature is over, within its lifetime.
LEMMA ImportKeeps ==
    ASSUME BundlesInv, NEW b \in carried, NEW def \in TenantDefs, NEW site \in Site,
           Import(b, def.id, site)
    PROVE  BundlesInv'
  <1> DEFINE t == def.id
             good == {x \in b.body.contracts : Verified(x, t, site)}
             new == [tenant |-> t, site |-> site, at |-> today, deals |-> {x.deal : x \in good},
                     clean |-> good = b.body.contracts, live |-> b.live,
                     revocations |-> b.body.revocations]
  <1>1. UNCHANGED <<today, register, exporting, carried>> /\ Onwards
    BY StillOnwards DEF Import
  <1>2. ExportTrue(exporting)' /\ (\A c \in carried' : SignedTrue(c)') /\ (\A i \in loaded : TakenTrue(i)')
    BY <1>1, StillTrue
  <1>3. /\ Sealed(b, TenantKey(t)) /\ Current(b.body) /\ loaded' = loaded \cup {new}
    BY DEF Import
  <1>4. /\ b.body.issued \in Nat /\ b.body.exp \in Nat /\ b.body.exp <= b.body.issued + MaxTtl
        /\ Genuine(b.body.contracts, b.body.issued) /\ Whole(b.body.contracts, b.live)
        /\ today < b.body.exp
    BY <1>3 DEF BundlesInv, SignedTrue, Sealed, Current
  <1>5. today \in Nat /\ register \in [Deal -> DealEntry \cup {Unnamed}] /\ MaxTtl \in Nat
        /\ t \in DOMAIN IssuerId /\ DealOf \in [Deal -> DOMAIN IssuerId]
    BY TenantAssumption DEF BundlesInv
  <1>6. ASSUME NEW x \in good
        PROVE  /\ x.deal \in Deal /\ register[x.deal] # Unnamed
               /\ DealOf[x.deal] = t /\ DealFor[x.deal] = site
               /\ register[x.deal].cut = Unnamed \/ register[x.deal].cut + MaxTtl >= today
    <2>1. /\ InForceSince(x.deal, b.body.issued)
          /\ x.iss = IssuerId[DealOf[x.deal]] /\ x.key = TenantKey(DealOf[x.deal])
          /\ x.aud = DealFor[x.deal]
      BY <1>4 DEF Genuine
    <2>2. x.key = TenantKey(t) /\ x.iss = IssuerId[t] /\ x.aud = site
      BY DEF Verified
    <2>3. DealOf[x.deal] = t
      BY <2>1, <2>2, <1>5, TenantAssumption DEF InForceSince
    <2> QED BY <2>1, <2>2, <2>3, <1>4, <1>5 DEF InForceSince, DealEntry
  <1>7. new.clean => new.live \subseteq new.deals
    <2>1. new.live = b.live /\ new.deals = {x.deal : x \in good} /\ new.clean = (good = b.body.contracts)
      OBVIOUS
    <2>2. ASSUME good = b.body.contracts, NEW d \in b.live PROVE d \in {x.deal : x \in good}
      BY <2>2, <1>4 DEF Whole
    <2> QED BY <2>1, <2>2
  <1>8. PICK N : N = new
    OBVIOUS
  <1>9. /\ N.at = today /\ N.tenant = t /\ N.site = site
        /\ \A d \in N.deals : \E x \in good : d = x.deal
    BY <1>8
  <1>10. N.clean => N.live \subseteq N.deals
    BY <1>7, <1>8
  <1> HIDE DEF new, good
  <1>11. TakenTrue(N)'
    BY <1>1, <1>5, <1>6, <1>9, <1>10 DEF TakenTrue
  <1> QED BY <1>1, <1>2, <1>3, <1>5, <1>8, <1>11 DEF BundlesInv

LEMMA BundlesInductive == BundlesSpec => []BundlesInv
  <1>1. BundlesInv /\ [BundlesNext]_bundleVars => BundlesInv'
    <2> SUFFICES ASSUME BundlesInv, [BundlesNext]_bundleVars PROVE BundlesInv'
      OBVIOUS
    <2>a. ASSUME Onwards, UNCHANGED <<exporting, carried, loaded>> PROVE BundlesInv'
      BY <2>a, StillTrue DEF BundlesInv, Onwards
    <2>1. CASE \/ \E d \in Deal, until \in {1, MaxNow + 1}, stored \in BOOLEAN :
                    MintDeal(d, until, stored)
               \/ \E d \in Deal : CutDeal(d)
               \/ NextDay
      <3>1. UNCHANGED <<exporting, carried, loaded>>
        BY <2>1 DEF MintDeal, CutDeal, NextDay
      <3> QED BY <3>1, <2>1, <2>a, RegisterMovesOn
    <2>2. CASE \E d \in Deal : ListDeal(d)
      BY <2>2, <2>a, StillOnwards DEF ListDeal
    <2>3. CASE UNCHANGED bundleVars
      BY <2>3, <2>a, StillOnwards DEF bundleVars
    <2>4. CASE \/ \E flag, env \in TenantName \cup {Unnamed}, site \in Site,
                     ttl \in {0, MaxTtl, MaxTtl + 1} : OpenProjection(flag, env, site, ttl)
               \/ ReadArtifacts \/ ExportBundle
      BY <2>4, ExportKeeps
    <2>5. CASE \E b \in carried : Tamper(b)
      BY <2>5, TamperKeeps
    <2>6. CASE \E b \in carried, d \in TenantDefs, site \in Site : Import(b, d.id, site)
      BY <2>6, ImportKeeps
    <2> QED BY <2>1, <2>2, <2>3, <2>4, <2>5, <2>6 DEF BundlesNext
  <1> QED BY <1>1, BundlesStart, PTL DEF BundlesSpec

\* An air-gapped site takes from a bundle only its tenant's contracts, addressed
\* to it and in force within a bundle's lifetime, and a clean import is whole,
\* whatever the courier does and however late he is (bundle.rs).
THEOREM BundlesAreBounded == BundlesSpec => []BundleBounded
  <1>1. BundlesInv => BundleBounded
    BY DEF BundlesInv, TakenTrue, BundleBounded
  <1> QED BY <1>1, BundlesInductive, PTL

---------------------------------------------------------------------------
(* What an estate says about itself.                                       *)

\* A set of numbers that is not empty has a least one.
LEMMA LeastDepth ==
    ASSUME NEW T, T \subseteq Nat, T # {}
    PROVE  \E x \in T : \A y \in T : x <= y
  <1> DEFINE R == {ss \in Nat \X Nat : ss[1] < ss[2]}
  <1>1. IsWellFoundedOn(R, Nat)
    BY NatLessThanWellFounded, Zenon DEF OpToRel
  <1>2. \A u, v \in Nat : ~ (<<v, u>> \in R) => u <= v
    OBVIOUS
  <1> HIDE DEF R
  <1>3. \E x \in T : \A y \in T : ~ (<<y, x>> \in R)
    BY <1>1, WFMin
  <1> QED
    BY <1>2, <1>3

\* The rule of a replay: one frame after another.
InSteps(frames, day, f) ==
    f = [n \in 0 .. Len(frames) |->
           IF n = 0 THEN Blank ELSE Replayed(f[n - 1], frames[n], day)]

\* The states of a replay are what its rule says.
LEMMA ReplaySteps ==
    ASSUME NEW frames, Len(frames) \in Nat, NEW day
    PROVE  InSteps(frames, day, Replay(frames, day))
  <1> DEFINE Is(f, m) ==
               f = [n \in 0 .. m |->
                      IF n = 0 THEN Blank ELSE Replayed(f[n - 1], frames[n], day)]
             T == {m \in Nat : ~ \E f : Is(f, m)}
  <1>1. T = {}
    <2> SUFFICES ASSUME T # {} PROVE FALSE
      OBVIOUS
    <2>1. PICK x \in T : \A y \in T : x <= y
      BY LeastDepth
    <2>2. x # 0
      <3> DEFINE f == [n \in 0 .. 0 |-> Blank]
      <3>1. Is(f, 0)
        OBVIOUS
      <3> HIDE DEF f, Is
      <3> QED BY <3>1
    <2>3. x - 1 \in Nat /\ x - 1 \notin T
      BY <2>1, <2>2
    <2>4. PICK f : Is(f, x - 1)
      BY <2>3
    <2> DEFINE g == [n \in 0 .. x |->
                       IF n = x THEN Replayed(f[x - 1], frames[x], day) ELSE f[n]]
    <2>5. ASSUME NEW n \in 0 .. x
          PROVE  g[n] = IF n = 0 THEN Blank ELSE Replayed(g[n - 1], frames[n], day)
      <3>1. CASE n = x
        <4>1. g[n] = Replayed(f[x - 1], frames[x], day) /\ g[n - 1] = f[x - 1]
          BY <3>1, <2>2, <2>3
        <4> QED BY <4>1, <3>1, <2>2
      <3>2. CASE n # x
        <4>1. n \in 0 .. x - 1 /\ (n # 0 => n - 1 \in 0 .. x - 1)
          BY <3>2
        <4>2. g[n] = f[n] /\ (n # 0 => g[n - 1] = f[n - 1])
          BY <4>1, <3>2
        <4>3. f[n] = IF n = 0 THEN Blank ELSE Replayed(f[n - 1], frames[n], day)
          BY <4>1, <2>4
        <4> QED BY <4>2, <4>3
      <3> QED BY <3>1, <3>2
    <2>6. Is(g, x)
      <3> HIDE DEF g
      <3>1. g = [n \in 0 .. x |-> g[n]]
        BY DEF g
      <3> QED BY <3>1, <2>5
    <2> HIDE DEF g, Is
    <2> QED BY <2>1, <2>6
  <1>2. \E f : Is(f, Len(frames))
    <2> HIDE DEF Is
    <2> QED BY <1>1
  <1>3. Replay(frames, day) = CHOOSE f : Is(f, Len(frames))
    BY DEF Replay
  <1>4. Is(Replay(frames, day), Len(frames))
    <2> HIDE DEF Is
    <2> QED BY <1>2, <1>3
  <1> QED BY <1>4 DEF InSteps

\* Two logs replay alike as far as they say the same.
LEMMA ReplayAgrees ==
    ASSUME NEW u, NEW v, Len(u) \in Nat, Len(v) \in Nat, NEW day,
           Len(u) <= Len(v), \A n \in 1 .. Len(u) : u[n] = v[n]
    PROVE  \A n \in 0 .. Len(u) : Replay(u, day)[n] = Replay(v, day)[n]
  <1> DEFINE T == {n \in 0 .. Len(u) : Replay(u, day)[n] # Replay(v, day)[n]}
  <1>1. T = {}
    <2> SUFFICES ASSUME T # {} PROVE FALSE
      OBVIOUS
    <2>0. T \subseteq Nat
      OBVIOUS
    <2>1. PICK x \in T : \A y \in T : x <= y
      <3> HIDE DEF T
      <3> QED BY <2>0, LeastDepth
    <2>2. \A n \in 0 .. Len(u) :
            /\ Replay(u, day)[n] =
                 IF n = 0 THEN Blank ELSE Replayed(Replay(u, day)[n - 1], u[n], day)
            /\ Replay(v, day)[n] =
                 IF n = 0 THEN Blank ELSE Replayed(Replay(v, day)[n - 1], v[n], day)
      <3> SUFFICES ASSUME NEW n \in 0 .. Len(u)
                   PROVE  /\ Replay(u, day)[n] =
                               IF n = 0 THEN Blank
                               ELSE Replayed(Replay(u, day)[n - 1], u[n], day)
                          /\ Replay(v, day)[n] =
                               IF n = 0 THEN Blank
                               ELSE Replayed(Replay(v, day)[n - 1], v[n], day)
        OBVIOUS
      <3>1. n \in 0 .. Len(v)
        OBVIOUS
      <3>2. PICK f, g : f = Replay(u, day) /\ g = Replay(v, day)
        OBVIOUS
      <3>3. InSteps(u, day, f)
        BY <3>2, ReplaySteps
      <3>4. InSteps(v, day, g)
        BY <3>2, ReplaySteps
      <3>5. f[n] = IF n = 0 THEN Blank ELSE Replayed(f[n - 1], u[n], day)
        BY <3>3 DEF InSteps
      <3>6. g[n] = IF n = 0 THEN Blank ELSE Replayed(g[n - 1], v[n], day)
        BY <3>1, <3>4 DEF InSteps
      <3> QED BY <3>2, <3>5, <3>6
    <2>3. x # 0
      BY <2>1, <2>2
    <2>4. x \in 1 .. Len(u) /\ x - 1 \in 0 .. Len(u) /\ x - 1 \notin T
      BY <2>1, <2>3
    <2>5. Replay(u, day)[x - 1] = Replay(v, day)[x - 1] /\ u[x] = v[x]
      BY <2>4
    <2> QED BY <2>1, <2>2, <2>3, <2>5
  <1> QED BY <1>1

\* Frames of later days change nothing in the replay up to a day.
LEMMA LaterFramesPass ==
    ASSUME NEW frames, Len(frames) \in Nat, NEW day, NEW i \in Nat, NEW j \in Nat,
           i <= j, j <= Len(frames), \A n \in i + 1 .. j : ~ (frames[n].ts <= day)
    PROVE  Replay(frames, day)[i] = Replay(frames, day)[j]
  <1>1. PICK f : f = Replay(frames, day)
    OBVIOUS
  <1>2. InSteps(frames, day, f)
    BY <1>1, ReplaySteps
  <1> DEFINE T == {n \in i .. j : f[n] # f[i]}
  <1>3. T = {}
    <2> SUFFICES ASSUME T # {} PROVE FALSE
      OBVIOUS
    <2>0. T \subseteq Nat
      OBVIOUS
    <2>1. PICK x \in T : \A y \in T : x <= y
      <3> HIDE DEF T
      <3> QED BY <2>0, LeastDepth
    <2>2. x # i
      OBVIOUS
    <2>3. x \in i + 1 .. j /\ x \in 0 .. Len(frames) /\ x # 0 /\ x - 1 \in i .. j
      BY <2>2
    <2>4. f[x] = Replayed(f[x - 1], frames[x], day)
      BY <2>3, <1>2 DEF InSteps
    <2>5. f[x] = f[x - 1]
      BY <2>3, <2>4 DEF Replayed
    <2>6. x - 1 \notin T
      BY <2>1, <2>3
    <2> QED BY <2>3, <2>5, <2>6
  <1> QED BY <1>1, <1>3

\* What the log and the projection are made of.
DealRec == [caller : Member, callee : Member, status : {"active", "revoked"}, iat : Nat, exp : Nat]
Lives == {"absent", "pending", "active", "suspended"}
Postures == {"unattested", "attested", "quarantined"}
IsChange(e) ==
    \/ e.op = "register" /\ e.who \in Member /\ e.posture \in {"attested", "unattested"}
    \/ e.op \in {"activate", "quarantine"} /\ e.who \in Member
    \/ e.op = "mint" /\ e.deal \in DealRec
    \/ e.op = "revoke"
IsFrame(f) == f.ts \in Nat /\ IsChange(f.ev)
IsLog(frames) ==
    /\ \E S : frames \in Seq(S)
    /\ \A n \in 1 .. Len(frames) : IsFrame(frames[n])
AreDeals(deals) == \A n \in DOMAIN deals : deals[n] \in DealRec
IsEstate(p) ==
    /\ p = [life |-> p.life, posture |-> p.posture, deals |-> p.deals]
    /\ p.life \in [Member -> Lives] /\ p.posture \in [Member -> Postures]
    /\ AreDeals(p.deals)

LEMMA ApplyTypes ==
    ASSUME NEW p, IsEstate(p), NEW e, IsChange(e)
    PROVE  IsEstate(Apply(p, e))
  <1>0. /\ p = [life |-> p.life, posture |-> p.posture, deals |-> p.deals]
        /\ p.life \in [Member -> Lives] /\ p.posture \in [Member -> Postures]
        /\ \A n \in DOMAIN p.deals : p.deals[n] \in DealRec
    BY DEF IsEstate, AreDeals
  <1>1. ASSUME NEW life \in [Member -> Lives], NEW posture \in [Member -> Postures], NEW deals,
               AreDeals(deals)
        PROVE  IsEstate([life |-> life, posture |-> posture, deals |-> deals])
    BY <1>1 DEF IsEstate
  <1>2. \A x \in DealRec : [x EXCEPT !.status = "revoked"] \in DealRec
    BY DEF DealRec
  <1>3. CASE e.op = "register" /\ e.who \in Member /\ e.posture \in {"attested", "unattested"}
    <2>1. Apply(p, e) = [life |-> [p.life EXCEPT ![e.who] = "pending"],
                         posture |-> [p.posture EXCEPT ![e.who] = e.posture],
                         deals |-> p.deals]
      BY <1>0, <1>3 DEF Apply
    <2>2. [p.life EXCEPT ![e.who] = "pending"] \in [Member -> Lives]
      BY <1>0 DEF Lives
    <2>3. [p.posture EXCEPT ![e.who] = e.posture] \in [Member -> Postures]
      BY <1>0, <1>3 DEF Postures
    <2> QED BY <1>0, <1>1, <2>1, <2>2, <2>3 DEF AreDeals
  <1>4. CASE e.op = "activate" /\ e.who \in Member
    <2>1. Apply(p, e) = [life |-> [p.life EXCEPT ![e.who] =
                                      IF p.life[e.who] = "absent" THEN p.life[e.who] ELSE "active"],
                         posture |-> p.posture, deals |-> p.deals]
      BY <1>0, <1>4 DEF Apply
    <2>2. [p.life EXCEPT ![e.who] = IF p.life[e.who] = "absent" THEN p.life[e.who] ELSE "active"]
             \in [Member -> Lives]
      BY <1>0, <1>4 DEF Lives
    <2> QED BY <1>0, <1>1, <2>1, <2>2 DEF AreDeals
  <1>5. CASE e.op = "quarantine" /\ e.who \in Member
    <2>1. PICK life, posture :
             /\ life = [p.life EXCEPT ![e.who] =
                           IF p.life[e.who] = "absent" THEN p.life[e.who] ELSE "suspended"]
             /\ posture = [p.posture EXCEPT ![e.who] =
                              IF p.life[e.who] = "absent" THEN p.posture[e.who] ELSE "quarantined"]
      OBVIOUS
    <2>2. Apply(p, e) = [life |-> life, posture |-> posture, deals |-> Cut(p.deals, e.who)]
      BY <1>0, <1>5, <2>1 DEF Apply
    <2>3. life \in [Member -> Lives]
      BY <1>0, <1>5, <2>1 DEF Lives
    <2>4. posture \in [Member -> Postures]
      BY <1>0, <1>5, <2>1 DEF Postures
    <2>5. AreDeals(Cut(p.deals, e.who))
      BY <1>0, <1>2 DEF AreDeals, Cut
    <2> QED BY <1>1, <2>2, <2>3, <2>4, <2>5
  <1>6. CASE e.op = "mint" /\ e.deal \in DealRec
    <2>1. PICK deals : deals = [n \in DOMAIN p.deals \cup {e.who} |->
                                  IF n = e.who THEN e.deal ELSE p.deals[n]]
      OBVIOUS
    <2>2. Apply(p, e) = [life |-> p.life, posture |-> p.posture, deals |-> deals]
      BY <1>0, <1>6, <2>1 DEF Apply
    <2>3. AreDeals(deals)
      BY <1>0, <1>6, <2>1 DEF AreDeals
    <2> QED BY <1>0, <1>1, <2>2, <2>3
  <1>7. CASE e.op = "revoke"
    <2>1. PICK deals : deals = [n \in DOMAIN p.deals |->
                                  IF n = e.who THEN [p.deals[n] EXCEPT !.status = "revoked"]
                                  ELSE p.deals[n]]
      OBVIOUS
    <2>2. Apply(p, e) = [life |-> p.life, posture |-> p.posture, deals |-> deals]
      BY <1>0, <1>7, <2>1 DEF Apply
    <2>3. AreDeals(deals)
      BY <1>0, <1>2, <2>1 DEF AreDeals
    <2> QED BY <1>0, <1>1, <2>2, <2>3
  <1> QED BY <1>3, <1>4, <1>5, <1>6, <1>7 DEF IsChange

\* Everything a replay goes through is an estate.
LEMMA ReplayTypes ==
    ASSUME NEW frames, IsLog(frames), NEW day \in Nat
    PROVE  IsEstate(Replay(frames, day)[Len(frames)])
  <1>1. PICK f : f = Replay(frames, day)
    OBVIOUS
  <1>2. Len(frames) \in Nat /\ \A n \in 1 .. Len(frames) : IsFrame(frames[n])
    BY DEF IsLog
  <1>3. InSteps(frames, day, f)
    BY <1>1, <1>2, ReplaySteps
  <1> DEFINE T == {n \in 0 .. Len(frames) : ~ IsEstate(f[n])}
  <1>4. T = {}
    <2> SUFFICES ASSUME T # {} PROVE FALSE
      OBVIOUS
    <2>0. T \subseteq Nat
      OBVIOUS
    <2>1. PICK x \in T : \A y \in T : x <= y
      <3> HIDE DEF T
      <3> QED BY <2>0, LeastDepth
    <2>2. IsEstate(Blank)
      BY DEF Blank, IsEstate, AreDeals, Lives, Postures
    <2>3. x # 0
      BY <2>1, <2>2, <1>2, <1>3 DEF InSteps
    <2>4. x \in 1 .. Len(frames) /\ x - 1 \in 0 .. Len(frames) /\ x - 1 \notin T
      BY <2>1, <2>3, <1>2
    <2>5. IsEstate(f[x - 1]) /\ IsFrame(frames[x])
      BY <2>4, <1>2
    <2>6. IsEstate(Replayed(f[x - 1], frames[x], day))
      BY <2>5, ApplyTypes DEF Replayed, IsFrame
    <2>7. f[x] = Replayed(f[x - 1], frames[x], day)
      BY <2>3, <2>4, <1>3 DEF InSteps
    <2> QED BY <2>1, <2>6, <2>7
  <1> QED BY <1>1, <1>2, <1>4

\* The contracts of a party in one direction.
Edges(p, m, outward) == IF outward THEN ByCaller(p, m) ELSE ByCallee(p, m)
Far(p, n, outward) == IF outward THEN p.deals[n].callee ELSE p.deals[n].caller

LEMMA OneEdge ==
    ASSUME NEW p, NEW from, NEW outward, NEW x
    PROVE  x \in Next1(p, from, outward)
             <=> \E m \in from : \E n \in Edges(p, m, outward) : x = Far(p, n, outward)
  BY DEF Next1, Edges, Far

\* The rule of a traversal: what a level leads to, without what was met.
Traversed(p, subject, depth, outward, near) ==
    near = [d \in 0 .. depth |->
              IF d = 0 THEN {subject}
              ELSE Next1(p, near[d - 1], outward) \ UNION {near[k] : k \in 0 .. d - 1}]

\* The levels of a traversal are what its rule says.
LEMMA LevelSteps ==
    ASSUME NEW p, NEW subject, NEW depth \in Nat, NEW outward
    PROVE  Traversed(p, subject, depth, outward, Levels(p, subject, depth, outward))
  <1> DEFINE Rule(f, d) == IF d = 0 THEN {subject}
                           ELSE Next1(p, f[d - 1], outward) \ UNION {f[k] : k \in 0 .. d - 1}
             Is(f, m) == f = [d \in 0 .. m |-> Rule(f, d)]
             T == {m \in Nat : ~ \E f : Is(f, m)}
  <1>0. ASSUME NEW f, NEW g, NEW d \in Nat, \A k \in 0 .. d - 1 : f[k] = g[k]
        PROVE  Rule(f, d) = Rule(g, d)
    <2>1. CASE d = 0
      BY <2>1
    <2>2. CASE d # 0
      <3>1. f[d - 1] = g[d - 1]
        BY <1>0, <2>2
      <3>2. {f[k] : k \in 0 .. d - 1} = {g[k] : k \in 0 .. d - 1}
        BY <1>0
      <3> QED BY <3>1, <3>2
    <2> QED BY <2>1, <2>2
  <1>1. T = {}
    <2> SUFFICES ASSUME T # {} PROVE FALSE
      OBVIOUS
    <2>0. T \subseteq Nat
      OBVIOUS
    <2>1. PICK x \in T : \A y \in T : x <= y
      <3> HIDE DEF T
      <3> QED BY <2>0, LeastDepth
    <2>2. x # 0
      <3> DEFINE f == [d \in 0 .. 0 |-> {subject}]
      <3>1. Is(f, 0)
        OBVIOUS
      <3> HIDE DEF f, Is
      <3> QED BY <3>1
    <2>3. x - 1 \in Nat /\ x - 1 \notin T
      <3> HIDE DEF T
      <3> QED BY <2>0, <2>1, <2>2
    <2>4. PICK f : Is(f, x - 1)
      <3> HIDE DEF Is
      <3> QED BY <2>3
    <2> HIDE DEF Rule
    <2> DEFINE g == [d \in 0 .. x |-> IF d = x THEN Rule(f, x) ELSE f[d]]
    <2>5. ASSUME NEW d \in 0 .. x PROVE g[d] = Rule(g, d)
      <3>1. \A k \in 0 .. d - 1 : f[k] = g[k]
        OBVIOUS
      <3>2. Rule(f, d) = Rule(g, d)
        BY <3>1, <1>0
      <3>3. CASE d = x
        BY <3>2, <3>3
      <3>4. CASE d # x
        <4>1. d \in 0 .. x - 1
          BY <3>4
        <4>2. f[d] = Rule(f, d)
          BY <4>1, <2>4
        <4> QED BY <4>2, <3>2, <3>4
      <3> QED BY <3>3, <3>4
    <2>6. Is(g, x)
      <3>1. g = [d \in 0 .. x |-> g[d]]
        OBVIOUS
      <3> HIDE DEF g
      <3> QED BY <3>1, <2>5
    <2> HIDE DEF g, Is
    <2> QED BY <2>1, <2>6
  <1>2. \E f : Is(f, depth)
    <2> HIDE DEF Is
    <2> QED BY <1>1
  <1>3. Levels(p, subject, depth, outward) = CHOOSE f : Is(f, depth)
    BY DEF Levels
  <1>4. Is(Levels(p, subject, depth, outward), depth)
    <2> HIDE DEF Is
    <2> QED BY <1>2, <1>3
  <1> QED BY <1>4 DEF Traversed

\* Every level is within each closed set the subject is in.
LEMMA LevelsWithin ==
    ASSUME NEW p, NEW subject, NEW depth \in Nat, NEW outward,
           NEW S, subject \in S, ClosedUnder(p, S, outward)
    PROVE  \A d \in 0 .. depth : Levels(p, subject, depth, outward)[d] \subseteq S
  <1>1. PICK near : near = Levels(p, subject, depth, outward)
    OBVIOUS
  <1>2. Traversed(p, subject, depth, outward, near)
    BY <1>1, LevelSteps
  <1> DEFINE T == {d \in 0 .. depth : ~ (near[d] \subseteq S)}
  <1>3. T = {}
    <2> SUFFICES ASSUME T # {} PROVE FALSE
      OBVIOUS
    <2>0. T \subseteq Nat
      OBVIOUS
    <2>1. PICK x \in T : \A y \in T : x <= y
      <3> HIDE DEF T
      <3> QED BY <2>0, LeastDepth
    <2>2. x # 0
      BY <2>1, <1>2 DEF Traversed
    <2>3. x - 1 \in 0 .. depth /\ x - 1 \notin T
      BY <2>1, <2>2
    <2>4. near[x - 1] \subseteq S
      BY <2>3
    <2>5. near[x] \subseteq Next1(p, near[x - 1], outward)
      BY <2>1, <2>2, <1>2 DEF Traversed
    <2>6. ASSUME NEW y \in Next1(p, near[x - 1], outward) PROVE y \in Next1(p, S, outward)
      <3>1. PICK m \in near[x - 1] : \E n \in Edges(p, m, outward) : y = Far(p, n, outward)
        BY OneEdge
      <3>2. m \in S
        BY <3>1, <2>4
      <3> QED BY <3>1, <3>2, OneEdge
    <2>7. near[x] \subseteq S
      BY <2>5, <2>6 DEF ClosedUnder
    <2> QED BY <2>1, <2>7
  <1> QED BY <1>1, <1>3

\* What is met before a level from which nothing leads on is everything.
LEMMA LevelsClosed ==
    ASSUME NEW p, NEW subject, NEW depth \in Nat, NEW outward,
           NEW near, near = Levels(p, subject, depth, outward),
           ~ Beyond(p, near[depth], outward),
           NEW U, U = UNION {near[d] : d \in 0 .. depth}
    PROVE  subject \in U /\ ClosedUnder(p, U, outward)
  <1>2. Traversed(p, subject, depth, outward, near)
    BY LevelSteps
  <1>3. subject \in U
    <2>1. near[0] = {subject} /\ 0 \in 0 .. depth
      BY <1>2 DEF Traversed
    <2> QED BY <2>1
  <1>4. ASSUME NEW y \in Next1(p, U, outward) PROVE y \in U
    <2>1. PICK m \in U : \E n \in Edges(p, m, outward) : y = Far(p, n, outward)
      BY OneEdge
    <2>2. PICK d \in 0 .. depth : m \in near[d]
      BY <2>1
    <2>3. y \in Next1(p, near[d], outward)
      BY <2>1, <2>2, OneEdge, Zenon
    <2>4. d # depth
      BY <2>3 DEF Beyond
    <2>5. d + 1 \in 0 .. depth /\ d + 1 # 0 /\ (d + 1) - 1 = d
      BY <2>4
    <2>6. near[d + 1] = Next1(p, near[d], outward) \ UNION {near[k] : k \in 0 .. d}
      <3>1. near[d + 1] = Next1(p, near[(d + 1) - 1], outward)
                            \ UNION {near[k] : k \in 0 .. (d + 1) - 1}
        BY <2>5, <1>2 DEF Traversed
      <3> QED BY <3>1, <2>5
    <2>7. y \in near[d + 1] \/ \E k \in 0 .. d : y \in near[k]
      BY <2>3, <2>6
    <2>8. \A k \in 0 .. d : k \in 0 .. depth
      OBVIOUS
    <2> QED BY <2>5, <2>7, <2>8
  <1> QED BY <1>3, <1>4 DEF ClosedUnder

\* What some levels hold, and the contracts of some parties in one direction.
Met(near, from, to) == UNION {near[d] : d \in from .. to}
AllEdges(p, parties, outward) == UNION {Edges(p, m, outward) : m \in parties}

\* A traversal has met what can be reached, and all its contracts before the
\* last level.
WholeTraversal(p, subject, depth, outward, near) ==
    /\ Met(near, 1, depth) \cup {subject} = Reach(p, subject, outward)
    /\ AllEdges(p, Met(near, 0, depth - 1), outward)
         = AllEdges(p, Reach(p, subject, outward), outward)

\* A traversal is whole when nothing leads on from its last level.
LEMMA TraversalWhole ==
    ASSUME NEW p, \A n \in DOMAIN p.deals : p.deals[n] \in DealRec, NEW subject \in Member, NEW depth \in Nat \ {0}, NEW outward,
           NEW near, near = Levels(p, subject, depth, outward),
           ~ Beyond(p, near[depth], outward)
    PROVE  WholeTraversal(p, subject, depth, outward, near)
  <1>2. PICK U : U = UNION {near[d] : d \in 0 .. depth}
    OBVIOUS
  <1>3. subject \in U /\ ClosedUnder(p, U, outward)
    <2>1. depth \in Nat
      OBVIOUS
    <2>2. ASSUME NEW q, near = Levels(q, subject, depth, outward),
                 ~ Beyond(q, near[depth], outward)
          PROVE  subject \in U /\ ClosedUnder(q, U, outward)
      BY <1>2, <2>1, <2>2, LevelsClosed
    <2> QED BY <2>2
  <1>4. \A S : subject \in S /\ ClosedUnder(p, S, outward) => U \subseteq S
    <2> SUFFICES ASSUME NEW S, subject \in S, ClosedUnder(p, S, outward) PROVE U \subseteq S
      OBVIOUS
    <2>1. \A d \in 0 .. depth : near[d] \subseteq S
      BY LevelsWithin
    <2> QED BY <2>1, <1>2
  <1>5. ClosedUnder(p, Member, outward)
    <2> SUFFICES ASSUME NEW y \in Next1(p, Member, outward) PROVE y \in Member
      BY DEF ClosedUnder
    <2>1. PICK m \in Member : \E n \in Edges(p, m, outward) : y = Far(p, n, outward)
      BY OneEdge
    <2>2. PICK n \in DOMAIN p.deals : y = Far(p, n, outward)
      BY <2>1 DEF Edges, ByCaller, ByCallee
    <2>3. p.deals[n] \in DealRec
      BY <2>2
    <2> QED BY <2>2, <2>3 DEF Far, DealRec
  <1>6. U \subseteq Member
    BY <1>4, <1>5
  <1>7. U = Reach(p, subject, outward)
    BY <1>3, <1>4, <1>6 DEF Reach
  <1>8. near[0] = {subject}
    <2>1. Traversed(p, subject, depth, outward, near)
      BY LevelSteps
    <2> QED BY <2>1 DEF Traversed
  <1>9. (UNION {near[d] : d \in 1 .. depth}) \cup {subject} = U
    <2>1. \A d \in 0 .. depth : d = 0 \/ d \in 1 .. depth
      OBVIOUS
    <2>2. \A d \in 1 .. depth : d \in 0 .. depth
      OBVIOUS
    <2>3. 0 \in 0 .. depth
      OBVIOUS
    <2>4. ASSUME NEW y \in U PROVE y \in (UNION {near[d] : d \in 1 .. depth}) \cup {subject}
      <3>1. PICK d \in 0 .. depth : y \in near[d]
        BY <1>2
      <3>2. CASE d = 0
        BY <3>1, <3>2, <1>8
      <3>3. CASE d \in 1 .. depth
        BY <3>1, <3>3
      <3> QED BY <3>2, <3>3, <2>1
    <2>5. ASSUME NEW y \in UNION {near[d] : d \in 1 .. depth} PROVE y \in U
      <3>1. PICK d \in 1 .. depth : y \in near[d]
        OBVIOUS
      <3> QED BY <3>1, <2>2, <1>2
    <2> DEFINE N == UNION {near[d] : d \in 1 .. depth}
    <2>6. (\A y \in U : y \in N \cup {subject}) /\ \A y \in N : y \in U
      BY <2>4, <2>5
    <2> HIDE DEF N
    <2>7. N \cup {subject} = U
      BY <2>6, <1>3
    <2> QED BY <2>7 DEF N
  <1>10. \A m \in near[depth] : Edges(p, m, outward) = {}
    <2> SUFFICES ASSUME NEW m \in near[depth], NEW n \in Edges(p, m, outward) PROVE FALSE
      OBVIOUS
    <2>1. Far(p, n, outward) \in Next1(p, near[depth], outward)
      BY OneEdge
    <2> QED BY <2>1 DEF Beyond
  <1>11. UNION {Edges(p, m, outward) : m \in UNION {near[d] : d \in 0 .. depth - 1}}
           = UNION {Edges(p, m, outward) : m \in U}
    <2>1. \A d \in 0 .. depth : d = depth \/ d \in 0 .. depth - 1
      OBVIOUS
    <2>2. \A d \in 0 .. depth - 1 : d \in 0 .. depth
      OBVIOUS
    <2>3. ASSUME NEW m \in U, NEW n \in Edges(p, m, outward)
          PROVE  m \in UNION {near[d] : d \in 0 .. depth - 1}
      <3>1. PICK d \in 0 .. depth : m \in near[d]
        BY <1>2
      <3> QED BY <3>1, <2>1, <2>3, <1>10
    <2>4. ASSUME NEW m \in UNION {near[d] : d \in 0 .. depth - 1} PROVE m \in U
      <3>1. PICK d \in 0 .. depth - 1 : m \in near[d]
        OBVIOUS
      <3> QED BY <3>1, <2>2, <1>2
    <2> DEFINE N == UNION {near[d] : d \in 0 .. depth - 1}
    <2>5. N \subseteq U /\ \A m \in U : m \in N \/ Edges(p, m, outward) = {}
      BY <2>3, <2>4
    <2> HIDE DEF N
    <2>6. UNION {Edges(p, m, outward) : m \in N} = UNION {Edges(p, m, outward) : m \in U}
      BY <2>5
    <2> QED BY <2>6 DEF N
  <1> QED BY <1>7, <1>9, <1>11 DEF WholeTraversal, Met, AllEdges

\* A blast radius that is not cut short is whole.
LEMMA BlastIsWhole ==
    ASSUME IsEstate(estate)
    PROVE  BlastComplete
  <1> SUFFICES ASSUME NEW subject \in Registered(estate), NEW depth \in Depths,
                      ~ BlastRadiusCmd(estate, subject, depth).failed
               PROVE  LET out == Reach(estate, subject, TRUE)
                          in == Reach(estate, subject, FALSE)
                          answer == BlastRadiusCmd(estate, subject, depth)
                      IN  /\ answer.report.forward \cup {subject} = out
                          /\ answer.report.reverse \cup {subject} = in
                          /\ answer.report.cutSet = (UNION {ByCaller(estate, m) : m \in out})
                                                    \cup (UNION {ByCallee(estate, m) : m \in in})
    BY DEF BlastComplete
  <1>0. \A n \in DOMAIN estate.deals : estate.deals[n] \in DealRec
    BY DEF IsEstate, AreDeals
  <1>1. PICK k : k = Max({1, depth})
    OBVIOUS
  <1>2. k \in Nat \ {0}
    <2>1. depth \in Nat
      BY ViewsAssumption
    <2>2. \E x \in {1, depth} : \A y \in {1, depth} : x >= y
      BY <2>1
    <2>3. k \in {1, depth} /\ \A y \in {1, depth} : k >= y
      BY <1>1, <2>2 DEF Max
    <2> QED BY <2>1, <2>3
  <1>3. PICK out, in : /\ out = Levels(estate, subject, k, TRUE)
                       /\ in = Levels(estate, subject, k, FALSE)
    OBVIOUS
  <1>4. PICK report : report = BlastRadius(estate, subject, k)
    OBVIOUS
  <1>5. /\ report.forward = UNION {out[d] : d \in 1 .. k}
        /\ report.reverse = UNION {in[d] : d \in 1 .. k}
        /\ report.cutSet =
             (UNION {ByCaller(estate, m) : m \in UNION {out[d] : d \in 0 .. k - 1}})
             \cup (UNION {ByCallee(estate, m) : m \in UNION {in[d] : d \in 0 .. k - 1}})
        /\ report.truncated = (Beyond(estate, out[k], TRUE) \/ Beyond(estate, in[k], FALSE))
    BY <1>3, <1>4 DEF BlastRadius
  <1>6. BlastRadiusCmd(estate, subject, depth).report = report /\ ~ report.truncated
    BY <1>1, <1>4 DEF BlastRadiusCmd
  <1>7. ~ Beyond(estate, out[k], TRUE) /\ ~ Beyond(estate, in[k], FALSE) /\ subject \in Member
    BY <1>5, <1>6 DEF Registered
  <1>8. /\ Met(out, 1, k) \cup {subject} = Reach(estate, subject, TRUE)
        /\ AllEdges(estate, Met(out, 0, k - 1), TRUE)
             = AllEdges(estate, Reach(estate, subject, TRUE), TRUE)
    <2>1. PICK outward : outward = TRUE
      OBVIOUS
    <2>2. out = Levels(estate, subject, k, outward) /\ ~ Beyond(estate, out[k], outward)
      BY <1>3, <1>7, <2>1
    <2>3. WholeTraversal(estate, subject, k, outward, out)
      BY <1>0, <1>2, <1>7, <2>2, TraversalWhole
    <2> QED BY <2>1, <2>3 DEF WholeTraversal
  <1>9. /\ Met(in, 1, k) \cup {subject} = Reach(estate, subject, FALSE)
        /\ AllEdges(estate, Met(in, 0, k - 1), FALSE)
             = AllEdges(estate, Reach(estate, subject, FALSE), FALSE)
    <2>1. PICK outward : outward = FALSE
      OBVIOUS
    <2>2. in = Levels(estate, subject, k, outward) /\ ~ Beyond(estate, in[k], outward)
      BY <1>3, <1>7, <2>1
    <2>3. WholeTraversal(estate, subject, k, outward, in)
      BY <1>0, <1>2, <1>7, <2>2, TraversalWhole
    <2> QED BY <2>1, <2>3 DEF WholeTraversal
  <1>10. \A S : /\ AllEdges(estate, S, TRUE) = UNION {ByCaller(estate, m) : m \in S}
                /\ AllEdges(estate, S, FALSE) = UNION {ByCallee(estate, m) : m \in S}
    BY DEF AllEdges, Edges
  <1>11. /\ report.forward = Met(out, 1, k) /\ report.reverse = Met(in, 1, k)
         /\ report.cutSet = AllEdges(estate, Met(out, 0, k - 1), TRUE)
                            \cup AllEdges(estate, Met(in, 0, k - 1), FALSE)
    BY <1>5 DEF Met, AllEdges, Edges
  <1>12. report.cutSet = AllEdges(estate, Reach(estate, subject, TRUE), TRUE)
                         \cup AllEdges(estate, Reach(estate, subject, FALSE), FALSE)
    BY <1>8, <1>9, <1>11
  <1>13. report.cutSet = (UNION {ByCaller(estate, m) : m \in Reach(estate, subject, TRUE)})
                         \cup (UNION {ByCallee(estate, m) : m \in Reach(estate, subject, FALSE)})
    BY <1>10, <1>12
  <1> QED BY <1>6, <1>8, <1>9, <1>11, <1>13

\* What is taken away beforehand would have been filtered.
LEMMA DiscoveryIsBlind == DiscoveryBlind
  <1> SUFFICES ASSUME NEW asker \in Member, NEW query
               PROVE  DiscoverCmd(estate, Member, asker, query) =
                        DiscoverCmd(estate, {m \in Member : Eligible(estate, asker, m)}, asker, query)
    BY DEF DiscoveryBlind
  <1> DEFINE there == {m \in Member : Eligible(estate, asker, m)}
             open(S) == {m \in Candidates(estate, S, asker, query) : Eligible(estate, asker, m)}
  <1>1. open(Member) = open(there)
    BY DEF Candidates
  <1>2. \A S : /\ query # {} => /\ Answer(estate, S, asker, query).matches = Leading(open(S))
                                /\ Answer(estate, S, asker, query).truncated
                                     = (Cardinality(open(S)) > MaxMatches)
               /\ query = {} => /\ Answer(estate, S, asker, query).matches = {}
                                /\ Answer(estate, S, asker, query).truncated = FALSE
    BY DEF Answer
  <1> HIDE DEF open, there
  <1>3. /\ Answer(estate, Member, asker, query).matches = Answer(estate, there, asker, query).matches
        /\ Answer(estate, Member, asker, query).truncated = Answer(estate, there, asker, query).truncated
    BY <1>1, <1>2
  <1>4. DiscoverCmd(estate, Member, asker, query) = DiscoverCmd(estate, there, asker, query)
    BY <1>3 DEF DiscoverCmd
  <1> QED BY <1>4 DEF there

\* The invariant: every register on file is the replay up to its day of the frames
\* there were.
ViewsTyped == calendar \in Nat /\ IsLog(log) /\ IsEstate(estate)
FiledTrue ==
    \A r \in filed : /\ r.day \in Nat /\ r.at \in 0 .. Len(log)
                     /\ r.tables = Tables(Replay(log, r.day)[r.at], r.day)
ViewsInv == ViewsTyped /\ FiledTrue

LEMMA ViewsStart == ViewsInit => ViewsInv
  <1> SUFFICES ASSUME ViewsInit PROVE ViewsInv
    OBVIOUS
  <1>1. ASSUME NEW n \in 1 .. 2 * Len(Founders) PROVE IsFrame(FoundingLog[n])
    <2>1. Len(Founders) \in Nat /\ (n + 1) \div 2 \in 1 .. Len(Founders)
      BY ViewsAssumption
    <2>2. Founders[(n + 1) \div 2] \in Member
      BY <2>1, ViewsAssumption
    <2> QED BY <2>2 DEF FoundingLog, IsFrame, IsChange
  <1>2. 2 * Len(Founders) \in Nat
    BY ViewsAssumption
  <1>3. IsLog(FoundingLog)
    <2> DEFINE S == {FoundingLog[n] : n \in 1 .. 2 * Len(Founders)}
    <2>1. FoundingLog = [n \in 1 .. 2 * Len(Founders) |-> FoundingLog[n]]
      BY DEF FoundingLog
    <2>2. FoundingLog \in [1 .. 2 * Len(Founders) -> S]
      BY <2>1
    <2> HIDE DEF S
    <2>3. FoundingLog \in Seq(S) /\ Len(FoundingLog) = 2 * Len(Founders)
      BY <1>2, <2>2
    <2> QED BY <1>1, <2>3 DEF IsLog
  <1>4. IsLog(<<>>)
    <2>1. <<>> \in Seq({}) /\ Len(<<>>) = 0
      OBVIOUS
    <2> QED BY <2>1 DEF IsLog
  <1>5. IsLog(log)
    BY <1>3, <1>4 DEF ViewsInit
  <1>6. IsEstate(estate)
    BY <1>5, ReplayTypes DEF ViewsInit
  <1> QED BY <1>5, <1>6 DEF ViewsInit, ViewsInv, ViewsTyped, FiledTrue

\* A commit adds a frame behind the others, whatever its stamp.
LEMMA CommitKeeps ==
    ASSUME ViewsInv, NEW ts \in Nat, NEW e, IsChange(e), CommitEvent(ts, e)
    PROVE  ViewsInv'
  <1>1. PICK w, f : /\ w = log' /\ f = [ts |-> ts, ev |-> e] /\ w = Append(log, f)
                    /\ estate' = Apply(estate, e) /\ calendar' = calendar /\ filed' = filed
    BY DEF CommitEvent
  <1>2. PICK S : log \in Seq(S)
    BY DEF ViewsInv, ViewsTyped, IsLog
  <1>3. /\ w \in Seq(S \cup {f}) /\ Len(log) \in Nat /\ Len(w) = Len(log) + 1
        /\ \A n \in 1 .. Len(log) : log[n] = w[n]
        /\ w[Len(log) + 1] = f
    <2>1. log \in Seq(S \cup {f}) /\ f \in S \cup {f}
      BY <1>2
    <2> QED BY <1>1, <2>1
  <1>4. IsFrame(f)
    BY <1>1 DEF IsFrame
  <1>5. IsLog(w)
    <2>1. \A n \in 1 .. Len(w) : n \in 1 .. Len(log) \/ n = Len(log) + 1
      BY <1>3
    <2>2. \A n \in 1 .. Len(log) : IsFrame(log[n])
      BY DEF ViewsInv, ViewsTyped, IsLog
    <2> QED BY <1>3, <1>4, <2>1, <2>2 DEF IsLog
  <1>6. ViewsTyped'
    BY <1>1, <1>5, ApplyTypes DEF ViewsInv, ViewsTyped
  <1>7. ASSUME NEW r \in filed
        PROVE  /\ r.day \in Nat /\ r.at \in 0 .. Len(w)
               /\ r.tables = Tables(Replay(w, r.day)[r.at], r.day)
    <2>1. /\ r.day \in Nat /\ r.at \in 0 .. Len(log)
          /\ r.tables = Tables(Replay(log, r.day)[r.at], r.day)
      BY DEF ViewsInv, FiledTrue
    <2>2. r.at \in 0 .. Len(w) /\ Len(log) <= Len(w) /\ Len(w) \in Nat
      BY <1>3, <2>1
    <2>3. Replay(log, r.day)[r.at] = Replay(w, r.day)[r.at]
      BY <1>3, <2>1, <2>2, ReplayAgrees
    <2> QED BY <2>1, <2>2, <2>3
  <1>8. FiledTrue'
    BY <1>1, <1>7 DEF FiledTrue
  <1> QED BY <1>6, <1>8 DEF ViewsInv

LEMMA ViewsStep == ViewsInv /\ [ViewsNext]_viewVars => ViewsInv'
  <1> SUFFICES ASSUME ViewsInv, [ViewsNext]_viewVars PROVE ViewsInv'
    OBVIOUS
  <1>0. calendar \in Nat /\ IsEstate(estate) /\ Stamps \subseteq Nat
    BY DEF ViewsInv, ViewsTyped, Stamps
  <1>1. ASSUME NEW ts \in Stamps, NEW m \in Member, NEW s \in {"attested", "unattested"},
               RegisterMember(ts, m, s)
        PROVE  ViewsInv'
    <2>1. IsChange([op |-> "register", who |-> m, posture |-> s])
      BY DEF IsChange
    <2> QED BY <1>0, <1>1, <2>1, CommitKeeps DEF RegisterMember
  <1>2. ASSUME NEW ts \in Stamps, NEW m \in Member, ActivateMember(ts, m) PROVE ViewsInv'
    <2>1. IsChange([op |-> "activate", who |-> m])
      BY DEF IsChange
    <2> QED BY <1>0, <1>2, <2>1, CommitKeeps DEF ActivateMember
  <1>3. ASSUME NEW ts \in Stamps, NEW m \in Member, QuarantineMember(ts, m) PROVE ViewsInv'
    <2>1. IsChange([op |-> "quarantine", who |-> m])
      BY DEF IsChange
    <2> QED BY <1>0, <1>3, <2>1, CommitKeeps DEF QuarantineMember
  <1>4. ASSUME NEW ts \in Stamps, NEW a \in Member, NEW b \in Member, Conclude(ts, a, b)
        PROVE  ViewsInv'
    <2>1. PICK d, n : /\ d = [caller |-> a, callee |-> b, status |-> "active",
                              iat |-> ts, exp |-> ts + 1]
                      /\ n = Cardinality(DOMAIN estate.deals) + 1
      OBVIOUS
    <2>2. d \in DealRec
      BY <1>0, <2>1 DEF DealRec
    <2>3. IsChange([op |-> "mint", who |-> n, deal |-> d])
      BY <2>2 DEF IsChange
    <2>4. CommitEvent(ts, [op |-> "mint", who |-> n, deal |-> d])
      BY <1>4, <2>1 DEF Conclude
    <2> QED BY <1>0, <2>3, <2>4, CommitKeeps
  <1>5. ASSUME NEW ts \in Stamps, NEW n \in DOMAIN estate.deals, RevokeDeal(ts, n)
        PROVE  ViewsInv'
    <2>1. IsChange([op |-> "revoke", who |-> n])
      BY DEF IsChange
    <2> QED BY <1>0, <1>5, <2>1, CommitKeeps DEF RevokeDeal
  <1>6. CASE DayPasses \/ Scrape \/ UNCHANGED viewVars
    <2>1. calendar' \in Nat /\ UNCHANGED <<log, estate, filed>>
      BY <1>0, <1>6 DEF DayPasses, Scrape, viewVars
    <2> QED BY <2>1 DEF ViewsInv, ViewsTyped, FiledTrue
  <1>7. ASSUME NEW day \in 0 .. calendar - 1, Export(day) PROVE ViewsInv'
    <2>1. PICK r : /\ r = [day |-> day, at |-> Len(log), tables |-> Tables(AsOf(day), day)]
                   /\ filed' = filed \cup {r}
                   /\ UNCHANGED <<calendar, log, estate>>
      BY <1>7 DEF Export
    <2>2. day \in Nat /\ Len(log) \in 0 .. Len(log)
      BY <1>0 DEF ViewsInv, ViewsTyped, IsLog
    <2>3. /\ r.day \in Nat /\ r.at \in 0 .. Len(log)
          /\ r.tables = Tables(Replay(log, r.day)[r.at], r.day)
      BY <2>1, <2>2 DEF AsOf
    <2>4. FiledTrue'
      BY <2>1, <2>3 DEF ViewsInv, FiledTrue
    <2> QED BY <2>1, <2>4 DEF ViewsInv, ViewsTyped
  <1> QED BY <1>1, <1>2, <1>3, <1>4, <1>5, <1>6, <1>7 DEF ViewsNext

LEMMA ViewsInductive == ViewsSpec => []ViewsInv
  BY ViewsStart, ViewsStep, PTL DEF ViewsSpec

\* Registers between which only later days were written are the same.
LEMMA RegistersStand ==
    ASSUME ViewsInv
    PROVE  RegisterStable
  <1> SUFFICES ASSUME NEW r \in filed, NEW s \in filed, r.day = s.day, r.at <= s.at,
                      \A n \in r.at + 1 .. s.at : log[n].ts > r.day
               PROVE  r.tables = s.tables
    BY DEF RegisterStable
  <1>1. Len(log) \in Nat
    BY DEF ViewsInv, ViewsTyped, IsLog
  <1>2. /\ r.day \in Nat /\ r.at \in 0 .. Len(log) /\ s.at \in 0 .. Len(log)
        /\ r.tables = Tables(Replay(log, r.day)[r.at], r.day)
        /\ s.tables = Tables(Replay(log, r.day)[s.at], r.day)
    BY DEF ViewsInv, FiledTrue
  <1>3. ASSUME NEW n \in r.at + 1 .. s.at PROVE ~ (log[n].ts <= r.day)
    <2>1. n \in 1 .. Len(log)
      BY <1>1, <1>2
    <2>2. log[n].ts \in Nat
      BY <2>1 DEF ViewsInv, ViewsTyped, IsLog, IsFrame
    <2> QED BY <1>2, <2>2
  <1>4. r.at \in Nat /\ s.at \in Nat /\ s.at <= Len(log)
    BY <1>1, <1>2
  <1>5. PICK i, j, day : i = r.at /\ j = s.at /\ day = r.day
    OBVIOUS
  <1>6. /\ i \in Nat /\ j \in Nat /\ i <= j /\ j <= Len(log)
        /\ \A n \in i + 1 .. j : ~ (log[n].ts <= day)
    BY <1>3, <1>4, <1>5
  <1>7. Replay(log, day)[i] = Replay(log, day)[j]
    BY <1>1, <1>6, LaterFramesPass
  <1> QED BY <1>2, <1>5, <1>7

\* What an estate says about itself is sound: a register of a day that has passed
\* changes only by a frame stamped with that day or before and committed after the
\* register was filed, discovery tells nothing of parties the asker may not reach,
\* and a blast radius not marked as cut short is whole (export.rs, broker.rs,
\* assurance.rs).
THEOREM ViewsAreSound == ViewsSpec => []ViewsSound
  <1>1. ViewsInv => ViewsSound
    <2> SUFFICES ASSUME ViewsInv PROVE ViewsSound
      OBVIOUS
    <2>1. RegisterStable
      BY RegistersStand
    <2>2. BlastComplete
      BY BlastIsWhole DEF ViewsInv, ViewsTyped
    <2> QED BY <2>1, <2>2, DiscoveryIsBlind DEF ViewsSound
  <1> QED BY <1>1, ViewsInductive, PTL
============================================================================
