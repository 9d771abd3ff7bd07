--------------------------- MODULE EvidenceChain ---------------------------
(***************************************************************************)
(* The evidence chain of a tenant, what feeds it and what moves it:        *)
(* recording an event through the sinks (evidence.rs, sink.rs), the        *)
(* hash-linked file with its signed checkpoints (chain.rs), the retirement *)
(* of its beginning (chain.rs retire_segment, run by `connect retention`)  *)
(* and the backup of the root while it is in use (backup.rs).              *)
(*                                                                         *)
(* A hash is the content it was taken over: two rows have the same hash    *)
(* exactly when they agree in every field and in everything before them.   *)
(* A signature is the key that made it.  The plane holds the lock of the   *)
(* chain while it is open; retirement and backup take no lock and may run  *)
(* beside it.  The files may also be altered by something that is none of  *)
(* these programs, and then verification is what must say so.              *)
(***************************************************************************)
EXTENDS Integers, Sequences, FiniteSets

CONSTANTS
    Kinds,       \* the event kinds that are recorded
    SinkList,    \* the configured sinks, in order: [filter, delivery]
    Interval,    \* appends per checkpoint
    Window,      \* how long a row must be kept
    Keys,        \* keys a checkpoint may be signed with
    AnchorKey,   \* the one the operator verifies with
    NoKey,       \* of a line of anchor.jsonl that does not decode
    MaxRows,     \* bound on appends
    MaxClock,    \* bound on the clock
    MaxTrouble   \* bound on failed writes and signatures, crashes, alterations

ASSUME IntervalAssumption == Interval \in Nat \ {0}
ASSUME WindowAssumption == Window \in Nat
ASSUME BoundsAssumption == {MaxRows, MaxClock, MaxTrouble} \subseteq Nat
ASSUME KeyAssumption == AnchorKey \in Keys /\ NoKey \notin Keys

VARIABLES
    chain,     \* the rows of chain.jsonl up to the first line that does not parse
    torn,      \* chain.jsonl holds a line that does not parse
    anchors,   \* anchor.jsonl: the signed checkpoints
    ragged,    \* anchor.jsonl does not end in a newline
    tomb,      \* retired.json
    segments,  \* the files under retired/
    shipped,   \* shipped[s]: the events sink s has accepted
    state,     \* the authority the state log holds, by the hash of its evidence
    plane,     \* the plane's open chain: its head, or Closed
    rec,       \* the record the plane is making
    retire,    \* the retirement that is running
    backup,    \* the backup that is running or was taken
    restored,  \* the root a restore has placed
    clock,
    trouble,   \* how often something has failed or been altered
    edited,    \* a file was altered from outside
    hist,      \* every row the plane has written whole
    attested,  \* attested[n]: the live rows up to n when checkpoint n was signed
    mishap     \* a retirement ran beside the plane or a backup, or did not finish

files == <<chain, torn, anchors, ragged, tomb, segments>>
chainVars == <<files, shipped, state, plane, rec, retire, backup, restored, clock,
          trouble, edited, hist, attested, mishap>>

-----------------------------------------------------------------------------
(* Events and sinks (evidence.rs, sink.rs).                                *)

Denials == {"AdmissionDenied", "ContractDenied"}
Containments == {"Revoke", "Quarantine", "QuarantineCleared", "BreakGlassKeyUsed"}

\* 1 informational, 2 low, 3 medium, 4 high, 5 critical.
SeverityOf(kind) ==
    CASE kind \in {"Quarantine", "BreakGlassKeyUsed"} -> 5
      [] kind \in {"DriftMaterial", "MediatorUnconfirmed", "BreakGlass", "Revoke"} -> 4
      [] kind \in {"AdmissionDenied", "ContractDenied", "Suspend"} -> 3
      [] kind \in {"Approve", "QuarantineCleared", "DriftBenign", "MediatorAck"} -> 2
      [] OTHER -> 1

Accepts(sink, kind) ==
    CASE sink.filter = "All" -> TRUE
      [] sink.filter = "Deny" -> kind \in Denials
      [] sink.filter = "HighRisk" -> SeverityOf(kind) >= 4
      [] sink.filter = "Revocation" -> kind \in Containments

Wanting(delivery, kind) ==
    {s \in DOMAIN SinkList : SinkList[s].delivery = delivery
                             /\ Accepts(SinkList[s], kind)}

-----------------------------------------------------------------------------
(* Rows, checkpoints, tombstones (chain.rs).                               *)

\* The last row of a file, and the rows of it.
LastOf(rows) == rows[Len(rows)]
RowsOf(rows) == {rows[i] : i \in DOMAIN rows}

Genesis == <<>>
RowHash(row) == <<row.seq, row.ts, row.kind, row.prev>>
Row(seq, ts, kind, prev) ==
    LET r == [seq |-> seq, ts |-> ts, kind |-> kind, prev |-> prev, hash |-> Genesis]
    IN  [r EXCEPT !.hash = RowHash(r)]

NoTomb == [from |-> 1, to |-> 0, last |-> Genesis, anchor |-> 0, file |-> <<>>]
Closed == [open |-> FALSE, seq |-> 0, hash |-> Genesis]

\* The head an opened chain resumes from: the last row, or what the tombstone
\* says the retired rows ended in.
HeadOf(rows, t) ==
    IF rows = <<>> THEN [open |-> TRUE, seq |-> t.to, hash |-> t.last]
    ELSE [open |-> TRUE, seq |-> LastOf(rows).seq, hash |-> LastOf(rows).hash]

HeadSeq(rows) == IF rows = <<>> THEN 0 ELSE LastOf(rows).seq

\* Numbered without a gap from where the tombstone ends, each row linked to the
\* one before, each hash that of its content.
Linked(rows, t) ==
    \A i \in DOMAIN rows :
        /\ rows[i].seq = (IF i = 1 THEN t.to ELSE rows[i - 1].seq) + 1
        /\ rows[i].prev = IF i = 1 THEN t.last ELSE rows[i - 1].hash
        /\ rows[i].hash = RowHash(rows[i])

\* No checkpoint, whoever signed it, claims a row past the head.
NotTruncated(rows, as) == \A i \in DOMAIN as : as[i].seq <= HeadSeq(rows)

Intact(rows, t, as) == Linked(rows, t) /\ NotTruncated(rows, as)

\* Every line of the anchor file is signed with the operator's key.
Genuine(as) == \A i \in DOMAIN as : as[i].key = AnchorKey

\* Mutant of AnchorAgrees: a checkpoint is matched by number, not by hash.
AnchorAgreesNumber(cp, rows, t) ==
    cp.seq <= t.to \/ \E i \in DOMAIN rows : rows[i].seq = cp.seq

\* A checkpoint before the boundary is in the archive, one at the boundary is
\* compared with the tombstone, one after it with its row.
AnchorAgrees(cp, rows, t) ==
    \/ cp.seq < t.to
    \/ cp.seq = t.to /\ cp.hash = t.last
    \/ cp.seq > t.to /\ \E i \in DOMAIN rows : /\ rows[i].seq = cp.seq
                                               /\ rows[i].hash = cp.hash

IntactAnchored(rows, t, as) ==
    /\ Intact(rows, t, as)
    /\ Genuine(as)
    /\ \A i \in DOMAIN as : AnchorAgrees(as[i], rows, t)

\* audit verify, and what the commands run before they touch anything.
AuditVerify(withKey) ==
    ~torn /\ IF withKey THEN IntactAnchored(chain, tomb, anchors)
             ELSE Intact(chain, tomb, anchors)

\* The genuine checkpoints at or after upto that match a live row.
Covering(upto, rows, as) ==
    {i \in DOMAIN as : /\ as[i].key = AnchorKey
                       /\ as[i].seq >= upto
                       /\ \E j \in DOMAIN rows : /\ rows[j].seq = as[i].seq
                                                 /\ rows[j].hash = as[i].hash}

\* verify_retired_segment: the archived file against the tombstone.
SegmentProblems(t) ==
    {"digest" : s \in {s \in segments : s.name = <<t.from, t.to>> /\ s.rows # t.file}}
    \cup {"link" : i \in {i \in DOMAIN t.file :
              \/ t.file[i].seq # t.from + i - 1
              \/ i > 1 /\ t.file[i].prev # t.file[i - 1].hash
              \/ t.file[i].hash # RowHash(t.file[i])}}
    \cup {"boundary" : x \in {x \in {t.file} : x = <<>> \/ LastOf(x).hash # t.last}}

-----------------------------------------------------------------------------
NotRecording == [pc |-> "idle", kind |-> "none", ts |-> 0]
NoRetirement == [pc |-> "idle", upto |-> 0, out |-> <<>>, kept |-> <<>>, cp |-> 0]
NoBackup == [pc |-> "none", state |-> {}, chain |-> <<>>, torn |-> FALSE,
             anchors |-> <<>>, tomb |-> NoTomb, left |-> {}, head |-> Genesis,
             altered |-> FALSE]
NoRoot == [placed |-> FALSE, state |-> {}, chain |-> <<>>, anchors |-> <<>>,
           tomb |-> NoTomb]

ChainInit ==
    /\ chain = <<>> /\ torn = FALSE /\ anchors = <<>> /\ ragged = FALSE
    /\ tomb = NoTomb /\ segments = {}
    /\ shipped = [s \in DOMAIN SinkList |-> {}]
    /\ state = {}
    /\ plane = Closed /\ rec = NotRecording
    /\ retire = NoRetirement
    /\ backup = NoBackup /\ restored = NoRoot
    /\ clock = 0 /\ trouble = 0 /\ edited = FALSE
    /\ hist = <<>> /\ attested = {} /\ mishap = FALSE

Tick ==
    /\ clock < MaxClock
    /\ clock' = clock + 1
    /\ UNCHANGED <<files, shipped, state, plane, rec, retire, backup, restored,
                   trouble, edited, hist, attested, mishap>>

\* Chain::open: a line that does not parse refuses the whole chain.
Open ==
    /\ ~plane.open /\ ~torn
    /\ plane' = HeadOf(chain, tomb)
    /\ UNCHANGED <<files, shipped, state, rec, retire, backup, restored, clock,
                   trouble, edited, hist, attested, mishap>>

-----------------------------------------------------------------------------
(* Evidence::record: blocking sinks, the chain, the other sinks.           *)

Fault == trouble < MaxTrouble /\ trouble' = trouble + 1
NoFault == UNCHANGED trouble

\* The row the plane appends next, as the event identifies it.
NextRow(kind, ts) == Row(plane.seq + 1, ts, kind, plane.hash)

\* The blocking sinks that want the event get it in turn.  The first that fails
\* ends the operation; those before it keep what they got.
ShipBlocking(kind) ==
    /\ plane.open /\ rec = NotRecording
    /\ Len(hist) < MaxRows
    /\ \E n \in {0} \cup Wanting("Blocking", kind) :
        LET all == Wanting("Blocking", kind)
            got == {s \in all : n = 0 \/ s < n}
        IN  /\ shipped' = [s \in DOMAIN shipped |->
                              IF s \in got THEN shipped[s] \cup {NextRow(kind, clock).hash}
                              ELSE shipped[s]]
            /\ IF n = 0 THEN rec' = [pc |-> "append", kind |-> kind, ts |-> clock] /\ NoFault
               ELSE UNCHANGED rec /\ Fault
    /\ UNCHANGED <<files, state, plane, retire, backup, restored, clock, edited,
                   hist, attested, mishap>>

\* Chain::append: the line is written and synced, and only then the head moves.
\* A write that fails leaves nothing, a part of the line or, when it is the sync
\* that fails, the whole line.
AppendRow ==
    /\ rec.pc = "append"
    /\ LET row == NextRow(rec.kind, rec.ts)
           Whole == /\ chain' = IF torn THEN chain ELSE Append(chain, row)
                    /\ hist' = Append(hist, row)
                    /\ UNCHANGED torn
       IN  \/ /\ Whole
              /\ plane' = [open |-> TRUE, seq |-> row.seq, hash |-> row.hash]
              /\ rec' = [rec EXCEPT !.pc = IF row.seq % Interval = 0 THEN "anchor"
                                           ELSE "safe"]
              /\ NoFault
           \/ Whole /\ rec' = NotRecording /\ UNCHANGED plane /\ Fault
           \/ /\ torn' \in {torn, TRUE} /\ rec' = NotRecording /\ Fault
              /\ UNCHANGED <<chain, hist, plane>>
    /\ mishap' = (mishap \/ retire.pc # "idle")
    /\ UNCHANGED <<anchors, ragged, tomb, segments, shipped, state, retire, backup,
                   restored, clock, edited, attested>>

\* The checkpoint of the head, signed or, as a line that stops inside itself, not.
\* Such a line still claims its number, which highest_checkpoint_seq may read.
HeadLine(key) == [seq |-> plane.seq, hash |-> plane.hash, key |-> key]

\* The text and its newline are two writes.  What is written behind a line that has
\* none makes one line of the two, which does not decode.
Written(line) ==
    IF ragged THEN [anchors EXCEPT ![Len(anchors)].key = NoKey] ELSE Append(anchors, line)

\* A write that fails or is cut short leaves nothing, a part of the text, the text
\* without its newline or, when it is the sync that fails, the whole line.
AnchorStops ==
    \/ UNCHANGED <<anchors, ragged>>
    \/ anchors' = Written(HeadLine(NoKey)) /\ ragged' = TRUE
    \/ anchors' = Written(HeadLine(AnchorKey)) /\ ragged' \in BOOLEAN

\* Anchor::write at every Interval-th row.  When the signer or the write fails the
\* record is reported as failed although its row is in the chain.
WriteAnchor ==
    /\ rec.pc = "anchor"
    /\ \/ /\ anchors' = Written(HeadLine(AnchorKey)) /\ ragged' = FALSE
          /\ attested' = IF /\ ~ragged /\ ~torn
                            /\ Linked(chain, tomb) /\ HeadOf(chain, tomb) = plane
                         THEN attested \cup {[seq |-> plane.seq, rows |-> RowsOf(chain)]}
                         ELSE attested
          /\ rec' = [rec EXCEPT !.pc = "safe"]
          /\ NoFault
       \/ AnchorStops /\ UNCHANGED attested /\ rec' = NotRecording /\ Fault
    /\ UNCHANGED <<chain, torn, tomb, segments, shipped, state, plane, retire,
                   backup, restored, clock, edited, hist, mishap>>

\* The fail-safe sinks: what they refuse is a warning.
ShipFailSafe ==
    /\ rec.pc = "safe"
    /\ \E got \in SUBSET Wanting("FailSafe", rec.kind) :
        /\ shipped' = [s \in DOMAIN shipped |->
                          IF s \in got THEN shipped[s] \cup {plane.hash}
                          ELSE shipped[s]]
        /\ IF got = Wanting("FailSafe", rec.kind) THEN NoFault ELSE Fault
    /\ rec' = [rec EXCEPT !.pc = "commit"]
    /\ UNCHANGED <<files, state, plane, retire, backup, restored, clock, edited,
                   hist, attested, mishap>>

\* What the event is evidence of is written to the state log last.
CommitState ==
    /\ rec.pc = "commit"
    /\ state' = state \cup {plane.hash}
    /\ rec' = NotRecording
    /\ UNCHANGED <<files, shipped, plane, retire, backup, restored, clock, trouble,
                   edited, hist, attested, mishap>>

\* The plane's process ends, perhaps inside a write of a line.
Crash ==
    /\ plane.open /\ Fault
    /\ plane' = Closed /\ rec' = NotRecording
    /\ torn' \in {torn, torn \/ rec.pc = "append"}
    /\ IF rec.pc = "anchor" THEN AnchorStops ELSE UNCHANGED <<anchors, ragged>>
    /\ UNCHANGED <<chain, tomb, segments, shipped, state, retire, backup,
                   restored, clock, edited, hist, attested, mishap>>

-----------------------------------------------------------------------------
(* retire_segment: checks, then three files, in place and without the lock. *)

\* The rows up to a number.  The chain has just verified, so its rows are
\* numbered from the tombstone on and the partition by number is a cut.
Retiring(upto) == {i \in DOMAIN chain : chain[i].seq <= upto}

\* What retire_segment refuses: a chain that does not verify, a range already
\* retired or empty, the head, a row still inside its window, a range that no
\* checkpoint covers.
MayRetire(upto) ==
    /\ AuditVerify(TRUE)
    /\ upto > tomb.to
    /\ Retiring(upto) # {}
    /\ Retiring(upto) # DOMAIN chain
    /\ \A i \in Retiring(upto) : chain[i].ts < clock - Window
    /\ Covering(upto, chain, anchors) # {}

BeginRetire(upto) ==
    /\ retire = NoRetirement
    /\ MayRetire(upto)
    /\ LET covers == Covering(upto, chain, anchors)
           best == CHOOSE i \in covers : \A j \in covers : anchors[i].seq <= anchors[j].seq
           cut == upto - tomb.to
       IN  retire' = [pc |-> "segment", upto |-> upto,
                      out |-> SubSeq(chain, 1, cut),
                      kept |-> SubSeq(chain, cut + 1, Len(chain)),
                      cp |-> anchors[best].seq]
    /\ mishap' = (mishap \/ rec.pc = "append" \/ backup.pc \in {"verified", "copying"})
    /\ UNCHANGED <<files, shipped, state, plane, rec, backup, restored, clock,
                   trouble, edited, hist, attested>>

WriteSegment ==
    /\ retire.pc = "segment"
    /\ segments' = {s \in segments : s.name # <<tomb.to + 1, retire.upto>>}
                   \cup {[name |-> <<tomb.to + 1, retire.upto>>, rows |-> retire.out]}
    /\ retire' = [retire EXCEPT !.pc = "tombstone"]
    /\ UNCHANGED <<chain, torn, anchors, ragged, tomb, shipped, state, plane, rec, backup,
                   restored, clock, trouble, edited, hist, attested, mishap>>

WriteTombstone ==
    /\ retire.pc = "tombstone"
    /\ tomb' = [from |-> tomb.to + 1, to |-> retire.upto,
                last |-> LastOf(retire.out).hash, anchor |-> retire.cp,
                file |-> retire.out]
    /\ retire' = [retire EXCEPT !.pc = "truncate"]
    /\ UNCHANGED <<chain, torn, anchors, ragged, segments, shipped, state, plane, rec, backup,
                   restored, clock, trouble, edited, hist, attested, mishap>>

\* fs::write empties the file and then writes the survivors into it.
TruncateChain ==
    /\ retire.pc = "truncate"
    /\ chain' = <<>> /\ torn' = FALSE
    /\ retire' = [retire EXCEPT !.pc = "survivors"]
    /\ UNCHANGED <<anchors, ragged, tomb, segments, shipped, state, plane, rec, backup,
                   restored, clock, trouble, edited, hist, attested, mishap>>

\* A row the plane appended in between is written over, in whole or in part.
WriteSurvivors ==
    /\ retire.pc = "survivors"
    /\ chain' = retire.kept
    /\ torn' \in {torn, torn \/ chain # <<>>}
    /\ retire' = NoRetirement
    /\ UNCHANGED <<anchors, ragged, tomb, segments, shipped, state, plane, rec, backup,
                   restored, clock, trouble, edited, hist, attested, mishap>>

\* The command is interrupted between two of its writes.
RetireCrash ==
    /\ retire.pc # "idle" /\ Fault
    /\ retire' = NoRetirement
    /\ mishap' = (mishap \/ retire.pc \in {"truncate", "survivors"})
    /\ UNCHANGED <<files, shipped, state, plane, rec, backup, restored, clock,
                   edited, hist, attested>>

-----------------------------------------------------------------------------
(* backup.rs: verify, copy the state, copy the evidence, name the head.    *)

BackupVerify(withKey) ==
    /\ backup.pc = "none"
    /\ AuditVerify(withKey)
    /\ backup' = [backup EXCEPT !.pc = "verified"]
    /\ mishap' = (mishap \/ retire.pc # "idle")
    /\ UNCHANGED <<files, shipped, state, plane, rec, retire, restored, clock,
                   trouble, edited, hist, attested>>

CopyState ==
    /\ backup.pc = "verified"
    /\ backup' = [backup EXCEPT !.pc = "copying", !.state = state,
                                !.left = {"chain", "anchors", "tomb"}]
    /\ UNCHANGED <<files, shipped, state, plane, rec, retire, restored, clock,
                   trouble, edited, hist, attested, mishap>>

\* The files of the directory in the order the directory lists them.  A line
\* being written may be caught in part.
CopyFile(f) ==
    /\ backup.pc = "copying" /\ f \in backup.left
    /\ \E cut \in {FALSE, rec.pc = IF f = "chain" THEN "append" ELSE "anchor"} :
        backup' = [backup EXCEPT
            !.left = @ \ {f},
            !.chain = IF f = "chain" THEN chain ELSE @,
            !.torn = IF f = "chain" THEN torn \/ cut ELSE @,
            !.anchors = IF f # "anchors" THEN @ ELSE IF cut THEN Written(HeadLine(NoKey))
                        ELSE anchors,
            !.tomb = IF f = "tomb" THEN tomb ELSE @]
    /\ UNCHANGED <<files, shipped, state, plane, rec, retire, restored, clock,
                   trouble, edited, hist, attested, mishap>>

\* The manifest names the head of the chain as it is now.
WriteManifest ==
    /\ backup.pc = "copying" /\ backup.left = {}
    /\ ~torn
    /\ backup' = [backup EXCEPT !.pc = "taken",
                     !.head = IF chain = <<>> THEN Genesis ELSE LastOf(chain).hash]
    /\ UNCHANGED <<files, shipped, state, plane, rec, retire, restored, clock,
                   trouble, edited, hist, attested, mishap>>

\* restore: digests first, then the files into an empty root, then the head.
Restore ==
    /\ backup.pc = "taken" /\ ~restored.placed
    /\ ~backup.altered
    /\ ~backup.torn
    /\ backup.head = IF backup.chain = <<>> THEN Genesis ELSE LastOf(backup.chain).hash
    /\ restored' = [placed |-> TRUE, state |-> backup.state, chain |-> backup.chain,
                    anchors |-> backup.anchors, tomb |-> backup.tomb]
    /\ UNCHANGED <<files, shipped, state, plane, rec, retire, backup, clock, trouble,
                   edited, hist, attested, mishap>>

-----------------------------------------------------------------------------
(* The files change outside the program.                                   *)

\* rows with the row at i said to be of another kind, its hash left as it was.
Altered(rows, i, kind) == [rows EXCEPT ![i].kind = kind]

\* rows with another kind at i, and hashes and links that fit from there on.
Rewritten(rows, i, kind) ==
    LET kindAt(j) == IF j = i THEN kind ELSE rows[j].kind
        hash[j \in 1 .. Len(rows)] ==
            IF j < i THEN rows[j].hash
            ELSE <<rows[j].seq, rows[j].ts, kindAt(j),
                   IF j = 1 THEN rows[1].prev ELSE hash[j - 1]>>
    IN  [j \in DOMAIN rows |->
            IF j < i THEN rows[j]
            ELSE Row(rows[j].seq, rows[j].ts, kindAt(j),
                     IF j = 1 THEN rows[1].prev ELSE hash[j - 1])]

\* rows without the row at i.
Without(rows, i) ==
    [j \in 1 .. Len(rows) - 1 |-> IF j < i THEN rows[j] ELSE rows[j + 1]]

Edit ==
    /\ Fault /\ edited' = TRUE
    /\ \/ /\ chain # <<>>
          /\ \/ \E i \in DOMAIN chain : \E k \in Kinds \ {chain[i].kind} :
                    chain' \in {Altered(chain, i, k), Rewritten(chain, i, k)}
             \/ \E i \in DOMAIN chain : chain' = Without(chain, i)
          /\ UNCHANGED <<anchors, backup>>
       \/ /\ \E k \in Keys \ {AnchorKey}, n \in 1..MaxRows :
                anchors' = Append(anchors, [seq |-> n, hash |-> Genesis, key |-> k])
          /\ UNCHANGED <<chain, backup>>
       \/ /\ backup.pc = "taken"
          /\ backup' = [backup EXCEPT !.altered = TRUE]
          /\ UNCHANGED <<chain, anchors>>
    /\ UNCHANGED <<torn, ragged, tomb, segments, shipped, state, plane, rec, retire,
                   restored, clock, hist, attested, mishap>>

-----------------------------------------------------------------------------
\* The steps of one Evidence::record and of each command, in their order by pc.
RecordEvent ==
    \/ \E k \in Kinds : ShipBlocking(k)
    \/ AppendRow \/ WriteAnchor \/ ShipFailSafe \/ CommitState

RetentionCmd ==
    \/ \E n \in 1..MaxRows : BeginRetire(n)
    \/ WriteSegment \/ WriteTombstone \/ TruncateChain \/ WriteSurvivors

BackupCmd ==
    \/ \E withKey \in BOOLEAN : BackupVerify(withKey)
    \/ CopyState
    \/ \E f \in {"chain", "anchors", "tomb"} : CopyFile(f)
    \/ WriteManifest

RestoreCmd == Restore

ChainNext ==
    \/ Tick \/ Open \/ RecordEvent \/ Crash
    \/ RetentionCmd \/ RetireCrash
    \/ BackupCmd \/ RestoreCmd
    \/ Edit

ChainSpec == ChainInit /\ [][ChainNext]_chainVars

-----------------------------------------------------------------------------
\* The types of the files and of the programs' positions.
ChainTypeOK ==
    /\ torn \in BOOLEAN /\ ragged \in BOOLEAN /\ mishap \in BOOLEAN
    /\ \A i \in DOMAIN chain : chain[i] \in [seq : Nat, ts : Nat, kind : Kinds,
                                              prev : {chain[i].prev},
                                              hash : {chain[i].hash}]
    /\ \A i \in DOMAIN anchors : anchors[i].key \in Keys \cup {NoKey}
    /\ rec.pc \in {"idle", "append", "anchor", "safe", "commit"}
    /\ retire.pc \in {"idle", "segment", "tombstone", "truncate", "survivors"}
    /\ backup.pc \in {"none", "verified", "copying", "taken"}

\* audit verify with the anchor key never passes a chain in which a row that a
\* checkpoint attests was lost or changed since it was signed, whether or not the
\* hashes were made to fit, and whatever was retired meanwhile.
TamperEvident ==
    AuditVerify(TRUE) =>
        \A a \in attested : a.seq > tomb.to =>
            {r \in a.rows : r.seq > tomb.to} = {r \in RowsOf(chain) : r.seq <= a.seq}

\* Evidence that a blocking sink asked for is in that sink before it is in the
\* chain, and authority is in the state log only after both.
BlockingTrail ==
    /\ \A r \in RowsOf(hist) : \A s \in Wanting("Blocking", r.kind) : r.hash \in shipped[s]
    /\ \A h \in state : \E r \in RowsOf(hist) : r.hash = h

\* No row was written whole, reported as failed and numbered again.
NoSyncLost == \A i, j \in DOMAIN hist : hist[i].seq = hist[j].seq => i = j

\* Every line of anchor.jsonl decodes.
AnchorsLegible == \A i \in DOMAIN anchors : anchors[i].key # NoKey

\* Without an alteration, a line that was written in part and a retirement that
\* overlaps something or is cut short after its tombstone, the chain verifies, rows
\* are moved and never lost, and the archive matches its tombstone, over any number of
\* retirements and restarts.  Two of the exceptions are against what the code says:
\* "a crash after the tombstone leaves survivors that still verify against it"
\* (chain.rs:860) is not so, since the rows the tombstone retires are then still in
\* front of them; and one line of anchor.jsonl that was cut short ends verification
\* with the key for good, as nothing repairs that file.
HonestVerifies ==
    ~edited /\ ~mishap /\ ~torn /\ AnchorsLegible /\ retire.pc = "idle" /\ NoSyncLost =>
        /\ IntactAnchored(chain, tomb, anchors)
        /\ RowsOf(hist) = (UNION {RowsOf(s.rows) : s \in segments}) \cup RowsOf(chain)
        /\ tomb # NoTomb => SegmentProblems(tomb) = {}

\* A restore that succeeds has placed a chain that verifies and that holds, or
\* retired, the evidence of everything in the state it placed beside it, although
\* the plane went on writing while the copies were made.
RestoreSound ==
    restored.placed /\ ~edited /\ ~mishap /\ NoSyncLost =>
        /\ Intact(restored.chain, restored.tomb, restored.anchors)
        /\ \A h \in restored.state : \E r \in RowsOf(hist) :
              /\ r.hash = h
              /\ r \in RowsOf(restored.chain) \/ r.seq <= restored.tomb.to

\* What audit verify and restore answer can be relied on: no chain in which an
\* attested row was lost or changed passes, a blocking sink has the evidence
\* before the chain and the state do, an untouched chain whose lines and retirements
\* were finished verifies (HonestVerifies says which crashes are excepted), and a
\* restore places a chain that covers its state (chain.rs, evidence.rs, backup.rs).
EvidenceSound == TamperEvident /\ BlockingTrail /\ HonestVerifies /\ RestoreSound
=============================================================================
