------------------------------- MODULE Rekor -------------------------------
(***************************************************************************)
(* Transparency-log inclusion (wc-control/src/rekor.rs, and the part of    *)
(* wc-cli's attest_verify_cmd that feeds it).  Hashes are terms of a free   *)
(* algebra: two are equal only if they were made of the same parts.  The   *)
(* log grows and signs checkpoints; a response file holds an entry's body, *)
(* an audit path, a root and a note, which need not have been taken from   *)
(* one answer of one log.                                                   *)
(***************************************************************************)
EXTENDS Naturals, Sequences, FiniteSets, SequencesExt

CONSTANTS
    Book,      \* [log -> the bodies it will hold, in the order they arrive]
    MaxNotes,  \* bound on checkpoints
    LogName,   \* the name the configured key goes by
    Absent     \* no note, no key

VARIABLES
    entries,   \* [log -> its entries]: "ours" is the log whose key is configured
    notes,     \* checkpoints the logs have signed
    outcome    \* what the last verification came to, Absent before the first

rekorVars == <<entries, notes, outcome>>

Logs == DOMAIN Book
Body == UNION {Range(Book[l]) : l \in Logs}
MaxLeaves == Len(Book["ours"])

-----------------------------------------------------------------------------
(* RFC 6962: the reference.  A tree of n > 1 leaves splits at the largest    *)
(* power of two below n.                                                     *)

LeafHash(b) == <<"leaf", b>>
NodeHash(left, right) == <<"node", left, right>>

SplitAt(n) == CHOOSE k \in 1 .. n : k < n /\ 2 * k >= n /\ \E e \in 0 .. n : k = 2 ^ e

Subtrees(s) ==
    LET mth[lo \in 1 .. Len(s), hi \in 1 .. Len(s)] ==
          IF lo >= hi THEN LeafHash(s[lo])
          ELSE LET k == SplitAt(hi - lo + 1) IN NodeHash(mth[lo, lo + k - 1], mth[lo + k, hi])
    IN mth
RootOf(s) == Subtrees(s)[1, Len(s)]

\* The audit path of leaf m, counted from 0.
AuditPath(s, m) ==
    LET mth == Subtrees(s)
        path[lo \in 1 .. Len(s), hi \in 1 .. Len(s)] ==
          IF lo >= hi THEN <<>>
          ELSE LET k == SplitAt(hi - lo + 1) IN
               IF m + 1 < lo + k THEN Append(path[lo, lo + k - 1], mth[lo + k, hi])
               ELSE Append(path[lo + k, hi], mth[lo, lo + k - 1])
    IN path[1, Len(s)]

Hashes(s) == LET mth == Subtrees(s)
             IN {mth[lo, hi] : lo \in 1 .. Len(s), hi \in 1 .. Len(s)}

-----------------------------------------------------------------------------
(* rekor.rs. *)

\* Halve until odd, the last index along with it; 0 stays.
LeftEdge(index, last) ==
    IF index = 0 THEN [index |-> 0, last |-> last]
    ELSE LET k == CHOOSE e \in 0 .. index : index % 2 ^ e = 0 /\ (index \div 2 ^ e) % 2 = 1
         IN [index |-> index \div 2 ^ k, last |-> last \div 2 ^ k]

\* One entry of the audit path.
Climb(at, sibling) ==
    LET right == at.index % 2 = 1 \/ at.index = at.last
        up == IF right THEN LeftEdge(at.index, at.last) ELSE at
    IN [hash |-> IF right THEN NodeHash(sibling, at.hash) ELSE NodeHash(at.hash, sibling),
        index |-> up.index \div 2, last |-> up.last \div 2]

Climbed(leaf, index, size, path) ==
    FoldLeft(Climb, [hash |-> leaf, index |-> index, last |-> size - 1], path)

\* verify_checkpoint: some signature line under the log's name and the configured
\* key covers the text of the note.  Mutant: any line that names the log will do.
SignedByName(note, key) == \E line \in note.lines : line.name = key
SignedBy(note, key) ==
    \E line \in note.lines : /\ line.name = key /\ line.key = key
                             /\ line.over = <<note.origin, note.size, note.root>>

\* verify, for a body, a response and the log key that is configured, if any.
Verify(body, r, key) ==
    LET end == Climbed(LeafHash(body), r.index, r.size, r.path) IN
    CASE r.size = 0 \/ r.index >= r.size -> "refused"
      [] end.index # 0 -> "refused"
      [] end.hash # r.root -> "refused"
      [] r.note = Absent -> "consistent"
      [] r.note.root # end.hash \/ r.note.size # r.size -> "refused"
      [] key = Absent -> "claimed"
      [] OTHER -> IF SignedBy(r.note, key) THEN "signed" ELSE "refused"

-----------------------------------------------------------------------------

Line(name, key, over) == [name |-> name, key |-> key, over |-> over]
NoteFor(l, n) ==
    LET root == RootOf(SubSeq(entries[l], 1, n))
    IN [origin |-> l, size |-> n, root |-> root,
        lines |-> {Line(IF l = "ours" THEN LogName ELSE l,
                        IF l = "ours" THEN LogName ELSE l, <<l, n, root>>)}]

RekorInit ==
    /\ entries = [l \in Logs |-> <<>>]
    /\ notes = {}
    /\ outcome = Absent

AddEntry(l) ==
    /\ outcome = Absent /\ Len(entries[l]) < Len(Book[l])
    /\ entries' = [entries EXCEPT ![l] = SubSeq(Book[l], 1, Len(@) + 1)]
    /\ UNCHANGED <<notes, outcome>>

SignNote(l) ==
    /\ outcome = Absent /\ entries[l] # <<>> /\ Cardinality(notes) < MaxNotes
    /\ NoteFor(l, Len(entries[l])) \notin notes
    /\ notes' = notes \cup {NoteFor(l, Len(entries[l]))}
    /\ UNCHANGED <<entries, outcome>>

\* Response files: an answer of a log about one of its entries; the same with
\* another index, another body, a path cut short or one entry too long; a note
\* whose lines were taken from another note, or none.
Answers(l) == UNION {{[index |-> i, size |-> n, path |-> AuditPath(SubSeq(entries[l], 1, n), i),
                          root |-> RootOf(SubSeq(entries[l], 1, n)), note |-> Absent]
                            : i \in 0 .. n - 1} : n \in 1 .. Len(entries[l])}
Variants(r) ==
    {r} \cup {[r EXCEPT !.index = i] : i \in 0 .. MaxLeaves}
    \cup {[r EXCEPT !.path = SubSeq(r.path, 1, n)] : n \in 0 .. Len(r.path)}
    \cup {[r EXCEPT !.path = Append(r.path, h)] : h \in Hashes(entries["other"])}
    \cup {[r EXCEPT !.size = n] : n \in 0 .. MaxLeaves}
Noted(r) ==
    {r} \cup {[r EXCEPT !.note = k] : k \in notes}
    \cup {[r EXCEPT !.note = [k EXCEPT !.lines = j.lines]] : j, k \in notes}

\* connect attest verify --rekor-proof.
VerifyInclusion(body, r, key) ==
    /\ outcome = Absent
    /\ outcome' = [verdict |-> Verify(body, r, key), body |-> body, index |-> r.index,
                   size |-> r.size]
    /\ UNCHANGED <<entries, notes>>

RekorNext ==
    \/ \E l \in Logs : AddEntry(l)
    \/ \E l \in Logs : SignNote(l)
    \/ \E l \in Logs : \E r \in Answers(l) : \E v \in Variants(r) : \E w \in Noted(v) :
         \/ VerifyInclusion(entries[l][r.index + 1], w, Absent)
         \/ \E b \in Body : VerifyInclusion(b, w, LogName)

RekorSpec == RekorInit /\ [][RekorNext]_rekorVars

-----------------------------------------------------------------------------
(* Properties. *)

\* What verifies under the log's key is in the log: when verify says the log
\* signed the root, the body is among the entries the log had at that size,
\* whatever parts the response was put together from; and every answer the log
\* can give, for every entry and every size it ever signed, verifies.
InclusionProven ==
    IF outcome # Absent
    THEN outcome.verdict = "signed" =>
            \E i \in DOMAIN entries["ours"] :
                i <= outcome.size /\ entries["ours"][i] = outcome.body
    ELSE \A l \in Logs : \A r \in Answers(l) :
            LET body == entries[l][r.index + 1] IN
            /\ Verify(body, r, Absent) = "consistent"
            /\ \A k \in notes : k.origin = "ours" /\ l = "ours" /\ k.size = r.size =>
                  Verify(body, [r EXCEPT !.note = k], LogName) = "signed"

\* rekor.rs: "the log could produce that root only if the entry is in it, at that
\* index, in a tree of that size".
IndexProven ==
    outcome # Absent /\ outcome.verdict = "signed" =>
        /\ outcome.index < Len(entries["ours"])
        /\ entries["ours"][outcome.index + 1] = outcome.body
=============================================================================
