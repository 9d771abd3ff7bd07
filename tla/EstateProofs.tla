---------------------------- MODULE EstateProofs ----------------------------
(***************************************************************************)
(* Discovery, consent, the plane, the command line and its settings,       *)
(* proposals, offers, policy and admission for any repositories, people,   *)
(* manifests, threads, requests, processes, flags, terms, zones, surfaces  *)
(* and bounds (inventory.rs, authority.rs, api.rs, main.rs, config.rs,     *)
(* proposal.rs, offer.rs, need.rs, portal.rs, cpolicy.rs, zone.rs,         *)
(* admission.rs, attest.rs, screen.rs).                                    *)
(*                                                                         *)
(* That a cursor has passed nothing unread rests on what the sweep under   *)
(* way knows of every repository it is going to pass: it has still to read *)
(* it, or has read it since its last push, or left it out because an       *)
(* earlier sweep had; and on the watermark, which is never ahead of the    *)
(* clock, so that a push from now on is no earlier. That a cut answered is *)
(* done rests on what every thread has left to do, and on what is filed    *)
(* under a key; that a verb commits on what it read, on the order of the   *)
(* steps in every handler; that nothing is widened, on the strictest of    *)
(* some bars being as strict as each, and on every waiting request and     *)
(* every contract keeping to the policy it was decided under; that an      *)
(* entity is attested on what was pinned, on every command that is about   *)
(* to write having judged what it is about to write.                       *)
(***************************************************************************)
EXTENDS Admission, Discovery, Consent, Plane, Commands, Proposals, Offers, Policy, Settings,
        TLAPS, FiniteSetTheorems, WellFoundedInduction, SequenceTheorems

---------------------------------------------------------------------------
(* The watermark.                                                          *)

\* A set of numbers below a bound has a greatest.
LEMMA BoundedHasMax ==
    ASSUME NEW n \in Nat, NEW S \in SUBSET (0 .. n), S # {}
    PROVE  \E x \in S : \A y \in S : x >= y
<1> DEFINE T == {n - x : x \in S}
<1>1. T \subseteq Nat /\ T # {}
  <2>1. ASSUME NEW x \in S PROVE n - x \in Nat
    BY <2>1
  <2>2. PICK x \in S : TRUE
    OBVIOUS
  <2>3. n - x \in T
    BY <2>2
  <2> QED
    BY <2>1, <2>3
<1>2. PICK t \in T : \A u \in T : <<u, t>> \notin OpToRel(<, Nat)
  BY <1>1, NatLessThanWellFounded, WFMin, Zenon
<1>3. \A u \in T : ~(u < t)
  BY <1>1, <1>2 DEF OpToRel
<1>4. PICK x \in S : t = n - x
  OBVIOUS
<1>5. ASSUME NEW y \in S PROVE x >= y
  <2>1. n - y \in T /\ x \in Int /\ y \in Int
    BY <1>4
  <2>2. ~(n - y < n - x)
    BY <1>3, <1>4, <2>1
  <2> QED
    BY <2>1, <2>2
<1> QED
  BY <1>5

LEMMA MaxBounded ==
    ASSUME NEW n \in Nat, NEW S \in SUBSET (0 .. n), S # {}
    PROVE  Max(S) \in 0 .. n
<1>1. \E x \in S : \A y \in S : x >= y
  BY BoundedHasMax
<1> QED
  BY <1>1 DEF Max

---------------------------------------------------------------------------
(* Discovery.                                                              *)

Dated == Repo \ Undated
DeclaredIn(found, r) == {f[2] : f \in {g \in found : g[1] = r}}

DiscoveryTypes ==
    /\ content \in [Repo -> SUBSET Target]
    /\ pushed \in [Repo -> 0 .. second]
    /\ second \in 0 .. MaxSecond
    /\ sweep \in [pc : {"idle", "reading"}, todo : SUBSET Repo, read : SUBSET Repo,
                 found : SUBSET (Repo \X Target), mark : 0 .. Never]
    /\ cursor \in 0 .. Never
    /\ known \in [Repo -> SUBSET Target]

\* Neither watermark is ahead of the host's clock.
MarksPast ==
    /\ cursor # Never => cursor <= second
    /\ sweep.mark # Never => sweep.mark <= second

\* A sweep has findings of what it has read, and reads nothing twice.
SweepOrderly ==
    /\ sweep.todo \cap sweep.read = {}
    /\ \A f \in sweep.found : f[1] \in sweep.read

\* What the sweep under way knows of a repository its watermark will pass.
SweepKnows ==
    \A r \in Dated \ tied :
        sweep.pc = "reading" /\ sweep.mark # Never /\ pushed[r] <= sweep.mark =>
            \/ r \in sweep.todo
            \/ r \in sweep.read /\ DeclaredIn(sweep.found, r) = content[r]
            \/ r \notin sweep.todo \cup sweep.read /\ known[r] = content[r]

DiscoveryInv ==
    DiscoveryTypes /\ MarksPast /\ SweepOrderly /\ SweepKnows /\ CursorMissesNothing

\* A push is later than every watermark, or in the second of one.
LEMMA PushKeeps ==
    ASSUME MaxSecond \in Nat, DiscoveryInv, NEW r \in Repo, Push(r)
    PROVE  DiscoveryInv'
<1>1. PICK s \in {second, second + 1} :
      /\ second' = s /\ s <= MaxSecond
      /\ pushed' = [pushed EXCEPT ![r] = s]
      /\ tied' = IF s \in {sweep.mark, cursor} THEN tied \cup {r} ELSE tied \ {r}
      /\ UNCHANGED <<sweep, cursor, known>>
  BY DEF Push
<1>2. /\ content' \in [Repo -> SUBSET Target]
      /\ \A q \in Repo : q # r => content'[q] = content[q]
  BY DEF Push, DiscoveryInv, DiscoveryTypes
<1>3. second \in Nat /\ s \in Nat /\ s >= second /\ second' \in 0 .. MaxSecond
  BY <1>1 DEF DiscoveryInv, DiscoveryTypes
<1>4. /\ pushed'[r] = s
      /\ \A q \in Repo : q # r => pushed'[q] = pushed[q]
      /\ pushed' \in [Repo -> 0 .. second']
  BY <1>1, <1>3 DEF DiscoveryInv, DiscoveryTypes
<1>5. DiscoveryTypes'
  BY <1>1, <1>2, <1>3, <1>4 DEF DiscoveryInv, DiscoveryTypes
<1>6. MarksPast' /\ SweepOrderly'
  BY <1>1, <1>3 DEF DiscoveryInv, DiscoveryTypes, MarksPast, SweepOrderly, Never
\* Whoever is still owed a reading was not pushed to just now.
<1>7. ASSUME NEW m \in {sweep.mark, cursor}, m # Never, NEW q \in Repo \ tied', pushed'[q] <= m
      PROVE  q # r /\ q \notin tied
  <2>1. m \in Nat /\ m <= second
    BY <1>7 DEF DiscoveryInv, DiscoveryTypes, MarksPast
  <2>2. q = r => s = m
    BY <1>3, <1>4, <1>7, <2>1
  <2>3. q # r
    BY <1>1, <1>7, <2>2
  <2> QED
    BY <1>1, <1>7, <2>3
<1>8. SweepKnows'
  <2> SUFFICES ASSUME NEW q \in Dated \ tied', sweep.pc = "reading", sweep.mark # Never,
                      pushed'[q] <= sweep.mark
               PROVE  \/ q \in sweep.todo
                      \/ q \in sweep.read /\ DeclaredIn(sweep.found, q) = content'[q]
                      \/ q \notin sweep.todo \cup sweep.read /\ known[q] = content'[q]
    BY <1>1 DEF SweepKnows
  <2>1. q # r /\ q \notin tied
    BY <1>7 DEF Dated
  <2> QED
    BY <1>2, <1>4, <2>1 DEF DiscoveryInv, SweepKnows, Dated
<1>9. CursorMissesNothing'
  <2> SUFFICES ASSUME NEW q \in Repo \ (Undated \cup tied'), cursor # Never, pushed'[q] <= cursor
               PROVE  known[q] = content'[q]
    BY <1>1 DEF CursorMissesNothing
  <2>1. q # r /\ q \notin tied
    BY <1>7
  <2> QED
    BY <1>2, <1>4, <2>1 DEF DiscoveryInv, CursorMissesNothing
<1> QED
  BY <1>5, <1>6, <1>8, <1>9 DEF DiscoveryInv

\* A listing leaves out only what the last cursor answers for.
LEMMA ListKeeps ==
    ASSUME MaxSecond \in Nat, DiscoveryInv, NEW since \in {Never, cursor}, List(since)
    PROVE  DiscoveryInv'
<1>1. /\ sweep'.pc = "reading" /\ sweep'.found = {} /\ sweep'.read = {}
      /\ sweep'.todo = {r \in Repo : ChangedSince(r, since)}
      /\ UNCHANGED <<content, pushed, second, cursor, known, tied>>
  BY DEF List
<1>2. sweep'.mark \in 0 .. second \cup {Never}
  <2>1. CASE Repo \ Undated = {}
    BY <2>1 DEF List
  <2>2. CASE Repo \ Undated # {}
    <3>1. /\ {pushed[r] : r \in Repo \ Undated} \in SUBSET (0 .. second)
          /\ {pushed[r] : r \in Repo \ Undated} # {} /\ second \in Nat
      BY <2>2 DEF DiscoveryInv, DiscoveryTypes
    <3>2. Max({pushed[r] : r \in Repo \ Undated}) \in 0 .. second
      BY <3>1, MaxBounded
    <3> QED
      BY <2>2, <3>2 DEF List
  <2> QED
    BY <2>1, <2>2
<1>3. sweep' \in [pc : {"idle", "reading"}, todo : SUBSET Repo, read : SUBSET Repo,
                found : SUBSET (Repo \X Target), mark : 0 .. Never]
  <2>1. sweep'.mark \in 0 .. Never
    BY <1>2 DEF DiscoveryInv, DiscoveryTypes, Never
  <2>2. sweep' = [pc |-> "reading", todo |-> sweep'.todo, found |-> {}, read |-> {},
                  mark |-> sweep'.mark]
    BY DEF List
  <2> QED
    BY <1>1, <2>1, <2>2
<1>4. DiscoveryTypes'
  BY <1>1, <1>3 DEF DiscoveryInv, DiscoveryTypes
<1>5. MarksPast' /\ SweepOrderly'
  BY <1>1, <1>2 DEF DiscoveryInv, DiscoveryTypes, MarksPast, SweepOrderly, Never
<1>6. SweepKnows'
  <2> SUFFICES ASSUME NEW r \in Dated \ tied, r \notin sweep'.todo
               PROVE  known[r] = content[r]
    BY <1>1 DEF SweepKnows
  <2>1. since = cursor /\ cursor # Never /\ ~(pushed[r] > cursor)
    BY <1>1 DEF Dated, ChangedSince
  <2>2. pushed[r] \in Int /\ cursor \in Int
    BY DEF DiscoveryInv, DiscoveryTypes, Dated
  <2> QED
    BY <2>1, <2>2 DEF DiscoveryInv, CursorMissesNothing, Dated
<1>7. CursorMissesNothing'
  BY <1>1 DEF DiscoveryInv, CursorMissesNothing
<1> QED
  BY <1>4, <1>5, <1>6, <1>7 DEF DiscoveryInv

\* A repository is read as it is, and once.
LEMMA ReadKeeps ==
    ASSUME DiscoveryInv, NEW r \in Repo, Read(r)
    PROVE  DiscoveryInv'
<1>1. /\ sweep.pc = "reading" /\ r \in sweep.todo
      /\ sweep' = [sweep EXCEPT !.todo = @ \ {r}, !.read = @ \cup {r},
                               !.found = @ \cup ({r} \X content[r])]
      /\ UNCHANGED <<content, pushed, second, cursor, known, tied>>
  BY DEF Read
<1>2. /\ sweep'.pc = sweep.pc /\ sweep'.mark = sweep.mark
      /\ sweep'.todo = sweep.todo \ {r} /\ sweep'.read = sweep.read \cup {r}
      /\ sweep'.found = sweep.found \cup ({r} \X content[r])
  BY <1>1 DEF DiscoveryInv, DiscoveryTypes
<1>3. content[r] \subseteq Target
  BY DEF DiscoveryInv, DiscoveryTypes
<1>4. sweep'.found \subseteq Repo \X Target
  BY <1>2, <1>3 DEF DiscoveryInv, DiscoveryTypes
<1>5. DiscoveryTypes'
  BY <1>1, <1>4 DEF DiscoveryInv, DiscoveryTypes
<1>6. MarksPast' /\ CursorMissesNothing'
  BY <1>1, <1>2 DEF DiscoveryInv, MarksPast, CursorMissesNothing
<1>7. SweepOrderly'
  BY <1>2 DEF DiscoveryInv, SweepOrderly
<1>8. DeclaredIn(sweep'.found, r) = content[r]
  <2>1. {g \in sweep'.found : g[1] = r} = {r} \X content[r]
    BY <1>1, <1>2 DEF DiscoveryInv, SweepOrderly
  <2> DEFINE P == {r} \X content[r]
  <2>2. \A f \in P : f[2] \in content[r]
    OBVIOUS
  <2>3. ASSUME NEW t \in content[r] PROVE \E f \in P : f[2] = t
    <3>1. <<r, t>> \in P /\ <<r, t>>[2] = t
      OBVIOUS
    <3> QED
      BY <3>1
  <2> HIDE DEF P
  <2>4. {f[2] : f \in P} = content[r]
    BY <2>2, <2>3
  <2> QED
    BY <2>1, <2>4 DEF DeclaredIn, P
<1>9. ASSUME NEW q \in Repo, q # r
      PROVE  DeclaredIn(sweep'.found, q) = DeclaredIn(sweep.found, q)
  <2>1. {g \in sweep'.found : g[1] = q} = {g \in sweep.found : g[1] = q}
    BY <1>2, <1>9
  <2> QED
    BY <2>1 DEF DeclaredIn
<1>10. SweepKnows'
  <2> SUFFICES ASSUME NEW q \in Dated \ tied, sweep.mark # Never, pushed[q] <= sweep.mark
               PROVE  \/ q \in sweep'.todo
                      \/ q \in sweep'.read /\ DeclaredIn(sweep'.found, q) = content[q]
                      \/ q \notin sweep'.todo \cup sweep'.read /\ known[q] = content[q]
    BY <1>1, <1>2 DEF SweepKnows
  <2>1. CASE q = r
    BY <1>2, <1>8, <2>1
  <2>2. CASE q # r
    <3>1. DeclaredIn(sweep'.found, q) = DeclaredIn(sweep.found, q)
      BY <1>9, <2>2 DEF Dated
    <3>2. \/ q \in sweep.todo
          \/ q \in sweep.read /\ DeclaredIn(sweep.found, q) = content[q]
          \/ q \notin sweep.todo \cup sweep.read /\ known[q] = content[q]
      BY <1>1 DEF DiscoveryInv, SweepKnows
    <3> QED
      BY <1>2, <2>2, <3>1, <3>2
  <2> QED
    BY <2>1, <2>2
<1> QED
  BY <1>5, <1>6, <1>7, <1>10 DEF DiscoveryInv

LEMMA NoSweep ==
    /\ Quiet.pc = "idle" /\ Quiet.todo = {} /\ Quiet.read = {} /\ Quiet.found = {}
    /\ Quiet.mark = Never
    /\ MaxSecond \in Nat =>
         Quiet \in [pc : {"idle", "reading"}, todo : SUBSET Repo, read : SUBSET Repo,
                  found : SUBSET (Repo \X Target), mark : 0 .. Never]
  BY DEF Quiet, Never

\* The end of a sweep: the cursor passes what the sweep knows.
LEMMA EndKeeps ==
    ASSUME MaxSecond \in Nat, DiscoveryInv, EndSweep
    PROVE  DiscoveryInv'
<1>1. /\ sweep.pc = "reading" /\ sweep.todo = {} /\ sweep' = Quiet
      /\ cursor' = sweep.mark
      /\ known' = [r \in Repo |-> IF r \in sweep.read THEN DeclaredIn(sweep.found, r)
                                 ELSE known[r]]
      /\ UNCHANGED <<content, pushed, second, tied>>
  BY DEF EndSweep, Report, Watermark, DeclaredIn
<1>2. \A r \in Repo : DeclaredIn(sweep.found, r) \subseteq Target
  BY DEF DeclaredIn, DiscoveryInv, DiscoveryTypes
<1>3. known' \in [Repo -> SUBSET Target]
  BY <1>1, <1>2 DEF DiscoveryInv, DiscoveryTypes
<1>4. DiscoveryTypes'
  BY <1>1, <1>3, NoSweep DEF DiscoveryInv, DiscoveryTypes
<1>5. MarksPast' /\ SweepOrderly' /\ SweepKnows'
  BY <1>1, NoSweep DEF DiscoveryInv, MarksPast, SweepOrderly, SweepKnows
<1>6. CursorMissesNothing'
  <2> SUFFICES ASSUME NEW r \in Repo \ (Undated \cup tied), sweep.mark # Never,
                      pushed[r] <= sweep.mark
               PROVE  known'[r] = content[r]
    BY <1>1 DEF CursorMissesNothing
  <2>1. \/ r \in sweep.read /\ DeclaredIn(sweep.found, r) = content[r]
        \/ r \notin sweep.read /\ known[r] = content[r]
    BY <1>1 DEF DiscoveryInv, SweepKnows, Dated
  <2> QED
    BY <1>1, <2>1
<1> QED
  BY <1>4, <1>5, <1>6 DEF DiscoveryInv

LEMMA DiscoveryStep ==
    ASSUME MaxSecond \in Nat, DiscoveryInv, [DiscoveryNext]_discoveryVars
    PROVE  DiscoveryInv'
<1>1. CASE ShimFails
  <2>1. sweep' = Quiet /\ UNCHANGED <<content, pushed, second, cursor, known, tied>>
    BY <1>1 DEF ShimFails
  <2> QED
    BY <2>1, NoSweep DEF DiscoveryInv, DiscoveryTypes, MarksPast, SweepOrderly,
       SweepKnows, CursorMissesNothing
<1>2. CASE SearchDeclared
  <2>1. known' = content /\ UNCHANGED <<content, pushed, second, cursor, sweep, tied>>
    BY <1>2 DEF SearchDeclared
  <2> QED
    BY <2>1 DEF DiscoveryInv, DiscoveryTypes, MarksPast, SweepOrderly,
       SweepKnows, CursorMissesNothing, Dated
<1>3. ASSUME UNCHANGED <<content, pushed, second, sweep, cursor, known, tied>>
      PROVE  DiscoveryInv'
  BY <1>3 DEF DiscoveryInv, DiscoveryTypes, MarksPast, SweepOrderly,
     SweepKnows, CursorMissesNothing
<1>4. ASSUME NEW body \in proposed, MergeState(body)
      PROVE  DiscoveryInv'
  BY <1>3, <1>4 DEF MergeState
<1>5. CASE UNCHANGED discoveryVars
  BY <1>3, <1>5 DEF discoveryVars
<1> QED
  BY <1>1, <1>2, <1>4, <1>5, PushKeeps, ListKeeps, ReadKeeps, EndKeeps
  DEF DiscoveryNext

\* Whatever was pushed up to the watermark an operator passes on has been read,
\* for any repositories, pushed to at any moment of a sweep, dated or not, through
\* sweeps that fail half way; but for the repositories whose last push shares a
\* second with a watermark taken before it (inventory.rs scan, scm.rs
\* changed_since).
THEOREM CursorSkipsNothing ==
    ASSUME MaxSecond \in Nat
    PROVE  DiscoverySpec => []CursorMissesNothing
<1>1. DiscoveryInit => DiscoveryInv
  <2> SUFFICES ASSUME DiscoveryInit PROVE DiscoveryInv
    OBVIOUS
  <2>1. DiscoveryTypes
    BY NoSweep DEF DiscoveryInit, DiscoveryTypes, Never
  <2> QED
    BY <2>1, NoSweep DEF DiscoveryInit, DiscoveryInv, MarksPast, SweepOrderly, SweepKnows,
       CursorMissesNothing
<1>2. DiscoveryInv /\ [DiscoveryNext]_discoveryVars => DiscoveryInv'
  BY DiscoveryStep
<1>3. DiscoveryInv => CursorMissesNothing
  BY DEF DiscoveryInv
<1> QED
  BY <1>1, <1>2, <1>3, PTL DEF DiscoverySpec

---------------------------------------------------------------------------
(* Consent.                                                                *)

Commits == [author : Person, approvers : SUBSET Person, guarded : BOOLEAN,
            terms : Terms, block : Blocks]

ConsentTypes ==
    /\ commits \in Seq(Commits)
    /\ offered \in Seq([terms : Terms, block : Blocks,
                       consent : [sha : Nat, bootstrap : BOOLEAN]])

\* Who was entitled before the k-th commit.
EntitledBefore(k) ==
    IF k > 1 /\ commits[k - 1].block.declared
    THEN commits[k - 1].block.approvers ELSE {AssetOwner}

\* What a consent on the k-th commit says of it.
Approved(k, terms) ==
    /\ k \in 1 .. Len(commits)
    /\ commits[k].approvers \cap EntitledBefore(k) # {}
    /\ Cardinality(commits[k].approvers \cup {commits[k].author}) > 1
    /\ commits[k].terms = terms

ConsentInv ==
    /\ ConsentTypes
    /\ \A n \in DOMAIN offered :
          Usable(n) => Approved(offered[n].consent.sha, offered[n].terms)

ConsentAssumption ==
    /\ IsFiniteSet(Person)
    /\ Mins \subseteq Nat \ {0}

LEMMA TwoPeople ==
    ASSUME NEW S, IsFiniteSet(S), NEW a \in S, NEW b \in S, a # b
    PROVE  Cardinality(S) > 1
<1>1. /\ IsFiniteSet({}) /\ Cardinality({}) = 0
  BY FS_EmptySet
<1>2. IsFiniteSet({a}) /\ Cardinality({a}) = 1
  BY FS_Singleton
<1>3. IsFiniteSet({a} \cup {b}) /\ Cardinality({a} \cup {b}) = 2
  <2> DEFINE A == {a}
  <2>1. IsFiniteSet(A) /\ Cardinality(A) = 1 /\ b \notin A
    BY <1>2
  <2> HIDE DEF A
  <2>2. IsFiniteSet(A \cup {b}) /\ Cardinality(A \cup {b}) = Cardinality(A) + 1
    BY <2>1, FS_AddElement, Zenon
  <2>3. Cardinality(A \cup {b}) = 2
    BY <2>1, <2>2
  <2> QED
    BY <2>2, <2>3 DEF A
<1>4. {a} \cup {b} \subseteq S
  OBVIOUS
<1>5. Cardinality({a} \cup {b}) <= Cardinality(S)
  BY <1>4, FS_Subset
<1>6. Cardinality(S) \in Nat
  BY FS_CardinalityType
<1> QED
  BY <1>3, <1>5, <1>6

\* What consent establishes: the governing list is the one of the base.
LEMMA ConsentApproves ==
    ASSUME ConsentAssumption, ConsentTypes, NEW k \in 1 .. Len(commits),
           NEW terms, NEW block, Consents(k, terms, block)
    PROVE  Approved(k, terms)
<1> DEFINE c == commits[k]
           b == Governing(k)
<1>1. /\ c \in Commits
      /\ k > 1 => commits[k - 1] \in Commits
  BY DEF ConsentTypes
<1>2. c.approvers \subseteq Person /\ c.author \in Person
  BY <1>1 DEF Commits
<1>3. b.approvers = EntitledBefore(k) /\ b.min \in Nat \ {0}
  <2>1. CASE k = 1
    BY <2>1 DEF Governing, DeclaredApprovers, NoBlock, EntitledBefore
  <2>2. CASE k > 1 /\ ~commits[k - 1].block.declared
    BY <2>2 DEF Governing, DeclaredApprovers, EntitledBefore
  <2>3. CASE k > 1 /\ commits[k - 1].block.declared
    <3>1. commits[k - 1].block \in Blocks
      BY <1>1, <2>3 DEF Commits
    <3>2. commits[k - 1].block.min \in Mins
      <4>1. NoBlock.declared = FALSE
        BY DEF NoBlock
      <4>2. commits[k - 1].block \in [declared : {TRUE}, approvers : ApproverLists, min : Mins]
        BY <2>3, <3>1, <4>1 DEF Blocks
      <4> QED
        BY <4>2
    <3>3. b = commits[k - 1].block
      BY <2>3 DEF Governing, DeclaredApprovers
    <3> QED
      BY <2>3, <3>2, <3>3 DEF EntitledBefore, ConsentAssumption
  <2> QED
    BY <2>1, <2>2, <2>3
<1>4. /\ c.terms = terms
      /\ Cardinality(b.approvers \cap c.approvers) >= b.min
      /\ \E h \in c.approvers : h # c.author
  BY DEF Consents, IsReviewedMerge
<1> HIDE DEF b
<1>5. c.approvers \cap EntitledBefore(k) # {}
  <2> SUFFICES ASSUME b.approvers \cap c.approvers = {} PROVE FALSE
    BY <1>3
  <2>1. Cardinality(b.approvers \cap c.approvers) = 0
    BY FS_EmptySet
  <2> QED
    BY <1>3, <1>4, <2>1
<1>6. Cardinality(c.approvers \cup {c.author}) > 1
  <2>1. PICK h \in c.approvers : h # c.author
    BY <1>4
  <2>2. IsFiniteSet(c.approvers \cup {c.author})
    <3>1. c.approvers \cup {c.author} \subseteq Person
      BY <1>2
    <3> QED
      BY <3>1, FS_Subset DEF ConsentAssumption
  <2> HIDE DEF c
  <2> QED
    BY <2>1, <2>2, TwoPeople
<1> QED
  BY <1>4, <1>5, <1>6 DEF Approved

\* History is appended to: what was approved stays approved.
LEMMA ApprovedStays ==
    ASSUME ConsentTypes, NEW x \in Commits, commits' = Append(commits, x),
           NEW k, NEW terms, Approved(k, terms)
    PROVE  Approved(k, terms)'
<1>1. /\ Len(commits) \in Nat /\ Len(commits') = Len(commits) + 1
      /\ \A i \in 1 .. Len(commits) : commits'[i] = commits[i]
  BY DEF ConsentTypes
<1>2. k \in 1 .. Len(commits) /\ k \in 1 .. Len(commits')
  BY <1>1 DEF Approved
<1>3. commits'[k] = commits[k] /\ (k > 1 => commits'[k - 1] = commits[k - 1])
  BY <1>1, <1>2
<1>4. EntitledBefore(k)' = EntitledBefore(k)
  BY <1>3 DEF EntitledBefore
<1> QED
  BY <1>2, <1>3, <1>4 DEF Approved

LEMMA ConsentStep ==
    ASSUME ConsentAssumption, ConsentInv, [ConsentNext]_consentVars
    PROVE  ConsentInv'
<1> DEFINE Offer == [terms : Terms, block : Blocks, consent : [sha : Nat, bootstrap : BOOLEAN]]
<1>1. ASSUME NEW terms \in Terms, NEW block \in Blocks, NEW author \in Person,
             NEW approvers \in SUBSET Person, NEW guarded \in BOOLEAN,
             LandCommit(terms, block, author, approvers, guarded)
      PROVE  ConsentInv'
  <2> DEFINE x == MergeEvidence(author, approvers, guarded, terms, block)
  <2>1. x \in Commits
    BY DEF Commits, MergeEvidence
  <2>2. commits' = Append(commits, x) /\ offered' = offered
    BY <1>1 DEF LandCommit
  <2> HIDE DEF x
  <2>3. ConsentTypes'
    BY <2>1, <2>2 DEF ConsentInv, ConsentTypes
  <2>4. ASSUME NEW n \in DOMAIN offered, Usable(n)
        PROVE  Approved(offered[n].consent.sha, offered[n].terms)'
    <3>1. PICK k, t : k = offered[n].consent.sha /\ t = offered[n].terms
      OBVIOUS
    <3>2. Approved(k, t)
      BY <2>4, <3>1 DEF ConsentInv
    <3>3. Approved(k, t)'
      BY <2>1, <2>2, <3>2, ApprovedStays DEF ConsentInv
    <3> QED
      BY <2>2, <3>1, <3>3
  <2> QED
    BY <2>2, <2>3, <2>4 DEF ConsentInv, Usable
<1>2. ASSUME NEW o \in Offer, offered' = Append(offered, o), UNCHANGED commits,
             o.consent # NotAsked => Approved(o.consent.sha, o.terms)
      PROVE  ConsentInv'
  <2>1. /\ offered \in Seq(Offer) /\ offered' \in Seq(Offer)
        /\ DOMAIN offered' = 1 .. Len(offered) + 1 /\ DOMAIN offered = 1 .. Len(offered)
        /\ offered'[Len(offered) + 1] = o /\ Len(offered) \in Nat
        /\ \A n \in 1 .. Len(offered) : offered'[n] = offered[n]
    BY <1>2 DEF ConsentInv, ConsentTypes
  <2>2. ASSUME NEW n \in DOMAIN offered', Usable(n)'
        PROVE  Approved(offered[n].consent.sha, offered[n].terms)'
    <3>1. CASE n \in 1 .. Len(offered)
      <4>1. offered'[n] = offered[n] /\ Usable(n)
        BY <2>1, <2>2, <3>1 DEF Usable
      <4>2. Approved(offered[n].consent.sha, offered[n].terms)
        BY <2>1, <3>1, <4>1 DEF ConsentInv
      <4> QED
        BY <1>2, <4>1, <4>2 DEF Approved, EntitledBefore
    <3>2. CASE n = Len(offered) + 1
      <4>1. offered'[n] = o /\ o.consent # NotAsked
        BY <2>1, <2>2, <3>2 DEF Usable
      <4> QED
        BY <1>2, <4>1 DEF Approved, EntitledBefore
    <3> QED
      BY <2>1, <2>2, <3>1, <3>2
  <2> QED
    BY <1>2, <2>1, <2>2 DEF ConsentInv, ConsentTypes
<1>3. ASSUME NEW k \in 1 .. Len(commits), NEW terms \in Terms, NEW block \in Blocks,
             PublishOffer(k, terms, block)
      PROVE  ConsentInv'
  <2> DEFINE d == ~DeclaredApprovers(k).declared
             o == [terms |-> terms, block |-> block, consent |-> [sha |-> k, bootstrap |-> d]]
  <2>1. offered' = Append(offered, o) /\ UNCHANGED commits
    BY <1>3 DEF PublishOffer
  <2>2. Approved(k, terms)
    BY <1>3, ConsentApproves DEF PublishOffer, ConsentInv
  <2>3. d \in BOOLEAN /\ k \in Nat
    BY DEF ConsentInv, ConsentTypes
  <2> HIDE DEF d
  <2>4. o \in Offer /\ o.consent.sha = k /\ o.terms = terms
    BY <2>3
  <2> HIDE DEF o, Offer
  <2> QED
    BY <1>2, <2>1, <2>2, <2>4
<1>4. ASSUME NEW terms \in Terms, NEW block \in Blocks, PublishUnconsented(terms, block)
      PROVE  ConsentInv'
  <2> DEFINE o == [terms |-> terms, block |-> block, consent |-> NotAsked]
  <2>1. offered' = Append(offered, o) /\ UNCHANGED commits
    BY <1>4 DEF PublishUnconsented
  <2>2. o \in Offer /\ o.consent = NotAsked
    BY DEF NotAsked
  <2> HIDE DEF o, Offer
  <2> QED
    BY <1>2, <2>1, <2>2
<1>5. CASE UNCHANGED consentVars
  BY <1>5 DEF consentVars, ConsentInv, ConsentTypes, Usable, Approved, EntitledBefore
<1> QED
  BY <1>1, <1>3, <1>4, <1>5 DEF ConsentNext

\* Nobody is let in by the change they approve, for any people, manifests, lists of
\* approvers and histories, as long as no list asks for nobody (authority.rs
\* consent, declared_approvers, and offer publish).
THEOREM NobodyEntitlesHimself ==
    ASSUME ConsentAssumption
    PROVE  ConsentSpec => []NoSelfEntitlement
<1>1. ConsentInit => ConsentInv
  BY DEF ConsentInit, ConsentInv, ConsentTypes
<1>2. ConsentInv /\ [ConsentNext]_consentVars => ConsentInv'
  BY ConsentStep
<1>3. ConsentInv => NoSelfEntitlement
  BY DEF ConsentInv, Approved, EntitledBefore, NoSelfEntitlement
<1> QED
  BY <1>1, <1>2, <1>3, PTL DEF ConsentSpec

---------------------------------------------------------------------------
(* The plane.                                                              *)

Cuts == {"quarantine", "revoke"}
StepKind == {"cut", "lift", "trail", "feed", "issue", "decide", "ack", "look"}

Lookups == [stage : {"lookup"}, ask : Ask]
Runs == [stage : {"run"}, ask : Ask, at : Int, left : Seq(StepKind)]
Replies == [stage : {"reply"}, ask : Ask, status : Int, from : Ask]

ConnTypes == conn \in [PThread -> {Free} \cup Lookups \cup Runs \cup Replies]

\* A cut that has made its last steps is in the trail and on the feed, and whoever
\* is told of its success is told the truth.
Sound(c, inTrail, onFeed) ==
    /\ c.stage = "run" /\ c.ask.route \in Cuts =>
          \/ c.left \in {<<"cut", "trail", "feed">>, <<"trail", "feed">>}
          \/ c.left = <<"feed">> /\ c.ask.arg \in inTrail
          \/ c.left = <<>> /\ c.ask.arg \in inTrail \cap onFeed
    /\ (/\ c.stage = "reply" /\ c.status \in 200 .. 299 /\ c.ask.route \in Cuts
        /\ c.from.arg = c.ask.arg /\ c.from.route = c.ask.route)
          => c.ask.arg \in inTrail \cap onFeed

ThreadsSound == \A t \in PThread : Sound(conn[t], trailed, listed)

\* What is filed as the success of a cut was one.
FiledTrue ==
    \A k \in DOMAIN cache :
        cache[k].from \in Ask /\
        (cache[k].from.route \in Cuts => cache[k].from.arg \in trailed \cap listed)

PlaneInv == ConnTypes /\ ThreadsSound /\ FiledTrue

LEMMA ConnStage ==
    ASSUME ConnTypes, NEW t \in PThread
    PROVE  /\ conn[t].stage \in {"free", "lookup", "run", "reply"}
           /\ conn[t].stage = "lookup" => conn[t] \in Lookups
           /\ conn[t].stage = "run" => conn[t] \in Runs
           /\ conn[t].stage = "reply" => conn[t] \in Replies
  BY DEF ConnTypes, Free, Lookups, Runs, Replies

\* Every handler is made of steps.
LEMMA StepsTyped == \A route : Steps(route) \in Seq(StepKind)
<1>1. \A k \in StepKind : <<k>> \in Seq(StepKind)
  OBVIOUS
<1>2. /\ <<"cut", "trail", "feed">> \in Seq(StepKind)
      /\ <<"lift", "trail">> \in Seq(StepKind) /\ <<>> \in Seq(StepKind)
      /\ <<"look", "look">> \in Seq(StepKind)
  BY DEF StepKind
<1>3. /\ <<"decide">> \in Seq(StepKind) /\ <<"issue">> \in Seq(StepKind)
      /\ <<"ack">> \in Seq(StepKind) /\ <<"look">> \in Seq(StepKind)
  BY <1>1 DEF StepKind
<1> DEFINE S == Seq(StepKind)
<1>4. /\ QuarantineRoute \in S /\ RevokeRoute \in S /\ ClearRoute \in S
      /\ ActivateRoute \in S /\ CreateRoute \in S /\ ApproveRoute \in S
      /\ DenyRoute \in S /\ AckRoute \in S /\ <<>> \in S
  BY <1>2, <1>3 DEF QuarantineRoute, RevokeRoute, ClearRoute, ActivateRoute, CreateRoute,
     ApproveRoute, DenyRoute, AckRoute
<1>6. /\ ReadyRoute \in S /\ EntitiesRoute \in S /\ PostureRoute \in S /\ OffersRoute \in S
      /\ PortalRoute \in S /\ ConnectionsRoute \in S /\ RequestsRoute \in S
      /\ SetRoute \in S /\ RevocationsRoute \in S /\ AuditRoute \in S /\ MediatorsRoute \in S
  BY <1>2, <1>3 DEF ReadyRoute, EntitiesRoute, PostureRoute, OffersRoute, PortalRoute,
     ConnectionsRoute, RequestsRoute, SetRoute, RevocationsRoute, AuditRoute, MediatorsRoute
<1> HIDE DEF S
<1>5. \A route : Steps(route) \in S
  BY <1>4, <1>6, Zenon DEF Steps
<1> QED
  BY <1>5 DEF S

LEMMA CutSteps == \A route \in Cuts : Steps(route) = <<"cut", "trail", "feed">>
  BY DEF Steps, QuarantineRoute, RevokeRoute, Cuts

\* A step of one thread: the others have lost nothing.
LEMMA OneThread ==
    ASSUME PlaneInv, NEW t \in PThread, NEW c,
           c \in {Free} \cup Lookups \cup Runs \cup Replies,
           conn' = [conn EXCEPT ![t] = c],
           trailed \subseteq trailed', listed \subseteq listed',
           FiledTrue', Sound(c, trailed', listed')
    PROVE  PlaneInv'
<1>1. ConnTypes'
  BY DEF PlaneInv, ConnTypes
<1>2. \A u \in PThread : conn'[u] = IF u = t THEN c ELSE conn[u]
  BY DEF PlaneInv, ConnTypes
<1>3. \A u \in PThread : Sound(conn[u], trailed', listed')
  BY DEF PlaneInv, ThreadsSound, Sound
<1>4. ThreadsSound'
  BY <1>2, <1>3 DEF ThreadsSound
<1> QED
  BY <1>1, <1>4 DEF PlaneInv

\* A step that touches neither the answers on file nor the two registers of cuts.
LEMMA FiledKept ==
    ASSUME FiledTrue, trailed \subseteq trailed', listed \subseteq listed',
           DOMAIN cache' \subseteq DOMAIN cache,
           \A k \in DOMAIN cache' : cache'[k] = cache[k]
    PROVE  FiledTrue'
  BY DEF FiledTrue

LEMMA AcceptStep ==
    ASSUME PlaneInv, clock \in Int, NEW t \in PThread, NEW a \in Ask, Accept(t, a)
    PROVE  PlaneInv'
<1> DEFINE c == IF Refusal(a) # 0 THEN Answer(a, Refusal(a), a)
                ELSE IF a.route \in Keyed THEN [stage |-> "lookup", ask |-> a]
                ELSE Run(a)
<1>1. conn' = [conn EXCEPT ![t] = c] /\ UNCHANGED <<cache, trailed, listed>>
  BY DEF Accept, durable
<1>2. Refusal(a) \in {0, 400, 401, 403, 404, 409}
  BY DEF Refusal
<1>3. Run(a) \in Runs
  BY StepsTyped DEF Run, Runs
<1>4. c \in {Free} \cup Lookups \cup Runs \cup Replies
  BY <1>2, <1>3 DEF Answer, Lookups, Replies
<1>5. FiledTrue'
  BY <1>1, FiledKept DEF PlaneInv
<1>6. Sound(Run(a), trailed', listed')
  BY CutSteps DEF Run, Sound
<1>7. Refusal(a) # 0 => Sound(Answer(a, Refusal(a), a), trailed', listed')
  <2> SUFFICES ASSUME NEW n \in {400, 401, 403, 404, 409}
               PROVE  Sound(Answer(a, n, a), trailed', listed')
    BY <1>2
  <2> QED
    BY DEF Answer, Sound
<1>8. Sound([stage |-> "lookup", ask |-> a], trailed', listed')
  BY DEF Sound
<1>9. Sound(c, trailed', listed')
  BY <1>6, <1>7, <1>8
<1> HIDE DEF c
<1> QED
  BY <1>1, <1>4, <1>5, <1>9, OneThread

LEMMA LookupStep ==
    ASSUME PlaneInv, clock \in Int, NEW t \in PThread, Lookup(t)
    PROVE  PlaneInv'
<1> DEFINE a == conn[t].ask
           c == IF a.key \notin DOMAIN cache' THEN Run(a)
                ELSE IF cache'[a.key].body = a.body THEN Answer(a, 200, cache'[a.key].from)
                ELSE Answer(a, 409, a)
<1>1. conn' = [conn EXCEPT ![t] = c] /\ UNCHANGED <<trailed, listed>>
  BY DEF Lookup, durable
<1>2. /\ DOMAIN cache' \subseteq DOMAIN cache
      /\ \A k \in DOMAIN cache' : cache'[k] = cache[k]
  BY DEF Lookup, Unexpired
<1>3. FiledTrue'
  BY <1>1, <1>2, FiledKept DEF PlaneInv
<1>4. a \in Ask
  BY ConnStage DEF Lookup, PlaneInv, Lookups
<1>5. Run(a) \in Runs
  BY <1>4, StepsTyped DEF Run, Runs
<1>6. c \in {Free} \cup Lookups \cup Runs \cup Replies
  BY <1>3, <1>4, <1>5 DEF Answer, Replies, FiledTrue
<1>7. Sound(Run(a), trailed', listed')
  BY CutSteps DEF Run, Sound
<1>8. Sound(Answer(a, 409, a), trailed', listed')
  BY DEF Answer, Sound
<1>9. ASSUME a.key \in DOMAIN cache' PROVE Sound(Answer(a, 200, cache'[a.key].from), trailed', listed')
  BY <1>3, <1>9 DEF Answer, Sound, FiledTrue
<1>10. Sound(c, trailed', listed')
  BY <1>7, <1>8, <1>9
<1> HIDE DEF c
<1> QED
  BY <1>1, <1>3, <1>6, <1>10, OneThread

LEMMA HandlerKeeps ==
    ASSUME PlaneInv, NEW t \in PThread, HandlerStep(t)
    PROVE  PlaneInv'
<1> DEFINE s == Head(conn[t].left)
           c == [conn[t] EXCEPT !.left = Tail(@)]
<1>1. /\ conn' = [conn EXCEPT ![t] = c] /\ UNCHANGED cache
      /\ StepEffect(s, conn[t].ask)
  BY DEF HandlerStep
<1>2. conn[t] \in Runs /\ conn[t].left # <<>>
  BY ConnStage DEF HandlerStep, PlaneInv
<1>3. /\ trailed \subseteq trailed' /\ listed \subseteq listed'
      /\ s = "trail" => conn[t].ask.arg \in trailed'
      /\ s = "feed" => conn[t].ask.arg \in listed'
  BY <1>1 DEF StepEffect, durable
<1>4. /\ c \in Runs /\ c.ask = conn[t].ask /\ c.left = Tail(conn[t].left)
      /\ c.stage = "run"
  BY <1>2 DEF Runs
<1>5. FiledTrue'
  BY <1>1, <1>3, FiledKept DEF PlaneInv
<1>6. ASSUME conn[t].ask.route \in Cuts
      PROVE  \/ c.left = <<"trail", "feed">>
             \/ c.left = <<"feed">> /\ conn[t].ask.arg \in trailed'
             \/ c.left = <<>> /\ conn[t].ask.arg \in trailed' \cap listed'
  <2>1. \/ conn[t].left = <<"cut", "trail", "feed">>
        \/ conn[t].left = <<"trail", "feed">>
        \/ conn[t].left = <<"feed">> /\ conn[t].ask.arg \in trailed
    BY <1>2, <1>6 DEF PlaneInv, ThreadsSound, Sound, Runs
  <2>2. CASE conn[t].left = <<"cut", "trail", "feed">>
    BY <1>4, <2>2
  <2>3. CASE conn[t].left = <<"trail", "feed">>
    <3>1. s = "trail" /\ c.left = <<"feed">>
      BY <1>4, <2>3
    <3> QED
      BY <1>3, <3>1
  <2>4. CASE conn[t].left = <<"feed">> /\ conn[t].ask.arg \in trailed
    <3>1. s = "feed" /\ c.left = <<>>
      BY <1>4, <2>4
    <3> QED
      BY <1>3, <2>4, <3>1
  <2> QED
    BY <2>1, <2>2, <2>3, <2>4
<1>7. Sound(c, trailed', listed')
  BY <1>4, <1>6 DEF Sound
<1> HIDE DEF c, s
<1> QED
  BY <1>1, <1>3, <1>4, <1>5, <1>7, OneThread

LEMMA FileStep ==
    ASSUME PlaneInv, NEW t \in PThread, File(t)
    PROVE  PlaneInv'
<1> DEFINE a == conn[t].ask
           c == Answer(a, 201, a)
<1>1. /\ conn' = [conn EXCEPT ![t] = c] /\ UNCHANGED <<trailed, listed>>
      /\ DOMAIN cache' = DOMAIN cache \cup {a.key}
      /\ cache'[a.key].from = a
      /\ \A k \in DOMAIN cache' : k # a.key => cache'[k] = cache[k]
  BY DEF File, durable
<1>2. conn[t] \in Runs /\ conn[t].left = <<>>
  BY ConnStage DEF File, PlaneInv
<1>3. a \in Ask /\ (a.route \in Cuts => a.arg \in trailed \cap listed)
  <2>1. a \in Ask /\ conn[t].stage = "run"
    BY <1>2 DEF Runs
  <2>2. Sound(conn[t], trailed, listed)
    BY DEF PlaneInv, ThreadsSound
  <2> QED
    BY <1>2, <2>1, <2>2 DEF Sound
<1>4. FiledTrue'
  BY <1>1, <1>3 DEF FiledTrue, PlaneInv
<1>5. c \in Replies /\ Sound(c, trailed', listed')
  BY <1>1, <1>3 DEF Answer, Replies, Sound
<1> HIDE DEF c
<1> QED
  BY <1>1, <1>3, <1>4, <1>5, OneThread

\* A thread ends its request: without a success, without a key, or with the answer
\* sent.
LEMMA EndStep ==
    ASSUME PlaneInv, NEW t \in PThread, HandlerFails(t) \/ Finish(t) \/ Reply(t)
    PROVE  PlaneInv'
<1>1. UNCHANGED <<cache, trailed, listed>>
  BY DEF HandlerFails, Finish, Reply, durable
<1>2. FiledTrue'
  BY <1>1, FiledKept DEF PlaneInv
<1>3. CASE Reply(t)
  <2>1. conn' = [conn EXCEPT ![t] = Free] /\ Sound(Free, trailed', listed')
    BY <1>3 DEF Reply, Free, Sound
  <2> QED
    BY <1>1, <1>2, <2>1, OneThread
<1>4. CASE HandlerFails(t) \/ Finish(t)
  <2> DEFINE a == conn[t].ask
  <2>1. conn[t] \in Runs /\ a \in Ask
    BY <1>4, ConnStage DEF HandlerFails, Finish, PlaneInv, Runs
  <2>2. PICK n \in {200, 500} : /\ conn' = [conn EXCEPT ![t] = Answer(a, n, a)]
                                /\ n = 200 => a.route \notin Keyed
    BY <1>4 DEF HandlerFails, Finish
  <2> DEFINE c == Answer(a, n, a)
  <2>3. c \in Replies
    BY <2>1 DEF Answer, Replies
  <2>4. Sound(c, trailed', listed')
    BY <2>2 DEF Answer, Sound, Keyed, Mutating, Cuts
  <2>5. conn' = [conn EXCEPT ![t] = c]
    BY <2>2
  <2> HIDE DEF c
  <2> QED
    BY <1>1, <1>2, <2>3, <2>4, <2>5, OneThread
<1> QED
  BY <1>3, <1>4

---------------------------------------------------------------------------
(* Retries.                                                                *)

Keys(c) == c.stage = "run" /\ c.ask.route \in Keyed

RetryTypes ==
    /\ clock \in Int
    /\ \A k \in DOMAIN cache : cache[k].expiry \in Int
    /\ \A r \in answered : r.at \in Int
    /\ \A t \in PThread : conn[t].stage = "run" => conn[t].at <= clock

\* A success is over, on file, or of a key that two handlers ran under.
OnFile ==
    \A r \in answered :
        \/ r.key \in overlap
        \/ r.at + Ttl <= clock
        \/ /\ r.key \in DOMAIN cache
           /\ cache[r.key].body = r.body /\ cache[r.key].expiry = r.at + Ttl

\* A handler runs alone under its key, and past every success there was.
RunsAlone ==
    \A t \in PThread : Keys(conn[t]) =>
        /\ \A u \in PThread : u # t /\ Keys(conn[u]) /\ conn[u].ask.key = conn[t].ask.key =>
              conn[t].ask.key \in overlap
        /\ \A r \in answered : r.key = conn[t].ask.key =>
              r.key \in overlap \/ r.at + Ttl <= conn[t].at

RetryInv == RetryTypes /\ OnFile /\ RunsAlone

\* A step of one thread that starts no handler under a key and files nothing.
LEMMA NoRun ==
    ASSUME PlaneInv, RetryInv, NEW t \in PThread, NEW c,
           conn' = [conn EXCEPT ![t] = c],
           c.stage = "run" =>
              \/ conn[t].stage = "run" /\ c.ask = conn[t].ask /\ c.at = conn[t].at
              \/ c.ask.route \notin Keyed /\ c.at <= clock,
           UNCHANGED <<cache, clock, answered, overlap>>
    PROVE  RetryInv'
<1>1. \A u \in PThread : conn'[u] = IF u = t THEN c ELSE conn[u]
  BY DEF PlaneInv, ConnTypes
<1>2. ASSUME NEW u \in PThread, conn'[u].stage = "run"
      PROVE  \/ /\ conn[u].stage = "run"
                /\ conn'[u].ask = conn[u].ask /\ conn'[u].at = conn[u].at
             \/ conn'[u].ask.route \notin Keyed /\ conn'[u].at <= clock
  BY <1>1, <1>2
<1>3. RetryTypes'
  BY <1>2 DEF RetryInv, RetryTypes
<1>4. OnFile'
  BY DEF RetryInv, OnFile
<1>5. RunsAlone'
  BY <1>2 DEF RetryInv, RunsAlone, Keys
<1> QED
  BY <1>3, <1>4, <1>5 DEF RetryInv

\* The lookup: a miss is past every success of its key (idempotent).
LEMMA RetryLookup ==
    ASSUME Ttl \in Int, PlaneInv, RetryInv, NEW t \in PThread, Lookup(t)
    PROVE  RetryInv' /\ RetryStep
<1> DEFINE a == conn[t].ask
           hit == a.key \in DOMAIN cache'
           c == IF ~hit THEN Run(a)
                ELSE IF cache'[a.key].body = a.body THEN Answer(a, 200, cache'[a.key].from)
                ELSE Answer(a, 409, a)
<1>1. /\ conn[t].stage = "lookup" /\ conn' = [conn EXCEPT ![t] = c]
      /\ UNCHANGED <<clock, answered>>
      /\ cache' = [k \in {k \in DOMAIN cache : cache[k].expiry > clock} |-> cache[k]]
      /\ overlap' = overlap \cup
           {a.key : u \in {u \in PThread : ~hit /\ conn[u].stage = "run"
                                          /\ conn[u].ask.key = a.key}}
  BY DEF Lookup, Unexpired
<1>2. /\ c.stage = "run" => ~hit
      /\ c.stage = "run" => c.at = clock /\ c.ask = a
  BY DEF Run, Answer
<1>3. \A u \in PThread : conn'[u] = IF u = t THEN c ELSE conn[u]
  BY <1>1 DEF PlaneInv, ConnTypes
<1>4. overlap \subseteq overlap'
  BY <1>1
<1> HIDE DEF c
<1>5. ASSUME NEW r \in answered, ~hit, r.key = a.key
      PROVE  r.key \in overlap \/ r.at + Ttl <= clock
  <2>1. \/ r.key \in overlap \/ r.at + Ttl <= clock
        \/ r.key \in DOMAIN cache /\ cache[r.key].expiry = r.at + Ttl
    BY DEF RetryInv, OnFile
  <2>2. ASSUME r.key \in DOMAIN cache, cache[r.key].expiry = r.at + Ttl
        PROVE  r.at + Ttl <= clock
    <3>1. ~ (cache[r.key].expiry > clock)
      BY <1>1, <1>5, <2>2
    <3>2. clock \in Int /\ r.at \in Int
      BY DEF RetryInv, RetryTypes
    <3> QED
      BY <2>2, <3>1, <3>2
  <2> QED
    BY <2>1, <2>2
<1>6. RetryTypes'
  <2>1. ASSUME NEW u \in PThread, conn'[u].stage = "run" PROVE conn'[u].at <= clock
    BY <1>2, <1>3, <2>1 DEF RetryInv, RetryTypes
  <2> QED
    BY <1>1, <2>1 DEF RetryInv, RetryTypes
<1>7. OnFile'
  <2> SUFFICES ASSUME NEW r \in answered, r.key \notin overlap, ~ (r.at + Ttl <= clock)
               PROVE  /\ r.key \in DOMAIN cache'
                      /\ cache'[r.key].body = r.body /\ cache'[r.key].expiry = r.at + Ttl
    BY <1>1, <1>4 DEF OnFile
  <2>1. /\ r.key \in DOMAIN cache
        /\ cache[r.key].body = r.body /\ cache[r.key].expiry = r.at + Ttl
    BY DEF RetryInv, OnFile
  <2>2. clock \in Int /\ r.at \in Int
    BY DEF RetryInv, RetryTypes
  <2>3. cache[r.key].expiry > clock
    BY <2>1, <2>2
  <2> QED
    BY <1>1, <2>1, <2>3
<1>8. RunsAlone'
  <2>1. ASSUME NEW u \in PThread, NEW v \in PThread, u # v, Keys(conn'[u]), Keys(conn'[v]),
               conn'[u].ask.key = conn'[v].ask.key
        PROVE  conn'[u].ask.key \in overlap'
    <3>1. CASE u # t /\ v # t
      BY <1>3, <1>4, <2>1, <3>1 DEF RetryInv, RunsAlone
    <3>2. CASE u = t
      BY <1>1, <1>2, <1>3, <2>1, <3>2 DEF Keys
    <3>3. CASE v = t
      BY <1>1, <1>2, <1>3, <2>1, <3>3 DEF Keys
    <3> QED
      BY <3>1, <3>2, <3>3
  <2>2. ASSUME NEW u \in PThread, Keys(conn'[u]), NEW r \in answered,
               r.key = conn'[u].ask.key
        PROVE  r.key \in overlap' \/ r.at + Ttl <= conn'[u].at
    <3>1. CASE u # t
      BY <1>3, <1>4, <2>2, <3>1 DEF RetryInv, RunsAlone
    <3>2. CASE u = t
      BY <1>2, <1>3, <1>4, <1>5, <2>2, <3>2 DEF Keys
    <3> QED
      BY <3>1, <3>2
  <2> QED
    BY <1>1, <2>1, <2>2 DEF RunsAlone
<1>9. RetryStep
  <2> SUFFICES ASSUME NEW u \in PThread, conn[u].stage = "lookup", conn'[u].stage = "run",
                      NEW r \in answered, r.key = conn[u].ask.key
               PROVE  r.at + Ttl <= clock \/ r.key \in overlap
    BY DEF RetryStep
  <2>1. u = t /\ ~hit
    BY <1>2, <1>3
  <2> QED
    BY <1>5, <2>1
<1> QED
  BY <1>6, <1>7, <1>8, <1>9 DEF RetryInv

\* Filing a success (idempotent, after the handler).
LEMMA RetryFile ==
    ASSUME Ttl \in Int, PlaneInv, RetryInv, NEW t \in PThread, File(t)
    PROVE  RetryInv'
<1> DEFINE a == conn[t].ask
           n == [key |-> a.key, body |-> a.body, at |-> conn[t].at]
           c == Answer(a, 201, a)
<1>1. /\ conn[t].stage = "run" /\ a.route \in Keyed
      /\ conn' = [conn EXCEPT ![t] = c]
      /\ answered' = answered \cup {n}
      /\ UNCHANGED <<clock, overlap>>
  BY DEF File
<1>2. /\ DOMAIN cache' = DOMAIN cache \cup {a.key}
      /\ cache'[a.key].expiry = conn[t].at + Ttl /\ cache'[a.key].body = a.body
      /\ \A k \in DOMAIN cache' : k # a.key => cache'[k] = cache[k]
  BY DEF File
<1>3. conn[t].at \in Int /\ clock \in Int /\ conn[t].at <= clock
  BY <1>1, ConnStage DEF PlaneInv, Runs, RetryInv, RetryTypes
<1>4. \A u \in PThread : conn'[u] = IF u = t THEN c ELSE conn[u]
  BY <1>1 DEF PlaneInv, ConnTypes
<1>5. c.stage = "reply"
  BY DEF Answer
<1>6. n.key = a.key /\ n.body = a.body /\ n.at = conn[t].at
  OBVIOUS
<1> HIDE DEF c, n
<1>7. \A u \in PThread : conn'[u].stage = "run" => u # t /\ conn'[u] = conn[u]
  BY <1>4, <1>5
<1>8. RetryTypes'
  <2>1. \A k \in DOMAIN cache' : cache'[k].expiry \in Int
    BY <1>2, <1>3 DEF RetryInv, RetryTypes
  <2>2. \A r \in answered' : r.at \in Int
    BY <1>1, <1>3, <1>6 DEF RetryInv, RetryTypes
  <2> QED
    BY <1>1, <1>7, <2>1, <2>2 DEF RetryInv, RetryTypes
<1>9. OnFile'
  <2> SUFFICES ASSUME NEW r \in answered', r.key \notin overlap, ~ (r.at + Ttl <= clock)
               PROVE  /\ r.key \in DOMAIN cache'
                      /\ cache'[r.key].body = r.body /\ cache'[r.key].expiry = r.at + Ttl
    BY <1>1 DEF OnFile
  <2>1. CASE r = n
    BY <1>2, <1>6, <2>1
  <2>2. CASE r \in answered /\ r.key = a.key
    <3>1. r.at + Ttl <= conn[t].at
      BY <1>1, <2>2 DEF RetryInv, RunsAlone, Keys
    <3>2. r.at \in Int
      BY <2>2 DEF RetryInv, RetryTypes
    <3> QED
      BY <1>3, <3>1, <3>2
  <2>3. CASE r \in answered /\ r.key # a.key
    <3>1. /\ r.key \in DOMAIN cache
          /\ cache[r.key].body = r.body /\ cache[r.key].expiry = r.at + Ttl
      BY <2>3 DEF RetryInv, OnFile
    <3> QED
      BY <1>2, <2>3, <3>1
  <2> QED
    BY <1>1, <2>1, <2>2, <2>3
<1>10. RunsAlone'
  <2> SUFFICES ASSUME NEW u \in PThread, Keys(conn'[u])
               PROVE  /\ \A v \in PThread : v # u /\ Keys(conn'[v])
                                             /\ conn'[v].ask.key = conn'[u].ask.key =>
                            conn'[u].ask.key \in overlap
                      /\ \A r \in answered' : r.key = conn'[u].ask.key =>
                            r.key \in overlap \/ r.at + Ttl <= conn'[u].at
    BY <1>1 DEF RunsAlone
  <2>1. u # t /\ conn'[u] = conn[u] /\ Keys(conn[u]) /\ Keys(conn[t])
    BY <1>1, <1>7 DEF Keys
  <2>2. \A v \in PThread : Keys(conn'[v]) => conn'[v] = conn[v]
    BY <1>7 DEF Keys
  <2>3. conn[t].ask.key = conn[u].ask.key => conn[u].ask.key \in overlap
    BY <2>1 DEF RetryInv, RunsAlone
  <2> QED
    BY <1>1, <1>6, <2>1, <2>2, <2>3 DEF RetryInv, RunsAlone
<1> QED
  BY <1>8, <1>9, <1>10 DEF RetryInv

\* Whatever a thread does but look its key up, no lookup turns into a handler, and
\* what is known of the retries stays true.
LEMMA RetryElse ==
    ASSUME Ttl \in Int, PlaneInv, RetryInv, NEW t \in PThread,
           \/ \E a \in Ask : Accept(t, a)
           \/ HandlerStep(t) \/ HandlerFails(t) \/ File(t) \/ Finish(t) \/ Reply(t)
    PROVE  RetryInv' /\ RetryStep
<1>1. conn[t].stage # "lookup" /\ \A u \in PThread : u # t => conn'[u] = conn[u]
  BY DEF PlaneInv, ConnTypes, Accept, HandlerStep, HandlerFails, File, Finish, Reply, Free
<1>2. RetryStep
  BY <1>1 DEF RetryStep
<1>3. ASSUME NEW a \in Ask, Accept(t, a) PROVE RetryInv'
  <2> DEFINE c == IF Refusal(a) # 0 THEN Answer(a, Refusal(a), a)
                  ELSE IF a.route \in Keyed THEN [stage |-> "lookup", ask |-> a]
                  ELSE Run(a)
  <2>1. conn' = [conn EXCEPT ![t] = c] /\ UNCHANGED <<cache, clock, answered, overlap>>
    BY <1>3 DEF Accept
  <2>2. clock \in Int
    BY DEF RetryInv, RetryTypes
  <2>3. c.stage = "run" => c.ask.route \notin Keyed /\ c.at <= clock
    BY <2>2 DEF Answer, Run
  <2> HIDE DEF c
  <2> QED
    BY <2>1, <2>3, NoRun
<1>4. CASE HandlerStep(t)
  <2> DEFINE c == [conn[t] EXCEPT !.left = Tail(@)]
  <2>1. conn' = [conn EXCEPT ![t] = c] /\ UNCHANGED <<cache, clock, answered, overlap>>
    BY <1>4 DEF HandlerStep
  <2>2. conn[t] \in Runs
    BY <1>4, ConnStage DEF HandlerStep, PlaneInv
  <2>3. conn[t].stage = "run" /\ c.ask = conn[t].ask /\ c.at = conn[t].at
    BY <2>2 DEF Runs
  <2> HIDE DEF c
  <2> QED
    BY <1>2, <2>1, <2>3, NoRun
<1>5. CASE HandlerFails(t) \/ Finish(t) \/ Reply(t)
  <2>1. PICK c : c.stage # "run" /\ conn' = [conn EXCEPT ![t] = c]
    <3>1. ASSUME NEW n PROVE Answer(conn[t].ask, n, conn[t].ask).stage # "run"
      BY DEF Answer
    <3>2. Free.stage # "run"
      BY DEF Free
    <3> QED
      BY <1>5, <3>1, <3>2 DEF HandlerFails, Finish, Reply
  <2>2. UNCHANGED <<cache, clock, answered, overlap>>
    BY <1>5 DEF HandlerFails, Finish, Reply
  <2> QED
    BY <1>2, <2>1, <2>2, NoRun
<1>6. CASE File(t)
  BY <1>2, <1>6, RetryFile
<1> QED
  BY <1>2, <1>3, <1>4, <1>5, <1>6

\* An answered cut is on the feed and on the trail, and a retry under the same key
\* and body reaches no handler again (api.rs idempotent, quarantine, revoke): for
\* any threads, requests, tokens and bounds, through handlers that fail halfway and
\* restarts.
THEOREM AnswersAreKept == ASSUME Ttl \in Int PROVE PlaneSpec => AnswersHold
<1>1. PlaneInit => PlaneInv /\ RetryInv
  BY DEF PlaneInit, PlaneInv, ConnTypes, ThreadsSound, Sound, Free, FiledTrue,
         RetryInv, RetryTypes, OnFile, RunsAlone, Keys
<1>2. ASSUME PlaneInv, RetryInv, [PlaneNext]_planeVars
      PROVE  PlaneInv' /\ RetryInv' /\ RetryStep
  <2> USE <1>2
  <2>1. clock \in Int
    BY DEF RetryInv, RetryTypes
  <2>2. ASSUME NEW t \in PThread, NEW a \in Ask, Accept(t, a)
        PROVE  PlaneInv' /\ RetryInv' /\ RetryStep
    BY <2>1, <2>2, AcceptStep, RetryElse
  <2>3. ASSUME NEW t \in PThread, Lookup(t)
        PROVE  PlaneInv' /\ RetryInv' /\ RetryStep
    BY <2>1, <2>3, LookupStep, RetryLookup
  <2>4. ASSUME NEW t \in PThread,
               HandlerStep(t) \/ HandlerFails(t) \/ File(t) \/ Finish(t) \/ Reply(t)
        PROVE  PlaneInv' /\ RetryInv' /\ RetryStep
    BY <2>4, HandlerKeeps, EndStep, FileStep, RetryElse
  <2>5. CASE Second
    <3>1. /\ clock' = clock + 1
          /\ UNCHANGED <<conn, cache, trailed, listed, answered, overlap>>
      BY <2>5 DEF Second, durable
    <3>2. PlaneInv'
      BY <3>1 DEF PlaneInv, ConnTypes, ThreadsSound, FiledTrue
    <3>3. RetryTypes'
      <4>1. \A t \in PThread : conn[t].stage = "run" => conn[t].at \in Int
        BY ConnStage DEF PlaneInv, Runs
      <4> QED
        BY <2>1, <3>1, <4>1 DEF RetryInv, RetryTypes
    <3>4. OnFile'
      BY <2>1, <3>1 DEF RetryInv, RetryTypes, OnFile
    <3>5. RunsAlone' /\ RetryStep
      BY <3>1 DEF RetryInv, RunsAlone, RetryStep
    <3> QED
      BY <3>2, <3>3, <3>4, <3>5 DEF RetryInv
  <2>6. CASE RestartPlane
    <3>1. /\ conn' = [t \in PThread |-> Free] /\ cache' = <<>>
          /\ answered' = {} /\ clock' = clock
      BY <2>6 DEF RestartPlane
    <3>2. \A t \in PThread : conn'[t].stage = "free"
      BY <3>1 DEF Free
    <3>3. PlaneInv'
      BY <3>1, <3>2 DEF PlaneInv, ConnTypes, ThreadsSound, Sound, FiledTrue
    <3> QED
      BY <2>1, <3>1, <3>2, <3>3
         DEF RetryInv, RetryTypes, OnFile, RunsAlone, Keys, RetryStep
  <2>7. CASE UNCHANGED planeVars
    BY <2>7 DEF planeVars, PlaneInv, ConnTypes, ThreadsSound, FiledTrue,
                RetryInv, RetryTypes, OnFile, RunsAlone, RetryStep
  <2> QED
    BY <2>2, <2>3, <2>4, <2>5, <2>6, <2>7 DEF PlaneNext
<1>3. PlaneInv => CutAnsweredIsDone
  BY DEF PlaneInv, ThreadsSound, Sound, Cuts, CutAnsweredIsDone
<1>4. PlaneInv /\ RetryInv /\ [PlaneNext]_planeVars => (PlaneInv /\ RetryInv)' /\ [RetryStep]_planeVars
  BY <1>2
<1> QED
  BY <1>1, <1>3, <1>4, PTL DEF PlaneSpec, AnswersHold, RetryOnce

---------------------------------------------------------------------------
(* The command line.                                                       *)

Kind == {"args", "policy", "key", "lock", "view", "chain", "row", "grant", "cut",
         "mark", "note", "feed", "orders", "file", "ring", "save", "judge", "shim",
         "sign", "peek", "glance", "refuse", "drop", "listen"}
CommitKind == {"row", "grant", "cut", "mark"}
\* What takes the writer lock for granted, what may end in a verdict, what reads.
Holding == CommitKind \cup {"drop"}
Refusing == {"judge", "refuse", "row", "grant", "cut"}
Reading == {"view", "peek", "glance", "lock"}
Calm == Kind \ (Holding \cup {"lock"})

\* The rules a handler keeps: no key resolved after a commit, no verdict after
\* authority was given, no lock taken after the state was read.
Every == {"key", "grant", "read"}
Rules(w) == {r \in Every : /\ r = "key" => w \notin NeedApplyCmd
                           /\ r = "grant" => w \notin Batches
                           /\ r = "read" => w \notin TwoReadings}
Bad(F, k, l) ==
    \/ "key" \in F /\ k \in CommitKind /\ l = "key"
    \/ "grant" \in F /\ k = "grant" /\ l \in Refusing
    \/ "read" \in F /\ k \in Reading /\ l = "lock"

Ordered(s, F) == \A i, j \in 1 .. Len(s) : i < j => ~ Bad(F, s[i], s[j])
\* The steps s commit under a lock that they do not take.
NeedsLock(s) ==
    \E i \in 1 .. Len(s) : s[i] \in Holding /\ \A j \in 1 .. (i - 1) : s[j] # "lock"
\* Once dropped, the lock is taken again before the next commit.
Sealed(s) ==
    \A i, j \in 1 .. Len(s) : i < j /\ s[i] = "drop" /\ s[j] \in Holding =>
        \E m \in (i + 1) .. (j - 1) : s[m] = "lock"
Ahead(s, K) == \E i \in 1 .. Len(s) : s[i] \in K

\* The handlers that keep the lock's order, and the rules F.
Fit(F) == {s \in Seq(Kind) : Ordered(s, F) /\ ~ NeedsLock(s) /\ Sealed(s)}

LEMMA FewerRules ==
    ASSUME NEW F, NEW G, F \subseteq G, NEW s \in Fit(G)
    PROVE  s \in Fit(F)
  BY DEF Fit, Ordered, Bad

LEMMA CalmFits ==
    ASSUME NEW s \in Seq(Calm)
    PROVE  s \in Seq(Kind) /\ s \in Fit(Every) /\ \A i \in 1 .. Len(s) : s[i] \in Calm
<1>1. \A i \in 1 .. Len(s) : s[i] \in Calm
  OBVIOUS
<1>2. \A k, l \in Calm : ~ Bad(Every, k, l) /\ k \notin Holding /\ k # "drop"
  BY DEF Bad, Calm, Holding, CommitKind
<1>3. Ordered(s, Every) /\ ~ NeedsLock(s) /\ Sealed(s)
  BY <1>1, <1>2 DEF Ordered, NeedsLock, Sealed
<1>4. s \in Seq(Kind)
  BY DEF Calm
<1> QED
  BY <1>1, <1>3, <1>4 DEF Fit

\* The verbs that only read commit nothing.
LEMMA ReadersFit == Readers \subseteq Fit(Every)
<1>1. /\ <<"args", "view">> \in Seq(Calm)
      /\ <<"view">> \in Seq(Calm)
      /\ <<"view", "args">> \in Seq(Calm)
      /\ <<"args", "policy", "view">> \in Seq(Calm)
      /\ <<"args", "view", "judge">> \in Seq(Calm)
      /\ <<"view", "judge">> \in Seq(Calm)
      /\ <<"policy", "view">> \in Seq(Calm)
      /\ <<"policy", "judge">> \in Seq(Calm)
      /\ <<"policy">> \in Seq(Calm)
      /\ <<"args", "view", "file">> \in Seq(Calm)
      /\ <<"args", "view", "shim", "shim">> \in Seq(Calm)
      /\ <<"args", "view", "args", "judge">> \in Seq(Calm)
      /\ <<"args", "args", "judge">> \in Seq(Calm)
      /\ <<"args", "key", "view", "judge", "args", "file">> \in Seq(Calm)
      /\ <<"args", "judge">> \in Seq(Calm)
      /\ <<"args", "key", "file">> \in Seq(Calm)
      /\ <<"args">> \in Seq(Calm)
      /\ <<"args", "shim", "judge">> \in Seq(Calm)
      /\ <<"args", "shim", "file">> \in Seq(Calm)
      /\ <<"args", "judge", "view", "file">> \in Seq(Calm)
      /\ <<"args", "args", "sign", "args", "judge">> \in Seq(Calm)
      /\ <<"ring">> \in Seq(Calm)
      /\ <<"args", "judge", "file">> \in Seq(Calm)
  BY DEF Calm, Kind, Holding, CommitKind
<1>2. UNION {EntitiesCmd, ShowCmd, PostureCmd, RequestsCmd, ContractsCmd,
      DiscoverCmd, BlastRadiusCmd, NeedCheckCmd, OfferListCmd} \subseteq Seq(Calm)
  BY <1>1 DEF EntitiesCmd, ShowCmd, PostureCmd, RequestsCmd, ContractsCmd,
       DiscoverCmd, BlastRadiusCmd, NeedCheckCmd, OfferListCmd
<1>3. UNION {OfferShowCmd, OfferStatusCmd, OfferUpcomingCmd, DryRunCmd,
      PolicyLintCmd, PolicyShowCmd, ReceiptCmd, DistributionCmd, MediatorsCmd} \subseteq Seq(Calm)
  BY <1>1 DEF OfferShowCmd, OfferStatusCmd, OfferUpcomingCmd, DryRunCmd,
       PolicyLintCmd, PolicyShowCmd, ReceiptCmd, DistributionCmd, MediatorsCmd
<1>4. UNION {BundleExportCmd, BundleVerifyCmd, VerifyCmd, AttestSurfaceCmd,
      AttestVerifyCmd, ScreenCmd, CanonCmd, OfferLintCmd, FederateCmd} \subseteq Seq(Calm)
  BY <1>1 DEF BundleExportCmd, BundleVerifyCmd, VerifyCmd, AttestSurfaceCmd,
       AttestVerifyCmd, ScreenCmd, CanonCmd, OfferLintCmd, FederateCmd
<1>5. UNION {TenantsCmd, CaepIngestCmd, ScmProbeCmd, InventoryCmd, AuditVerifyCmd,
      EvidenceVerifyCmd, ExportCmd, EmitApprovalCmd} \subseteq Seq(Calm)
  BY <1>1 DEF TenantsCmd, CaepIngestCmd, ScmProbeCmd, InventoryCmd,
       AuditVerifyCmd, EvidenceVerifyCmd, ExportCmd, EmitApprovalCmd
<1>6. UNION {EvidenceSinceCmd, BenchCmd, KeysListCmd, GatewayCheckCmd} \subseteq Seq(Calm)
  BY <1>1 DEF EvidenceSinceCmd, BenchCmd, KeysListCmd, GatewayCheckCmd
<1> QED
  BY <1>2, <1>3, <1>4, <1>5, <1>6, CalmFits DEF Readers

\* Neither do the verbs on the ring, backups and the planes themselves.
LEMMA OthersFit == UNION {KeysChange, RestoreCmd, RetentionCmd, ServeCmd, KeysRead, BackupCmd,
                          ServeReadOnlyCmd} \subseteq Fit(Every)
<1>1. /\ <<"args", "ring", "judge", "save">> \in Seq(Calm)
      /\ <<"args", "judge", "file">> \in Seq(Calm)
      /\ <<"ring", "file">> \in Seq(Calm)
      /\ <<"args", "view", "file">> \in Seq(Calm)
      /\ <<"args", "policy", "judge", "key", "view", "chain", "args", "key",
           "args", "listen">> \in Seq(Calm)
  BY DEF Calm, Kind, Holding, CommitKind
<1>2. UNION {KeysChange, RestoreCmd, RetentionCmd, KeysRead, BackupCmd,
      ServeReadOnlyCmd} \subseteq Seq(Calm)
  BY <1>1 DEF KeysChange, RestoreCmd, RetentionCmd, KeysRead, BackupCmd, ServeReadOnlyCmd
<1>3. <<"args", "policy", "judge", "key", "lock", "chain", "args", "key", "args", "listen">>
          \in Fit(Every)
  BY DEF Fit, Ordered, Bad, NeedsLock, Sealed, Holding, CommitKind, Refusing, Reading, Kind
<1>4. ServeCmd \subseteq Fit(Every)
  BY <1>3 DEF ServeCmd
<1> QED
  BY <1>2, <1>4, CalmFits

\* Where the elements of a concatenation come from.
LEMMA CatElements ==
    ASSUME NEW s \in Seq(Kind), NEW t \in Seq(Kind)
    PROVE  /\ s \o t \in Seq(Kind) /\ Len(s \o t) = Len(s) + Len(t)
           /\ \A i \in 1 .. Len(s) : (s \o t)[i] = s[i]
           /\ \A i \in 1 .. Len(t) : (s \o t)[Len(s) + i] = t[i]
           /\ \A i \in 1 .. Len(s \o t) :
                 \/ i \in 1 .. Len(s)
                 \/ i - Len(s) \in 1 .. Len(t) /\ (s \o t)[i] = t[i - Len(s)]
  OBVIOUS

LEMMA OrderedCat ==
    ASSUME NEW F, NEW s \in Seq(Kind), NEW t \in Seq(Kind), Ordered(s, F), Ordered(t, F),
           \A i \in 1 .. Len(s), j \in 1 .. Len(t) : ~ Bad(F, s[i], t[j])
    PROVE  Ordered(s \o t, F)
<1> DEFINE x == s \o t
<1>1. /\ Len(s) \in Nat /\ Len(t) \in Nat /\ Len(x) = Len(s) + Len(t)
      /\ \A i \in 1 .. Len(s) : x[i] = s[i]
      /\ \A i \in 1 .. Len(x) : \/ i \in 1 .. Len(s)
                                \/ i - Len(s) \in 1 .. Len(t) /\ x[i] = t[i - Len(s)]
  BY CatElements, LenProperties
<1> HIDE DEF x
<1>2. ASSUME NEW i \in 1 .. Len(x), NEW j \in 1 .. Len(x), i < j PROVE ~ Bad(F, x[i], x[j])
  <2>1. CASE i \in 1 .. Len(s) /\ j \in 1 .. Len(s)
    BY <1>1, <1>2, <2>1 DEF Ordered
  <2>2. CASE i \in 1 .. Len(s) /\ j \notin 1 .. Len(s)
    BY <1>1, <2>2
  <2>3. CASE i \notin 1 .. Len(s)
    <3>1. i - Len(s) < j - Len(s) /\ j \notin 1 .. Len(s)
      BY <1>1, <1>2, <2>3
    <3> QED
      BY <1>1, <2>3, <3>1 DEF Ordered
  <2> QED
    BY <2>1, <2>2, <2>3
<1>3. Ordered(x, F)
  BY <1>2 DEF Ordered
<1> QED
  BY <1>3 DEF x

LEMMA LockCat ==
    ASSUME NEW s \in Seq(Kind), NEW t \in Seq(Kind), ~ NeedsLock(s),
           Ahead(s, {"lock"}) \/ ~ NeedsLock(t)
    PROVE  ~ NeedsLock(s \o t)
<1> DEFINE x == s \o t
<1>1. /\ Len(s) \in Nat /\ Len(t) \in Nat /\ Len(x) = Len(s) + Len(t)
      /\ \A i \in 1 .. Len(s) : x[i] = s[i]
      /\ \A i \in 1 .. Len(t) : x[Len(s) + i] = t[i]
      /\ \A i \in 1 .. Len(x) : \/ i \in 1 .. Len(s)
                                \/ i - Len(s) \in 1 .. Len(t) /\ x[i] = t[i - Len(s)]
  BY CatElements, LenProperties
<1> HIDE DEF x
<1>2. ASSUME NEW i \in 1 .. Len(x), x[i] \in Holding, \A j \in 1 .. (i - 1) : x[j] # "lock"
      PROVE  FALSE
  <2>1. CASE i \in 1 .. Len(s)
    <3>1. s[i] \in Holding /\ \A j \in 1 .. (i - 1) : s[j] # "lock"
      BY <1>1, <1>2, <2>1
    <3> QED
      BY <2>1, <3>1 DEF NeedsLock
  <2>2. CASE i \notin 1 .. Len(s)
    <3>1. ~ Ahead(s, {"lock"})
      <4> SUFFICES ASSUME NEW j \in 1 .. Len(s), s[j] = "lock" PROVE FALSE
        BY DEF Ahead
      <4>1. j \in 1 .. (i - 1) /\ x[j] = "lock"
        BY <1>1, <2>2
      <4> QED
        BY <1>2, <4>1
    <3> DEFINE k == i - Len(s)
    <3>2. k \in 1 .. Len(t) /\ t[k] \in Holding
      BY <1>1, <1>2, <2>2
    <3>3. ASSUME NEW j \in 1 .. (k - 1) PROVE t[j] # "lock"
      <4>1. j \in 1 .. Len(t) /\ Len(s) + j \in 1 .. (i - 1)
        BY <1>1, <3>2
      <4> QED
        BY <1>1, <1>2, <4>1
    <3> HIDE DEF k
    <3> QED
      BY <3>1, <3>2, <3>3 DEF NeedsLock
  <2> QED
    BY <2>1, <2>2
<1>3. ~ NeedsLock(x)
  BY <1>2 DEF NeedsLock
<1> QED
  BY <1>3 DEF x

LEMMA SealedCat ==
    ASSUME NEW s \in Seq(Kind), NEW t \in Seq(Kind), Sealed(s), Sealed(t),
           ~ NeedsLock(t) \/ \A i \in 1 .. Len(s) : s[i] # "drop"
    PROVE  Sealed(s \o t)
<1> DEFINE x == s \o t
<1>1. /\ Len(s) \in Nat /\ Len(t) \in Nat /\ Len(x) = Len(s) + Len(t)
      /\ \A i \in 1 .. Len(s) : x[i] = s[i]
      /\ \A i \in 1 .. Len(t) : x[Len(s) + i] = t[i]
      /\ \A i \in 1 .. Len(x) : \/ i \in 1 .. Len(s)
                                \/ i - Len(s) \in 1 .. Len(t) /\ x[i] = t[i - Len(s)]
  BY CatElements, LenProperties
<1> HIDE DEF x
<1>2. ASSUME NEW i \in 1 .. Len(x), NEW j \in 1 .. Len(x), i < j, x[i] = "drop", x[j] \in Holding
      PROVE  \E m \in (i + 1) .. (j - 1) : x[m] = "lock"
  <2>1. CASE j \in 1 .. Len(s)
    <3>1. i \in 1 .. Len(s) /\ s[i] = "drop" /\ s[j] \in Holding
      BY <1>1, <1>2, <2>1
    <3>2. PICK m \in (i + 1) .. (j - 1) : s[m] = "lock"
      BY <1>2, <2>1, <3>1 DEF Sealed
    <3>3. m \in 1 .. Len(s)
      BY <1>1, <2>1, <3>1, <3>2
    <3> QED
      BY <1>1, <3>2, <3>3
  <2>2. CASE j \notin 1 .. Len(s)
    <3> DEFINE n == j - Len(s)
    <3>1. n \in 1 .. Len(t) /\ t[n] \in Holding
      BY <1>1, <1>2, <2>2
    <3>2. CASE i \in 1 .. Len(s)
      <4>1. ~ NeedsLock(t)
        BY <1>1, <1>2, <3>2
      <4>2. PICK m \in 1 .. (n - 1) : t[m] = "lock"
        BY <3>1, <4>1 DEF NeedsLock
      <4>3. m \in 1 .. Len(t) /\ Len(s) + m \in (i + 1) .. (j - 1)
        BY <1>1, <3>1, <3>2, <4>2
      <4> QED
        BY <1>1, <4>2, <4>3
    <3>3. CASE i \notin 1 .. Len(s)
      <4> DEFINE o == i - Len(s)
      <4>1. o \in 1 .. Len(t) /\ t[o] = "drop" /\ o < n
        BY <1>1, <1>2, <2>2, <3>3
      <4> HIDE DEF n, o
      <4>2. PICK m \in (o + 1) .. (n - 1) : t[m] = "lock"
        BY <3>1, <4>1 DEF Sealed
      <4>3. m \in 1 .. Len(t) /\ Len(s) + m \in (i + 1) .. (j - 1)
        BY <1>1, <3>1, <4>1, <4>2 DEF n, o
      <4> QED
        BY <1>1, <4>2, <4>3
    <3> QED
      BY <3>2, <3>3
  <2> QED
    BY <2>1, <2>2
<1>3. Sealed(x)
  BY <1>2 DEF Sealed
<1> QED
  BY <1>3 DEF x

\* One handler's steps after another's, where each takes its own lock.
LEMMA FitCat ==
    ASSUME NEW F, NEW s \in Fit(F), NEW t \in Fit(F),
           \A i \in 1 .. Len(s), j \in 1 .. Len(t) : ~ Bad(F, s[i], t[j])
    PROVE  s \o t \in Fit(F)
  BY CatElements, OrderedCat, LockCat, SealedCat DEF Fit

\* What follows a lock that is held.
LEMMA HeldCat ==
    ASSUME NEW F, NEW s \in Fit(F), Ahead(s, {"lock"}), \A i \in 1 .. Len(s) : s[i] # "drop",
           NEW t \in Seq(Kind), Ordered(t, F), Sealed(t),
           \A i \in 1 .. Len(s), j \in 1 .. Len(t) : ~ Bad(F, s[i], t[j])
    PROVE  s \o t \in Fit(F)
  BY CatElements, OrderedCat, LockCat, SealedCat DEF Fit

\* A cut: the key before the lock, then the commit and what follows it.
LEMMA CutFits ==
    ASSUME NEW tail \in Seq(Calm \ {"key"})
    PROVE  CutBy(tail) \in Fit(Every)
<1> DEFINE h == <<"args", "key", "lock", "cut", "chain", "note", "args">>
<1>1. h \in Fit(Every)
  BY DEF Fit, Kind, Ordered, Bad, NeedsLock, Sealed, Holding, CommitKind, Refusing, Reading
<1>2. tail \in Seq(Calm) /\ \A i \in 1 .. Len(tail) : tail[i] \in Calm \ {"key"}
  OBVIOUS
<1>3. tail \in Fit(Every)
  BY <1>2, CalmFits
<1>4. \A k \in {"args", "key", "lock", "cut", "chain", "note"}, l \in Calm \ {"key"} :
          ~ Bad(Every, k, l)
  BY DEF Bad, Calm, Holding
<1>5. \A i \in 1 .. Len(h) : h[i] \in {"args", "key", "lock", "cut", "chain", "note"}
  OBVIOUS
<1> HIDE DEF h
<1>6. h \o tail \in Fit(Every)
  BY <1>1, <1>2, <1>3, <1>4, <1>5, FitCat
<1> QED
  BY <1>6 DEF CutBy, h

\* with_issuer: what it is given runs under the lock, which goes when it returns.
Body == Kind \ {"key", "lock", "drop"}

LEMMA IssuerFits ==
    ASSUME NEW F, NEW body \in Seq(Body), Ordered(body, F)
    PROVE  /\ WithIssuer(body) \in Fit(F)
           /\ \A i \in 1 .. Len(WithIssuer(body)) :
                 WithIssuer(body)[i] = "grant" => \E n \in 1 .. Len(body) : body[n] = "grant"
<1> DEFINE h == <<"policy", "key", "lock", "chain">>
           d == <<"drop">>
           hb == h \o body
           hbd == hb \o d
<1>1. /\ h \in Fit(F) /\ h \in Seq(Kind)
      /\ \A i \in 1 .. Len(h) : h[i] \in {"policy", "key", "lock", "chain"}
      /\ Len(h) = 4 /\ h[3] = "lock"
  BY DEF Fit, Kind, Ordered, Bad, NeedsLock, Sealed, Holding, CommitKind, Reading, Refusing
<1>2. d \in Seq(Kind) /\ Ordered(d, F) /\ Sealed(d) /\ Len(d) = 1 /\ d[1] = "drop"
  BY DEF Kind, Ordered, Sealed
<1>3. /\ body \in Seq(Kind) /\ \A i \in 1 .. Len(body) : body[i] \in Body
      /\ Len(body) \in Nat
  BY DEF Body
<1>4. Sealed(body)
  BY <1>3 DEF Sealed, Body
<1> HIDE DEF h, d
<1>5. Ahead(h, {"lock"}) /\ \A i \in 1 .. Len(h) : h[i] # "drop"
  BY <1>1 DEF Ahead
<1>6. \A i \in 1 .. Len(h), j \in 1 .. Len(body) : ~ Bad(F, h[i], body[j])
  BY <1>1, <1>3 DEF Bad, Body, CommitKind
<1>7. hb \in Fit(F)
  BY <1>1, <1>3, <1>4, <1>5, <1>6, HeldCat
<1>8. /\ Len(hb) = Len(h) + Len(body)
      /\ \A i \in 1 .. Len(h) : hb[i] = h[i]
      /\ \A i \in 1 .. Len(hb) : \/ i \in 1 .. Len(h)
                                 \/ i - Len(h) \in 1 .. Len(body) /\ hb[i] = body[i - Len(h)]
  BY <1>1, <1>3, CatElements
<1> HIDE DEF hb
<1>9. 3 \in 1 .. Len(hb) /\ hb[3] = "lock"
  BY <1>1, <1>3, <1>8
<1>10. \A i \in 1 .. Len(hb) :
           /\ hb[i] # "drop"
           /\ hb[i] = "grant" => \E n \in 1 .. Len(body) : body[n] = "grant"
  BY <1>1, <1>3, <1>8 DEF Body
<1>11. \A i \in 1 .. Len(hb), j \in 1 .. Len(d) : ~ Bad(F, hb[i], d[j])
  BY <1>2 DEF Bad, Refusing
<1>12. hbd \in Fit(F)
  BY <1>2, <1>7, <1>9, <1>10, <1>11, HeldCat DEF Ahead
<1>13. /\ \A i \in 1 .. Len(hb) : hbd[i] = hb[i]
       /\ \A i \in 1 .. Len(hbd) : \/ i \in 1 .. Len(hb)
                                   \/ i - Len(hb) \in 1 .. Len(d) /\ hbd[i] = d[i - Len(hb)]
  BY <1>2, <1>7, CatElements DEF Fit
<1> HIDE DEF hbd
<1>14. \A i \in 1 .. Len(hbd) : hbd[i] = "grant" => \E n \in 1 .. Len(body) : body[n] = "grant"
  BY <1>2, <1>10, <1>13
<1> QED
  BY <1>12, <1>14 DEF WithIssuer, hbd, hb, h, d

\* The whole handler: what is read of the input before, what is printed after.
LEMMA HandlerFits ==
    ASSUME NEW F, F \subseteq Every, NEW a \in Seq(Calm),
           "read" \in F => \A i \in 1 .. Len(a) : a[i] \notin Reading,
           NEW body \in Seq(Body), Ordered(body, F), NEW c \in Seq({"file", "refuse"}),
           \A i \in 1 .. Len(body), j \in 1 .. Len(c) : body[i] = "grant" => c[j] # "refuse"
    PROVE  a \o WithIssuer(body) \o c \in Fit(F)
<1> DEFINE w == WithIssuer(body)
           ah == a \o w
<1>1. /\ w \in Fit(F) /\ w \in Seq(Kind)
      /\ \A i \in 1 .. Len(w) : w[i] = "grant" => \E n \in 1 .. Len(body) : body[n] = "grant"
  BY IssuerFits DEF Fit
<1>2. a \in Seq(Kind) /\ a \in Fit(F) /\ \A i \in 1 .. Len(a) : a[i] \in Calm
  BY CalmFits, FewerRules
<1>3. /\ c \in Seq(Kind) /\ \A i \in 1 .. Len(c) : c[i] \in {"file", "refuse"}
  BY DEF Kind
<1>4. c \in Fit(F)
  <2>1. c \in Seq(Calm)
    BY <1>3 DEF Calm, Kind, Holding, CommitKind
  <2> QED
    BY <2>1, CalmFits, FewerRules
<1> HIDE DEF w
<1>5. \A k \in Calm : k # "grant" /\ k \notin CommitKind
  BY DEF Calm, Holding, CommitKind
<1>6. \A i \in 1 .. Len(a), j \in 1 .. Len(w) : ~ Bad(F, a[i], w[j])
  BY <1>2, <1>5 DEF Bad
<1>7. ah \in Fit(F) /\ ah \in Seq(Kind)
  BY <1>1, <1>2, <1>6, FitCat DEF Fit
<1>8. \A i \in 1 .. Len(ah) : \/ i \in 1 .. Len(a) /\ ah[i] = a[i]
                              \/ i - Len(a) \in 1 .. Len(w) /\ ah[i] = w[i - Len(a)]
  BY <1>1, <1>2, CatElements
<1> HIDE DEF ah
<1>9. \A i \in 1 .. Len(ah) : ah[i] = "grant" => \E n \in 1 .. Len(body) : body[n] = "grant"
  BY <1>1, <1>2, <1>5, <1>8
<1>10. \A i \in 1 .. Len(ah), j \in 1 .. Len(c) : ~ Bad(F, ah[i], c[j])
  BY <1>3, <1>9 DEF Bad, Refusing
<1>11. ah \o c \in Fit(F)
  BY <1>4, <1>7, <1>10, FitCat
<1> QED
  BY <1>11 DEF ah, w

\* A body that ends in a mint.
LEMMA MintFits ==
    ASSUME NEW r \in Seq({"judge", "row", "note"})
    PROVE  r \o MintSteps \in Seq(Body) /\ Ordered(r \o MintSteps, Every)
<1>1. MintSteps \in Seq(Body) /\ MintSteps \in Seq(Kind)
  BY DEF MintSteps, Kind, Body
<1>2. Ordered(MintSteps, Every) /\ \A i \in 1 .. Len(MintSteps) : MintSteps[i] \notin {"key", "lock"}
  BY DEF MintSteps, Ordered, Bad, Holding, CommitKind, Refusing, Reading
<1>3. /\ r \in Seq(Body) /\ r \in Seq(Kind)
      /\ \A i \in 1 .. Len(r) : r[i] \in {"judge", "row", "note"}
  BY DEF Kind, Body
<1>4. Ordered(r, Every)
  BY <1>3 DEF Ordered, Bad, Reading
<1>5. \A i \in 1 .. Len(r), j \in 1 .. Len(MintSteps) : ~ Bad(Every, r[i], MintSteps[j])
  BY <1>2, <1>3 DEF Bad
<1>6. Ordered(r \o MintSteps, Every)
  BY <1>1, <1>2, <1>3, <1>4, <1>5, OrderedCat
<1>7. r \o MintSteps \in Seq(Body)
  BY <1>1, <1>3
<1> QED
  BY <1>6, <1>7

LEMMA WritersFit ==
    /\ UNION {ActivateCmd, UnquarantineCmd, QuarantineCmd, RevokeCmd, RequestCmd, ApproveCmd,
              BreakglassCmd, DenyCmd, OfferPublishCmd, MaterialiseCmd} \subseteq Fit(Every)
    /\ RegisterCmd \cup ApproveByMergeCmd \subseteq Fit({"key", "grant"})
<1>1. /\ <<"args", "lock", "grant", "chain", "note">> \in Fit(Every)
      /\ AdmitSteps \in Fit({"key", "grant"})
      /\ AdmitRefused \in Fit({"key", "grant"})
  BY DEF Fit, Ordered, Bad, NeedsLock, Sealed, Holding, CommitKind, Refusing, Reading, Kind,
         AdmitSteps, AdmitRefused
<1>2. ActivateCmd \subseteq Fit(Every) /\ UnquarantineCmd \subseteq Fit(Every)
  BY <1>1 DEF ActivateCmd, UnquarantineCmd
<1>3. QuarantineCmd \subseteq Fit(Every) /\ RevokeCmd \subseteq Fit(Every)
  <2> DEFINE S == Calm \ {"key"}
  <2>1. <<>> \in Seq(S) /\ PropagateSteps \in Seq(S) /\ <<"note">> \in Seq(S)
    BY DEF PropagateSteps, Calm, Kind, Holding, CommitKind
  <2> HIDE DEF S
  <2>2. PropagateSteps \o <<"note">> \in Seq(S)
    BY <2>1
  <2>3. \A t \in Seq(S) : CutBy(t) \in Fit(Every)
    BY CutFits DEF S
  <2> QED
    BY <2>1, <2>2, <2>3 DEF QuarantineCmd, RevokeCmd
<1>4. /\ <<"args">> \in Seq(Calm) /\ <<"args", "key">> \in Seq(Calm)
      /\ <<"args", "glance", "shim", "judge">> \in Seq(Calm)
  BY DEF Calm, Kind, Holding, CommitKind
<1>5. /\ <<"row", "note">> \in Seq({"judge", "row", "note"})
      /\ <<"judge", "row", "note">> \in Seq({"judge", "row", "note"})
      /\ <<"judge", "note">> \in Seq({"judge", "row", "note"})
  OBVIOUS
<1>6. ASSUME NEW F, F \subseteq Every, NEW a \in Seq(Calm),
             "read" \in F => \A i \in 1 .. Len(a) : a[i] \notin Reading,
             NEW r \in Seq({"judge", "row", "note"})
      PROVE  a \o WithIssuer(r \o MintSteps) \o <<"file">> \in Fit(F)
  <2> DEFINE c == <<"file">>
  <2>1. c \in Seq({"file", "refuse"}) /\ \A j \in 1 .. Len(c) : c[j] # "refuse"
    OBVIOUS
  <2>2. r \o MintSteps \in Seq(Body) /\ Ordered(r \o MintSteps, F)
    BY <1>6, MintFits DEF Ordered, Bad
  <2> HIDE DEF c
  <2>3. a \o WithIssuer(r \o MintSteps) \o c \in Fit(F)
    BY <1>6, <2>1, <2>2, HandlerFits
  <2> QED
    BY <2>3 DEF c
<1>7. ASSUME NEW r \in Seq({"row", "note"}), NEW c \in Seq({"file", "refuse"})
      PROVE  <<"args">> \o WithIssuer(r) \o c \in Fit(Every)
  <2>1. r \in Seq(Body) /\ \A i \in 1 .. Len(r) : r[i] \in {"row", "note"}
    BY DEF Kind, Body
  <2>2. Ordered(r, Every)
    BY <2>1 DEF Ordered, Bad, Reading
  <2>3. \A i \in 1 .. Len(r) : r[i] # "grant"
    BY <2>1
  <2> DEFINE a == <<"args">>
  <2>4. a \in Seq(Calm) /\ \A i \in 1 .. Len(a) : a[i] \notin Reading
    BY <1>4 DEF Reading
  <2> HIDE DEF a
  <2>5. a \o WithIssuer(r) \o c \in Fit(Every)
    BY <2>1, <2>2, <2>3, <2>4, HandlerFits
  <2> QED
    BY <2>5 DEF a
<1>8. /\ <<"row", "note">> \in Seq({"row", "note"}) /\ <<"row", "note", "note">> \in Seq({"row", "note"})
      /\ <<"note">> \in Seq({"row", "note"})
      /\ <<"refuse">> \in Seq({"file", "refuse"}) /\ <<>> \in Seq({"file", "refuse"})
  OBVIOUS
<1>9. /\ \A i \in 1 .. Len(<<"args">>) : <<"args">>[i] \notin Reading
      /\ \A i \in 1 .. Len(<<"args", "key">>) : <<"args", "key">>[i] \notin Reading
  BY DEF Reading
<1>10. \A r \in Seq({"judge", "row", "note"}) :
          /\ <<"args">> \o WithIssuer(r \o MintSteps) \o <<"file">> \in Fit(Every)
          /\ <<"args", "key">> \o WithIssuer(r \o MintSteps) \o <<"file">> \in Fit(Every)
          /\ <<"args", "glance", "shim", "judge">> \o WithIssuer(r \o MintSteps) \o <<"file">>
                \in Fit({"key", "grant"})
  <2> TAKE r \in Seq({"judge", "row", "note"})
  <2> DEFINE G == {"key", "grant"}
  <2>1. G \subseteq Every /\ "read" \notin G
    BY DEF Every
  <2> HIDE DEF G
  <2>2. <<"args", "glance", "shim", "judge">> \o WithIssuer(r \o MintSteps) \o <<"file">> \in Fit(G)
    BY <1>4, <1>6, <2>1
  <2>3. /\ <<"args">> \o WithIssuer(r \o MintSteps) \o <<"file">> \in Fit(Every)
        /\ <<"args", "key">> \o WithIssuer(r \o MintSteps) \o <<"file">> \in Fit(Every)
    BY <1>4, <1>6, <1>9
  <2> QED
    BY <2>2, <2>3 DEF G
<1>11. RequestCmd \subseteq Fit(Every)
  BY <1>5, <1>7, <1>8, <1>10 DEF RequestCmd
<1>12. /\ ApproveCmd \subseteq Fit(Every) /\ BreakglassCmd \subseteq Fit(Every)
       /\ ApproveByMergeCmd \subseteq Fit({"key", "grant"})
  BY <1>5, <1>10 DEF ApproveCmd, ApproveByMergeCmd, BreakglassCmd
<1>13. DenyCmd \subseteq Fit(Every)
  <2> DEFINE x == <<"args">> \o WithIssuer(<<"row", "note">>)
  <2>1. x \o <<>> \in Fit(Every)
    BY <1>7, <1>8
  <2>2. x \in Seq(Kind)
    BY DEF WithIssuer, Kind
  <2>3. x \o <<>> = x
    BY <2>2, ConcatEmptySeq
  <2> QED
    BY <2>1, <2>3 DEF DenyCmd
<1>14. /\ <<"args", "lock", "judge", "mark">> \in Fit(Every)
       /\ <<"args", "lock", "judge", "args", "glance", "shim", "judge", "mark">> \in Fit(Every)
       /\ <<"args", "lock", "mark", "chain", "note", "mark">> \in Fit(Every)
  BY DEF Fit, Ordered, Bad, NeedsLock, Sealed, Holding, CommitKind, Refusing, Reading, Kind
<1>15. OfferPublishCmd \subseteq Fit(Every) /\ MaterialiseCmd \subseteq Fit(Every)
  BY <1>14 DEF OfferPublishCmd, MaterialiseCmd
<1>16. RegisterCmd \subseteq Fit({"key", "grant"})
  BY <1>1 DEF RegisterCmd
<1> QED
  BY <1>2, <1>3, <1>11, <1>12, <1>13, <1>15, <1>16

\* The steps of the list verbs, between two locks; the key is the issuer's alone.
Keyless == {s \in Fit({}) : \A i \in 1 .. Len(s) : s[i] # "key"}

LEMMA KeylessCat ==
    ASSUME NEW s \in Keyless, NEW t \in Keyless
    PROVE  s \o t \in Keyless
<1>1. s \o t \in Fit({})
  BY FitCat DEF Keyless, Bad
<1>2. \A i \in 1 .. Len(s \o t) : (s \o t)[i] # "key"
  BY CatElements DEF Keyless, Fit
<1> QED
  BY <1>1, <1>2 DEF Keyless

LEMMA KeylessFits ==
    ASSUME NEW s \in Keyless
    PROVE  s \in Fit({"key"})
  BY DEF Keyless, Fit, Ordered, Bad

LEMMA PromoteFits == PromoteCmd \subseteq Fit({"key"})
<1>1. /\ LookFirst \in Keyless /\ AdmitRefused \in Keyless
      /\ <<"lock", "grant", "drop">> \in Keyless /\ <<"lock", "mark", "drop">> \in Keyless
      /\ <<"file", "shim">> \in Keyless /\ <<"file">> \in Keyless
  BY DEF Keyless, Fit, Ordered, Bad, NeedsLock, Sealed, Holding, CommitKind, Kind, LookFirst,
         AdmitRefused
<1>2. AdmitDone \in Keyless
  <2> DEFINE d == <<"drop">>
  <2>1. /\ AdmitSteps \in Fit({}) /\ AdmitSteps \in Seq(Kind)
        /\ \A i \in 1 .. Len(AdmitSteps) : AdmitSteps[i] \notin {"drop", "key"}
        /\ 3 \in 1 .. Len(AdmitSteps) /\ AdmitSteps[3] = "lock"
    BY DEF AdmitSteps, Fit, Ordered, Bad, NeedsLock, Sealed, Holding, CommitKind, Kind
  <2>2. d \in Seq(Kind) /\ Ordered(d, {}) /\ Sealed(d) /\ \A i \in 1 .. Len(d) : d[i] # "key"
    BY DEF Kind, Ordered, Sealed
  <2> HIDE DEF d
  <2>3. AdmitSteps \o d \in Fit({})
    BY <2>1, <2>2, HeldCat DEF Ahead, Bad
  <2>4. \A i \in 1 .. Len(AdmitSteps \o d) : (AdmitSteps \o d)[i] # "key"
    BY <2>1, <2>2, CatElements
  <2> QED
    BY <2>3, <2>4 DEF AdmitDone, Keyless, d
<1>3. ActivateIfAsked \in Keyless
  <2>1. \A s, t \in Keyless : s \o t \in Keyless
    BY KeylessCat
  <2> QED
    BY <1>1, <2>1 DEF ActivateIfAsked
<1>4. PromoteCmd \subseteq Keyless
  <2> DEFINE two == LookFirst \o AdmitDone
             three == two \o ActivateIfAsked
             four == three \o LookFirst
             five == four \o AdmitDone
             pinned == LookFirst \o <<"lock", "mark", "drop">>
             looked == pinned \o LookFirst
             again == two \o LookFirst
  <2>1. two \in Keyless /\ pinned \in Keyless
    BY <1>1, <1>2, KeylessCat
  <2> HIDE DEF two, pinned
  <2>2. three \in Keyless /\ looked \in Keyless /\ again \in Keyless
    BY <1>1, <1>3, <2>1, KeylessCat
  <2> HIDE DEF three, looked, again
  <2>3. four \in Keyless
    BY <1>1, <2>2, KeylessCat
  <2> HIDE DEF four
  <2>4. five \in Keyless
    BY <1>2, <2>3, KeylessCat
  <2> HIDE DEF five
  <2>5. five \o <<"file", "shim">> \in Keyless /\ looked \o <<"file">> \in Keyless
    BY <1>1, <2>2, <2>4, KeylessCat
  <2>6. again \o AdmitRefused \in Keyless
    BY <1>1, <2>2, KeylessCat
  <2> QED
    BY <2>5, <2>6 DEF PromoteCmd, two, three, four, five, pinned, looked, again
<1> QED
  BY <1>4, KeylessFits

\* What with_issuer is given for two elements of a list.
LEMMA ListBodies ==
    /\ OneMinted \in Seq(Body) /\ OneAsked \in Seq(Body) /\ OneDenied \in Seq(Body)
    /\ OneMinted \o OneMinted \in Seq(Body) /\ OneMinted \o OneDenied \in Seq(Body)
<1>1. <<"row", "note">> \in Seq(Body) /\ MintSteps \in Seq(Body)
  BY DEF MintSteps, Body, Kind
<1>2. OneMinted \in Seq(Body)
  BY <1>1 DEF OneMinted
<1>3. OneAsked \in Seq(Body) /\ OneDenied \in Seq(Body)
  BY DEF OneAsked, OneDenied, Body, Kind
<1> QED
  BY <1>2, <1>3

LEMMA ListsFit ==
    /\ NeedApplyCmd \subseteq Fit({})
    /\ ProposalsApplyCmd \subseteq Fit({"key"})
<1>1. NeedPlan \in Fit({}) /\ ProposalsPlan \in Fit({"key"})
  BY DEF Fit, Ordered, Bad, NeedsLock, Sealed, Holding, CommitKind, Kind, NeedPlan, ProposalsPlan
<1>2. \A b \in Seq(Body) : WithIssuer(b) \in Fit({"key"}) /\ WithIssuer(b) \in Fit({})
  <2> SUFFICES ASSUME NEW b \in Seq(Body)
               PROVE WithIssuer(b) \in Fit({"key"}) /\ WithIssuer(b) \in Fit({})
    OBVIOUS
  <2>1. Ordered(b, {"key"}) /\ Ordered(b, {})
    BY DEF Ordered, Bad, Body
  <2> QED
    BY <2>1, IssuerFits
<1>3. \A s, t \in Fit({}) : s \o t \in Fit({})
  BY FitCat DEF Bad
<1>4. NeedApplyCmd \subseteq Fit({})
  BY <1>1, <1>2, <1>3, ListBodies DEF NeedApplyCmd
<1>5. \A t \in Fit({"key"}) : ProposalsPlan \o t \in Fit({"key"})
  <2> SUFFICES ASSUME NEW t \in Fit({"key"}) PROVE ProposalsPlan \o t \in Fit({"key"})
    OBVIOUS
  <2>1. \A i \in 1 .. Len(ProposalsPlan) : ProposalsPlan[i] \notin CommitKind
    BY DEF ProposalsPlan, CommitKind
  <2>2. \A i \in 1 .. Len(ProposalsPlan), j \in 1 .. Len(t) : ~ Bad({"key"}, ProposalsPlan[i], t[j])
    BY <2>1 DEF Bad
  <2> QED
    BY <1>1, <2>2, FitCat
<1>6. ProposalsApplyCmd \subseteq Fit({"key"})
  BY <1>1, <1>2, <1>5, ListBodies DEF ProposalsApplyCmd
<1> QED
  BY <1>4, <1>6

\* Every verb keeps the lock's order and the rules it is not excepted from.
LEMMA ProgramsFit ==
    ASSUME NEW w \in Programs
    PROVE  w \in Fit(Rules(w))
<1>1. Rules(w) \subseteq Every
  BY DEF Rules
<1>2. CASE w \in NeedApplyCmd
  <2>1. Rules(w) = {}
    BY <1>2 DEF Rules, Every, Batches, TwoReadings
  <2> QED
    BY <1>2, <2>1, ListsFit
<1>3. CASE w \in ProposalsApplyCmd \cup PromoteCmd
  <2>1. Rules(w) \subseteq {"key"}
    BY <1>3 DEF Rules, Every, Batches, TwoReadings
  <2>2. w \in Fit({"key"})
    BY <1>3, ListsFit, PromoteFits
  <2> QED
    BY <2>1, <2>2, FewerRules
<1>4. CASE w \in RegisterCmd \cup ApproveByMergeCmd
  <2>1. Rules(w) \subseteq {"key", "grant"}
    BY <1>4 DEF Rules, Every, TwoReadings
  <2>2. w \in Fit({"key", "grant"})
    BY <1>4, WritersFit
  <2> QED
    BY <2>1, <2>2, FewerRules
<1>5. CASE w \notin UNION {NeedApplyCmd, ProposalsApplyCmd, PromoteCmd, RegisterCmd, ApproveByMergeCmd}
  <2>1. w \in Fit(Every)
    BY <1>5, ReadersFit, WritersFit, OthersFit DEF Programs, Writers
  <2> QED
    BY <1>1, <2>1, FewerRules
<1> QED
  BY <1>2, <1>3, <1>4, <1>5

\* What the steps that are left know of those that are done.
StepsSound(p) ==
    /\ Ordered(rest[p], Rules(prog[p])) /\ Sealed(rest[p])
    /\ "key" \in Rules(prog[p]) /\ Ahead(rest[p], {"key"}) => did[p] \cap CommitKind = {}
    /\ "grant" \in Rules(prog[p]) /\ Ahead(rest[p], Refusing) => "grant" \notin did[p]
    /\ NeedsLock(rest[p]) => store = p /\ version \in seen[p]
    /\ "read" \in Rules(prog[p]) => /\ NeedsLock(rest[p]) => seen[p] = {version}
                                    /\ Ahead(rest[p], {"lock"}) => seen[p] = {}

CommandTypes ==
    /\ prog \in [Process -> Seq(Kind)]
    /\ rest \in [Process -> Seq(Kind)]
    /\ exit \in [Process -> {"none", "0", "1", "2", "refusal", "killed"}]
    /\ why \in [Process -> {"-", "usage", "input", "key", "busy", "anchor", "verdict"}]
    /\ did \in [Process -> SUBSET Kind]
    /\ version \in Nat
    /\ seen \in [Process -> SUBSET Nat]

CommandsInv ==
    /\ CommandTypes
    /\ \A p \in Process :
          /\ exit[p] = "none" => why[p] = "-"
          /\ Starts(p) => did[p] = {} /\ seen[p] = {}
          /\ Running(p) => StepsSound(p)
    /\ RefusedUntouched

LEMMA TailFacts ==
    ASSUME NEW F, NEW s \in Seq(Kind), s # <<>>, Ordered(s, F), Sealed(s)
    PROVE  /\ Head(s) \in Kind /\ Tail(s) \in Seq(Kind) /\ Ordered(Tail(s), F) /\ Sealed(Tail(s))
           /\ \A K : Ahead(Tail(s), K) => Ahead(s, K) /\ \E l \in K : ~ Bad(F, Head(s), l)
           /\ \A K : Head(s) \in K => Ahead(s, K)
           /\ Head(s) \in Holding => NeedsLock(s)
           /\ NeedsLock(Tail(s)) => Head(s) = "lock" \/ NeedsLock(s)
           /\ NeedsLock(Tail(s)) => Head(s) # "drop"
<1> DEFINE t == Tail(s)
<1>1. /\ Len(s) \in Nat \ {0} /\ Head(s) = s[1] /\ s[1] \in Kind
      /\ t \in Seq(Kind) /\ Len(t) = Len(s) - 1
      /\ \A i \in 1 .. Len(t) : t[i] = s[i + 1]
  OBVIOUS
<1> HIDE DEF t
<1>2. \A i \in 1 .. Len(t) : i + 1 \in 1 .. Len(s) /\ 1 < i + 1
  BY <1>1
<1>3. 1 \in 1 .. Len(s)
  BY <1>1
<1>4. Ordered(t, F)
  <2> SUFFICES ASSUME NEW i \in 1 .. Len(t), NEW j \in 1 .. Len(t), i < j PROVE ~ Bad(F, t[i], t[j])
    BY DEF Ordered
  <2>1. i + 1 < j + 1
    OBVIOUS
  <2> QED
    BY <1>1, <1>2, <2>1 DEF Ordered
<1>a. Sealed(t)
  <2> SUFFICES ASSUME NEW i \in 1 .. Len(t), NEW j \in 1 .. Len(t), i < j, t[i] = "drop",
                      t[j] \in Holding
               PROVE  \E m \in (i + 1) .. (j - 1) : t[m] = "lock"
    BY DEF Sealed
  <2>1. i + 1 < j + 1 /\ s[i + 1] = "drop" /\ s[j + 1] \in Holding
    BY <1>1
  <2>2. PICK m \in ((i + 1) + 1) .. ((j + 1) - 1) : s[m] = "lock"
    BY <1>2, <2>1 DEF Sealed
  <2>3. m - 1 \in (i + 1) .. (j - 1) /\ m - 1 \in 1 .. Len(t) /\ s[(m - 1) + 1] = s[m]
    BY <2>2
  <2> QED
    BY <1>1, <2>2, <2>3
<1>5. ASSUME NEW K, Ahead(t, K) PROVE Ahead(s, K) /\ \E l \in K : ~ Bad(F, Head(s), l)
  <2>1. PICK i \in 1 .. Len(t) : t[i] \in K
    BY <1>5 DEF Ahead
  <2>2. i + 1 \in 1 .. Len(s) /\ s[i + 1] \in K /\ ~ Bad(F, s[1], s[i + 1])
    BY <1>1, <1>2, <1>3, <2>1 DEF Ordered
  <2> QED
    BY <1>1, <2>2 DEF Ahead
<1>6. \A K : Head(s) \in K => Ahead(s, K)
  BY <1>1, <1>3 DEF Ahead
<1>7. Head(s) \in Holding => NeedsLock(s)
  BY <1>1, <1>3 DEF NeedsLock
<1>8. ASSUME NeedsLock(t), Head(s) # "lock" PROVE NeedsLock(s)
  <2>1. PICK i \in 1 .. Len(t) : t[i] \in Holding /\ \A j \in 1 .. (i - 1) : t[j] # "lock"
    BY <1>8 DEF NeedsLock
  <2>2. ASSUME NEW j \in 1 .. i PROVE s[j] # "lock"
    <3>1. CASE j = 1
      BY <1>1, <1>8, <3>1
    <3>2. CASE j # 1
      <4>1. j - 1 \in 1 .. (i - 1) /\ j - 1 \in 1 .. Len(t) /\ s[(j - 1) + 1] = s[j]
        BY <3>2
      <4> QED
        BY <1>1, <2>1, <4>1
    <3> QED
      BY <3>1, <3>2
  <2>3. i + 1 \in 1 .. Len(s) /\ s[i + 1] \in Holding /\ (i + 1) - 1 = i
    BY <1>1, <1>2, <2>1
  <2> QED
    BY <2>2, <2>3 DEF NeedsLock
<1>9. ASSUME NeedsLock(t), Head(s) = "drop" PROVE FALSE
  <2>1. PICK i \in 1 .. Len(t) : t[i] \in Holding /\ \A j \in 1 .. (i - 1) : t[j] # "lock"
    BY <1>9 DEF NeedsLock
  <2>2. i + 1 \in 1 .. Len(s) /\ 1 < i + 1 /\ s[i + 1] \in Holding
    BY <1>1, <1>2, <2>1
  <2>3. PICK m \in (1 + 1) .. ((i + 1) - 1) : s[m] = "lock"
    BY <1>1, <1>3, <1>9, <2>2 DEF Sealed
  <2>4. m - 1 \in 1 .. (i - 1) /\ m - 1 \in 1 .. Len(t) /\ s[(m - 1) + 1] = s[m]
    BY <2>3
  <2> QED
    BY <1>1, <2>1, <2>3, <2>4
<1> QED
  BY <1>1, <1>4, <1>a, <1>5, <1>6, <1>7, <1>8, <1>9 DEF t

\* One process makes its next step: it may write what the step is called, and the
\* lock, if it is another's, stays with what that one has read.
LEMMA StepForward ==
    ASSUME CommandsInv, NEW p \in Process, Running(p), rest[p] # <<>>, Advance(p),
           UNCHANGED <<prog, exit, why>>,
           \/ did' = did
           \/ did' = [did EXCEPT ![p] = @ \cup {Head(rest[p])}],
           version' \in Nat, seen' \in [Process -> SUBSET Nat],
           \A q \in Process : q # p => seen'[q] = seen[q],
           \A q \in Process : q # p /\ store = q => store' = q /\ version' = version,
           NeedsLock(Tail(rest[p])) => store' = p /\ version' \in seen'[p],
           "read" \in Rules(prog[p]) =>
              /\ NeedsLock(Tail(rest[p])) => seen'[p] = {version'}
              /\ Ahead(Tail(rest[p]), {"lock"}) => seen'[p] = {}
    PROVE  CommandsInv'
<1> DEFINE s == rest[p]
           t == Tail(s)
           k == Head(s)
           F == Rules(prog[p])
<1>1. s \in Seq(Kind) /\ Ordered(s, F) /\ Sealed(s) /\ StepsSound(p) /\ exit[p] = "none" /\ why[p] = "-" /\ prog[p] # <<>>
  BY DEF CommandsInv, CommandTypes, StepsSound, Running
<1>2. /\ k \in Kind /\ t \in Seq(Kind) /\ Ordered(t, F) /\ Sealed(t)
      /\ \A K : Ahead(t, K) => Ahead(s, K) /\ \E l \in K : ~ Bad(F, k, l)
  BY <1>1, TailFacts
<1>3. /\ rest' \in [Process -> Seq(Kind)] /\ rest'[p] = t
      /\ \A q \in Process : q # p => rest'[q] = rest[q]
  BY <1>2 DEF CommandsInv, CommandTypes, Advance
<1>4. /\ did' \in [Process -> SUBSET Kind]
      /\ did'[p] \subseteq did[p] \cup {k}
      /\ \A q \in Process : q # p => did'[q] = did[q]
  <2>1. did \in [Process -> SUBSET Kind] /\ did[p] \cup {k} \in SUBSET Kind
    BY <1>2 DEF CommandsInv, CommandTypes
  <2>2. CASE did' = did
    BY <2>1, <2>2
  <2>3. CASE did' = [did EXCEPT ![p] = @ \cup {k}]
    <3> HIDE DEF k
    <3> DEFINE d == did[p] \cup {k}
    <3>1. did' = [did EXCEPT ![p] = d]
      BY <2>3
    <3>2. d \in SUBSET Kind
      BY <2>1
    <3> HIDE DEF d
    <3>3. did' \in [Process -> SUBSET Kind] /\ did'[p] = d /\ \A q \in Process : q # p => did'[q] = did[q]
      BY <2>1, <3>1, <3>2
    <3> QED
      BY <3>3 DEF d
  <2> QED
    BY <2>2, <2>3
<1>b. prog'[p] = prog[p] /\ Rules(prog'[p]) = F
  OBVIOUS
<1> HIDE DEF t, k, F
<1>5. CommandTypes'
  BY <1>3, <1>4 DEF CommandsInv, CommandTypes
<1>6. StepsSound(p)'
  <2>1. "key" \in F /\ Ahead(t, {"key"}) => did'[p] \cap CommitKind = {}
    <3> SUFFICES ASSUME "key" \in F, Ahead(t, {"key"}) PROVE did'[p] \cap CommitKind = {}
      OBVIOUS
    <3>1. Ahead(s, {"key"}) /\ ~ Bad(F, k, "key")
      BY <1>2
    <3>2. did[p] \cap CommitKind = {} /\ k \notin CommitKind
      BY <1>1, <3>1 DEF StepsSound, Bad, F
    <3> QED
      BY <1>4, <3>2
  <2>2. "grant" \in F /\ Ahead(t, Refusing) => "grant" \notin did'[p]
    <3> SUFFICES ASSUME "grant" \in F, Ahead(t, Refusing) PROVE "grant" \notin did'[p]
      OBVIOUS
    <3>1. PICK l \in Refusing : Ahead(s, Refusing) /\ ~ Bad(F, k, l)
      BY <1>2
    <3>2. "grant" \notin did[p] /\ k # "grant"
      BY <1>1, <3>1 DEF StepsSound, Bad, F
    <3> QED
      BY <1>4, <3>2
  <2> QED
    BY <1>2, <1>3, <1>b, <2>1, <2>2 DEF StepsSound, t, F
<1>7. ASSUME NEW q \in Process, q # p, Running(q) PROVE StepsSound(q)'
  <2>1. StepsSound(q)
    BY <1>7 DEF CommandsInv
  <2> QED
    BY <1>3, <1>4, <1>7, <2>1 DEF StepsSound
<1>8. \A q \in Process : Running(q)' <=> Running(q)
  BY DEF Running
<1>9. \A q \in Process : Starts(q)' => q # p /\ Starts(q)
  BY <1>1 DEF Starts
<1>10. RefusedUntouched'
  <2>1. why'[p] = "-" /\ exit'[p] = "none"
    BY <1>1
  <2> QED
    BY <1>4, <2>1 DEF CommandsInv, RefusedUntouched
<1> QED
  BY <1>4, <1>5, <1>6, <1>7, <1>8, <1>9, <1>10 DEF CommandsInv

\* A process ends: with it go its locks.
LEMMA EndOf ==
    ASSUME CommandsInv, NEW p \in Process, exit[p] = "none",
           NEW code \in {"0", "1", "2", "refusal", "killed"},
           NEW cause \in {"-", "usage", "input", "key", "busy", "anchor", "verdict"},
           Ends(p, code, cause),
           cause = "key" /\ prog[p] \notin NeedApplyCmd => did[p] \cap CommitKind = {},
           code = "refusal" /\ prog[p] \notin Batches => "grant" \notin did[p]
    PROVE  CommandsInv'
<1>1. /\ exit'[p] = code /\ why'[p] = cause
      /\ \A q \in Process : q # p => exit'[q] = exit[q] /\ why'[q] = why[q]
      /\ UNCHANGED <<prog, rest, did, version, seen>>
      /\ \A q \in Process : q # p /\ store = q => store' = q
  BY DEF Ends, CommandsInv, CommandTypes
<1>2. CommandTypes'
  BY <1>1 DEF Ends, CommandsInv, CommandTypes
<1>3. ~ Running(p)' /\ ~ Starts(p)' /\ exit'[p] # "none"
  BY <1>1 DEF Running, Starts
<1>4. ASSUME NEW q \in Process, q # p
      PROVE  /\ Running(q)' => StepsSound(q)'
             /\ Starts(q)' => did'[q] = {} /\ seen'[q] = {}
             /\ exit'[q] = "none" => why'[q] = "-"
  BY <1>1, <1>4 DEF CommandsInv, Running, Starts, StepsSound
<1>5. RefusedUntouched'
  BY <1>1 DEF CommandsInv, RefusedUntouched, EventKinds, CommitKind
<1> QED
  BY <1>2, <1>3, <1>4, <1>5 DEF CommandsInv

\* A refusal, whatever over.
LEMMA FailStep ==
    ASSUME CommandsInv, NEW p \in Process, Fail(p)
    PROVE  CommandsInv'
<1>1. ASSUME NEW k, At(p, k)
      PROVE  /\ exit[p] = "none"
             /\ k = "key" /\ prog[p] \notin NeedApplyCmd => did[p] \cap CommitKind = {}
             /\ k \in Refusing /\ prog[p] \notin Batches => "grant" \notin did[p]
  <2>1. /\ rest[p] \in Seq(Kind) /\ rest[p] # <<>> /\ Head(rest[p]) = k
        /\ StepsSound(p) /\ exit[p] = "none"
    BY <1>1 DEF CommandsInv, CommandTypes, At, Running
  <2>2. \A K : k \in K => Ahead(rest[p], K)
    BY <2>1, TailFacts DEF StepsSound
  <2>3. /\ prog[p] \notin NeedApplyCmd => "key" \in Rules(prog[p])
        /\ prog[p] \notin Batches => "grant" \in Rules(prog[p])
    BY DEF Rules, Every
  <2> QED
    BY <2>1, <2>2, <2>3 DEF StepsSound
<1>2. ASSUME NEW k, At(p, k), Ends(p, "1", "input") PROVE CommandsInv'
  BY <1>1, <1>2, EndOf
<1>3. ASSUME At(p, "key"), Ends(p, "1", "key") PROVE CommandsInv'
  BY <1>1, <1>3, EndOf
<1>4. ASSUME NEW k, At(p, k), Ends(p, "1", "busy") \/ Ends(p, "1", "anchor") PROVE CommandsInv'
  BY <1>1, <1>4, EndOf
<1>5. ASSUME NEW k \in Refusing, At(p, k), NEW code \in {"1", "refusal"}, Ends(p, code, "verdict")
      PROVE  CommandsInv'
  BY <1>1, <1>5, EndOf
<1> QED
  BY <1>2, <1>3, <1>4, <1>5 DEF Fail, Refusing

\* A verb refused over a key has committed nothing, one that ends in a verdict's exit
\* code has given no authority, and nobody commits without the lock or by a state
\* older than the last commit (main.rs), for any number of processes running any of
\* the verbs beside each other and dying anywhere; the verbs RefusedUntouched and
\* CommitStep name keep what is left of it.
THEOREM VerbsAreSound == ASSUME Nobody \notin Process PROVE CommandsSpec => CommandsSound
<1>1. CommandsInit => CommandsInv
  <2> SUFFICES ASSUME CommandsInit PROVE CommandsInv
    OBVIOUS
  <2>1. <<>> \in Seq(Kind)
    OBVIOUS
  <2>2. CommandTypes
    BY <2>1 DEF CommandsInit, CommandTypes
  <2> QED
    BY <2>2 DEF CommandsInit, CommandsInv, Running, RefusedUntouched
<1>2. ASSUME CommandsInv, [CommandsNext]_cmdVars
      PROVE  CommandsInv' /\ CommitStep
  <2> USE <1>2
  <2>a. CommandTypes
    BY DEF CommandsInv
  <2>0. ASSUME NEW p \in Process, NEW k, At(p, k)
        PROVE  /\ Running(p) /\ rest[p] # <<>> /\ k = Head(rest[p])
               /\ NeedsLock(rest[p]) => store = p /\ version \in seen[p]
               /\ "read" \in Rules(prog[p]) =>
                     /\ NeedsLock(rest[p]) => seen[p] = {version}
                     /\ Ahead(Tail(rest[p]), {"lock"}) => seen[p] = {} /\ k \notin Reading
                     /\ k = "lock" => seen[p] = {}
               /\ k \in Holding => NeedsLock(rest[p])
               /\ NeedsLock(Tail(rest[p])) => k = "lock" \/ NeedsLock(rest[p])
               /\ NeedsLock(Tail(rest[p])) => k # "drop"
    <3>1. /\ rest[p] \in Seq(Kind) /\ rest[p] # <<>> /\ Head(rest[p]) = k
          /\ StepsSound(p) /\ Running(p)
      BY <2>0 DEF CommandsInv, CommandTypes, At, Running
    <3>2. /\ \A K : Ahead(Tail(rest[p]), K) =>
                Ahead(rest[p], K) /\ \E l \in K : ~ Bad(Rules(prog[p]), k, l)
          /\ \A K : k \in K => Ahead(rest[p], K)
          /\ k \in Holding => NeedsLock(rest[p])
          /\ NeedsLock(Tail(rest[p])) => k = "lock" \/ NeedsLock(rest[p])
          /\ NeedsLock(Tail(rest[p])) => k # "drop"
      BY <3>1, TailFacts DEF StepsSound
    <3>3. Ahead(Tail(rest[p]), {"lock"}) =>
              Ahead(rest[p], {"lock"}) /\ ~ Bad(Rules(prog[p]), k, "lock")
      BY <3>2
    <3>4. k = "lock" => Ahead(rest[p], {"lock"})
      BY <3>2
    <3>5. "read" \in Rules(prog[p]) /\ Ahead(Tail(rest[p]), {"lock"}) => k \notin Reading
      BY <3>3 DEF Bad
    <3> QED
      BY <3>1, <3>2, <3>3, <3>4, <3>5 DEF StepsSound
  <2>1. ASSUME NEW p \in Process, Dispatch(p) PROVE CommandsInv' /\ CommitStep
    <3>1. PICK w \in Programs : prog' = [prog EXCEPT ![p] = w] /\ rest' = [rest EXCEPT ![p] = w]
      BY <2>1 DEF Dispatch
    <3>2. w \in Seq(Kind) /\ Ordered(w, Rules(w)) /\ ~ NeedsLock(w) /\ Sealed(w)
      BY ProgramsFit DEF Fit
    <3>3. /\ Starts(p) /\ did[p] = {} /\ seen[p] = {} /\ exit[p] = "none" /\ why[p] = "-"
          /\ UNCHANGED <<exit, why, did, store, version, seen>>
      BY <2>1 DEF Dispatch, CommandsInv, Starts
    <3>4. /\ rest'[p] = w /\ prog'[p] = w /\ CommandTypes'
          /\ \A q \in Process : q # p => rest'[q] = rest[q] /\ prog'[q] = prog[q]
      BY <2>a, <3>1, <3>2, <3>3 DEF CommandTypes
    <3>5. StepsSound(p)'
      BY <3>2, <3>3, <3>4 DEF StepsSound
    <3>6. ASSUME NEW q \in Process, q # p
          PROVE  /\ Running(q)' => StepsSound(q)'
                 /\ Starts(q)' => did'[q] = {} /\ seen'[q] = {}
      BY <3>3, <3>4, <3>6 DEF CommandsInv, Running, Starts, StepsSound
    <3>7. RefusedUntouched' /\ CommitStep
      BY <3>3, <3>4 DEF CommandsInv, RefusedUntouched, CommitStep
    <3>8. w # <<>> => ~ Starts(p)'
      BY <3>4 DEF Starts
    <3> QED
      BY <3>3, <3>4, <3>5, <3>6, <3>7, <3>8 DEF CommandsInv
  <2>2. ASSUME NEW p \in Process, UsageError(p) \/ Succeed(p) \/ Die(p)
        PROVE  CommandsInv' /\ CommitStep
    <3>1. exit[p] = "none" /\ (Ends(p, "2", "usage") \/ Ends(p, "0", "-") \/ Ends(p, "killed", "-"))
      BY <2>2 DEF UsageError, Succeed, Die, Starts, Running
    <3>2. CommandsInv'
      BY <3>1, EndOf
    <3>3. version' = version
      BY <3>1 DEF Ends
    <3> QED
      BY <3>2, <3>3 DEF CommitStep
  <2>3. ASSUME NEW p \in Process, Fail(p) PROVE CommandsInv' /\ CommitStep
    <3>1. version' = version
      BY <2>3 DEF Fail, Ends
    <3> QED
      BY <2>3, <3>1, FailStep DEF CommitStep
  <2>4. ASSUME NEW p \in Process,
               Pass(p) \/ Write(p) \/ OpenEvidence(p) \/ OpenProjection(p) \/ LookOnce(p)
        PROVE  CommandsInv' /\ CommitStep
    <3>1. PICK k : /\ At(p, k) /\ k # "lock"
                   /\ seen' = seen \/ (k \in Reading /\ seen' = [seen EXCEPT ![p] = @ \cup {version}])
      BY <2>4 DEF Pass, Write, OpenEvidence, OpenProjection, LookOnce, ReadsState, Harmless, Reading
    <3>2. /\ Advance(p) /\ UNCHANGED <<prog, exit, why, store, version>>
          /\ did' = did \/ did' = [did EXCEPT ![p] = @ \cup {Head(rest[p])}]
      BY <2>4 DEF Pass, Write, OpenEvidence, OpenProjection, LookOnce, At
    <3>3. /\ seen' \in [Process -> SUBSET Nat] /\ \A q \in Process : q # p => seen'[q] = seen[q]
          /\ seen'[p] = seen[p] \/ (k \in Reading /\ seen'[p] = seen[p] \cup {version})
      <4> DEFINE S == seen[p] \cup {version}
      <4>1. seen \in [Process -> SUBSET Nat] /\ S \in SUBSET Nat
        BY <2>a DEF CommandTypes
      <4>2. seen' = seen \/ (k \in Reading /\ seen' = [seen EXCEPT ![p] = S])
        BY <3>1
      <4> HIDE DEF S
      <4>3. CASE seen' = seen
        BY <4>1, <4>3
      <4>4. CASE k \in Reading /\ seen' = [seen EXCEPT ![p] = S]
        <5>1. seen' \in [Process -> SUBSET Nat] /\ seen'[p] = S
              /\ \A q \in Process : q # p => seen'[q] = seen[q]
          BY <4>1, <4>4
        <5> QED
          BY <4>4, <5>1 DEF S
      <4> QED
        BY <4>2, <4>3, <4>4
    <3>4. NeedsLock(Tail(rest[p])) => store' = p /\ version' \in seen'[p]
      BY <2>0, <3>1, <3>2, <3>3
    <3>6. "read" \in Rules(prog[p]) =>
             /\ NeedsLock(Tail(rest[p])) => seen'[p] = {version'}
             /\ Ahead(Tail(rest[p]), {"lock"}) => seen'[p] = {}
      BY <2>0, <3>1, <3>2, <3>3
    <3>5. CommandsInv'
      BY <2>a, <2>0, <3>1, <3>2, <3>3, <3>4, <3>6, StepForward DEF CommandTypes
    <3> QED
      BY <3>2, <3>5 DEF CommitStep
  <2>5. ASSUME NEW p \in Process, OpenStore(p) PROVE CommandsInv' /\ CommitStep
    <3>1. /\ At(p, "lock") /\ store = Nobody /\ store' = p /\ Advance(p)
          /\ seen' = [seen EXCEPT ![p] = @ \cup {version}]
          /\ UNCHANGED <<prog, exit, why, did, version>>
      BY <2>5 DEF OpenStore, ReadsState
    <3>2. /\ seen' \in [Process -> SUBSET Nat] /\ seen'[p] = seen[p] \cup {version'}
          /\ \A q \in Process : q # p => seen'[q] = seen[q]
      BY <2>a, <3>1 DEF CommandTypes
    <3>4. "read" \in Rules(prog[p]) =>
              seen'[p] = {version'} /\ ~ Ahead(Tail(rest[p]), {"lock"})
      BY <2>0, <3>1, <3>2 DEF Reading
    <3>5. \A q \in Process : store # q
      BY <3>1
    <3>3. CommandsInv'
      BY <2>a, <2>0, <3>1, <3>2, <3>4, <3>5, StepForward DEF CommandTypes
    <3> QED
      BY <3>1, <3>3 DEF CommitStep
  <2>6. ASSUME NEW p \in Process, Drop(p) PROVE CommandsInv' /\ CommitStep
    <3>1. At(p, "drop") /\ Advance(p) /\ UNCHANGED <<prog, exit, why, did, version, seen>>
      BY <2>6 DEF Drop
    <3>2. /\ store = p /\ ~ NeedsLock(Tail(rest[p]))
          /\ "read" \in Rules(prog[p]) /\ Ahead(Tail(rest[p]), {"lock"}) => seen[p] = {}
      BY <2>0, <3>1 DEF Holding
    <3>3. CommandsInv'
      BY <2>a, <2>0, <3>1, <3>2, StepForward DEF CommandTypes
    <3> QED
      BY <3>1, <3>3 DEF CommitStep
  <2>7. ASSUME NEW p \in Process, Commit(p) PROVE CommandsInv' /\ CommitStep
    <3>1. PICK k \in CommitKind :
             /\ At(p, k) /\ Advance(p) /\ UNCHANGED <<prog, exit, why, store>>
             /\ did' = [did EXCEPT ![p] = @ \cup {k}]
             /\ version' = version + 1
             /\ seen' = [seen EXCEPT ![p] = {IF v = version THEN version + 1 ELSE v : v \in @}]
      BY <2>7 DEF Commit, CommitKind, EventKinds
    <3>2. /\ store = p /\ version \in seen[p] /\ k = Head(rest[p])
          /\ "read" \in Rules(prog[p]) =>
                seen[p] = {version} /\ ~ Ahead(Tail(rest[p]), {"lock"})
      BY <2>0, <3>1 DEF Holding
    <3> DEFINE S == {IF v = version THEN version + 1 ELSE v : v \in seen[p]}
    <3>3. S \in SUBSET Nat /\ version + 1 \in S /\ (seen[p] = {version} => S = {version + 1})
      BY <2>a, <3>2 DEF CommandTypes
    <3>4. seen' = [seen EXCEPT ![p] = S]
      BY <3>1
    <3> HIDE DEF S
    <3>5. /\ version' \in Nat /\ version' # version
          /\ seen' \in [Process -> SUBSET Nat] /\ seen'[p] = S
          /\ \A q \in Process : q # p => seen'[q] = seen[q]
      BY <2>a, <3>1, <3>3, <3>4 DEF CommandTypes
    <3>6. CommandsInv'
      BY <2>0, <3>1, <3>2, <3>3, <3>5, StepForward
    <3>7. \A q \in Process : q # p => rest'[q] = rest[q]
      BY <2>a, <3>1 DEF Advance, CommandTypes
    <3>8. prog[p] \notin TwoReadings => "read" \in Rules(prog[p])
      BY DEF Rules, Every
    <3> QED
      BY <3>2, <3>6, <3>7, <3>8 DEF CommitStep
  <2>8. CASE UNCHANGED cmdVars
    BY <2>8 DEF cmdVars, CommandsInv, CommandTypes, Starts, Running, StepsSound,
                RefusedUntouched, CommitStep
  <2> QED
    BY <2>1, <2>2, <2>3, <2>4, <2>5, <2>6, <2>7, <2>8 DEF CommandsNext
<1>3. CommandsInv => RefusedUntouched
  BY DEF CommandsInv
<1>4. CommandsInv /\ [CommandsNext]_cmdVars => CommandsInv' /\ [CommitStep]_cmdVars
  BY <1>2
<1> QED
  BY <1>1, <1>3, <1>4, PTL DEF CommandsSpec, CommandsSound, CommitsOnCurrent

---------------------------------------------------------------------------
(* Settings.                                                               *)

ConfTyped == conf \in {Unset, LockedFile} \cup UNION {[K -> ValueLists] : K \in SUBSET Key}

SettingsInv == ConfTyped /\ RunsAsWritten

\* What RunsAsWritten says of one flag of a command that was run.
AsWritten(f, r, loaded, env) ==
    LET said == {loaded[k] : k \in {j \in DOMAIN loaded \cap DOMAIN Table : Table[j] = f}}
    IN /\ f \notin CommandFlags[r.command] => r.eff[f] = Unset
       /\ r.argv[f] # Unset => r.eff[f] = r.argv[f]
       /\ r.argv[f] = Unset /\ f \in CommandFlags[r.command] /\ said # {} => r.eff[f] \in said
       /\ f \in r.on => \/ Has(r.argv, f)
                        \/ \E s \in said : s # <<>> /\ s[1] # "false"
                        \/ said = {} /\ env[f] \notin {Unset, "", "false"}
                        \/ f \in Switches /\ env[f] \notin {Unset, "false"}
       /\ r.used[f] # Get(r.eff, f) =>
            f \in Rereads /\ Get(r.argv, f) = Unset /\ (said = {} \/ <<>> \in said)
       /\ DOMAIN loaded \cap (RefusedKeys \cup Typo) = {}

LEMMA RunsFlagwise ==
    /\ RunsAsWritten <=> (ran # Unset => \A f \in Flag : AsWritten(f, ran, Loaded, environ))
    /\ RunsAsWritten' <=> (ran' # Unset => \A f \in Flag : AsWritten(f, ran', Loaded', environ'))
  BY DEF RunsAsWritten, AsWritten, Has, Get

LEMMA LoadedTyped ==
    ASSUME ConfTyped
    PROVE  /\ DOMAIN Loaded \subseteq Key
           /\ \A k \in DOMAIN Loaded : Loaded[k] \in ValueLists
<1>1. CASE conf \in {Unset, LockedFile}
  BY <1>1 DEF Loaded
<1>2. CASE conf \notin {Unset, LockedFile}
  <2>1. PICK K \in SUBSET Key : conf \in [K -> ValueLists]
    BY <1>2 DEF ConfTyped
  <2> QED
    BY <1>2, <2>1 DEF Loaded
<1> QED
  BY <1>1, <1>2

\* What the file says of a flag, if it names the flag at all.
LEMMA FileSays ==
    ASSUME ConfTyped, NEW f,
           {j \in DOMAIN Loaded \cap DOMAIN Table : Table[j] = f} # {}
    PROVE  /\ FromFile(Loaded, f) # Unset
           /\ FromFile(Loaded, f) \in
                {Loaded[k] : k \in {j \in DOMAIN Loaded \cap DOMAIN Table : Table[j] = f}}
<1> DEFINE keys == {j \in DOMAIN Loaded \cap DOMAIN Table : Table[j] = f}
           last == CHOOSE k \in keys : \A j \in keys \ {k} : <<j, k>> \in Later
<1>1. \E k \in keys : \A j \in keys \ {k} : <<j, k>> \in Later
  <2>1. keys \in SUBSET DOMAIN Table /\ (\A j, k \in keys : Table[j] = Table[k])
    OBVIOUS
  <2> HIDE DEF keys
  <2> QED
    BY <2>1, LaterAssumption DEF keys
<1>2. last \in keys
  <2> HIDE DEF keys
  <2> QED
    BY <1>1
<1>3. FromFile(Loaded, f) = Loaded[last]
  BY DEF FromFile
<1>4. Loaded[last] \in ValueLists
  BY <1>2, LoadedTyped
<1> HIDE DEF last
<1> QED
  BY <1>2, <1>3, <1>4, UnsetAssumption

LEMMA CommandRunsAsWritten ==
    ASSUME ConfTyped, NEW c \in DOMAIN CommandFlags, NEW argv \in Argv, NEW named \in BOOLEAN,
           RunCommand(c, argv, named)
    PROVE  RunsAsWritten'
<1> DEFINE eff == Apply(argv, Loaded, CommandFlags[c])
           on == {f \in Flag : Switched(eff, f)}
           used == [f \in Flag |-> Used(eff, f)]
<1>1. /\ ran' = [command |-> c, argv |-> argv, eff |-> eff, on |-> on, used |-> used]
      /\ Loaded' = Loaded /\ environ' = environ
      /\ \A f \in Flag \ CommandFlags[c] : eff[f] = Unset
      /\ DOMAIN Loaded \cap (RefusedKeys \cup Typo) = {}
  BY DEF RunCommand, Checked, FileParses, Loaded
<1>2. ASSUME NEW f \in Flag
      PROVE AsWritten(f, [command |-> c, argv |-> argv, eff |-> eff, on |-> on, used |-> used],
                      Loaded, environ)
  <2> DEFINE keys == {j \in DOMAIN Loaded \cap DOMAIN Table : Table[j] = f}
             said == {Loaded[k] : k \in keys}
  <2>1. eff[f] = IF argv[f] # Unset THEN argv[f]
                 ELSE IF f \notin CommandFlags[c] THEN Unset
                 ELSE IF FromFile(Loaded, f) # Unset THEN FromFile(Loaded, f) ELSE FromEnv(f)
    BY <1>2 DEF Apply
  <2>2. keys # {} => FromFile(Loaded, f) # Unset /\ FromFile(Loaded, f) \in said
    BY FileSays
  <2>3. keys = {} => FromFile(Loaded, f) = Unset /\ said = {}
    BY DEF FromFile
  <2>4. said # {} => keys # {}
    OBVIOUS
  <2>5. FromEnv(f) # Unset => /\ environ[f] \notin {Unset, ""}
                              /\ FromEnv(f) = <<environ[f]>>
    BY DEF FromEnv
  <2>8. f \in on => Has(eff, f) \/ (f \in Switches /\ environ[f] \notin {Unset, "false"})
    BY DEF Switched
  <2>9. used[f] = Used(eff, f)
    BY <1>2
  <2> HIDE DEF eff, keys, said, on, used
  <2>6. argv[f] = Unset /\ f \in CommandFlags[c] /\ said # {} => eff[f] \in said
    BY <2>1, <2>2, <2>4
  <2>7. ASSUME Has(eff, f)
        PROVE  \/ Has(argv, f)
               \/ \E s \in said : s # <<>> /\ s[1] # "false"
               \/ said = {} /\ environ[f] \notin {Unset, "", "false"}
    <3>1. eff[f] # Unset /\ eff[f] # <<>> /\ eff[f][1] \notin {Unset, "false"}
      BY <2>7 DEF Has, Get
    <3>2. CASE argv[f] # Unset
      BY <2>1, <3>1, <3>2 DEF Has, Get
    <3>3. CASE argv[f] = Unset /\ keys # {}
      BY <2>1, <2>2, <3>1, <3>3
    <3>4. CASE argv[f] = Unset /\ keys = {}
      <4>1. eff[f] = FromEnv(f)
        BY <2>1, <2>3, <3>1, <3>4
      <4>2. <<environ[f]>>[1] = environ[f]
        OBVIOUS
      <4> QED
        BY <2>3, <2>5, <3>1, <3>4, <4>1, <4>2
    <3> QED
      BY <3>2, <3>3, <3>4
  <2>10. ASSUME used[f] # Get(eff, f)
         PROVE  f \in Rereads /\ Get(argv, f) = Unset /\ (said = {} \/ <<>> \in said)
    <3>1. f \in Rereads /\ Get(eff, f) = Unset
      BY <2>9, <2>10 DEF Used
    <3>2. argv[f] = Unset
      <4>1. argv[f] \in {Unset, <<"true">>, <<"false">>}
        BY <1>2 DEF Argv
      <4>2. argv[f] # Unset => eff[f] = argv[f] /\ eff[f] # <<>> /\ eff[f][1] # Unset
        BY <2>1, <4>1, UnsetAssumption
      <4> QED
        BY <3>1, <4>2 DEF Get
    <3>3. f \in CommandFlags[c]
      BY <3>1, RereadsAssumption
    <3>4. CASE said # {}
      <4>1. eff[f] \in said
        BY <2>6, <3>2, <3>3, <3>4
      <4>2. eff[f] \in ValueLists
        BY <4>1, LoadedTyped DEF said, keys
      <4>3. eff[f] # <<>> => eff[f][1] \in Value \cup {"a"}
        BY <4>2 DEF ValueLists
      <4>4. eff[f] = <<>>
        BY <3>1, <4>2, <4>3, UnsetAssumption DEF Get
      <4> QED
        BY <3>1, <3>2, <4>1, <4>4 DEF Get
    <3> QED
      BY <3>1, <3>2, <3>4 DEF Get
  <2> QED
    <3>1. f \notin CommandFlags[c] => eff[f] = Unset
      BY <1>1, <1>2
    <3>2. argv[f] # Unset => eff[f] = argv[f]
      BY <2>1
    <3>3. f \in on => \/ Has(argv, f)
                      \/ \E s \in said : s # <<>> /\ s[1] # "false"
                      \/ said = {} /\ environ[f] \notin {Unset, "", "false"}
                      \/ f \in Switches /\ environ[f] \notin {Unset, "false"}
      BY <2>7, <2>8
    <3>4. DOMAIN Loaded \cap (RefusedKeys \cup Typo) = {}
      BY <1>1
    <3> DEFINE r == [command |-> c, argv |-> argv, eff |-> eff, on |-> on, used |-> used]
    <3>5. /\ r.command = c /\ r.argv = argv /\ r.eff = eff /\ r.on = on /\ r.used = used
      OBVIOUS
    <3> HIDE DEF r
    <3>6. AsWritten(f, r, Loaded, environ)
      BY <2>6, <2>10, <3>1, <3>2, <3>3, <3>4, <3>5 DEF keys, said, AsWritten
    <3> QED
      BY <3>6 DEF r
<1> HIDE DEF eff, on, used
<1> QED
  BY <1>1, <1>2, RunsFlagwise

\* Whatever was written where and in which order, a command that runs has what
\* the strongest source that names a setting said (config.rs), but for the switch
\* of external signing and for empty variables (main.rs).
THEOREM CommandsRunAsWritten == SettingsSpec => []RunsAsWritten
<1>1. SettingsInit => SettingsInv
  BY DEF SettingsInit, SettingsInv, ConfTyped, RunsAsWritten
<1>2. SettingsInv /\ [SettingsNext]_settingsVars => SettingsInv'
  <2> SUFFICES ASSUME SettingsInv, [SettingsNext]_settingsVars PROVE SettingsInv'
    OBVIOUS
  <2>1. ASSUME UNCHANGED settingsVars PROVE SettingsInv'
    <3>1. Loaded' = Loaded /\ environ' = environ /\ ran' = ran /\ conf' = conf
      BY <2>1 DEF settingsVars, Loaded
    <3> QED
      BY <3>1, RunsFlagwise DEF SettingsInv, ConfTyped
  <2>2. ASSUME NEW k \in Key, NEW values \in ValueLists, WriteKey(k, values), ran = Unset
        PROVE SettingsInv'
    <3> DEFINE K == DOMAIN Loaded \cup {k}
    <3>1. K \in SUBSET Key
      BY LoadedTyped DEF SettingsInv
    <3>2. conf' \in [K -> ValueLists]
      BY <2>2, LoadedTyped DEF SettingsInv, WriteKey
    <3> HIDE DEF K
    <3>3. ConfTyped'
      BY <3>1, <3>2 DEF ConfTyped
    <3> QED
      BY <2>2, <3>3 DEF SettingsInv, WriteKey, RunsAsWritten
  <2>3. ASSUME DropFile \/ LockFile, ran = Unset PROVE SettingsInv'
    BY <2>3 DEF SettingsInv, ConfTyped, DropFile, LockFile, RunsAsWritten
  <2>4. ASSUME NEW f \in Flag, NEW v, SetVariable(f, v), ran = Unset PROVE SettingsInv'
    BY <2>4 DEF SettingsInv, ConfTyped, SetVariable, RunsAsWritten
  <2>5. ASSUME NEW c \in DOMAIN CommandFlags, NEW argv \in Argv, NEW named \in BOOLEAN,
               RunCommand(c, argv, named)
        PROVE SettingsInv'
    <3>1. RunsAsWritten'
      BY <2>5, CommandRunsAsWritten DEF SettingsInv
    <3> QED
      BY <2>5, <3>1 DEF SettingsInv, ConfTyped, RunCommand
  <2>6. ASSUME NEW c, NEW argv, NEW named, Refuse(c, argv, named) PROVE UNCHANGED settingsVars
    BY <2>6 DEF Refuse
  <2> QED
    BY <2>1, <2>2, <2>3, <2>4, <2>5, <2>6 DEF SettingsNext
<1>3. SettingsInv => RunsAsWritten
  BY DEF SettingsInv
<1> QED
  BY <1>1, <1>2, <1>3, PTL DEF SettingsSpec

---------------------------------------------------------------------------
(* Proposals.                                                              *)

\* The merge k of the history h had the consent of everyone in the directory, planned
\* when the services had these owners.
ConsentedIn(h, k, dir, owners) ==
    /\ k \in 1 .. Len(h)
    /\ \A g \in DOMAIN dir : dir[g] # Unreadable /\ owners[g] \in h[k].approvers
    /\ \E p \in h[k].approvers : p # h[k].author

JobFields == {"pc", "sha", "dir", "plan", "owners"}

\* What is planned has it, and so has what was minted.
JobsConsented ==
    /\ DOMAIN jobs = Applier
    /\ \A a \in Applier :
          /\ DOMAIN jobs[a] = JobFields
          /\ jobs[a].plan \in Seq(DOMAIN jobs[a].dir)
          /\ jobs[a].pc # "idle" =>
                ConsentedIn(history, jobs[a].sha, jobs[a].dir, jobs[a].owners)
GrantsConsented ==
    \A f \in DOMAIN grants :
        /\ f \in DOMAIN grants[f].dir /\ grants[f].tools = grants[f].dir[f]
        /\ ConsentedIn(history, grants[f].sha, grants[f].dir, grants[f].owners)

ProposalsInv ==
    /\ \E Merges : history \in Seq(Merges)
    /\ JobsConsented /\ GrantsConsented

\* A commit takes nothing from the ones before it.
LEMMA ConsentKept ==
    ASSUME NEW C, NEW h \in Seq(C), NEW c \in C, NEW k, NEW dir, NEW owners,
           ConsentedIn(h, k, dir, owners)
    PROVE  ConsentedIn(Append(h, c), k, dir, owners)
  BY DEF ConsentedIn

LEMMA HistoryKeeps ==
    ASSUME JobsConsented, GrantsConsented, UNCHANGED <<jobs, history, grants>>
    PROVE  JobsConsented' /\ GrantsConsented'
  BY DEF JobsConsented, GrantsConsented, ConsentedIn

LEMMA TailKept ==
    ASSUME NEW S, NEW z \in Seq(S), z # <<>>
    PROVE  Tail(z) \in Seq(S) /\ Head(z) \in S
  OBVIOUS

\* A job of one process changes, and nothing it or another rests on.
LEMMA JobChanges ==
    ASSUME JobsConsented, GrantsConsented, UNCHANGED <<history, grants>>,
           NEW a \in Applier, NEW job, jobs' = [jobs EXCEPT ![a] = job],
           DOMAIN job = JobFields, job.plan \in Seq(DOMAIN job.dir),
           job.pc # "idle" => ConsentedIn(history, job.sha, job.dir, job.owners)
    PROVE  JobsConsented' /\ GrantsConsented'
<1>1. DOMAIN jobs' = Applier
  BY DEF JobsConsented
<1>2. ASSUME NEW b \in Applier
      PROVE /\ DOMAIN jobs'[b] = JobFields
            /\ jobs'[b].plan \in Seq(DOMAIN jobs'[b].dir)
            /\ jobs'[b].pc # "idle" =>
                  ConsentedIn(history, jobs'[b].sha, jobs'[b].dir, jobs'[b].owners)
  BY <1>2 DEF JobsConsented
<1> QED
  BY <1>1, <1>2 DEF JobsConsented, GrantsConsented, ConsentedIn

\* A plan is made only of a merge that everyone in it consented to.
LEMMA PlanConsented ==
    ASSUME JobsConsented, GrantsConsented, NEW a \in Applier, NEW k \in 1 .. Len(history),
           NEW dir, NEW order, Plan(a, k, dir, order)
    PROVE  JobsConsented' /\ GrantsConsented'
<1> DEFINE job == [pc |-> "planned", sha |-> k, dir |-> dir, plan |-> order,
                   owners |-> [f \in DOMAIN dir |-> state[f[2]].owner]]
<1>1. CASE \E f \in DOMAIN dir : Refused(f, dir[f], k)
  BY <1>1, HistoryKeeps DEF Plan
<1>2. CASE ~ \E f \in DOMAIN dir : Refused(f, dir[f], k)
  <2>1. jobs' = [jobs EXCEPT ![a] = job] /\ UNCHANGED <<history, grants>>
    BY <1>2 DEF Plan
  <2>2. \E h \in history[k].approvers : h # history[k].author
    BY DEF Plan, CheckedEvidence
  <2>3. ASSUME NEW g \in DOMAIN dir
        PROVE dir[g] # Unreadable /\ job.owners[g] \in history[k].approvers
    BY <1>2, <2>3 DEF Refused, Parses, OwnerApproved
  <2>4. ConsentedIn(history, job.sha, job.dir, job.owners)
    BY <2>2, <2>3 DEF ConsentedIn
  <2>5. DOMAIN job = JobFields
    BY DEF JobFields
  <2>6. job.plan \in Seq(DOMAIN job.dir)
    BY DEF Plan
  <2> HIDE DEF job
  <2> QED
    BY <2>1, <2>4, <2>5, <2>6, JobChanges
<1> QED
  BY <1>1, <1>2

LEMMA JobSteps ==
    ASSUME JobsConsented, GrantsConsented, NEW a \in Applier,
           TakeIssuer(a) \/ IssueStanding(a) \/ EndApply(a)
    PROVE  JobsConsented' /\ GrantsConsented'
<1>0. DOMAIN jobs[a] = JobFields
  BY DEF JobsConsented
<1>1. CASE TakeIssuer(a)
  <2> DEFINE job == [jobs[a] EXCEPT !.pc = "minting"]
  <2>1. jobs' = [jobs EXCEPT ![a] = job] /\ UNCHANGED <<history, grants>>
    BY <1>1 DEF TakeIssuer
  <2>2. /\ DOMAIN job = JobFields /\ job.sha = jobs[a].sha /\ job.owners = jobs[a].owners
        /\ job.dir = jobs[a].dir /\ job.plan = jobs[a].plan
    BY <1>0 DEF JobFields
  <2>3. /\ ConsentedIn(history, job.sha, job.dir, job.owners)
        /\ job.plan \in Seq(DOMAIN job.dir)
    BY <1>1, <2>2 DEF TakeIssuer, JobsConsented
  <2> HIDE DEF job
  <2> QED
    BY <2>1, <2>2, <2>3, JobChanges
<1>2. CASE IssueStanding(a)
  <2> DEFINE job == [jobs[a] EXCEPT !.plan = Tail(@)]
  <2>1. jobs' = [jobs EXCEPT ![a] = job] /\ UNCHANGED <<history, grants>>
    BY <1>2 DEF IssueStanding
  <2>2. /\ DOMAIN job = JobFields /\ job.sha = jobs[a].sha /\ job.owners = jobs[a].owners
        /\ job.dir = jobs[a].dir /\ job.plan = Tail(jobs[a].plan)
    BY <1>0 DEF JobFields
  <2>3. /\ ConsentedIn(history, job.sha, job.dir, job.owners)
        /\ jobs[a].plan \in Seq(DOMAIN job.dir) /\ jobs[a].plan # <<>>
    BY <1>2, <2>2 DEF IssueStanding, JobsConsented
  <2>4. job.plan \in Seq(DOMAIN job.dir)
    BY <2>2, <2>3, TailKept
  <2> HIDE DEF job
  <2> QED
    BY <2>1, <2>2, <2>3, <2>4, JobChanges
<1>3. CASE EndApply(a)
  <2>1. jobs' = [jobs EXCEPT ![a] = NoJob] /\ UNCHANGED <<history, grants>>
    BY <1>3 DEF EndApply
  <2>2. /\ DOMAIN NoJob = JobFields /\ NoJob.pc = "idle"
        /\ NoJob.plan \in Seq(DOMAIN NoJob.dir)
    BY DEF NoJob, JobFields
  <2> QED
    BY <2>1, <2>2, JobChanges
<1> QED
  BY <1>1, <1>2, <1>3

LEMMA MintConsented ==
    ASSUME JobsConsented, GrantsConsented, NEW a \in Applier, MintOne(a)
    PROVE  JobsConsented' /\ GrantsConsented'
<1> DEFINE f == Head(jobs[a].plan)
           job == [jobs[a] EXCEPT !.plan = Tail(@)]
<1>0. DOMAIN jobs[a] = JobFields
  BY DEF JobsConsented
<1>1. jobs' = [jobs EXCEPT ![a] = job] /\ history' = history
  BY DEF MintOne
<1>2. /\ DOMAIN job = JobFields /\ job.sha = jobs[a].sha /\ job.owners = jobs[a].owners
      /\ job.dir = jobs[a].dir /\ job.plan = Tail(jobs[a].plan)
  BY <1>0 DEF JobFields
<1>3. /\ ConsentedIn(history, jobs[a].sha, jobs[a].dir, jobs[a].owners)
      /\ jobs[a].plan \in Seq(DOMAIN jobs[a].dir) /\ jobs[a].plan # <<>>
  BY DEF MintOne, JobsConsented
<1>8. job.plan \in Seq(DOMAIN job.dir) /\ f \in DOMAIN jobs[a].dir
  BY <1>2, <1>3, TailKept
<1>4. \A b \in Applier : jobs'[b] = IF b = a THEN job ELSE jobs[b]
  BY <1>1 DEF JobsConsented
<1>5. DOMAIN jobs' = Applier
  BY <1>1 DEF JobsConsented
<1>6. JobsConsented'
  <2> HIDE DEF job
  <2> QED
    BY <1>1, <1>2, <1>3, <1>4, <1>5, <1>8 DEF JobsConsented, ConsentedIn
<1>7. ASSUME NEW g \in DOMAIN grants'
      PROVE /\ g \in DOMAIN grants'[g].dir /\ grants'[g].tools = grants'[g].dir[g]
            /\ ConsentedIn(history, grants'[g].sha, grants'[g].dir, grants'[g].owners)
  <2>1. CASE g = f
    <3>1. /\ grants'[g].sha = jobs[a].sha /\ grants'[g].owners = jobs[a].owners
          /\ grants'[g].dir = jobs[a].dir /\ grants'[g].tools = jobs[a].dir[f]
      BY <1>7, <2>1 DEF MintOne
    <3> QED
      BY <1>3, <1>8, <2>1, <3>1
  <2>2. CASE g # f
    <3>1. g \in DOMAIN grants /\ grants'[g] = grants[g]
      BY <1>7, <2>2 DEF MintOne
    <3> QED
      BY <3>1 DEF GrantsConsented
  <2> QED
    BY <2>1, <2>2
<1> QED
  BY <1>1, <1>6, <1>7 DEF GrantsConsented, ConsentedIn

LEMMA MergeKeeps ==
    ASSUME ProposalsInv, NEW files, NEW author, NEW approvers,
           MergePull(files, author, approvers)
    PROVE  ProposalsInv'
<1>1. PICK c : history' = Append(history, c) /\ UNCHANGED <<jobs, grants>>
  BY DEF MergePull
<1>2. PICK Merges : history \in Seq(Merges)
  BY DEF ProposalsInv
<1>3. history \in Seq(Merges \cup {c}) /\ history' \in Seq(Merges \cup {c})
  BY <1>1, <1>2
<1>4. \A k, dir, owners :
          ConsentedIn(history, k, dir, owners) => ConsentedIn(history', k, dir, owners)
  BY <1>1, <1>3, ConsentKept
<1> QED
  BY <1>1, <1>3, <1>4 DEF ProposalsInv, JobsConsented, GrantsConsented

\* Whatever was promoted, merged, contained or handed over while it ran, and
\* wherever it stopped, apply mints nothing from a directory unless every file in it
\* could be read, the owner of every service named there had approved the merge
\* that was asserted, and somebody but its author had reviewed that merge
\* (proposals_apply_cmd in main.rs, proposal.rs).  That the directory is the
\* merge's own is checked nowhere and not claimed.
THEOREM MintsOnlyConsented == ProposalsSpec => []WholeTreeConsented
<1>1. ProposalsInit => ProposalsInv
  <2> SUFFICES ASSUME ProposalsInit PROVE ProposalsInv
    OBVIOUS
  <2>1. history \in Seq({})
    BY DEF ProposalsInit
  <2>2. DOMAIN grants = {}
    BY DEF ProposalsInit, NoFiles
  <2>3. /\ DOMAIN NoJob = JobFields /\ NoJob.pc = "idle"
        /\ NoJob.plan \in Seq(DOMAIN NoJob.dir)
    BY DEF NoJob, JobFields
  <2>4. JobsConsented
    BY <2>3 DEF ProposalsInit, JobsConsented
  <2> QED
    BY <2>1, <2>2, <2>4 DEF ProposalsInv, GrantsConsented
<1>2. ProposalsInv /\ [ProposalsNext]_proposalVars => ProposalsInv'
  <2> SUFFICES ASSUME ProposalsInv, [ProposalsNext]_proposalVars PROVE ProposalsInv'
    OBVIOUS
  <2>1. ASSUME UNCHANGED <<jobs, history, grants>> PROVE ProposalsInv'
    BY <2>1, HistoryKeeps DEF ProposalsInv
  <2>2. ASSUME NEW a \in Applier, NEW k \in 1 .. Len(history), NEW dir, NEW order,
               Plan(a, k, dir, order)
        PROVE ProposalsInv'
    BY <2>2, PlanConsented DEF ProposalsInv, Plan
  <2>3. ASSUME NEW a \in Applier, TakeIssuer(a) \/ IssueStanding(a) \/ EndApply(a)
        PROVE ProposalsInv'
    BY <2>3, JobSteps DEF ProposalsInv, TakeIssuer, IssueStanding, EndApply
  <2>4. ASSUME NEW a \in Applier, MintOne(a) PROVE ProposalsInv'
    BY <2>4, MintConsented DEF ProposalsInv, MintOne
  <2>5. ASSUME NEW files, NEW author, NEW approvers, MergePull(files, author, approvers)
        PROVE ProposalsInv'
    BY <2>5, MergeKeeps
  <2>6. ASSUME NEW s, NEW t, NEW activate, NEW zoned, PromoteStart(s, t, activate, zoned)
        PROVE UNCHANGED <<jobs, history, grants>>
    BY <2>6 DEF PromoteStart
  <2>7. ASSUME PromoteServer \/ RaiseProposalPr \/ PromoteStops
        PROVE UNCHANGED <<jobs, history, grants>>
    BY <2>7 DEF PromoteServer, RaiseProposalPr, PromoteStops
  <2>8. ASSUME NEW r, PromoteConsumer(r) PROVE UNCHANGED <<jobs, history, grants>>
    BY <2>8 DEF PromoteConsumer
  <2>9. ASSUME NEW f, NEW t, HandWritten(f, t) PROVE UNCHANGED <<jobs, history, grants>>
    BY <2>9 DEF HandWritten
  <2>10. ASSUME NEW p, Contain(p) PROVE UNCHANGED <<jobs, history, grants>>
    BY <2>10 DEF Contain
  <2>11. ASSUME NEW s, NEW h, Reown(s, h) PROVE UNCHANGED <<jobs, history, grants>>
    BY <2>11 DEF Reown
  <2>12. CASE UNCHANGED proposalVars
    BY <2>1, <2>12 DEF proposalVars
  <2> QED
    BY <2>1, <2>2, <2>3, <2>4, <2>5, <2>6, <2>7, <2>8, <2>9, <2>10, <2>11, <2>12
       DEF ProposalsNext
<1>3. ProposalsInv => WholeTreeConsented
  BY DEF ProposalsInv, GrantsConsented, ConsentedIn, WholeTreeConsented
<1> QED
  BY <1>1, <1>2, <1>3, PTL DEF ProposalsSpec

---------------------------------------------------------------------------
(* Offers.                                                                 *)

LEMMA NatsHaveMin ==
    ASSUME NEW S \in SUBSET Nat, S # {}
    PROVE  Min(S) \in S /\ \A y \in S : Min(S) <= y
<1>1. PICK t \in S : \A u \in S : <<u, t>> \notin OpToRel(<, Nat)
  BY NatLessThanWellFounded, WFMin, Zenon
<1>2. \A u \in S : ~(u < t)
  BY <1>1 DEF OpToRel
<1>3. \A u \in S : t <= u
  BY <1>2
<1> QED
  BY <1>3 DEF Min

Admitting(terms, x, s) == {i \in DOMAIN terms : x \in terms[i].items /\ s \in terms[i].to}
Named(terms, x, s) == {i \in Admitting(terms, x, s) : terms[i].approval = "NamedConsumer"}
GoverningTerms(terms, x, s) ==
    IF Named(terms, x, s) # {} THEN Named(terms, x, s) ELSE Admitting(terms, x, s)

\* The term that governs is one of the strictest that admit the consumer.
LEMMA PermitsGoverned ==
    ASSUME NEW terms \in Seq(Term), NEW x, NEW s
    PROVE  /\ Admitting(terms, x, s) = {} =>
                 Permits(terms, x, s) = [outcome |-> "NotOffered", ttl |-> 0]
           /\ Admitting(terms, x, s) # {} =>
                 \E i \in GoverningTerms(terms, x, s) :
                     /\ i = Min(GoverningTerms(terms, x, s))
                     /\ Permits(terms, x, s) = [outcome |-> terms[i].approval, ttl |-> terms[i].ttl]
<1> DEFINE G == GoverningTerms(terms, x, s)
<1>1. Permits(terms, x, s) =
        IF Admitting(terms, x, s) = {} THEN [outcome |-> "NotOffered", ttl |-> 0]
        ELSE [outcome |-> terms[Min(G)].approval, ttl |-> terms[Min(G)].ttl]
  BY DEF Permits, Admitting, Named, GoverningTerms
<1>2. ASSUME Admitting(terms, x, s) # {} PROVE Min(G) \in G
  <2>1. G \in SUBSET Nat
    BY DEF GoverningTerms, Named, Admitting
  <2>2. G # {}
    BY <1>2 DEF GoverningTerms
  <2> HIDE DEF G
  <2> QED
    BY <2>1, <2>2, NatsHaveMin
<1> HIDE DEF G
<1> QED
  BY <1>1, <1>2 DEF G

LEMMA PermitsOutcome ==
    ASSUME NEW terms \in Seq(Term), NEW x, NEW s
    PROVE  /\ Permits(terms, x, s).ttl \in Nat
           /\ Permits(terms, x, s).outcome \in {"NotOffered", "PreGranted", "NamedConsumer"}
           /\ Permits(terms, x, s).outcome = "NotOffered" <=> Admitting(terms, x, s) = {}
           /\ Permits(terms, x, s).outcome = "NamedConsumer" <=> Named(terms, x, s) # {}
           /\ Permits(terms, x, s).outcome # "NotOffered" =>
                 \E i \in GoverningTerms(terms, x, s) :
                     /\ i = Min(GoverningTerms(terms, x, s))
                     /\ Permits(terms, x, s).ttl = terms[i].ttl
<1>1. CASE Admitting(terms, x, s) = {}
  BY <1>1, PermitsGoverned DEF Named
<1>2. CASE Admitting(terms, x, s) # {}
  <2>1. PICK i \in GoverningTerms(terms, x, s) :
            /\ i = Min(GoverningTerms(terms, x, s))
            /\ Permits(terms, x, s) = [outcome |-> terms[i].approval, ttl |-> terms[i].ttl]
    BY <1>2, PermitsGoverned
  <2>2. i \in Admitting(terms, x, s) /\ i \in DOMAIN terms
    BY <2>1 DEF GoverningTerms, Named, Admitting
  <2>3. terms[i] \in Term
    BY <2>2
  <2>4. terms[i].approval \in {"PreGranted", "NamedConsumer"} /\ terms[i].ttl \in Nat
    BY <2>3 DEF Term
  <2>5. Named(terms, x, s) # {} => terms[i].approval = "NamedConsumer"
    BY <2>1 DEF GoverningTerms, Named
  <2>6. terms[i].approval = "NamedConsumer" => i \in Named(terms, x, s)
    BY <2>2 DEF Named
  <2> QED
    BY <1>2, <2>1, <2>4, <2>5, <2>6
<1> QED
  BY <1>1, <1>2

\* The date an item goes is the first that any term gives.
LEMMA FirstDate ==
    ASSUME NEW terms \in Seq(Term), NEW x
    PROVE  /\ DeprecatedAfter(terms, x) \in 0 .. NoDate
           /\ \A i \in DOMAIN terms : \A d \in terms[i].drops :
                 d[1] = x => DeprecatedAfter(terms, x) <= d[2] /\ d[2] < NoDate
           /\ DeprecatedAfter(terms, x) # NoDate =>
                 \E i \in DOMAIN terms : \E d \in terms[i].drops :
                     d[1] = x /\ d[2] = DeprecatedAfter(terms, x)
<1> DEFINE all == UNION {terms[i].drops : i \in DOMAIN terms}
           dates == {d[2] : d \in {e \in all : e[1] = x}}
<1>1. DeprecatedAfter(terms, x) = IF dates = {} THEN NoDate ELSE Min(dates)
  BY DEF DeprecatedAfter
<1>2. ASSUME NEW i \in DOMAIN terms, NEW d \in terms[i].drops
      PROVE d[2] \in 0 .. LastDate /\ (d[1] = x => d[2] \in dates)
  <2>1. terms[i] \in Term
    BY <1>2
  <2>2. d \in OItem \X (0 .. LastDate)
    BY <1>2, <2>1 DEF Term
  <2> QED
    BY <1>2, <2>2
<1>3. ASSUME NEW t \in dates
      PROVE t \in 0 .. LastDate /\ \E i \in DOMAIN terms : \E d \in terms[i].drops : d[1] = x /\ d[2] = t
  BY <1>2, <1>3
<1> HIDE DEF all, dates
<1>4. dates \in SUBSET Nat
  BY <1>3, DatesAssumption
<1>5. dates # {} => Min(dates) \in dates /\ \A y \in dates : Min(dates) <= y
  BY <1>4, NatsHaveMin
<1>6. CASE dates = {}
  BY <1>1, <1>2, <1>6, DatesAssumption DEF NoDate
<1>7. CASE dates # {}
  <2>1. DeprecatedAfter(terms, x) \in dates
    BY <1>1, <1>5, <1>7
  <2>2. DeprecatedAfter(terms, x) \in 0 .. NoDate
    BY <1>3, <2>1, DatesAssumption DEF NoDate
  <2>3. ASSUME NEW i \in DOMAIN terms, NEW d \in terms[i].drops, d[1] = x
        PROVE DeprecatedAfter(terms, x) <= d[2] /\ d[2] < NoDate
    <3>1. d[2] \in dates /\ d[2] \in 0 .. LastDate
      BY <1>2, <2>3
    <3> QED
      BY <1>1, <1>5, <1>7, <3>1, DatesAssumption DEF NoDate
  <2>4. \E i \in DOMAIN terms : \E d \in terms[i].drops :
            d[1] = x /\ d[2] = DeprecatedAfter(terms, x)
    BY <1>3, <2>1
  <2> QED
    BY <2>2, <2>3, <2>4
<1> QED
  BY <1>6, <1>7

\* What a match answers, of each item.
LEMMA Matching ==
    ASSUME NEW terms \in Seq(Term), NEW need, need.ttl \in Nat, NEW s, NEW at
    PROVE  LET m == MatchNeed(terms, need, s, at)
               out(x) == Permits(terms, x, s).outcome
               bad(x) == out(x) = "NotOffered" \/ Outlives(terms, x, at, m.ttl)
           IN /\ m = [verdict |-> m.verdict, ttl |-> m.ttl]
              /\ m.ttl \in Nat /\ m.ttl <= need.ttl
              /\ \A x \in need.items :
                    out(x) # "NotOffered" => m.ttl <= Permits(terms, x, s).ttl
              /\ m.ttl = need.ttl \/ \E x \in need.items : m.ttl = Permits(terms, x, s).ttl
              /\ m.verdict \in {"Refused", "NeedsApproval", "Grant"}
              /\ m.verdict = "Refused" <=> \E x \in need.items : bad(x)
              /\ m.verdict = "Grant" <=>
                    \A x \in need.items : ~ bad(x) /\ out(x) # "NamedConsumer"
<1> DEFINE P(x) == Permits(terms, x, s)
           ttls == {need.ttl} \cup {P(x).ttl : x \in {y \in need.items : P(y).outcome # "NotOffered"}}
           m == MatchNeed(terms, need, s, at)
           bad(x) == P(x).outcome = "NotOffered" \/ Outlives(terms, x, at, Min(ttls))
<1>0. LET of == [x \in need.items |-> Permits(terms, x, s)]
      IN {need.ttl} \cup {of[x].ttl : x \in {y \in need.items : of[y].outcome # "NotOffered"}}
            = ttls
  OBVIOUS
<1>1. m = [verdict |-> IF \E x \in need.items : bad(x) THEN "Refused"
                       ELSE IF \E x \in need.items : P(x).outcome = "NamedConsumer"
                       THEN "NeedsApproval" ELSE "Grant",
           ttl |-> Min(ttls)]
  BY <1>0 DEF MatchNeed
<1>2. ttls \in SUBSET Nat /\ need.ttl \in ttls
  BY PermitsOutcome
<1>3. \A x \in need.items : P(x).outcome # "NotOffered" => P(x).ttl \in ttls
  OBVIOUS
<1>4. \A t \in ttls : t = need.ttl \/ \E x \in need.items : t = P(x).ttl
  OBVIOUS
<1> HIDE DEF ttls
<1>5. Min(ttls) \in ttls /\ \A t \in ttls : Min(ttls) <= t
  BY <1>2, NatsHaveMin
<1>6. m.ttl = Min(ttls)
  BY <1>1
<1>7. /\ m = [verdict |-> m.verdict, ttl |-> m.ttl]
      /\ m.verdict \in {"Refused", "NeedsApproval", "Grant"}
      /\ m.verdict = "Refused" <=> \E x \in need.items : bad(x)
      /\ m.verdict = "Grant" <=>
            \A x \in need.items : ~ bad(x) /\ P(x).outcome # "NamedConsumer"
  <2> HIDE DEF P, bad, m
  <2>1. m.verdict = IF \E x \in need.items : bad(x) THEN "Refused"
                    ELSE IF \E x \in need.items : P(x).outcome = "NamedConsumer"
                    THEN "NeedsApproval" ELSE "Grant"
    BY <1>1
  <2> QED
    BY <1>1, <2>1
<1> HIDE DEF m
<1> QED
  BY <1>2, <1>3, <1>4, <1>5, <1>6, <1>7 DEF m

\* For one item: some term admits the consumer, the lifetime fits the ceiling of
\* the term that governs, and it ends before the item goes.
ItemWithin(terms, x, s, ttl, at) ==
    /\ Admitting(terms, x, s) # {}
    /\ \E i \in GoverningTerms(terms, x, s) :
          i = Min(GoverningTerms(terms, x, s)) /\ ttl <= terms[i].ttl
    /\ \A i \in DOMAIN terms : \A d \in terms[i].drops : d[1] = x => at + ttl <= d[2]

\* A plan, a request or a contract that keeps to the terms it was matched against.
Within(c) ==
    /\ c.terms \in Seq(Term) /\ c.ttl \in Nat /\ c.at \in Nat /\ c.items # {}
    /\ \A x \in c.items : ItemWithin(c.terms, x, c.shape, c.ttl, c.at)
Ungated(c) == \A x \in c.items : Named(c.terms, x, c.shape) = {}

OffersInv ==
    /\ day \in 0 .. MaxDay
    /\ offer.terms \in Seq(Term)
    /\ apply.pc \in {"idle", "mint", "ask"}
    /\ apply.pc # "idle" => Within(apply)
    /\ apply.pc = "mint" => Ungated(apply)
    /\ \A q \in oasks : Within(q)
    /\ \A c \in signed : Within(c)
    /\ derived # NoContract => Within(derived) /\ Ungated(derived)

\* A need that is not refused is within the terms, for the lifetime of the match;
\* one that is granted has nothing behind the owner's approval.
LEMMA MatchedWithin ==
    ASSUME NEW terms \in Seq(Term), NEW need, need.ttl \in Nat, NEW s, NEW at \in Nat,
           MatchNeed(terms, need, s, at).verdict # "Refused", NEW x \in need.items
    PROVE  /\ ItemWithin(terms, x, s, MatchNeed(terms, need, s, at).ttl, at)
           /\ MatchNeed(terms, need, s, at).verdict = "Grant" => Named(terms, x, s) = {}
<1> DEFINE m == MatchNeed(terms, need, s, at)
           out == Permits(terms, x, s).outcome
<1>1. /\ m.ttl \in Nat
      /\ out # "NotOffered" /\ ~ Outlives(terms, x, at, m.ttl)
      /\ m.ttl <= Permits(terms, x, s).ttl
      /\ m.verdict = "Grant" => out # "NamedConsumer"
  BY Matching
<1> HIDE DEF m
<1>2. PICK i \in GoverningTerms(terms, x, s) :
          i = Min(GoverningTerms(terms, x, s)) /\ Permits(terms, x, s).ttl = terms[i].ttl
  BY <1>1, PermitsOutcome
<1>3. Admitting(terms, x, s) # {} /\ (m.verdict = "Grant" => Named(terms, x, s) = {})
  BY <1>1, PermitsOutcome
<1>4. ASSUME NEW j \in DOMAIN terms, NEW d \in terms[j].drops, d[1] = x
      PROVE at + m.ttl <= d[2]
  <2>1. /\ DeprecatedAfter(terms, x) \in 0 .. NoDate
        /\ DeprecatedAfter(terms, x) <= d[2] /\ d[2] < NoDate
    BY <1>4, FirstDate
  <2>2. d[2] \in Nat
    <3>1. terms[j] \in Term
      BY <1>4
    <3>2. d \in OItem \X (0 .. LastDate)
      BY <1>4, <3>1 DEF Term
    <3> QED
      BY <3>2
  <2>3. at + m.ttl <= DeprecatedAfter(terms, x)
    BY <1>1, <2>1, <2>2, DatesAssumption DEF Outlives, NoDate
  <2> QED
    BY <1>1, <2>1, <2>2, <2>3, DatesAssumption DEF NoDate
<1> QED
  BY <1>1, <1>2, <1>3, <1>4 DEF ItemWithin, m

\* A shorter lifetime stays within.
LEMMA ShorterWithin ==
    ASSUME NEW terms \in Seq(Term), NEW x, NEW s, NEW ttl \in Nat, NEW at \in Nat,
           NEW less \in Nat, less <= ttl, ItemWithin(terms, x, s, ttl, at)
    PROVE  ItemWithin(terms, x, s, less, at)
<1>1. ASSUME NEW j \in DOMAIN terms, NEW d \in terms[j].drops PROVE d[2] \in Nat
  <2>1. terms[j] \in Term
    BY <1>1
  <2>2. d \in OItem \X (0 .. LastDate)
    BY <1>1, <2>1 DEF Term
  <2> QED
    BY <2>2
<1>2. ASSUME NEW j \in GoverningTerms(terms, x, s) PROVE terms[j].ttl \in Nat
  <2>1. terms[j] \in Term
    BY <1>2 DEF GoverningTerms, Named, Admitting
  <2> QED
    BY <2>1 DEF Term
<1> QED
  BY <1>1, <1>2 DEF ItemWithin

LEMMA MinOfTwo ==
    ASSUME NEW a \in Nat, NEW b \in Nat
    PROVE  Min({a, b}) \in Nat /\ Min({a, b}) <= a /\ Min({a, b}) <= b
<1>1. {a, b} \in SUBSET Nat /\ {a, b} # {}
  OBVIOUS
<1>2. Min({a, b}) \in {a, b} /\ \A y \in {a, b} : Min({a, b}) <= y
  BY <1>1, NatsHaveMin
<1> QED
  BY <1>2

---------------------------------------------------------------------------

LEMMA OffersInvInit == OffersInit => OffersInv
<1> SUFFICES ASSUME OffersInit PROVE OffersInv
  OBVIOUS
<1>1. offer.terms \in Seq(Term)
  BY DEF OffersInit, NoOffer
<1> QED
  BY <1>1, DatesAssumption DEF OffersInit, OffersInv, NoApply

LEMMA PlanKeepsWithin ==
    ASSUME OffersInv, NEW need \in NeedSet, PlanNeed(need)
    PROVE  OffersInv'
<1> DEFINE m == MatchNeed(offer.terms, need, shape, day)
<1>1. ASSUME NEW text, Answered(text) PROVE OffersInv'
  BY <1>1 DEF OffersInv, Answered, NoApply
<1>2. ASSUME NEW pc, Planned(pc, need, m.ttl), need.items # {},
             \/ pc = "ask" /\ m.verdict = "NeedsApproval"
             \/ pc = "mint" /\ m.verdict = "Grant"
      PROVE OffersInv'
  <2>1. /\ apply' = [pc |-> pc, items |-> need.items, ttl |-> m.ttl, at |-> day,
                     version |-> offer.version, terms |-> offer.terms, shape |-> shape]
        /\ UNCHANGED <<day, offer, oasks, derived, signed>>
    BY <1>2 DEF Planned
  <2>2. /\ apply'.pc = pc /\ apply'.items = need.items /\ apply'.ttl = m.ttl
        /\ apply'.at = day /\ apply'.terms = offer.terms /\ apply'.shape = shape
    BY <2>1
  <2>3. offer.terms \in Seq(Term) /\ day \in Nat /\ need.ttl \in Nat
    BY NeedsAssumption, DatesAssumption DEF OffersInv
  <2>4. m.ttl \in Nat
    BY <2>3, Matching
  <2>5. \A x \in need.items :
            /\ ItemWithin(offer.terms, x, shape, m.ttl, day)
            /\ m.verdict = "Grant" => Named(offer.terms, x, shape) = {}
    BY <1>2, <2>3, MatchedWithin
  <2> HIDE DEF m
  <2>6. Within(apply)' /\ (pc = "mint" => Ungated(apply)')
    BY <1>2, <2>2, <2>3, <2>4, <2>5 DEF Within, Ungated
  <2> QED
    BY <1>2, <2>1, <2>2, <2>6 DEF OffersInv
<1>3. CASE offer = NoOffer \/ ~ offer.consented \/ need.items = {}
  <2>1. NextBuild(need) = "Refused"
    BY <1>3 DEF NextBuild
  <2> QED
    BY <1>1, <2>1 DEF PlanNeed
<1>4. CASE ~(offer = NoOffer \/ ~ offer.consented \/ need.items = {})
  <2>0. NextBuild(need) = m.verdict
    BY <1>4 DEF NextBuild
  <2>1. m.verdict \in {"Refused", "NeedsApproval", "Grant"}
    BY NeedsAssumption, Matching DEF OffersInv
  <2>2. CASE m.verdict = "Refused"
    BY <1>1, <2>0, <2>2 DEF PlanNeed
  <2>3. CASE m.verdict = "NeedsApproval"
    <3>1. Answered("asked") \/ Planned("ask", need, m.ttl)
      BY <2>0, <2>3 DEF PlanNeed
    <3> QED
      BY <1>1, <1>2, <1>4, <2>3, <3>1
  <2>4. CASE m.verdict = "Grant"
    <3>1. Answered("current") \/ Planned("mint", need, m.ttl)
      BY <2>0, <2>4 DEF PlanNeed
    <3> QED
      BY <1>1, <1>2, <1>4, <2>4, <3>1
  <2> QED
    BY <2>1, <2>2, <2>3, <2>4
<1> QED
  BY <1>3, <1>4

LEMMA MintKeepsWithin ==
    ASSUME OffersInv, NEW cap \in PolicyTtl, MintNeed(cap)
    PROVE  OffersInv'
<1> DEFINE t == Min({apply.ttl, cap})
<1>1. Within(apply) /\ Ungated(apply)
  BY DEF OffersInv, MintNeed
<1>2. t \in Nat /\ t <= apply.ttl
  BY <1>1, MinOfTwo, DatesAssumption DEF Within
<1> HIDE DEF t
<1>3. /\ derived'.items = apply.items /\ derived'.ttl = t /\ derived'.terms = apply.terms
      /\ derived'.shape = apply.shape /\ derived'.at = apply.at
      /\ apply' = NoApply /\ UNCHANGED <<day, offer, oasks, signed>>
  BY DEF MintNeed, t
<1>4. Within(derived)' /\ Ungated(derived)'
  BY <1>1, <1>2, <1>3, ShorterWithin DEF Within, Ungated
<1> QED
  BY <1>3, <1>4 DEF OffersInv, NoApply

LEMMA AskKeepsWithin ==
    ASSUME OffersInv, NEW cap \in PolicyTtl, OpenAsk(cap)
    PROVE  OffersInv'
<1> DEFINE t == Min({apply.ttl, cap})
           q == [status |-> "Pending", items |-> apply.items, ttl |-> t,
                 lapses |-> day + RequestLife, terms |-> apply.terms,
                 shape |-> apply.shape, at |-> apply.at]
<1>1. Within(apply)
  BY DEF OffersInv, OpenAsk
<1>2. t \in Nat /\ t <= apply.ttl
  BY <1>1, MinOfTwo, DatesAssumption DEF Within
<1>3. oasks' = oasks \cup {q} /\ apply' = NoApply /\ UNCHANGED <<day, offer, derived, signed>>
  BY DEF OpenAsk
<1> HIDE DEF t
<1>4. Within(q)
  BY <1>1, <1>2, ShorterWithin DEF Within
<1> HIDE DEF q
<1> QED
  BY <1>3, <1>4 DEF OffersInv, NoApply

LEMMA SignKeepsWithin ==
    ASSUME OffersInv, NEW q \in oasks, SignAsk(q) \/ DenyAsk(q)
    PROVE  OffersInv'
<1>1. Within(q)
  BY DEF OffersInv
<1>2. ASSUME NEW status PROVE Within([q EXCEPT !.status = status])
  BY <1>1 DEF Within
<1>3. CASE SignAsk(q)
  <2> DEFINE c == [status |-> "Active", items |-> q.items, ttl |-> q.ttl,
                   exp |-> day + q.ttl, terms |-> q.terms, shape |-> q.shape, at |-> q.at]
  <2>1. /\ oasks' = (oasks \ {q}) \cup {[q EXCEPT !.status = "Minted"]}
        /\ signed' = signed \cup {c}
        /\ UNCHANGED <<day, offer, apply, derived>>
    BY <1>3 DEF SignAsk
  <2>2. Within(c)
    BY <1>1 DEF Within
  <2> HIDE DEF c
  <2> QED
    BY <1>2, <2>1, <2>2 DEF OffersInv
<1>4. CASE DenyAsk(q)
  BY <1>2, <1>4 DEF OffersInv, DenyAsk
<1> QED
  BY <1>3, <1>4

LEMMA RevokeKeepsWithin ==
    ASSUME OffersInv, RevokeOne
    PROVE  OffersInv'
<1>1. derived # NoContract
  BY DEF RevokeOne, NoContract
<1>2. Within(derived) /\ Ungated(derived)
  BY <1>1 DEF OffersInv
<1>3. derived' = [derived EXCEPT !.status = "Revoked"] /\ UNCHANGED <<day, offer, apply, oasks, signed>>
  BY DEF RevokeOne
<1>4. Within(derived)' /\ Ungated(derived)'
  BY <1>2, <1>3 DEF Within, Ungated
<1> QED
  BY <1>3, <1>4 DEF OffersInv

LEMMA OffersInvNext == OffersInv /\ [OffersNext]_offerVars => OffersInv'
<1> SUFFICES ASSUME OffersInv, [OffersNext]_offerVars PROVE OffersInv'
  OBVIOUS
<1>1. ASSUME NEW terms \in Manifests, NEW c \in BOOLEAN, PublishTerms(terms, c)
      PROVE OffersInv'
  <2>1. offer'.terms \in Seq(Term) /\ UNCHANGED <<day, apply, oasks, derived, signed>>
    BY <1>1, ManifestsAssumption DEF PublishTerms
  <2> QED
    BY <2>1 DEF OffersInv
<1>2. ASSUME ApplyEnds PROVE OffersInv'
  BY <1>2 DEF OffersInv, ApplyEnds, Answered, NoApply
<1>3. ASSUME NextDay PROVE OffersInv'
  BY <1>3, DatesAssumption DEF OffersInv, NextDay
<1>4. ASSUME NEW s, Move(s) PROVE OffersInv'
  BY <1>4 DEF OffersInv, Move
<1>5. CASE UNCHANGED offerVars
  BY <1>5 DEF OffersInv, offerVars
<1> QED
  BY <1>1, <1>2, <1>3, <1>4, <1>5, PlanKeepsWithin, MintKeepsWithin, AskKeepsWithin,
     SignKeepsWithin, RevokeKeepsWithin DEF OffersNext

LEMMA WithinOffer == OffersInv => GrantsWithinOffer
<1> SUFFICES ASSUME OffersInv, NEW c \in signed \cup ({derived} \ {NoContract}),
                    NEW x \in c.items
             PROVE  /\ Admitting(c.terms, x, c.shape) # {}
                    /\ c \notin signed => Named(c.terms, x, c.shape) = {}
                    /\ c.ttl <= c.terms[Min(GoverningTerms(c.terms, x, c.shape))].ttl
                    /\ \A i \in DOMAIN c.terms : \A d \in c.terms[i].drops :
                          d[1] = x => c.at + c.ttl <= d[2]
  BY DEF GrantsWithinOffer, Admitting, Named, GoverningTerms
<1>1. Within(c) /\ (c \notin signed => Ungated(c))
  BY DEF OffersInv
<1> QED
  BY <1>1 DEF Within, Ungated, ItemWithin

\* Of a contract's items on a day, for terms in force.
LEMMA ImpactOf ==
    ASSUME NEW terms, NEW items, NEW s, NEW at
    PROVE  LET row == Impact(terms, items, s, at)
               of(kind) == {x \in items : Permits(terms, x, s).outcome = kind}
           IN /\ row.gone = of("NotOffered")
              /\ row.gated = of("NamedConsumer")
              /\ row.withdrawn = {x \in of("PreGranted") : DeprecatedAfter(terms, x) <= at}
              /\ row.withdrawing = {x \in of("PreGranted") :
                                        DeprecatedAfter(terms, x) \in at + 1 .. LastDate}
<1>1. ASSUME NEW kind
      PROVE LET outcome == [x \in items |-> Permits(terms, x, s).outcome]
            IN {x \in items : outcome[x] = kind} = {x \in items : Permits(terms, x, s).outcome = kind}
  OBVIOUS
<1> QED
  BY <1>1 DEF Impact

LEMMA CleanIsGranted ==
    ASSUME NEW terms \in Seq(Term), NEW items, NEW s, NEW at \in 0 .. MaxDay, NEW t \in Nat,
           IsClean(Impact(terms, items, s, at))
    PROVE  MatchNeed(terms, [items |-> items, ttl |-> t], s, at).verdict = "Grant"
<1> DEFINE need == [items |-> items, ttl |-> t]
           m == MatchNeed(terms, need, s, at)
<1>1. ASSUME NEW x \in items
      PROVE /\ Permits(terms, x, s).outcome = "PreGranted"
            /\ DeprecatedAfter(terms, x) = NoDate
  <2>1. Permits(terms, x, s).outcome \in {"NotOffered", "PreGranted", "NamedConsumer"}
    BY PermitsOutcome
  <2>2. /\ Permits(terms, x, s).outcome # "NotOffered"
        /\ Permits(terms, x, s).outcome # "NamedConsumer"
    BY <1>1, ImpactOf DEF IsClean
  <2>3. ~(DeprecatedAfter(terms, x) <= at) /\ DeprecatedAfter(terms, x) \notin at + 1 .. LastDate
    BY <1>1, <2>1, <2>2, ImpactOf DEF IsClean
  <2>4. DeprecatedAfter(terms, x) \in 0 .. NoDate
    BY FirstDate
  <2> QED
    BY <2>1, <2>2, <2>3, <2>4, DatesAssumption DEF NoDate
<1>2. need.ttl \in Nat /\ need.items = items
  OBVIOUS
<1>3. ASSUME NEW x \in items PROVE ~ Outlives(terms, x, at, m.ttl)
  BY <1>1, <1>3 DEF Outlives
<1> HIDE DEF need
<1>4. m.verdict = "Grant" <=>
          \A x \in need.items :
              /\ ~(Permits(terms, x, s).outcome = "NotOffered" \/ Outlives(terms, x, at, m.ttl))
              /\ Permits(terms, x, s).outcome # "NamedConsumer"
  BY <1>2, Matching
<1> HIDE DEF m
<1> QED
  BY <1>1, <1>2, <1>3, <1>4 DEF m, need

LEMMA ForetoldImpact == OffersInv => ImpactForetells
<1> SUFFICES ASSUME OffersInv, NEW c \in signed \cup ({derived} \ {NoContract}),
                    offer.consented,
                    IsClean(Impact(offer.terms, c.items, shape, day)),
                    NEW t \in 1 .. TtlCeiling
             PROVE  NextBuild([items |-> c.items, ttl |-> t]) = "Grant"
  BY DEF ImpactForetells
<1>1. MatchNeed(offer.terms, [items |-> c.items, ttl |-> t], shape, day).verdict = "Grant"
  BY CleanIsGranted, DatesAssumption DEF OffersInv
<1>2. offer # NoOffer
  BY DEF NoOffer
<1>3. c.items # {}
  BY DEF OffersInv, Within
<1> QED
  BY <1>1, <1>2, <1>3 DEF NextBuild

LEMMA LintedTerm ==
    ASSUME NEW terms \in Seq(Term), NEW at \in Nat, ~ LintWarns(terms, at),
           NEW i \in DOMAIN terms, NEW x \in terms[i].items, NEW s \in terms[i].to
    PROVE  /\ Permits(terms, x, s) = [outcome |-> terms[i].approval, ttl |-> terms[i].ttl]
           /\ ~ Outlives(terms, x, at, terms[i].ttl)
<1>0. terms[i].ttl \in Nat
  <2>1. terms[i] \in Term
    OBVIOUS
  <2> QED
    BY <2>1 DEF Term
<1>1. \A j \in DOMAIN terms : x \in terms[j].items => j = i
  BY DEF LintWarns
<1>2. Admitting(terms, x, s) = {i}
  BY <1>1 DEF Admitting
<1>3. \A j \in GoverningTerms(terms, x, s) : j = i
  BY <1>2 DEF GoverningTerms, Named
<1>4. Permits(terms, x, s) = [outcome |-> terms[i].approval, ttl |-> terms[i].ttl]
  BY <1>2, <1>3, PermitsGoverned
<1>5. ASSUME DeprecatedAfter(terms, x) # NoDate
      PROVE /\ DeprecatedAfter(terms, x) \in Nat
            /\ ~(DeprecatedAfter(terms, x) <= at)
            /\ ~(DeprecatedAfter(terms, x) - at < terms[i].ttl)
  <2>1. DeprecatedAfter(terms, x) \in 0 .. NoDate
    BY FirstDate
  <2>2. PICK j \in DOMAIN terms : \E d \in terms[j].drops :
            d[1] = x /\ d[2] = DeprecatedAfter(terms, x)
    BY <1>5, FirstDate
  <2>3. PICK d \in terms[j].drops : d[1] = x /\ d[2] = DeprecatedAfter(terms, x)
    BY <2>2
  <2>4. x \in terms[j].items /\ ~ Near(DeprecatedAfter(terms, x), terms[j].ttl, at)
    BY <2>2, <2>3 DEF LintWarns
  <2>5. j = i
    BY <1>1, <2>4
  <2> QED
    BY <2>1, <2>4, <2>5, DatesAssumption DEF Near, NoDate
<1> QED
  BY <1>0, <1>4, <1>5 DEF Outlives

LEMMA ForetoldByLint == OffersInv => LintForetells
<1> SUFFICES ASSUME OffersInv, ~ LintWarns(offer.terms, day), NEW i \in DOMAIN offer.terms,
                    NEW x \in offer.terms[i].items, NEW s \in offer.terms[i].to
             PROVE  LET open == offer.terms[i].approval = "PreGranted"
                        listing == AsSeenBy(offer.terms, s, day)
                    IN /\ MatchNeed(offer.terms, [items |-> {x}, ttl |-> offer.terms[i].ttl], s, day)
                             = [verdict |-> IF open THEN "Grant" ELSE "NeedsApproval",
                                ttl |-> offer.terms[i].ttl]
                       /\ x \in IF open THEN listing.now ELSE listing.ask
  BY DEF LintForetells
<1> DEFINE T == offer.terms
           ttl == T[i].ttl
           need == [items |-> {x}, ttl |-> ttl]
           m == MatchNeed(T, need, s, day)
<1>1. T \in Seq(Term) /\ day \in Nat
  BY DatesAssumption DEF OffersInv
<1>2. T[i] \in Term
  BY <1>1
<1>3. ttl \in Nat /\ x \in OItem /\ T[i].approval \in {"PreGranted", "NamedConsumer"}
  BY <1>2 DEF Term
<1>4. Permits(T, x, s) = [outcome |-> T[i].approval, ttl |-> ttl] /\ ~ Outlives(T, x, day, ttl)
  BY <1>1, LintedTerm
<1>5. need.ttl = ttl /\ need.items = {x}
  OBVIOUS
<1> HIDE DEF need, T, ttl
<1>6. /\ m = [verdict |-> m.verdict, ttl |-> m.ttl]
      /\ m.ttl = ttl
      /\ m.verdict \in {"Refused", "NeedsApproval", "Grant"}
      /\ m.verdict = "Refused" <=> \/ Permits(T, x, s).outcome = "NotOffered"
                                   \/ Outlives(T, x, day, m.ttl)
      /\ m.verdict = "Grant" <=> /\ ~(\/ Permits(T, x, s).outcome = "NotOffered"
                                      \/ Outlives(T, x, day, m.ttl))
                                 /\ Permits(T, x, s).outcome # "NamedConsumer"
  <2>1. need.ttl \in Nat
    BY <1>3, <1>5
  <2>2. m.ttl = need.ttl \/ \E y \in need.items : m.ttl = Permits(T, y, s).ttl
    BY <1>1, <2>1, Matching
  <2>3. m.ttl = ttl
    BY <1>4, <1>5, <2>2
  <2> QED
    BY <1>1, <1>5, <2>1, <2>3, Matching
<1> HIDE DEF m
<1>7. m = [verdict |-> IF T[i].approval = "PreGranted" THEN "Grant" ELSE "NeedsApproval",
           ttl |-> ttl]
  BY <1>3, <1>4, <1>6
<1>8. x \in IF T[i].approval = "PreGranted" THEN AsSeenBy(T, s, day).now ELSE AsSeenBy(T, s, day).ask
  BY <1>3, <1>4 DEF AsSeenBy
<1> QED
  BY <1>7, <1>8 DEF m, need, T, ttl

LEMMA PageIsTold == OffersInv => PageTells
<1> SUFFICES ASSUME OffersInv PROVE PageTells
  OBVIOUS
<1> DEFINE T == offer.terms
<1>0. T \in Seq(Term) /\ day \in Nat /\ day < NoDate
  BY DatesAssumption DEF OffersInv, NoDate
<1>1. ASSUME NEW need \in PageNeeds(shape)
      PROVE LET m == MatchNeed(T, need, shape, day)
            IN /\ NextBuild(need) = "Refused" =>
                     \/ ~ PageCatalogue(shape).contractable
                     \/ \E x \in need.items : Outlives(T, x, day, m.ttl)
               /\ NextBuild(need) = "Grant" => need.items \subseteq PageCatalogue(shape).now
  <2> DEFINE m == MatchNeed(T, need, shape, day)
             listing == AsSeenBy(T, shape, day)
  <2>1. need.ttl \in Nat /\ need.items \subseteq listing.now \cup listing.ask
    BY <1>1, DatesAssumption DEF PageNeeds, PageCatalogue
  <2>2. \A x : x \in listing.now <=> x \in OItem /\ Permits(T, x, shape).outcome = "PreGranted"
    BY DEF AsSeenBy
  <2>3. \A x : x \in listing.ask <=> x \in OItem /\ Permits(T, x, shape).outcome = "NamedConsumer"
    BY DEF AsSeenBy
  <2>4. PageCatalogue(shape).now = listing.now
    BY DEF PageCatalogue
  <2>5. /\ m.verdict = "Refused" <=>
              \E x \in need.items : \/ Permits(T, x, shape).outcome = "NotOffered"
                                    \/ Outlives(T, x, day, m.ttl)
        /\ m.verdict = "Grant" <=>
              \A x \in need.items : /\ ~(\/ Permits(T, x, shape).outcome = "NotOffered"
                                          \/ Outlives(T, x, day, m.ttl))
                                    /\ Permits(T, x, shape).outcome # "NamedConsumer"
    BY <1>0, <2>1, Matching
  <2>6. offer # NoOffer /\ need.items # {}
    BY <1>1 DEF PageNeeds
  <2>8. PageCatalogue(shape).contractable <=> offer.consented
    BY Zenon DEF PageCatalogue
  <2>7. /\ NextBuild(need) = "Refused" => m.verdict = "Refused" \/ ~ offer.consented
        /\ NextBuild(need) = "Grant" => m.verdict = "Grant"
    BY <2>6 DEF NextBuild
  <2> HIDE DEF m, listing
  <2> QED
    BY <2>1, <2>2, <2>3, <2>4, <2>5, <2>7, <2>8 DEF m
<1>2. ASSUME NEW c, NEW t \in 1 .. TtlCeiling
      PROVE LET shown == PageImpact(Impact(T, c.items, shape, day))
                v == NextBuild([items |-> c.items, ttl |-> t])
            IN /\ shown \in {"gone", "past its date"} => v = "Refused"
               /\ shown = "on ask" => v # "Grant"
  <2> DEFINE row == Impact(T, c.items, shape, day)
             need == [items |-> c.items, ttl |-> t]
             m == MatchNeed(T, need, shape, day)
  <2>1. need.ttl \in Nat /\ need.items = c.items
    BY DatesAssumption
  <2> HIDE DEF need
  <2>2. /\ m.verdict = "Refused" <=>
              \E x \in c.items : \/ Permits(T, x, shape).outcome = "NotOffered"
                                 \/ Outlives(T, x, day, m.ttl)
        /\ m.verdict = "Grant" =>
              \A x \in c.items : Permits(T, x, shape).outcome # "NamedConsumer"
    BY <1>0, <2>1, Matching
  <2>3. /\ \A x : x \in row.gone <=> x \in c.items /\ Permits(T, x, shape).outcome = "NotOffered"
        /\ \A x : x \in row.gated <=> x \in c.items /\ Permits(T, x, shape).outcome = "NamedConsumer"
        /\ \A x \in row.withdrawn : x \in c.items /\ DeprecatedAfter(T, x) <= day
    BY ImpactOf
  <2>4. \A x : DeprecatedAfter(T, x) <= day => Outlives(T, x, day, m.ttl)
    <3> SUFFICES ASSUME NEW x, DeprecatedAfter(T, x) <= day PROVE Outlives(T, x, day, m.ttl)
      OBVIOUS
    <3>1. DeprecatedAfter(T, x) \in 0 .. NoDate
      BY <1>0, FirstDate
    <3> HIDE DEF m, T
    <3> QED
      BY <1>0, <3>1, DatesAssumption DEF Outlives, NoDate
  <2>8. /\ m.verdict = "Refused" => NextBuild(need) = "Refused"
        /\ NextBuild(need) = "Grant" => m.verdict = "Grant"
    BY DEF NextBuild
  <2> HIDE DEF m, row, T
  <2>5. PageImpact(row) = "gone" => row.gone # {}
    BY DEF PageImpact
  <2>6. PageImpact(row) = "past its date" => row.withdrawn # {}
    BY DEF PageImpact
  <2>7. PageImpact(row) = "on ask" => row.gated # {}
    BY DEF PageImpact
  <2> QED
    BY <2>2, <2>3, <2>4, <2>5, <2>6, <2>7, <2>8 DEF need, row
<1> QED
  BY <1>1, <1>2 DEF PageTells

\* Whatever is published, moved, signed or withdrawn while builds run: a contract
\* keeps to the terms it was matched against, and what impact, lint and the page
\* say of the terms in force is what the next build meets (offer.rs, need.rs,
\* portal.rs), for any terms, items, needs, policies and dates; within the limits
\* GrantsWithinOffer, ImpactForetells and LintForetells name.
THEOREM OffersAreSound == OffersSpec => []OffersSound
<1>1. OffersInv => OffersSound
  BY WithinOffer, ForetoldImpact, ForetoldByLint, PageIsTold DEF OffersSound
<1> QED
  BY <1>1, OffersInvInit, OffersInvNext, PTL DEF OffersSpec

---------------------------------------------------------------------------
(* Policy.                                                                 *)

\* Of the numbers to two, the greatest of some.
LEMMA MaxToTwo ==
    ASSUME NEW S \in SUBSET (0 .. 2), S # {}
    PROVE  Max(S) \in S /\ \A y \in S : y <= Max(S)
<1>1. \E x \in S : \A y \in S : x >= y
  BY BoundedHasMax
<1>2. Max(S) \in S /\ \A y \in S : Max(S) >= y
  BY <1>1 DEF Max
<1> QED
  BY <1>2

\* The strictest of some bars is as strict as each of them.
LEMMA StrictestIsStrict ==
    ASSUME NEW bars \in SUBSET Bar, bars # {}
    PROVE  /\ Strictest(bars) \in Bar
           /\ \A b \in bars : /\ b.approval <= Strictest(bars).approval
                              /\ Strictest(bars).ttl <= b.ttl
                              /\ Strictest(bars).depth <= b.depth
                              /\ b.oversight => Strictest(bars).oversight
<1> DEFINE A == {b.approval : b \in bars}
           T == {b.ttl : b \in bars}
           D == {b.depth : b \in bars}
<1>1. A \in SUBSET (0 .. 2) /\ T \in SUBSET Nat /\ D \in SUBSET Nat
  BY DEF Bar
<1>2. A # {} /\ T # {} /\ D # {}
  OBVIOUS
<1>3. \A b \in bars : b.approval \in A /\ b.ttl \in T /\ b.depth \in D
  OBVIOUS
<1> HIDE DEF A, T, D
<1>4. Max(A) \in A /\ \A y \in A : y <= Max(A)
  BY <1>1, <1>2, MaxToTwo
<1>5. Min(T) \in T /\ \A y \in T : Min(T) <= y
  BY <1>1, <1>2, NatsHaveMin
<1>6. Min(D) \in D /\ \A y \in D : Min(D) <= y
  BY <1>1, <1>2, NatsHaveMin
<1>7. Strictest(bars) = [approval |-> Max(A), ttl |-> Min(T), depth |-> Min(D),
                         oversight |-> \E b \in bars : b.oversight,
                         distinct |-> \E b \in bars : b.distinct]
  BY DEF Strictest, A, T, D
<1> DEFINE o == \E b \in bars : b.oversight
           d == \E b \in bars : b.distinct
<1>8. o \in BOOLEAN /\ d \in BOOLEAN /\ \A b \in bars : b.oversight => o
  OBVIOUS
<1>9. Strictest(bars).oversight = o
  BY <1>7
<1>10. Strictest(bars) \in Bar
  <2>1. Max(A) \in 0 .. 2 /\ Min(T) \in Nat /\ Min(D) \in Nat
    BY <1>1, <1>4, <1>5, <1>6
  <2>2. Strictest(bars) = [approval |-> Max(A), ttl |-> Min(T), depth |-> Min(D),
                           oversight |-> o, distinct |-> d]
    BY <1>7
  <2> HIDE DEF o, d
  <2> QED
    BY <1>8, <2>1, <2>2 DEF Bar
<1> HIDE DEF o, d
<1> QED
  BY <1>3, <1>4, <1>5, <1>6, <1>7, <1>8, <1>9, <1>10

\* The trust levels, and the zones that have one.
Level == {"internal", "partner", "public"}
Zoned(z) == z \in Seq(STRING) /\ z # <<>> /\ z[1] \in Level

\* A trust level has a bar.
LEMMA ForTrustBar ==
    ASSUME NEW level \in Level
    PROVE  ForTrust(level) \in Bar
  BY DEF ForTrust, Bar, Level

\* A zone that contains another is of its trust level.
LEMMA AncestorTrust ==
    ASSUME NEW z, Zoned(z), NEW y \in Ancestors(z)
    PROVE  y # <<>> /\ Trust(y) = Trust(z)
<1>1. PICK n \in 1 .. Len(z) : y = SubSeq(z, 1, n)
  BY DEF Ancestors
<1>2. Len(z) \in Nat /\ Len(y) = n /\ y[1] = z[1]
  BY <1>1 DEF Zoned
<1> QED
  BY <1>1, <1>2 DEF Trust

\* The bar of a zone is as strict as what any zone around it declares, and as its
\* trust level.
LEMMA BarForStrict ==
    ASSUME NEW p \in Policies, NEW z, Zoned(z)
    PROVE  /\ BarFor(p, z) \in Bar
           /\ \A b \in {ForTrust(Trust(z))} \cup {p.zones[y] : y \in Ancestors(z) \cap DOMAIN p.zones} :
                 /\ b \in Bar
                 /\ b.approval <= BarFor(p, z).approval
                 /\ BarFor(p, z).ttl <= b.ttl /\ BarFor(p, z).depth <= b.depth
                 /\ b.oversight => BarFor(p, z).oversight
<1> DEFINE bars == {ForTrust(Trust(z))} \cup {p.zones[y] : y \in Ancestors(z) \cap DOMAIN p.zones}
<1>1. ForTrust(Trust(z)) \in Bar
  BY ForTrustBar DEF Zoned, Trust
<1>2. bars \in SUBSET Bar /\ bars # {}
  <2>1. \A y \in DOMAIN p.zones : p.zones[y] \in Bar
    BY PoliciesAssumption
  <2> QED
    BY <1>1, <2>1
<1>3. BarFor(p, z) = Strictest(bars)
  BY DEF BarFor
<1> HIDE DEF bars
<1>4. QED
  BY <1>2, <1>3, StrictestIsStrict DEF bars

\* The bar of a pair is as strict as that of either end.
LEMMA BarForPairStrict ==
    ASSUME NEW p \in Policies, NEW a \in Side, NEW b \in Side
    PROVE  /\ BarForPair(p, a, b) \in Bar
           /\ \A c \in {a, b} : LET bar == BarFor(p, ZoneOf[c]) IN
                 /\ bar \in Bar
                 /\ bar.approval <= BarForPair(p, a, b).approval
                 /\ BarForPair(p, a, b).ttl <= bar.ttl /\ BarForPair(p, a, b).depth <= bar.depth
                 /\ bar.oversight => BarForPair(p, a, b).oversight
<1>0. Zoned(ZoneOf[a]) /\ Zoned(ZoneOf[b])
  BY ZonesAssumption DEF Zoned, Level
<1> DEFINE bars == {BarFor(p, ZoneOf[a]), BarFor(p, ZoneOf[b])}
<1>1. bars \in SUBSET Bar /\ bars # {}
  BY <1>0, BarForStrict
<1>2. BarForPair(p, a, b) = Strictest(bars)
  BY DEF BarForPair
<1> HIDE DEF bars
<1>3. QED
  BY <1>1, <1>2, StrictestIsStrict DEF bars

\* Every bar that bears on a pair: of the zones around either end, and of their
\* trust levels.
ChainBars(p, a, b) ==
    LET around == Ancestors(ZoneOf[a]) \cup Ancestors(ZoneOf[b])
    IN {p.zones[z] : z \in around \cap DOMAIN p.zones} \cup {ForTrust(Trust(z)) : z \in around}

\* The bar of a pair is as strict as each of them.
LEMMA ChainBarsMet ==
    ASSUME NEW p \in Policies, NEW a \in Side, NEW b \in Side, NEW bar \in ChainBars(p, a, b)
    PROVE  /\ bar \in Bar
           /\ bar.approval <= BarForPair(p, a, b).approval
           /\ BarForPair(p, a, b).ttl <= bar.ttl
           /\ BarForPair(p, a, b).depth <= bar.depth
           /\ bar.oversight => BarForPair(p, a, b).oversight
<1>0. Zoned(ZoneOf[a]) /\ Zoned(ZoneOf[b])
  BY ZonesAssumption DEF Zoned, Level
<1>1. ASSUME NEW c \in {a, b}, NEW z \in Ancestors(ZoneOf[c]),
             \/ z \in DOMAIN p.zones /\ bar = p.zones[z]
             \/ bar = ForTrust(Trust(z))
      PROVE /\ bar \in Bar /\ bar.approval <= BarFor(p, ZoneOf[c]).approval
            /\ BarFor(p, ZoneOf[c]).ttl <= bar.ttl /\ BarFor(p, ZoneOf[c]).depth <= bar.depth
            /\ bar.oversight => BarFor(p, ZoneOf[c]).oversight
            /\ BarFor(p, ZoneOf[c]) \in Bar
  <2>1. Zoned(ZoneOf[c])
    BY <1>0
  <2>2. Trust(z) = Trust(ZoneOf[c])
    BY <2>1, AncestorTrust
  <2>3. bar \in {ForTrust(Trust(ZoneOf[c]))}
            \cup {p.zones[y] : y \in Ancestors(ZoneOf[c]) \cap DOMAIN p.zones}
    BY <1>1, <2>2
  <2> QED
    BY <2>1, <2>3, BarForStrict
<1>2. \E c \in {a, b} : \E z \in Ancestors(ZoneOf[c]) :
          (z \in DOMAIN p.zones /\ bar = p.zones[z]) \/ bar = ForTrust(Trust(z))
  BY DEF ChainBars
<1>3. PICK c \in {a, b} : /\ bar \in Bar /\ bar.approval <= BarFor(p, ZoneOf[c]).approval
                          /\ BarFor(p, ZoneOf[c]).ttl <= bar.ttl
                          /\ BarFor(p, ZoneOf[c]).depth <= bar.depth
                          /\ bar.oversight => BarFor(p, ZoneOf[c]).oversight
  BY <1>1, <1>2
<1> DEFINE own == BarFor(p, ZoneOf[c])
           pair == BarForPair(p, a, b)
<1>4. /\ own \in Bar /\ pair \in Bar /\ own.approval <= pair.approval /\ pair.ttl <= own.ttl
      /\ pair.depth <= own.depth /\ (own.oversight => pair.oversight)
  BY BarForPairStrict
<1> HIDE DEF own, pair
<1>5. /\ own.approval \in Nat /\ own.ttl \in Nat /\ own.depth \in Nat
      /\ pair.approval \in Nat /\ pair.ttl \in Nat /\ pair.depth \in Nat
      /\ bar.approval \in Nat /\ bar.ttl \in Nat /\ bar.depth \in Nat
  BY <1>3, <1>4 DEF Bar
<1>6. /\ bar \in Bar /\ bar.approval <= own.approval /\ own.ttl <= bar.ttl
      /\ own.depth <= bar.depth /\ (bar.oversight => own.oversight)
  BY <1>3 DEF own
<1>7. /\ bar.approval <= pair.approval /\ pair.ttl <= bar.ttl /\ pair.depth <= bar.depth
  BY <1>4, <1>5, <1>6
<1>8. bar.oversight => pair.oversight
  BY <1>4, <1>6
<1> QED
  BY <1>6, <1>7, <1>8 DEF pair

\* What a rule that does not match says of the terms.
NoOverride == [rate |-> Unlimited, depth |-> Unlimited, oversight |-> Unlimited, blocking |-> FALSE]

\* What a rule's override reads as.
LEMMA ToTermsFields ==
    ASSUME NEW o
    PROVE  /\ ToTerms(o).lists = NoneListed
           /\ ToTerms(o).closed = NotClosed
           /\ ToTerms(o).rate = o.rate /\ ToTerms(o).depth = o.depth
           /\ ToTerms(o).oversight = o.oversight /\ ToTerms(o).blocking = o.blocking
  BY DEF ToTerms

\* A rule, or the default, says nothing about the lists.
LEMMA RulingTyped ==
    ASSUME NEW p \in Policies, NEW req, NEW a, NEW b, NEW t
    PROVE  LET r == Ruling(p, req, a, b, t)
           IN /\ r.decision \in {"allow", "ask", "deny"} /\ r.approval \in 0 .. 2 /\ r.ttl \in Nat
              /\ r.terms.lists = NoneListed
              /\ r.terms.closed = NotClosed
              /\ r.terms.rate \in Nat /\ r.terms.depth \in Nat
              /\ r.terms.oversight \in 0 .. Unlimited /\ r.terms.blocking \in BOOLEAN
<1> DEFINE hit == {n \in DOMAIN p.rules : Matches(p.rules[n], req, a, b, t)}
<1>1. CASE hit = {}
  <2>1. Ruling(p, req, a, b, t) = [decision |-> p.default, approval |-> 0, ttl |-> Unlimited,
                                   terms |-> ToTerms(NoOverride)]
    BY <1>1 DEF Ruling, NoOverride
  <2>2. p.default \in {"allow", "ask", "deny"}
    BY PoliciesAssumption
  <2>3. /\ NoOverride.rate \in Nat /\ NoOverride.depth \in Nat /\ Unlimited \in Nat
        /\ NoOverride.oversight \in 0 .. Unlimited /\ NoOverride.blocking \in BOOLEAN
    BY DEF NoOverride, Unlimited
  <2> DEFINE r == Ruling(p, req, a, b, t)
             none == ToTerms(NoOverride)
  <2>4. /\ none.lists = NoneListed /\ none.closed = NotClosed
        /\ none.rate \in Nat /\ none.depth \in Nat
        /\ none.oversight \in 0 .. Unlimited /\ none.blocking \in BOOLEAN
    BY <2>3, ToTermsFields
  <2> HIDE DEF hit, none, r
  <2>5. r.decision = p.default /\ r.approval = 0 /\ r.ttl = Unlimited /\ r.terms = none
    BY <2>1 DEF r, none
  <2> QED
    BY <2>2, <2>3, <2>4, <2>5 DEF r
<1>2. CASE hit # {}
  <2> DEFINE rule == p.rules[Min(hit)]
  <2>1. Ruling(p, req, a, b, t) = [decision |-> rule.decision, approval |-> rule.approval,
                                   ttl |-> rule.ttl, terms |-> ToTerms(rule.terms)]
    BY <1>2 DEF Ruling
  <2>2. hit \in SUBSET Nat /\ hit \subseteq DOMAIN p.rules
    <3> DEFINE R == p.rules
    <3>1. R \in Seq({R[n] : n \in DOMAIN R})
      BY PoliciesAssumption
    <3>2. DOMAIN R = 1 .. Len(R) /\ Len(R) \in Nat
      BY <3>1
    <3> QED
      BY <3>2
  <2> HIDE DEF hit
  <2>3. Min(hit) \in DOMAIN p.rules
    BY <1>2, <2>2, NatsHaveMin
  <2>4. /\ rule.decision \in {"allow", "ask", "deny"} /\ rule.approval \in 0 .. 2
        /\ rule.ttl \in Nat /\ rule.terms.rate \in Nat /\ rule.terms.depth \in Nat
        /\ rule.terms.oversight \in 0 .. Unlimited /\ rule.terms.blocking \in BOOLEAN
    BY <2>3, PoliciesAssumption
  <2> DEFINE r == Ruling(p, req, a, b, t)
             given == ToTerms(rule.terms)
  <2>5. /\ given.lists = NoneListed /\ given.closed = NotClosed
        /\ given.rate \in Nat /\ given.depth \in Nat
        /\ given.oversight \in 0 .. Unlimited /\ given.blocking \in BOOLEAN
    BY <2>4, ToTermsFields
  <2> HIDE DEF rule, given, r
  <2>6. /\ r.decision = rule.decision /\ r.approval = rule.approval /\ r.ttl = rule.ttl
        /\ r.terms = given
    BY <2>1 DEF r, given
  <2> QED
    BY <2>4, <2>5, <2>6 DEF r
<1> QED
  BY <1>1, <1>2

\* The least of three numbers.
LEMMA MinOfThree ==
    ASSUME NEW a \in Nat, NEW b \in Nat, NEW c \in Nat
    PROVE  /\ Min({a, b, c}) \in Nat
           /\ Min({a, b, c}) <= a /\ Min({a, b, c}) <= b /\ Min({a, b, c}) <= c
<1>1. {a, b, c} \in SUBSET Nat /\ {a, b, c} # {}
  OBVIOUS
<1>2. Min({a, b, c}) \in {a, b, c} /\ \A y \in {a, b, c} : Min({a, b, c}) <= y
  BY <1>1, NatsHaveMin
<1> QED
  BY <1>2

\* Its oversight threshold is the request's, or none laxer than the rule's.
Overseen(met, asked, rule) ==
    /\ met.oversight \in 0 .. Unlimited /\ met.oversight <= asked.oversight
    /\ \/ met.oversight <= rule.oversight
       \/ asked.oversight # Unlimited /\ met.oversight = asked.oversight

\* Its evidence blocks where either says so.
Obliged(met, asked, rule) ==
    met.blocking \in BOOLEAN /\ (asked.blocking => met.blocking) /\ (rule.blocking => met.blocking)

\* The meet of a narrowed request with a rule: nothing the request, the bar or
\* the rule caps
\* is raised, but for the oversight threshold, and the lists are the request's unless they close it.
LEMMA MeetNarrows ==
    ASSUME NEW terms, DOMAIN terms = {"lists", "closed", "rate", "depth", "oversight", "blocking"},
           terms.rate \in Nat, terms.depth \in Nat, terms.lists \in [Lists -> {terms.lists[l] : l \in Lists}],
           terms.closed = NotClosed, NEW bar \in Bar, NEW rule,
           terms.oversight \in 0 .. Unlimited, terms.blocking \in BOOLEAN,
           rule.lists = NoneListed, rule.closed = NotClosed,
           rule.rate \in Nat, rule.depth \in Nat,
           rule.oversight \in 0 .. Unlimited, rule.blocking \in BOOLEAN
    PROVE  LET met == Meet(Narrowed(terms, bar), rule)
           IN /\ met.lists = terms.lists /\ met.closed = NotClosed
              /\ met.rate \in Nat /\ met.rate <= terms.rate
              /\ met.depth \in Nat /\ met.depth <= terms.depth /\ met.depth <= bar.depth
              /\ bar.oversight => met.oversight # Unlimited
              /\ DOMAIN met = {"lists", "closed", "rate", "depth", "oversight", "blocking"}
              /\ met.rate <= rule.rate /\ met.depth <= rule.depth
              /\ Overseen(met, terms, rule) /\ Obliged(met, terms, rule)
<1> DEFINE n == Narrowed(terms, bar)
           met == Meet(n, rule)
<1>0. bar.depth \in Nat
  BY DEF Bar
<1>1. /\ n.lists = terms.lists /\ n.closed = terms.closed /\ n.rate = terms.rate
      /\ n.depth = Min({terms.depth, bar.depth}) /\ n.blocking = terms.blocking
      /\ n.oversight = IF bar.oversight /\ terms.oversight = Unlimited THEN 0 ELSE terms.oversight
  BY DEF Narrowed
<1>2. n.depth \in Nat /\ n.depth <= terms.depth /\ n.depth <= bar.depth
  BY <1>0, <1>1, MinOfTwo
<1>3. bar.oversight => n.oversight # Unlimited
  BY <1>1 DEF Unlimited
<1> HIDE DEF n
<1>4. /\ MeetLists(n, rule).closed = NotClosed
      /\ MeetLists(n, rule).lists = terms.lists
  <2>1. \A l \in Lists : ~ n.closed[l] /\ ~ rule.closed[l] /\ rule.lists[l] = {}
    BY <1>1 DEF NotClosed, NoneListed
  <2> DEFINE closed(l) == \/ n.closed[l] \/ rule.closed[l]
                          \/ /\ n.lists[l] # {} /\ rule.lists[l] # {}
                             /\ n.lists[l] \cap rule.lists[l] = {}
             kept(l) == IF closed(l) THEN {}
                       ELSE IF n.lists[l] = {} THEN rule.lists[l]
                       ELSE IF rule.lists[l] = {} THEN n.lists[l]
                       ELSE n.lists[l] \cap rule.lists[l]
  <2>5. MeetLists(n, rule) = [lists |-> [l \in Lists |-> kept(l)],
                              closed |-> [l \in Lists |-> closed(l)]]
    BY DEF MeetLists
  <2>6. \A l \in Lists : closed(l) = FALSE /\ kept(l) = n.lists[l]
    BY <2>1
  <2> HIDE DEF closed, kept
  <2>7. [l \in Lists |-> closed(l)] = NotClosed
    BY <2>6, Zenon DEF NotClosed
  <2>2. MeetLists(n, rule).closed = NotClosed
    BY <2>5, <2>7
  <2>3. MeetLists(n, rule).lists = [l \in Lists |-> n.lists[l]]
    BY <2>5, <2>6
  <2>4. [l \in Lists |-> n.lists[l]] = terms.lists
    BY <1>1
  <2> QED
    BY <2>2, <2>3, <2>4
<1>5. met = [lists |-> MeetLists(n, rule).lists, closed |-> MeetLists(n, rule).closed,
             rate |-> Min({n.rate, rule.rate}), depth |-> Min({n.depth, rule.depth}),
             oversight |-> IF n.oversight # Unlimited THEN n.oversight ELSE rule.oversight,
             blocking |-> n.blocking \/ rule.blocking]
  BY DEF Meet
<1>6. /\ Min({n.rate, rule.rate}) \in Nat /\ Min({n.rate, rule.rate}) <= n.rate
      /\ Min({n.depth, rule.depth}) \in Nat /\ Min({n.depth, rule.depth}) <= n.depth
      /\ Min({n.rate, rule.rate}) <= rule.rate /\ Min({n.depth, rule.depth}) <= rule.depth
  BY <1>1, <1>2, MinOfTwo
<1> DEFINE rate == Min({n.rate, rule.rate})
           depth == Min({n.depth, rule.depth})
           oversight == IF n.oversight # Unlimited THEN n.oversight ELSE rule.oversight
           blocking == n.blocking \/ rule.blocking
           L == MeetLists(n, rule)
<1>7. bar.oversight => oversight # Unlimited
  BY <1>3
<1>11. /\ oversight \in 0 .. Unlimited /\ oversight <= terms.oversight
       /\ \/ oversight <= rule.oversight
          \/ terms.oversight # Unlimited /\ oversight = terms.oversight
  BY <1>1, SMT DEF Unlimited
<1>12. blocking \in BOOLEAN /\ (terms.blocking => blocking) /\ (rule.blocking => blocking)
  BY <1>1, Zenon
<1> HIDE DEF rate, depth, oversight, blocking, L
<1>8. met = [lists |-> L.lists, closed |-> L.closed, rate |-> rate, depth |-> depth,
             oversight |-> oversight, blocking |-> blocking]
  BY <1>5 DEF rate, depth, oversight, blocking, L
<1> HIDE DEF met
<1>9. /\ met.lists = terms.lists /\ met.closed = NotClosed
      /\ met.rate = rate /\ met.depth = depth /\ met.oversight = oversight
      /\ met.blocking = blocking
      /\ DOMAIN met = {"lists", "closed", "rate", "depth", "oversight", "blocking"}
  BY <1>4, <1>8 DEF L
<1>10. /\ rate \in Nat /\ rate <= terms.rate /\ depth \in Nat
       /\ depth <= terms.depth /\ depth <= bar.depth
       /\ rate <= rule.rate /\ depth <= rule.depth
  BY <1>0, <1>1, <1>2, <1>6 DEF rate, depth
<1>13. Overseen(met, terms, rule)
  BY <1>9, <1>11 DEF Overseen
<1>14. Obliged(met, terms, rule)
  BY <1>9, <1>12, Zenon DEF Obliged
<1> QED
  BY <1>7, <1>9, <1>10, <1>13, <1>14 DEF met, n

\* What may be asked of Evaluate: a request, or a contract that is asked for again.
AskedFor(req) ==
    /\ DOMAIN req = {"terms", "ttl", "items", "write"}
    /\ DOMAIN req.terms = {"lists", "closed", "rate", "depth", "oversight", "blocking"}
    /\ req.ttl \in Nat /\ req.terms.rate \in Nat /\ req.terms.depth \in Nat
    /\ req.terms.oversight \in 0 .. Unlimited /\ req.terms.blocking \in BOOLEAN
    /\ req.terms.closed = NotClosed
    /\ req.terms.lists \in [Lists -> {req.terms.lists[l] : l \in Lists}]

\* What a decision is bound by: the request's terms, the bar of the pair, the
\* crossing and the rule.
WithinBar(req, terms, ttl, bar) ==
    /\ ttl \in Nat /\ ttl <= req.ttl /\ ttl <= bar.ttl
    /\ terms.lists = req.terms.lists /\ terms.closed = NotClosed
    /\ terms.rate \in Nat /\ terms.rate <= req.terms.rate
    /\ terms.depth \in Nat /\ terms.depth <= req.terms.depth /\ terms.depth <= bar.depth
    /\ (bar.oversight => terms.oversight # Unlimited)
    /\ terms.oversight \in 0 .. Unlimited /\ terms.blocking \in BOOLEAN
    /\ DOMAIN terms = {"lists", "closed", "rate", "depth", "oversight", "blocking"}

\* The lifetime a rule is asked about, and the rule, or the default, that decides.
Capped(p, req, a, b) == Min({req.ttl, IssuerMaxTtl, BarForPair(p, a, b).ttl})
Deciding(p, req, a, b) == Ruling(p, req, a, b, Capped(p, req, a, b))

\* What is decided is bound by the rule too.
WithinRuling(req, terms, ttl, rule) ==
    /\ ttl <= rule.ttl /\ terms.rate <= rule.terms.rate /\ terms.depth <= rule.terms.depth
    /\ Overseen(terms, req.terms, rule.terms) /\ Obliged(terms, req.terms, rule.terms)

\* The floor asks for as many humans as the bar and as the rule.
LEMMA FloorMet ==
    ASSUME NEW bar \in Bar, NEW rule, rule.approval \in 0 .. 2
    PROVE  /\ Floor(bar, rule) \in 0 .. 2 /\ bar.approval <= Floor(bar, rule)
           /\ bar.approval \in 0 .. 2 /\ rule.approval <= Floor(bar, rule)
<1> DEFINE S == {bar.approval, rule.approval}
<1>1. S \in SUBSET (0 .. 2) /\ S # {} /\ bar.approval \in S /\ rule.approval \in S
  BY DEF Bar
<1>2. Floor(bar, rule) = Max(S)
  BY DEF Floor
<1> HIDE DEF S
<1>3. Max(S) \in S /\ \A y \in S : y <= Max(S)
  BY <1>1, MaxToTwo
<1> QED
  BY <1>1, <1>2, <1>3

\* The fold: what is decided keeps within the request and the bar, an allowance only
\* where nothing doubts it, and a no only from the crossing or from a rule.
LEMMA EvaluateNarrows ==
    ASSUME NEW p \in Policies, NEW a \in Side, NEW b \in Side, NEW req, AskedFor(req)
    PROVE  LET e == Evaluate(p, req, a, b)
               bar == BarForPair(p, a, b)
               rule == Deciding(p, req, a, b)
           IN /\ Capped(p, req, a, b) \in 0 .. IssuerMaxTtl
              /\ rule.approval \in 0 .. 2
              /\ WithinBar(req, e.terms, e.ttl, bar)
              /\ WithinRuling(req, e.terms, e.ttl, rule)
              /\ (bar.approval = 2 \/ rule.approval = 2 => e.dual)
              /\ e.decision \in {"allow", "ask", "deny"}
              /\ (e.decision # "deny" <=>
                    /\ (p.strict => Permitted(p, ZoneOf[a], ZoneOf[b]))
                    /\ rule.decision # "deny")
              /\ (e.decision = "allow" =>
                    /\ bar.approval = 0 /\ rule.approval = 0 /\ rule.decision = "allow"
                    /\ {a, b} \cap unproven = {} /\ ~ CapBlocks(p, req, b))
<1> DEFINE bar == BarForPair(p, a, b)
           capped == Min({req.ttl, IssuerMaxTtl, bar.ttl})
           rule == Ruling(p, req, a, b, capped)
           terms == Meet(Narrowed(req.terms, bar), rule.terms)
           floor == Floor(bar, rule)
           decision == Decided(p, req, a, b, rule, terms, floor)
           ttl == Min({capped, rule.ttl})
<1>1. Evaluate(p, req, a, b) = [decision |-> decision, terms |-> terms, ttl |-> ttl,
                                dual |-> floor = 2, distinct |-> bar.distinct]
  BY DEF Evaluate
<1>2. bar \in Bar
  BY BarForPairStrict
<1>3. req.ttl \in Nat /\ bar.ttl \in Nat /\ IssuerMaxTtl \in Nat
  BY <1>2 DEF AskedFor, Bar, IssuerMaxTtl
<1>6. rule = Deciding(p, req, a, b) /\ capped = Capped(p, req, a, b)
  BY DEF Deciding, Capped
<1> HIDE DEF bar
<1>4. capped \in Nat /\ capped <= req.ttl /\ capped <= bar.ttl /\ capped <= IssuerMaxTtl
  BY <1>3, MinOfThree
<1> HIDE DEF capped
<1>5. /\ rule.decision \in {"allow", "ask", "deny"} /\ rule.approval \in 0 .. 2
      /\ rule.ttl \in Nat /\ rule.terms.lists = NoneListed /\ rule.terms.closed = NotClosed
      /\ rule.terms.rate \in Nat /\ rule.terms.depth \in Nat
      /\ rule.terms.oversight \in 0 .. Unlimited /\ rule.terms.blocking \in BOOLEAN
  BY RulingTyped
<1> HIDE DEF rule
<1>7. ttl \in Nat /\ ttl <= req.ttl /\ ttl <= bar.ttl /\ ttl <= rule.ttl
  <2>1. ttl \in Nat /\ ttl <= capped /\ ttl <= rule.ttl
    BY <1>4, <1>5, MinOfTwo
  <2> QED
    BY <1>3, <1>4, <2>1
<1>8. /\ terms.lists = req.terms.lists /\ terms.closed = NotClosed
      /\ terms.rate \in Nat /\ terms.rate <= req.terms.rate
      /\ terms.depth \in Nat /\ terms.depth <= req.terms.depth /\ terms.depth <= bar.depth
      /\ (bar.oversight => terms.oversight # Unlimited)
      /\ DOMAIN terms = {"lists", "closed", "rate", "depth", "oversight", "blocking"}
      /\ terms.rate <= rule.terms.rate /\ terms.depth <= rule.terms.depth
      /\ Overseen(terms, req.terms, rule.terms) /\ Obliged(terms, req.terms, rule.terms)
  <2> DEFINE asked == req.terms
             given == rule.terms
  <2>1. /\ DOMAIN asked = {"lists", "closed", "rate", "depth", "oversight", "blocking"}
        /\ asked.rate \in Nat /\ asked.depth \in Nat
        /\ asked.oversight \in 0 .. Unlimited /\ asked.blocking \in BOOLEAN
        /\ asked.closed = NotClosed /\ asked.lists \in [Lists -> {asked.lists[l] : l \in Lists}]
    BY DEF AskedFor
  <2>2. /\ given.lists = NoneListed /\ given.closed = NotClosed
        /\ given.rate \in Nat /\ given.depth \in Nat
        /\ given.oversight \in 0 .. Unlimited /\ given.blocking \in BOOLEAN
    BY <1>5
  <2>3. terms = Meet(Narrowed(asked, bar), given)
    OBVIOUS
  <2> HIDE DEF asked, given, terms
  <2>4. /\ terms.lists = asked.lists /\ terms.closed = NotClosed
        /\ terms.rate \in Nat /\ terms.rate <= asked.rate
        /\ terms.depth \in Nat /\ terms.depth <= asked.depth /\ terms.depth <= bar.depth
        /\ (bar.oversight => terms.oversight # Unlimited)
        /\ DOMAIN terms = {"lists", "closed", "rate", "depth", "oversight", "blocking"}
        /\ terms.rate <= given.rate /\ terms.depth <= given.depth
        /\ Overseen(terms, asked, given) /\ Obliged(terms, asked, given)
    BY <1>2, <2>1, <2>2, <2>3, MeetNarrows
  <2> QED
    BY <2>4 DEF asked, given
<1> HIDE DEF terms, ttl
<1>9. WithinBar(req, terms, ttl, bar) /\ WithinRuling(req, terms, ttl, rule)
  BY <1>7, <1>8 DEF WithinBar, WithinRuling, Overseen, Obliged
<1>10. /\ floor \in 0 .. 2 /\ bar.approval <= floor /\ bar.approval \in 0 .. 2
       /\ rule.approval <= floor
  BY <1>2, <1>5, FloorMet
<1> HIDE DEF floor
<1>11. ~ IsClosed(terms)
  BY <1>8, Zenon DEF IsClosed, NotClosed
<1>12. /\ decision \in {"allow", "ask", "deny"}
       /\ (decision # "deny" <=> ((p.strict => Permitted(p, ZoneOf[a], ZoneOf[b]))
                                   /\ rule.decision # "deny"))
       /\ (decision = "allow" =>
             (/\ ~ (floor > 0) /\ rule.decision = "allow"
              /\ {a, b} \cap unproven = {} /\ ~ CapBlocks(p, req, b)))
  BY <1>5, <1>11 DEF Decided
<1> HIDE DEF decision
<1>13. /\ (bar.approval = 2 \/ rule.approval = 2 => floor = 2)
       /\ (~ (floor > 0) => bar.approval = 0 /\ rule.approval = 0)
  BY <1>5, <1>10
<1> DEFINE dual == floor = 2
<1>14. dual \in BOOLEAN /\ (bar.approval = 2 \/ rule.approval = 2 => dual)
  BY <1>13
<1> DEFINE e == Evaluate(p, req, a, b)
           distinct == bar.distinct
<1> HIDE DEF dual, distinct
<1>15. e = [decision |-> decision, terms |-> terms, ttl |-> ttl, dual |-> dual,
            distinct |-> distinct]
  BY <1>1 DEF dual, distinct
<1> HIDE DEF e
<1>16. /\ e.decision = decision /\ e.terms = terms /\ e.ttl = ttl /\ e.dual = dual
  BY <1>15
<1>17. /\ WithinBar(req, e.terms, e.ttl, bar) /\ WithinRuling(req, e.terms, e.ttl, rule)
       /\ e.decision \in {"allow", "ask", "deny"}
       /\ (e.decision # "deny" <=> ((p.strict => Permitted(p, ZoneOf[a], ZoneOf[b]))
                                     /\ rule.decision # "deny"))
       /\ (e.decision = "allow" =>
             (/\ bar.approval = 0 /\ rule.approval = 0 /\ rule.decision = "allow"
              /\ {a, b} \cap unproven = {} /\ ~ CapBlocks(p, req, b)))
  BY <1>9, <1>12, <1>13, <1>16
<1>18. bar.approval = 2 \/ rule.approval = 2 => e.dual
  BY <1>14, <1>16
<1>19. capped \in 0 .. IssuerMaxTtl /\ rule.approval \in 0 .. 2
  BY <1>3, <1>4, <1>5
<1> QED
  BY <1>6, <1>17, <1>18, <1>19 DEF e, bar

\* A request that may be decided, or a contract, keeps within what it was decided from.
Decision(q) ==
    /\ q.caller \in Side /\ q.callee \in Side /\ q.req \in Asks /\ q.under \in Policies
    /\ WithinBar(q.req, q.terms, q.ttl, BarForPair(q.under, q.caller, q.callee))
    /\ WithinRuling(q.req, q.terms, q.ttl, Deciding(q.under, q.req, q.caller, q.callee))
    /\ (q.under.strict => Permitted(q.under, ZoneOf[q.caller], ZoneOf[q.callee]))
    /\ Deciding(q.under, q.req, q.caller, q.callee).decision # "deny"
    /\ Deciding(q.under, q.req, q.caller, q.callee).approval \in 0 .. 2

\* Of a request that waits: two humans are asked where the bar or the rule asks for two.
Undecided(q) ==
    /\ Decision(q)
    /\ (BarForPair(q.under, q.caller, q.callee).approval = 2 => q.dual)
    /\ (Deciding(q.under, q.req, q.caller, q.callee).approval = 2 => q.dual)

\* Of a contract nobody was asked about: the standing limits of its policy, but for
\* those that count contracts.
Unasked(k) ==
    LET cap == k.under.standing
    IN /\ k.proven /\ cap.enabled /\ k.at <= cap.reviewed
       /\ cap.minTier <= TierOf[k.callee] /\ (k.req.write => cap.allowWrite)
       /\ Cardinality(k.req.items) <= cap.maxTools
       /\ Deciding(k.under, k.req, k.caller, k.callee).decision = "allow"

\* Of a contract: as many humans as every bar and the rule ask for, and none only
\* where the standing limits agreed.
Given(k) ==
    /\ Decision(k)
    /\ k.by \in 0 .. 2 /\ BarForPair(k.under, k.caller, k.callee).approval <= k.by
    /\ Deciding(k.under, k.req, k.caller, k.callee).approval <= k.by
    /\ (k.mode = "standing" => Unasked(k))

\* The contracts of k's policy in the window that ends with k.
Beside(k) == {j \in InWindow(k.under, k.at) : j.under = k.under}

\* The inductive invariant: every request and every contract keeps to the policy it
\* was decided under, whatever is in force now, and no window holds too many of the
\* contracts nobody was asked about.
PolicyInv ==
    /\ pol \in Policies /\ age \in Nat /\ IsFiniteSet(minted)
    /\ \A q \in pending : Undecided(q)
    /\ \A k \in minted : /\ Given(k) /\ k.at \in 0 .. age
                         /\ Standing(k) => Cardinality(Beside(k)) <= k.under.standing.perWindow

\* A request is one that may be asked of Evaluate.
LEMMA AsksAsked ==
    ASSUME NEW req \in Asks
    PROVE  AskedFor(req) /\ req.terms.depth <= Unlimited
  BY AsksAssumption DEF AskedFor, Unlimited

\* The wire keeps all that a contract is bound by.
LEMMA WireWithin ==
    ASSUME NEW req, NEW terms, NEW ttl, NEW bar, WithinBar(req, terms, ttl, bar)
    PROVE  /\ WithinBar(req, OnTheWire(terms), ttl, bar)
           /\ \A rule : WithinRuling(req, terms, ttl, rule) => WithinRuling(req, OnTheWire(terms), ttl, rule)
<1> DEFINE w == OnTheWire(terms)
<1>1. /\ w.lists = terms.lists /\ w.closed = NotClosed /\ w.rate = terms.rate
      /\ w.depth = terms.depth /\ w.oversight = terms.oversight /\ DOMAIN w = DOMAIN terms
      /\ w.blocking = terms.blocking
  BY DEF OnTheWire, WithinBar
<1> HIDE DEF w
<1>2. /\ WithinBar(req, w, ttl, bar)
      /\ \A rule : WithinRuling(req, terms, ttl, rule) => WithinRuling(req, w, ttl, rule)
  BY <1>1 DEF WithinBar, WithinRuling, Overseen, Obliged
<1> QED
  BY <1>2 DEF w

\* Contracting keeps the decision.
LEMMA ContractedDecision ==
    ASSUME NEW q, Decision(q), NEW mode, NEW by
    PROVE  /\ Decision(Contracted(q, mode, by))
           /\ Contracted(q, mode, by).under = q.under
           /\ Contracted(q, mode, by).caller = q.caller
           /\ Contracted(q, mode, by).callee = q.callee /\ Contracted(q, mode, by).req = q.req
           /\ Contracted(q, mode, by).mode = mode /\ Contracted(q, mode, by).by = by
           /\ Contracted(q, mode, by).at = age
           /\ (Contracted(q, mode, by).proven <=> {q.caller, q.callee} \cap unproven = {})
<1> DEFINE k == Contracted(q, mode, by)
           proven == {q.caller, q.callee} \cap unproven = {}
           wire == OnTheWire(q.terms)
<1>1. k = [caller |-> q.caller, callee |-> q.callee, req |-> q.req, terms |-> wire,
           ttl |-> q.ttl, mode |-> mode, by |-> by, under |-> q.under, at |-> age,
           proven |-> proven]
  BY DEF Contracted
<1>2. proven \in BOOLEAN
  OBVIOUS
<1> HIDE DEF k, proven, wire
<1>3. /\ k.caller = q.caller /\ k.callee = q.callee /\ k.req = q.req /\ k.ttl = q.ttl
      /\ k.terms = wire /\ k.under = q.under /\ k.mode = mode /\ k.by = by /\ k.at = age
      /\ k.proven = proven
  BY <1>1
<1>4. /\ WithinBar(q.req, wire, q.ttl, BarForPair(q.under, q.caller, q.callee))
      /\ WithinRuling(q.req, wire, q.ttl, Deciding(q.under, q.req, q.caller, q.callee))
  BY WireWithin DEF Decision, wire
<1>5. Decision(k)
  BY <1>3, <1>4 DEF Decision
<1> QED
  BY <1>2, <1>3, <1>5 DEF k, proven

\* It holds at first: nothing was asked.
LEMMA PolicyInitially == PolicyInit => PolicyInv
  BY FS_EmptySet DEF PolicyInit, PolicyInv

\* Fewer contracts, no fuller windows.
LEMMA FewerKeeps ==
    ASSUME PolicyInv, minted' \subseteq minted, age' \in Nat, age <= age', pol' \in Policies,
           \A q \in pending' : Undecided(q)
    PROVE  PolicyInv'
<1>1. IsFiniteSet(minted')
  BY FS_Subset DEF PolicyInv
<1>2. ASSUME NEW k \in minted' PROVE /\ Given(k) /\ k.at \in 0 .. age'
                                    /\ Standing(k) => Cardinality(Beside(k)') <= k.under.standing.perWindow
  <2>1. Given(k) /\ k.at \in 0 .. age /\ (Standing(k) => Cardinality(Beside(k)) <= k.under.standing.perWindow)
    BY DEF PolicyInv
  <2>2. Beside(k)' \subseteq Beside(k) /\ Beside(k) \subseteq minted
    BY DEF Beside, InWindow
  <2> DEFINE held == Beside(k)
             left == Beside(k)'
  <2>3. IsFiniteSet(held) /\ IsFiniteSet(minted)
    BY <2>2, FS_Subset DEF PolicyInv
  <2>4. left \subseteq held
    BY <2>2
  <2>7. k.under.standing.perWindow \in Nat
    BY <2>1, PoliciesAssumption DEF Given, Decision
  <2>8. k.at \in 0 .. age'
    BY <2>1 DEF PolicyInv
  <2> HIDE DEF held, left
  <2>5. /\ Cardinality(left) \in Nat /\ Cardinality(held) \in Nat
        /\ Cardinality(left) <= Cardinality(held)
    BY <2>3, <2>4, FS_Subset, FS_CardinalityType
  <2>6. Cardinality(held) <= k.under.standing.perWindow => Cardinality(left) <= k.under.standing.perWindow
    BY <2>5, <2>7
  <2> QED
    BY <2>1, <2>6, <2>8 DEF held, left
<1> QED
  BY <1>1, <1>2 DEF PolicyInv

\* One more contract: the window that ends now has room for it.
LEMMA OneMoreKeeps ==
    ASSUME PolicyInv, NEW c, minted' = minted \cup {c}, age' = age, pol' = pol,
           \A q \in pending' : Undecided(q), Given(c), c.at = age, c.under = pol,
           Standing(c) => Cardinality(InWindow(pol, age)) < pol.standing.perWindow
    PROVE  PolicyInv'
<1>1. IsFiniteSet(minted) /\ IsFiniteSet(minted') /\ age \in Nat /\ pol \in Policies
  BY FS_AddElement DEF PolicyInv
<1>2. \A k \in minted' : Given(k) /\ k.at \in 0 .. age
  BY <1>1 DEF PolicyInv
<1>3. pol.standing.perWindow \in Nat
  BY <1>1, PoliciesAssumption
<1>4. ASSUME NEW k \in minted', Standing(k) PROVE Cardinality(Beside(k)') <= k.under.standing.perWindow
  <2> DEFINE left == Beside(k)'
             old == InWindow(pol, age)
  <2>1. CASE ~ Standing(c) \/ k.at # age \/ k.under # pol
    <3>1. k \in minted
      BY <1>4, <2>1
    <3>2. left = Beside(k)
      <4>1. c \notin left
        BY <1>2, <2>1 DEF Beside, InWindow
      <4> QED
        BY <4>1 DEF Beside, InWindow
    <3> QED
      BY <1>4, <3>1, <3>2 DEF PolicyInv
  <2>2. CASE Standing(c) /\ k.at = age /\ k.under = pol
    <3>1. left \subseteq old \cup {c} /\ old \subseteq minted
      BY <2>2 DEF Beside, InWindow
    <3> HIDE DEF left, old
    <3>2. IsFiniteSet(old) /\ IsFiniteSet(old \cup {c})
      BY <1>1, <3>1, FS_Subset, FS_AddElement
    <3>3. Cardinality(old) \in Nat /\ Cardinality(old \cup {c}) <= Cardinality(old) + 1
          /\ Cardinality(old \cup {c}) \in Nat
      BY <3>2, FS_AddElement, FS_CardinalityType
    <3>4. Cardinality(left) <= Cardinality(old \cup {c}) /\ Cardinality(left) \in Nat
      BY <3>1, <3>2, FS_Subset, FS_CardinalityType
    <3>5. Cardinality(old) < pol.standing.perWindow
      BY <2>2 DEF old
    <3>6. Cardinality(left) <= pol.standing.perWindow
      BY <1>3, <3>3, <3>4, <3>5
    <3> QED
      BY <2>2, <3>6 DEF left
  <2> QED
    BY <2>1, <2>2
<1> QED
  BY <1>1, <1>2, <1>4 DEF PolicyInv

\* A request is decided within the policy in force.
LEMMA AskKeeps ==
    ASSUME PolicyInv, NEW req \in Asks, NEW a \in Side, NEW b \in Side, AskConnection(req, a, b)
    PROVE  PolicyInv'
<1> DEFINE e == Evaluate(pol, req, a, b)
           bar == BarForPair(pol, a, b)
           q == [caller |-> a, callee |-> b, req |-> req, terms |-> e.terms, ttl |-> e.ttl,
                 dual |-> e.dual, distinct |-> e.distinct, under |-> pol]
<1>1. pol \in Policies /\ age \in Nat /\ pol' = pol /\ age' = age
  BY DEF PolicyInv, AskConnection
<1>2. AskedFor(req)
  BY AsksAsked
<1> DEFINE rule == Deciding(pol, req, a, b)
<1>3. /\ WithinBar(req, e.terms, e.ttl, bar) /\ WithinRuling(req, e.terms, e.ttl, rule)
      /\ rule.approval \in 0 .. 2 /\ (bar.approval = 2 \/ rule.approval = 2 => e.dual)
      /\ (e.decision # "deny" <=>
            /\ (pol.strict => Permitted(pol, ZoneOf[a], ZoneOf[b]))
            /\ rule.decision # "deny")
      /\ (e.decision = "allow" =>
            /\ bar.approval = 0 /\ rule.approval = 0 /\ rule.decision = "allow"
            /\ {a, b} \cap unproven = {} /\ ~ CapBlocks(pol, req, b))
  BY <1>1, <1>2, EvaluateNarrows
<1>4. /\ minted' = IF e.decision = "allow"
                    THEN minted \cup {Contracted(q, "standing", 0)} ELSE minted
      /\ pending' = IF e.decision = "ask" THEN pending \cup {q} ELSE pending
  BY DEF AskConnection
<1> HIDE DEF e
<1>5. /\ q.caller = a /\ q.callee = b /\ q.req = req /\ q.terms = e.terms /\ q.ttl = e.ttl
      /\ q.dual = e.dual /\ q.under = pol
  OBVIOUS
<1> HIDE DEF q
<1>6. ASSUME e.decision # "deny" PROVE Decision(q) /\ Undecided(q)
  BY <1>1, <1>3, <1>5, <1>6 DEF Decision, Undecided
<1>7. ASSUME e.decision = "allow" PROVE Given(Contracted(q, "standing", 0))
  <2> DEFINE k == Contracted(q, "standing", 0)
  <2>1. /\ Decision(k) /\ k.under = pol /\ k.caller = a /\ k.callee = b /\ k.mode = "standing"
        /\ k.by = 0 /\ k.at = age /\ k.proven /\ k.req = req
    BY <1>3, <1>5, <1>6, <1>7, ContractedDecision
  <2> DEFINE cap == pol.standing
  <2>2. /\ cap.enabled /\ ~ (age > cap.reviewed) /\ ~ (TierOf[b] < cap.minTier)
        /\ ~ (req.write /\ ~ cap.allowWrite) /\ ~ (Cardinality(req.items) > cap.maxTools)
    BY <1>3, <1>7 DEF CapBlocks
  <2>3. /\ cap.reviewed \in Nat /\ cap.minTier \in Nat /\ cap.maxTools \in Nat
        /\ TierOf[b] \in 1 .. 4 /\ IsFiniteSet(req.items)
    BY <1>1, PoliciesAssumption, ZonesAssumption, AsksAssumption
  <2>4. /\ age <= cap.reviewed /\ cap.minTier <= TierOf[b]
        /\ Cardinality(req.items) <= cap.maxTools
    BY <1>1, <2>2, <2>3, FS_CardinalityType
  <2>5. /\ BarForPair(k.under, k.caller, k.callee).approval <= k.by
        /\ Deciding(k.under, k.req, k.caller, k.callee).approval <= k.by
        /\ Deciding(k.under, k.req, k.caller, k.callee).decision = "allow"
    BY <1>3, <1>7, <2>1 DEF bar
  <2> HIDE DEF k
  <2>6. Unasked(k)
    BY <2>1, <2>2, <2>4, <2>5 DEF Unasked
  <2>7. Given(k)
    BY <2>1, <2>5, <2>6 DEF Given
  <2> QED
    BY <2>7 DEF k
<1>8. \A x \in pending' : Undecided(x)
  BY <1>4, <1>6 DEF PolicyInv
<1>9. CASE e.decision # "allow"
  BY <1>1, <1>4, <1>8, <1>9, FewerKeeps
<1>10. CASE e.decision = "allow"
  <2> DEFINE c == Contracted(q, "standing", 0)
  <2>1. minted' = minted \cup {c} /\ Given(c)
    BY <1>4, <1>7, <1>10
  <2>2. c.at = age /\ c.under = pol
    BY <1>5, <1>6, <1>10, ContractedDecision
  <2>3. ~ (Cardinality(InWindow(pol, age)) >= pol.standing.perWindow)
    BY <1>3, <1>10 DEF CapBlocks
  <2>4. Cardinality(InWindow(pol, age)) \in Nat /\ pol.standing.perWindow \in Nat
    <3>1. InWindow(pol, age) \subseteq minted
      BY DEF InWindow
    <3> QED
      BY <1>1, <3>1, FS_Subset, FS_CardinalityType, PoliciesAssumption DEF PolicyInv
  <2>5. Cardinality(InWindow(pol, age)) < pol.standing.perWindow
    BY <2>3, <2>4
  <2> HIDE DEF c
  <2> QED
    BY <1>1, <1>8, <2>1, <2>2, <2>5, OneMoreKeeps
<1> QED
  BY <1>9, <1>10

\* An approval adds humans, and takes nothing of the decision back.
LEMMA ApproveKeeps ==
    ASSUME PolicyInv, NEW q \in pending, NEW n \in 1 .. 2, ApproveConnection(q, n)
    PROVE  PolicyInv'
<1>1. Undecided(q) /\ Decision(q)
  BY DEF PolicyInv, Undecided
<1> DEFINE k == Contracted(q, "human", n)
           bar == BarForPair(q.under, q.caller, q.callee)
           rule == Deciding(q.under, q.req, q.caller, q.callee)
<1>2. /\ Decision(k) /\ k.under = q.under /\ k.caller = q.caller /\ k.callee = q.callee
      /\ k.mode = "human" /\ k.by = n /\ k.req = q.req /\ k.at = age
  BY <1>1, ContractedDecision
<1>3. bar \in Bar /\ rule.approval \in 0 .. 2 /\ (bar.approval = 2 \/ rule.approval = 2 => q.dual)
  BY <1>1, BarForPairStrict DEF Decision, Undecided
<1>4. (q.dual => n >= 2) /\ pol' = pol /\ age' = age /\ pending' = pending \ {q}
      /\ minted' = minted \cup {k} /\ q.under = pol
  BY DEF ApproveConnection, VerifyApproval
<1> HIDE DEF k, bar, rule
<1>5. bar.approval <= n /\ rule.approval <= n
  <2>1. bar.approval \in 0 .. 2
    BY <1>3 DEF Bar
  <2>2. bar.approval = 2 \/ rule.approval = 2 => n >= 2
    BY <1>3, <1>4
  <2> QED
    BY <1>3, <2>1, <2>2
<1>6. Given(k)
  BY <1>2, <1>5 DEF Given, bar, rule
<1>7. ~ Standing(k) /\ \A x \in pending' : Undecided(x)
  BY <1>2, <1>4 DEF Standing, PolicyInv
<1> QED
  BY <1>2, <1>4, <1>6, <1>7, OneMoreKeeps

\* Every step keeps it.
LEMMA PolicyStep == PolicyInv /\ [PolicyNext]_policyVars => PolicyInv'
<1> SUFFICES ASSUME PolicyInv, [PolicyNext]_policyVars PROVE PolicyInv'
  OBVIOUS
<1>1. ASSUME NEW req \in Asks, NEW a \in Side, NEW b \in Side, AskConnection(req, a, b)
      PROVE PolicyInv'
  BY <1>1, AskKeeps
<1>2. ASSUME NEW q \in pending, ForgetRequest(q) PROVE PolicyInv'
  BY <1>2, FewerKeeps DEF ForgetRequest, PolicyInv
<1>8. ASSUME NEW k \in minted, Lapse(k) PROVE PolicyInv'
  BY <1>8, FewerKeeps DEF Lapse, PolicyInv
<1>3. ASSUME NEW q \in pending, NEW n \in 1 .. 2, ApproveConnection(q, n) PROVE PolicyInv'
  BY <1>3, ApproveKeeps
<1>4. ASSUME NEW p \in Policies, PutInForce(p) PROVE PolicyInv'
  BY <1>4, FewerKeeps DEF PutInForce, PolicyInv
<1>5. ASSUME NEW a \in Side, Attest(a) PROVE PolicyInv'
  BY <1>5, FewerKeeps DEF Attest, PolicyInv
<1>6. CASE Age
  BY <1>6, FewerKeeps DEF Age, PolicyInv
<1>7. CASE UNCHANGED policyVars
  BY <1>7, FewerKeeps DEF policyVars, PolicyInv
<1> QED
  BY <1>1, <1>2, <1>3, <1>4, <1>5, <1>6, <1>7, <1>8 DEF PolicyNext

\* The share of the contracts nobody was asked about is looked at for each of them.
LEMMA ShareKept == PolicyInv /\ [PolicyNext]_policyVars => ShareStep
<1> SUFFICES ASSUME PolicyInv, [PolicyNext]_policyVars, NEW k \in minted' \ minted, Standing(k)
             PROVE  \/ Cardinality(minted) < k.under.standing.sample
                    \/ 2 * Cardinality({j \in minted : Standing(j)}) < Cardinality(minted)
  BY DEF ShareStep
<1>1. ASSUME NEW req \in Asks, NEW a \in Side, NEW b \in Side, AskConnection(req, a, b)
      PROVE  ~ CapBlocks(pol, req, b) /\ k.under = pol
  <2> DEFINE e == Evaluate(pol, req, a, b)
             q == [caller |-> a, callee |-> b, req |-> req, terms |-> e.terms, ttl |-> e.ttl,
                   dual |-> e.dual, distinct |-> e.distinct, under |-> pol]
  <2>1. minted' = IF e.decision = "allow"
                  THEN minted \cup {Contracted(q, "standing", 0)} ELSE minted
    BY <1>1 DEF AskConnection
  <2>2. e.decision = "allow" /\ k = Contracted(q, "standing", 0)
    BY <2>1
  <2>3. ~ CapBlocks(pol, req, b)
    BY <2>2, AsksAsked, EvaluateNarrows DEF PolicyInv
  <2>4. k.under = pol
    BY <2>2 DEF Contracted
  <2> QED
    BY <2>3, <2>4
<1>2. ASSUME NEW q \in pending, NEW n \in 1 .. 2, ApproveConnection(q, n) PROVE FALSE
  <2>1. minted' = minted \cup {Contracted(q, "human", n)}
    BY <1>2 DEF ApproveConnection
  <2>2. k = Contracted(q, "human", n)
    BY <2>1
  <2> QED
    BY <2>2 DEF Contracted, Standing
<1>3. PICK req \in Asks, a \in Side, b \in Side : AskConnection(req, a, b)
  BY <1>2 DEF PolicyNext, policyVars, Lapse, ForgetRequest, PutInForce, Attest, Age
<1>4. /\ k.under = pol
      /\ ~ (/\ Cardinality(minted) >= pol.standing.sample
            /\ 2 * Cardinality({j \in minted : Standing(j)}) >= Cardinality(minted))
  BY <1>1, <1>3 DEF CapBlocks
<1> DEFINE S == {j \in minted : Standing(j)}
<1>5. IsFiniteSet(minted) /\ IsFiniteSet(S) /\ pol.standing.sample \in Nat
  BY FS_Subset, PoliciesAssumption DEF PolicyInv
<1>6. ~ (Cardinality(minted) >= pol.standing.sample /\ 2 * Cardinality(S) >= Cardinality(minted))
  BY <1>4
<1> HIDE DEF S
<1>7. Cardinality(minted) \in Nat /\ Cardinality(S) \in Nat
  BY <1>5, FS_CardinalityType
<1>8. Cardinality(minted) < pol.standing.sample \/ 2 * Cardinality(S) < Cardinality(minted)
  BY <1>5, <1>6, <1>7
<1> QED
  BY <1>4, <1>8 DEF S

\* It says that nothing is widened ...
LEMMA GivenNothingWidened == PolicyInv => NothingWidened
<1> SUFFICES ASSUME PolicyInv, NEW k \in minted
             PROVE  LET p == k.under
                        asked == k.req
                    IN /\ \A bar \in ChainBars(p, k.caller, k.callee) :
                             /\ k.ttl <= bar.ttl /\ k.terms.depth <= bar.depth
                             /\ (bar.oversight => k.terms.oversight # Unlimited)
                             /\ k.by >= bar.approval
                       /\ k.ttl <= asked.ttl /\ k.terms.depth <= asked.terms.depth
                       /\ k.terms.rate <= asked.terms.rate
                       /\ k.terms.lists = asked.terms.lists
                       /\ k.terms.oversight <= asked.terms.oversight
                       /\ (asked.terms.blocking => k.terms.blocking)
                       /\ WithinRule(k)
                       /\ (k.mode = "standing" => WithinLimits(k))
                       /\ (p.strict => Permitted(p, ZoneOf[k.caller], ZoneOf[k.callee]))
  BY DEF NothingWidened, ChainBars, TermsAdmit
<1>1. Given(k) /\ Decision(k)
  BY DEF PolicyInv, Given
<1> DEFINE pair == BarForPair(k.under, k.caller, k.callee)
<1>2. WithinBar(k.req, k.terms, k.ttl, pair) /\ pair \in Bar /\ pair.approval <= k.by /\ k.by \in 0 .. 2
  BY <1>1, BarForPairStrict DEF Given, Decision
<1>3. ASSUME NEW bar \in ChainBars(k.under, k.caller, k.callee)
      PROVE  /\ k.ttl <= bar.ttl /\ k.terms.depth <= bar.depth
             /\ (bar.oversight => k.terms.oversight # Unlimited)
             /\ k.by >= bar.approval
  <2>1. /\ bar \in Bar /\ bar.approval <= pair.approval /\ pair.ttl <= bar.ttl
        /\ pair.depth <= bar.depth /\ (bar.oversight => pair.oversight)
    BY <1>1, ChainBarsMet DEF Decision
  <2> HIDE DEF pair
  <2>2. /\ bar.approval \in Nat /\ bar.ttl \in Nat /\ bar.depth \in Nat
        /\ pair.approval \in Nat /\ pair.ttl \in Nat /\ pair.depth \in Nat
    BY <1>2, <2>1 DEF Bar
  <2>3. /\ k.ttl \in Nat /\ k.ttl <= pair.ttl /\ k.terms.depth \in Nat
        /\ k.terms.depth <= pair.depth /\ (pair.oversight => k.terms.oversight # Unlimited)
    BY <1>2 DEF WithinBar
  <2> QED
    BY <1>2, <2>1, <2>2, <2>3
<1>4. /\ k.ttl <= k.req.ttl /\ k.terms.depth <= k.req.terms.depth
      /\ k.terms.rate <= k.req.terms.rate /\ k.terms.lists = k.req.terms.lists
  BY <1>2 DEF WithinBar
<1>5. WithinRuling(k.req, k.terms, k.ttl, Deciding(k.under, k.req, k.caller, k.callee))
  BY <1>1 DEF Decision
<1>6. /\ k.terms.oversight <= k.req.terms.oversight
      /\ (k.req.terms.blocking => k.terms.blocking)
  BY <1>5 DEF WithinRuling, Overseen, Obliged
<1>7. WithinRule(k)
  <2> DEFINE rule == Deciding(k.under, k.req, k.caller, k.callee)
  <2>1. rule = Ruling(k.under, k.req, k.caller, k.callee,
                      Min({k.req.ttl, IssuerMaxTtl, BarForPair(k.under, k.caller, k.callee).ttl}))
    BY DEF Deciding, Capped
  <2>2. rule.decision # "deny" /\ rule.approval <= k.by /\ (k.mode = "standing" => rule.decision = "allow")
    BY <1>1 DEF Given, Decision, Unasked
  <2>3. WithinRuling(k.req, k.terms, k.ttl, rule)
    BY <1>5
  <2> HIDE DEF rule
  <2> QED
    BY <2>1, <2>2, <2>3 DEF WithinRule, WithinRuling, Overseen, Obliged
<1>8. k.mode = "standing" => WithinLimits(k)
  BY <1>1 DEF PolicyInv, Given, Unasked, WithinLimits, Beside, Standing
<1> QED
  BY <1>1, <1>3, <1>4, <1>6, <1>7, <1>8 DEF Given, Decision

\* Two requests that differ only in depth and lifetime, which no rule reads.
LEMMA SameRuling ==
    ASSUME NEW p \in Policies, \A n \in DOMAIN p.rules : ~ FoldReads(p.rules[n]),
           NEW req, NEW ask, NEW t \in 0 .. IssuerMaxTtl, NEW u \in 0 .. IssuerMaxTtl,
           NEW a, NEW b,
           req.items = ask.items, req.write = ask.write, req.terms.lists = ask.terms.lists,
           req.terms.depth \in 0 .. Unlimited, ask.terms.depth \in 0 .. Unlimited
    PROVE  Ruling(p, req, a, b, t) = Ruling(p, ask, a, b, u)
<1>1. ASSUME NEW n \in DOMAIN p.rules
      PROVE  Matches(p.rules[n], req, a, b, t) <=> Matches(p.rules[n], ask, a, b, u)
  <2> DEFINE rule == p.rules[n]
  <2>1. SurfaceMatches(rule, req) <=> SurfaceMatches(rule, ask)
    BY DEF SurfaceMatches
  <2>2. ASSUME "when" \in rule.named
        PROVE  WhenHolds(rule, Facts(req, t)) <=> WhenHolds(rule, Facts(ask, u))
    <3>2. \A c \in rule.when : 0 .. Unlimited \subseteq c.depth /\ 0 .. IssuerMaxTtl \subseteq c.ttl
      BY <2>2 DEF FoldReads
    <3>3. /\ Facts(req, t).depth = req.terms.depth /\ Facts(req, t).lists = req.terms.lists
          /\ Facts(req, t).ttl = t
          /\ Facts(ask, u).depth = ask.terms.depth /\ Facts(ask, u).lists = req.terms.lists
          /\ Facts(ask, u).ttl = u
      BY DEF Facts
    <3> HIDE DEF rule
    <3>4. \A c \in rule.when : /\ req.terms.depth \in c.depth /\ ask.terms.depth \in c.depth
                               /\ t \in c.ttl /\ u \in c.ttl
      BY <3>2
    <3> QED
      BY <3>3, <3>4 DEF WhenHolds
  <2> HIDE DEF rule
  <2>3. Matches(rule, req, a, b, t) <=> Matches(rule, ask, a, b, u)
    BY <2>1, <2>2 DEF Matches
  <2> QED
    BY <2>3 DEF rule
<1>2. {n \in DOMAIN p.rules : Matches(p.rules[n], req, a, b, t)} =
      {n \in DOMAIN p.rules : Matches(p.rules[n], ask, a, b, u)}
  BY <1>1
<1> QED
  BY <1>2 DEF Ruling

\* ... and that a dry run of what the policy in force allowed denies nothing.
LEMMA GivenDryRun == PolicyInv => DryRunTells
<1> SUFFICES ASSUME PolicyInv, NEW k \in minted, k.under = pol,
                    \A n \in DOMAIN pol.rules : ~ FoldReads(pol.rules[n])
             PROVE  DryRun(pol, k) # "deny"
  BY DEF DryRunTells
<1> DEFINE pair == BarForPair(k.under, k.caller, k.callee)
           again == [k.req EXCEPT !.terms = k.terms, !.ttl = k.ttl]
<1>1. Decision(k) /\ pol \in Policies /\ k.caller \in Side /\ k.callee \in Side
  BY DEF PolicyInv, Given, Decision
<1>2. AskedFor(k.req) /\ k.req.terms.depth <= Unlimited /\ WithinBar(k.req, k.terms, k.ttl, pair)
  BY <1>1, AsksAsked DEF Decision
<1> HIDE DEF pair
<1>3. /\ DOMAIN again = DOMAIN k.req /\ again.terms = k.terms /\ again.ttl = k.ttl
      /\ again.items = k.req.items /\ again.write = k.req.write
  BY <1>2 DEF AskedFor
<1>4. DryRun(pol, k) = Evaluate(pol, again, k.caller, k.callee).decision
  BY DEF DryRun
<1> HIDE DEF again
<1>5. AskedFor(again)
  BY <1>2, <1>3 DEF AskedFor, WithinBar
<1> DEFINE t == Capped(pol, again, k.caller, k.callee)
           u == Capped(pol, k.req, k.caller, k.callee)
<1>6. /\ t \in 0 .. IssuerMaxTtl /\ u \in 0 .. IssuerMaxTtl
      /\ (Evaluate(pol, again, k.caller, k.callee).decision # "deny" <=>
            /\ (pol.strict => Permitted(pol, ZoneOf[k.caller], ZoneOf[k.callee]))
            /\ Ruling(pol, again, k.caller, k.callee, t).decision # "deny")
  BY <1>1, <1>2, <1>5, EvaluateNarrows DEF Deciding
<1>7. Ruling(pol, k.req, k.caller, k.callee, u).decision # "deny"
  BY <1>1 DEF Decision, Deciding
<1> HIDE DEF t, u
<1>8. /\ again.terms.lists = k.req.terms.lists
      /\ again.terms.depth \in 0 .. Unlimited /\ k.req.terms.depth \in 0 .. Unlimited
  BY <1>2, <1>3 DEF AskedFor, WithinBar, Unlimited
<1>9. Ruling(pol, again, k.caller, k.callee, t) = Ruling(pol, k.req, k.caller, k.callee, u)
  BY <1>1, <1>3, <1>6, <1>8, SameRuling
<1> QED
  BY <1>1, <1>4, <1>6, <1>7, <1>9 DEF Decision

\* Zones of the same levels are classified alike unless the levels agree.
LEMMA ClassifyByTrust ==
    ASSUME NEW x, NEW y, NEW a, NEW b, Trust(x) = Trust(a), Trust(y) = Trust(b),
           Trust(a) \in Level, Trust(b) \in Level, Classify(a, b) \notin InternalToLevel
    PROVE  Classify(x, y) = Classify(a, b)
<1>1. Outwardness(x) = Outwardness(a) /\ Outwardness(y) = Outwardness(b)
  BY DEF Outwardness
<1>2. CASE "public" \in {Trust(a), Trust(b)}
  BY <1>2 DEF Classify
<1>3. CASE "public" \notin {Trust(a), Trust(b)}
  <2>1. Outwardness(a) \in 0 .. 2 /\ Outwardness(b) \in 0 .. 2
    <3>1. \A z \in {a, b} : \E n \in 0 .. 2 : <<"internal", "partner", "public">>[n + 1] = Trust(z)
      <4>1. /\ <<"internal", "partner", "public">>[0 + 1] = "internal"
            /\ <<"internal", "partner", "public">>[1 + 1] = "partner"
            /\ <<"internal", "partner", "public">>[2 + 1] = "public"
        OBVIOUS
      <4> QED
        BY <4>1 DEF Level
    <3> QED
      BY <3>1 DEF Outwardness
  <2>2. CASE Outwardness(a) < Outwardness(b)
    BY <1>1, <1>3, <2>1, <2>2 DEF Classify
  <2>3. CASE Outwardness(a) > Outwardness(b)
    BY <1>1, <1>3, <2>1, <2>3 DEF Classify
  <2>4. CASE ~ (Outwardness(a) < Outwardness(b)) /\ ~ (Outwardness(a) > Outwardness(b))
    <3>1. Classify(a, b) \in InternalToLevel
      BY <1>3, <2>4 DEF Classify, InternalToLevel
    <3> QED
      BY <3>1
  <2> QED
    BY <2>2, <2>3, <2>4
<1> QED
  BY <1>2, <1>3

\* What a prefix holds.
LEMMA PrefixEntries ==
    ASSUME NEW S, NEW s \in Seq(S), NEW n \in 0 .. Len(s)
    PROVE  DOMAIN SubSeq(s, 1, n) = 1 .. n /\ \A i \in 1 .. n : SubSeq(s, 1, n)[i] = s[i]
  OBVIOUS

\* The rules behind an earlier catch-all never decide.
LEMMA CleanedRuling ==
    ASSUME NEW p \in Policies, NEW c, NEW req, NEW a, NEW b, NEW t, c.default = p.default,
           c.rules = SubSeq(p.rules, 1, Min(Unreachable(p) \cup {Len(p.rules) + 1}) - 1)
    PROVE  Ruling(c, req, a, b, t) = Ruling(p, req, a, b, t)
<1> DEFINE R == p.rules
           m == Min(Unreachable(p) \cup {Len(R) + 1})
           hit == {n \in DOMAIN R : Matches(R[n], req, a, b, t)}
           left == {n \in DOMAIN c.rules : Matches(c.rules[n], req, a, b, t)}
<1>1. /\ R \in Seq({R[n] : n \in DOMAIN R}) /\ Len(R) \in Nat /\ DOMAIN R = 1 .. Len(R)
  <2>1. R \in Seq({R[n] : n \in DOMAIN R})
    BY PoliciesAssumption
  <2> QED
    BY <2>1
<1>2. Unreachable(p) \subseteq DOMAIN R
  BY DEF Unreachable
<1> DEFINE U == Unreachable(p) \cup {Len(R) + 1}
<1>3. U \in SUBSET Nat /\ U # {} /\ Len(R) + 1 \in U
  BY <1>1, <1>2
<1> HIDE DEF U
<1>4. m \in U /\ m <= Len(R) + 1 /\ m \in Nat
  BY <1>3, NatsHaveMin DEF U
<1>5. m >= 1
  BY <1>1, <1>2, <1>4 DEF U
<1>6. m \in Unreachable(p) \/ m = Len(R) + 1
  BY <1>4 DEF U
<1>7. c.rules = SubSeq(R, 1, m - 1)
  OBVIOUS
<1> HIDE DEF R, m
<1>8. DOMAIN c.rules = 1 .. m - 1 /\ \A n \in 1 .. m - 1 : c.rules[n] = R[n]
  <2>1. m - 1 \in 0 .. Len(R)
    BY <1>1, <1>4, <1>5
  <2> QED
    BY <1>1, <1>7, <2>1, PrefixEntries
<1>9. left = hit \cap (1 .. m - 1)
  <2>1. \A n \in 1 .. m - 1 : n \in DOMAIN R
    BY <1>1, <1>4, <1>5
  <2> HIDE DEF m
  <2> QED
    BY <1>8, <2>1
<1>10. hit \in SUBSET Nat /\ left \in SUBSET Nat
  BY <1>1, <1>9
<1>11. ASSUME hit # {} PROVE Min(hit) \in left /\ Min(left) = Min(hit)
  <2> DEFINE first == Min(hit)
  <2>1. first \in hit /\ \A y \in hit : first <= y
    BY <1>10, <1>11, NatsHaveMin
  <2> HIDE DEF first
  <2>2. first <= m - 1
    <3>1. CASE m = Len(R) + 1
      BY <1>1, <1>4, <2>1, <3>1
    <3>2. CASE m \in Unreachable(p)
      <4>1. PICK k \in DOMAIN R : k < m /\ CatchAll(R[k])
        BY <3>2 DEF Unreachable, R
      <4>2. k \in hit
        BY <4>1 DEF Matches, CatchAll
      <4>3. k \in Nat /\ first \in Nat /\ first <= k
        BY <1>10, <2>1, <4>2
      <4> QED
        BY <1>4, <4>1, <4>3
    <3> QED
      BY <1>6, <3>1, <3>2
  <2>3. first \in left
    <3>1. first \in 1 .. m - 1
      BY <1>1, <1>4, <2>1, <2>2
    <3> HIDE DEF hit, left
    <3> QED
      BY <1>9, <2>1, <3>1
  <2> DEFINE least == Min(left)
  <2> HIDE DEF hit, left
  <2>4. least \in left /\ \A y \in left : least <= y
    BY <1>10, <2>3, NatsHaveMin
  <2> HIDE DEF least
  <2>5. least \in hit
    BY <1>9, <2>4
  <2>6. least <= first /\ first <= least /\ least \in Nat /\ first \in Nat
    BY <1>10, <2>1, <2>3, <2>4, <2>5
  <2>7. least = first
    BY <2>6
  <2> QED
    BY <2>3, <2>7 DEF least, first
<1>12. CASE hit = {}
  <2>1. left = {}
    BY <1>9, <1>12
  <2> QED
    BY <1>12, <2>1 DEF Ruling, R
<1>13. CASE hit # {}
  <2>1. left # {} /\ Min(left) = Min(hit) /\ Min(left) \in 1 .. m - 1
    BY <1>9, <1>11, <1>13
  <2>2. c.rules[Min(left)] = p.rules[Min(hit)]
    BY <1>8, <2>1 DEF R
  <2> QED
    BY <1>13, <2>1, <2>2 DEF Ruling, R
<1> QED
  BY <1>12, <1>13

\* A crossing rule that can never match covers nothing.
LEMMA CleanedPermits ==
    ASSUME NEW p, NEW c, NEW a, Zoned(a), NEW b, Zoned(b), c.strictZones = p.strictZones,
           c.zones = p.zones, c.crossings = p.crossings \ NeverMatch(p)
    PROVE  Permitted(c, a, b) <=> Permitted(p, a, b)
<1>1. ASSUME Classify(a, b) \notin InternalToLevel, NEW rule \in p.crossings, Covers(rule, a, b)
      PROVE  rule \notin NeverMatch(p)
  <2> SUFFICES ASSUME rule.from # <<>>, rule.to # <<>>
               PROVE  Classify(rule.from, rule.to) = rule.crossing
    BY DEF NeverMatch
  <2>1. rule.crossing = Classify(a, b) /\ rule.from \in Ancestors(a) /\ rule.to \in Ancestors(b)
    BY <1>1 DEF Covers, ZoneContains
  <2>2. /\ Trust(rule.from) = Trust(a) /\ Trust(rule.to) = Trust(b)
        /\ Trust(a) \in Level /\ Trust(b) \in Level
    BY <2>1, AncestorTrust DEF Zoned, Trust
  <2> QED
    BY <1>1, <2>1, <2>2, ClassifyByTrust
<1>2. (Classify(a, b) \in InternalToLevel \/ \E rule \in c.crossings : Covers(rule, a, b))
      <=> (Classify(a, b) \in InternalToLevel \/ \E rule \in p.crossings : Covers(rule, a, b))
  BY <1>1
<1> QED
  BY <1>2 DEF Permitted

\* Without what lint says can never match, every request is decided as before.
LEMMA CleanedDecides ==
    ASSUME NEW p \in Policies, NEW req, NEW a \in Side, NEW b \in Side,
           NEW c, c.default = p.default, c.strict = p.strict, c.strictZones = p.strictZones,
           c.zones = p.zones, c.standing = p.standing, c.crossings = p.crossings \ NeverMatch(p),
           c.rules = SubSeq(p.rules, 1, Min(Unreachable(p) \cup {Len(p.rules) + 1}) - 1)
    PROVE  Evaluate(c, req, a, b) = Evaluate(p, req, a, b)
<1>1. BarForPair(c, a, b) = BarForPair(p, a, b)
  BY DEF BarForPair, BarFor
<1>2. \A t : Ruling(c, req, a, b, t) = Ruling(p, req, a, b, t)
  BY CleanedRuling
<1>3. Zoned(ZoneOf[a]) /\ Zoned(ZoneOf[b])
  BY ZonesAssumption DEF Zoned, Level
<1>4. Permitted(c, ZoneOf[a], ZoneOf[b]) <=> Permitted(p, ZoneOf[a], ZoneOf[b])
  BY <1>3, CleanedPermits
<1>5. CapBlocks(c, req, b) <=> CapBlocks(p, req, b)
  <2>1. InWindow(c, age) = InWindow(p, age)
    BY DEF InWindow
  <2> QED
    BY <2>1 DEF CapBlocks
<1>6. \A rule, terms, floor : Decided(c, req, a, b, rule, terms, floor)
                               = Decided(p, req, a, b, rule, terms, floor)
  BY <1>4, <1>5 DEF Decided
<1> DEFINE bar == BarForPair(p, a, b)
           capped == Min({req.ttl, IssuerMaxTtl, bar.ttl})
           rule == Ruling(p, req, a, b, capped)
           terms == Meet(Narrowed(req.terms, bar), rule.terms)
           floor == Floor(bar, rule)
<1>7. Evaluate(p, req, a, b) =
        [decision |-> Decided(p, req, a, b, rule, terms, floor), terms |-> terms,
         ttl |-> Min({capped, rule.ttl}), dual |-> floor = 2, distinct |-> bar.distinct]
  BY DEF Evaluate
<1>8. Ruling(c, req, a, b, Min({req.ttl, IssuerMaxTtl, BarForPair(c, a, b).ttl})) = rule
  BY <1>1, <1>2, Zenon
<1>9. Evaluate(c, req, a, b) =
        [decision |-> Decided(c, req, a, b, rule, terms, floor), terms |-> terms,
         ttl |-> Min({capped, rule.ttl}), dual |-> floor = 2, distinct |-> bar.distinct]
  BY <1>1, <1>8, Zenon DEF Evaluate
<1> HIDE DEF bar, capped, rule, terms, floor
<1>10. Decided(c, req, a, b, rule, terms, floor) = Decided(p, req, a, b, rule, terms, floor)
  BY <1>6
<1> QED
  BY <1>7, <1>9, <1>10, Zenon

\* With the crossings a rule implies written down, a pair it permits may cross.
LEMMA ImpliedPermits ==
    ASSUME NEW p \in Policies, NEW s, s.strictZones = p.strictZones, s.zones = p.zones,
           s.crossings = p.crossings \cup ImpliedCrossings(p), NEW a, Zoned(a), NEW b, Zoned(b),
           NEW n \in DOMAIN p.rules, p.rules[n].decision # "deny",
           {"from", "to"} \subseteq p.rules[n].named,
           NEW x \in Ancestors(a) \cap DOMAIN p.zones \cap p.rules[n].from,
           NEW y \in Ancestors(b) \cap DOMAIN p.zones \cap p.rules[n].to
    PROVE  Permitted(s, a, b)
<1>1. \A z \in {a, b} : Ancestors(z) \cap DOMAIN s.zones # {}
  OBVIOUS
<1>2. CASE Classify(a, b) \in InternalToLevel
  BY <1>1, <1>2 DEF Permitted
<1>3. CASE Classify(a, b) \notin InternalToLevel
  <2> DEFINE stanza == [crossing |-> Classify(x, y), from |-> x, to |-> y]
  <2>1. /\ Trust(x) = Trust(a) /\ Trust(y) = Trust(b) /\ x # <<>> /\ y # <<>>
        /\ Trust(a) \in Level /\ Trust(b) \in Level
    BY AncestorTrust DEF Zoned, Trust
  <2>2. Classify(x, y) = Classify(a, b)
    BY <1>3, <2>1, ClassifyByTrust
  <2>3. stanza \in ImpliedCrossings(p)
    <3> DEFINE permitting == {k \in DOMAIN p.rules : /\ p.rules[k].decision # "deny"
                                                      /\ {"from", "to"} \subseteq p.rules[k].named}
               wanted(k) == {[crossing |-> Classify(u, v), from |-> u, to |-> v] :
                                u \in p.rules[k].from \cap DOMAIN p.zones,
                                v \in p.rules[k].to \cap DOMAIN p.zones}
               inner == [crossing : InternalToLevel, from : DOMAIN p.zones, to : DOMAIN p.zones]
    <3>1. n \in permitting
      OBVIOUS
    <3>2. stanza \in wanted(n)
      OBVIOUS
    <3>3. stanza \notin inner
      BY <1>3, <2>2
    <3>4. ImpliedCrossings(p) = (UNION {wanted(k) : k \in permitting}) \ inner
      BY DEF ImpliedCrossings
    <3> HIDE DEF permitting, wanted, inner, stanza
    <3> DEFINE all == {wanted(k) : k \in permitting}
               W == wanted(n)
    <3>5. W \in all /\ stanza \in W
      BY <3>1, <3>2
    <3>6. ImpliedCrossings(p) = (UNION all) \ inner
      BY <3>4
    <3> HIDE DEF all, W
    <3> QED
      BY <3>3, <3>5, <3>6
  <2>4. Covers(stanza, a, b)
    BY <2>2 DEF Covers, ZoneContains
  <2> HIDE DEF stanza
  <2> QED
    BY <1>1, <2>3, <2>4 DEF Permitted
<1> QED
  BY <1>2, <1>3

\* What lint says of a policy is true of it.
LEMMA PoliciesLinted ==
    ASSUME NEW p \in Policies
    PROVE  LintTells(p)
<1> DEFINE kept == Min(Unreachable(p) \cup {Len(p.rules) + 1}) - 1
           cleaned == [p EXCEPT !.rules = SubSeq(@, 1, kept), !.crossings = @ \ NeverMatch(p)]
           strict == [p EXCEPT !.strict = TRUE, !.crossings = @ \cup ImpliedCrossings(p)]
<1>1. DOMAIN p = {"default", "strict", "strictZones", "crossings", "zones", "rules", "standing"}
  BY PoliciesAssumption
<1>2. /\ cleaned.default = p.default /\ cleaned.strict = p.strict
      /\ cleaned.strictZones = p.strictZones /\ cleaned.zones = p.zones
      /\ cleaned.standing = p.standing /\ cleaned.crossings = p.crossings \ NeverMatch(p)
      /\ cleaned.rules = SubSeq(p.rules, 1, kept)
  BY <1>1
<1>3. /\ strict.strictZones = p.strictZones /\ strict.zones = p.zones
      /\ strict.crossings = p.crossings \cup ImpliedCrossings(p)
  BY <1>1
<1> HIDE DEF cleaned, strict
<1>4. ASSUME NEW req \in Asks, NEW a \in Side, NEW b \in Side
      PROVE  /\ Evaluate(cleaned, req, a, b) = Evaluate(p, req, a, b)
             /\ \A n \in DOMAIN p.rules :
                  LET rule == p.rules[n]
                      within(globbed, zone) == Ancestors(zone) \cap DOMAIN p.zones \cap globbed # {}
                  IN /\ rule.decision # "deny" /\ {"from", "to"} \subseteq rule.named
                     /\ Matches(rule, req, a, b, req.ttl)
                     /\ within(rule.from, ZoneOf[a]) /\ within(rule.to, ZoneOf[b])
                     => Permitted(strict, ZoneOf[a], ZoneOf[b])
  <2>1. Evaluate(cleaned, req, a, b) = Evaluate(p, req, a, b)
    BY <1>2, CleanedDecides
  <2>2. ASSUME NEW n \in DOMAIN p.rules, p.rules[n].decision # "deny",
               {"from", "to"} \subseteq p.rules[n].named,
               Ancestors(ZoneOf[a]) \cap DOMAIN p.zones \cap p.rules[n].from # {},
               Ancestors(ZoneOf[b]) \cap DOMAIN p.zones \cap p.rules[n].to # {}
        PROVE  Permitted(strict, ZoneOf[a], ZoneOf[b])
    <3>1. PICK x \in Ancestors(ZoneOf[a]) \cap DOMAIN p.zones \cap p.rules[n].from : TRUE
      BY <2>2
    <3>2. PICK y \in Ancestors(ZoneOf[b]) \cap DOMAIN p.zones \cap p.rules[n].to : TRUE
      BY <2>2
    <3>3. Zoned(ZoneOf[a]) /\ Zoned(ZoneOf[b])
      BY ZonesAssumption DEF Zoned, Level
    <3> QED
      BY <1>3, <2>2, <3>1, <3>2, <3>3, ImpliedPermits
  <2> QED
    BY <2>1, <2>2
<1> QED
  BY <1>4 DEF LintTells, cleaned, strict

\* Whatever policies came and went, and whoever was attested when: no contract is
\* wider than the request, any bar of any zone around either end, or its rule, but for
\* the rule's oversight threshold where the request has its own; none is issued
\* without a human beyond the standing limits; a dry run denies nothing the policy in
\* force allowed unless a rule reads what the fold narrows; and what lint says of a
\* policy is true of every decision under it (cpolicy.rs, zone.rs, contract.rs), for
\* any zones, policies, requests and bounds.
THEOREM PolicyIsSound == PolicySpec => PolicySound
<1>1. PolicyInv => NothingWidened /\ DryRunTells
  BY GivenNothingWidened, GivenDryRun
<1>2. PolicyInv' => [minted \cup pending = {} => \A p \in {pol'} \ {pol} : LintTells(p)]_policyVars
  BY PoliciesLinted DEF PolicyInv
<1> QED
  BY <1>1, <1>2, PolicyInitially, PolicyStep, ShareKept, PTL DEF PolicySpec, PolicySound

---------------------------------------------------------------------------
(* Admission.                                                              *)

\* The letters of a derived name.
Spelled(x, l, t) ==
    /\ Len(x) = Len(l) + Len(t) + 2 /\ x[1] = "urn:wc:oidc:"
    /\ \A i \in 1 .. Len(l) : x[i + 1] = l[i]
    /\ x[Len(l) + 2] = ":"
    /\ \A i \in 1 .. Len(t) : x[Len(l) + 2 + i] = t[i]

LEMMA OneLetter ==
    ASSUME NEW S, NEW x \in S, NEW s, s = <<x>>
    PROVE  s \in Seq(S) /\ Len(s) = 1 /\ s[1] = x
  OBVIOUS

LEMMA WiderSeq ==
    ASSUME NEW S, NEW T, NEW s \in Seq(S), S \subseteq T
    PROVE  s \in Seq(T)
  OBVIOUS

LEMMA LettersOf ==
    ASSUME NEW S, "urn:wc:oidc:" \in S, ":" \in S, NEW l \in Seq(S), NEW t \in Seq(S)
    PROVE  Spelled(EntityIdFor(l, t), l, t)
  <1>1. PICK p : p = <<"urn:wc:oidc:">>
    OBVIOUS
  <1>2. p \in Seq(S) /\ Len(p) = 1 /\ p[1] = "urn:wc:oidc:"
    BY <1>1, OneLetter, Zenon
  <1>3. PICK k : k = <<":">>
    OBVIOUS
  <1>4. k \in Seq(S) /\ Len(k) = 1 /\ k[1] = ":"
    BY <1>3, OneLetter, Zenon
  <1>5. PICK a : a = p \o l
    OBVIOUS
  <1>6. /\ a \in Seq(S) /\ Len(a) = 1 + Len(l)
        /\ \A i \in 1 .. 1 + Len(l) : a[i] = IF i <= 1 THEN p[i] ELSE l[i - 1]
    <2>1. /\ a \in Seq(S) /\ Len(a) = Len(p) + Len(l)
          /\ \A i \in 1 .. Len(p) + Len(l) : a[i] = IF i <= Len(p) THEN p[i] ELSE l[i - Len(p)]
      BY <1>2, <1>5, ConcatProperties, Zenon
    <2>2. Len(p) = 1
      BY <1>2
    <2> QED BY <2>1, <2>2, Zenon
  <1>7. PICK b : b = a \o k
    OBVIOUS
  <1>8. /\ b \in Seq(S) /\ Len(b) = Len(a) + 1
        /\ \A i \in 1 .. Len(a) + 1 : b[i] = IF i <= Len(a) THEN a[i] ELSE k[i - Len(a)]
    <2>1. /\ b \in Seq(S) /\ Len(b) = Len(a) + Len(k)
          /\ \A i \in 1 .. Len(a) + Len(k) : b[i] = IF i <= Len(a) THEN a[i] ELSE k[i - Len(a)]
      BY <1>4, <1>6, <1>7, ConcatProperties, Zenon
    <2>2. Len(k) = 1
      BY <1>4
    <2> QED BY <2>1, <2>2, Zenon
  <1>9. PICK x : x = b \o t
    OBVIOUS
  <1>10. /\ Len(x) = Len(b) + Len(t)
         /\ \A i \in 1 .. Len(b) + Len(t) :
               x[i] = IF i <= Len(b) THEN b[i] ELSE t[i - Len(b)]
    BY <1>8, <1>9, ConcatProperties, Zenon
  <1>11. x = EntityIdFor(l, t)
    BY <1>1, <1>3, <1>5, <1>7, <1>9 DEF EntityIdFor
  <1>12. Len(l) \in Nat /\ Len(t) \in Nat
    OBVIOUS
  <1>13. Len(a) = Len(l) + 1 /\ Len(b) = Len(l) + 2
    BY <1>6, <1>8, <1>12
  <1>14. Len(x) = Len(l) + Len(t) + 2
    BY <1>10, <1>12, <1>13
  <1>15. \A i \in 1 .. Len(l) + 1 : x[i] = a[i]
    BY <1>8, <1>10, <1>12, <1>13
  <1>16. x[1] = "urn:wc:oidc:"
    BY <1>2, <1>6, <1>12, <1>15
  <1>17. ASSUME NEW i \in 1 .. Len(l) PROVE x[i + 1] = l[i]
    <2>1. i + 1 \in 1 .. 1 + Len(l) /\ i + 1 \in 1 .. Len(l) + 1 /\ ~(i + 1 <= 1)
          /\ (i + 1) - 1 = i
      BY <1>12
    <2> QED BY <2>1, <1>6, <1>15
  <1>18. x[Len(l) + 2] = ":"
    <2>1. PICK n : n = Len(l) + 2
      OBVIOUS
    <2>2. n \in 1 .. Len(b) + Len(t) /\ n <= Len(b) /\ n \in 1 .. Len(a) + 1
          /\ ~(n <= Len(a)) /\ n - Len(a) = 1
      BY <1>12, <1>13, <2>1
    <2>3. x[n] = b[n] /\ b[n] = k[n - Len(a)]
      BY <1>8, <1>10, <2>2
    <2> QED BY <1>4, <2>1, <2>2, <2>3
  <1>19. ASSUME NEW i \in 1 .. Len(t) PROVE x[Len(l) + 2 + i] = t[i]
    <2>1. PICK n : n = Len(l) + 2 + i
      OBVIOUS
    <2>2. n \in 1 .. Len(b) + Len(t) /\ ~(n <= Len(b)) /\ n - Len(b) = i
      BY <1>12, <1>13, <2>1
    <2> QED BY <1>10, <2>1, <2>2
  <1> QED BY <1>11, <1>14, <1>16, <1>17, <1>18, <1>19 DEF Spelled

LEMMA IdLetters ==
    ASSUME NEW l \in Seq(STRING), NEW t \in Seq(STRING)
    PROVE  Spelled(EntityIdFor(l, t), l, t)
  <1>1. PICK W : W = STRING
    OBVIOUS
  <1>2. PICK S : S = W \cup {":", "urn:wc:oidc:"}
    OBVIOUS
  <1>3. "urn:wc:oidc:" \in S /\ ":" \in S /\ W \subseteq S
    BY <1>2
  <1>4. l \in Seq(S) /\ t \in Seq(S)
    BY <1>1, <1>3, WiderSeq
  <1> QED BY <1>3, <1>4, LettersOf, Zenon

\* Two labels without a colon and two subjects never spell one name.
LEMMA NamesApart ==
    ASSUME NEW l \in Seq(STRING), NEW t \in Seq(STRING),
           NEW m \in Seq(STRING), NEW u \in Seq(STRING),
           \A i \in DOMAIN l : l[i] # ":", \A i \in DOMAIN m : m[i] # ":",
           EntityIdFor(l, t) = EntityIdFor(m, u)
    PROVE  l = m /\ t = u
  <1>1. PICK x : x = EntityIdFor(l, t)
    OBVIOUS
  <1>2. /\ Len(x) = Len(l) + Len(t) + 2
        /\ \A i \in 1 .. Len(l) : x[i + 1] = l[i]
        /\ x[Len(l) + 2] = ":"
        /\ \A i \in 1 .. Len(t) : x[Len(l) + 2 + i] = t[i]
    <2>1. Spelled(x, l, t)
      BY <1>1, IdLetters, Zenon
    <2> QED BY <2>1 DEF Spelled
  <1>3. /\ Len(x) = Len(m) + Len(u) + 2
        /\ \A i \in 1 .. Len(m) : x[i + 1] = m[i]
        /\ x[Len(m) + 2] = ":"
        /\ \A i \in 1 .. Len(u) : x[Len(m) + 2 + i] = u[i]
    <2>1. Spelled(x, m, u)
      BY <1>1, IdLetters, Zenon
    <2> QED BY <2>1 DEF Spelled
  <1>4. Len(l) \in Nat /\ Len(m) \in Nat /\ Len(t) \in Nat /\ Len(u) \in Nat
        /\ DOMAIN l = 1 .. Len(l) /\ DOMAIN m = 1 .. Len(m)
    OBVIOUS
  <1>5. ASSUME Len(l) < Len(m) PROVE FALSE
    <2>1. Len(l) + 1 \in 1 .. Len(m) /\ (Len(l) + 1) + 1 = Len(l) + 2
      BY <1>4, <1>5
    <2>2. x[(Len(l) + 1) + 1] = m[Len(l) + 1]
      BY <1>3, <2>1
    <2> QED BY <1>2, <1>4, <2>1, <2>2
  <1>6. ASSUME Len(m) < Len(l) PROVE FALSE
    <2>1. Len(m) + 1 \in 1 .. Len(l) /\ (Len(m) + 1) + 1 = Len(m) + 2
      BY <1>4, <1>6
    <2>2. x[(Len(m) + 1) + 1] = l[Len(m) + 1]
      BY <1>2, <2>1
    <2> QED BY <1>3, <1>4, <2>1, <2>2
  <1>7. Len(l) = Len(m)
    <2>1. ~(Len(l) < Len(m)) /\ ~(Len(m) < Len(l))
      BY <1>5, <1>6, Zenon
    <2>2. \A i, j \in Nat : ~(i < j) /\ ~(j < i) => i = j
      OBVIOUS
    <2> QED BY <1>4, <2>1, <2>2, Zenon
  <1>8. Len(t) = Len(u)
    BY <1>2, <1>3, <1>4, <1>7
  <1>9. \A i \in 1 .. Len(l) : l[i] = m[i]
    BY <1>2, <1>3, <1>7
  <1>10. \A i \in 1 .. Len(t) : t[i] = u[i]
    BY <1>2, <1>3, <1>7, <1>8
  <1>11. l = m
    BY <1>7, <1>9, SeqEqual, Zenon
  <1>12. t = u
    BY <1>8, <1>10, SeqEqual, Zenon
  <1> QED BY <1>11, <1>12

\* A token that is accepted: who signed it, whom it is for and until when.
LEMMA AcceptedToken ==
    ASSUME NEW o, NEW p, NEW at, Identity(o, p, at) = "verified"
    PROVE  /\ Genuine(o) /\ o.token.aud = o.verifier.aud
           /\ at < o.token.exp + o.verifier.leeway
           /\ \/ o.identity = "svid" /\ o.token.spiffe /\ p = o.token.sub
              \/ /\ o.identity = "oidc" /\ p = EntityIdFor(o.verifier.label, o.token.sub)
                 /\ \A i \in DOMAIN o.verifier.label : o.verifier.label[i] # ":"
  <1>1. CASE o.identity = "svid"
    <2>1. TokenValid(o.token, o.verifier, at) /\ o.token.spiffe /\ p = o.token.sub
      BY <1>1 DEF Identity, SvidIdentity
    <2> QED BY <1>1, <2>1 DEF TokenValid, Genuine
  <1>2. CASE o.identity = "oidc"
    <2>1. /\ TokenValid(o.token, o.verifier, at) /\ p = EntityIdFor(o.verifier.label, o.token.sub)
          /\ CheckConfig(o.verifier)
      BY <1>2 DEF Identity, OidcIdentity, VerifiedClaims
    <2> QED BY <1>2, <2>1 DEF TokenValid, Genuine, CheckConfig
  <1>3. o.identity = "svid" \/ o.identity = "oidc"
    BY DEF Identity, AssertedIdentity
  <1> QED BY <1>1, <1>2, <1>3

\* One name, one workload.
LEMMA OneWorkload ==
    ASSUME NEW o \in Option, NEW q \in Option, NEW p, NEW at, NEW bt,
           Identity(o, p, at) = "verified", Identity(q, p, bt) = "verified"
    PROVE  o.token.holder = q.token.holder
  <1>1. Genuine(o) /\ Genuine(q)
    BY AcceptedToken
  <1>2. /\ o.verifier.label \in Seq(STRING) /\ o.token.sub \in Seq(STRING)
        /\ q.verifier.label \in Seq(STRING) /\ q.token.sub \in Seq(STRING)
    BY AdmissionAssumption
  <1>3. ASSUME NEW a \in Option, NEW b \in Option, a.token.spiffe, p = a.token.sub,
               p = EntityIdFor(b.verifier.label, b.token.sub)
        PROVE  FALSE
    <2>1. p \in Seq(STRING) /\ p # <<>> /\ Head(p) # "urn:wc:oidc:"
      BY <1>3, AdmissionAssumption
    <2>2. p[1] = "urn:wc:oidc:"
      <3>1. b.verifier.label \in Seq(STRING) /\ b.token.sub \in Seq(STRING)
        BY AdmissionAssumption
      <3>2. Spelled(p, b.verifier.label, b.token.sub)
        BY <1>3, <3>1, IdLetters, Zenon
      <3> QED BY <3>2 DEF Spelled
    <2> QED BY <2>1, <2>2
  <1>4. CASE o.identity = "svid" /\ p = o.token.sub /\ o.token.spiffe
    <2>1. q.identity = "svid" /\ p = q.token.sub
      BY <1>3, <1>4, AcceptedToken
    <2> QED BY <1>1, <1>4, <2>1, AdmissionAssumption
  <1>5. CASE /\ o.identity = "oidc" /\ p = EntityIdFor(o.verifier.label, o.token.sub)
             /\ \A i \in DOMAIN o.verifier.label : o.verifier.label[i] # ":"
    <2>1. /\ q.identity = "oidc" /\ p = EntityIdFor(q.verifier.label, q.token.sub)
          /\ \A i \in DOMAIN q.verifier.label : q.verifier.label[i] # ":"
      BY <1>3, <1>5, AcceptedToken
    <2>2. o.verifier.label = q.verifier.label /\ o.token.sub = q.token.sub
      <3>1. EntityIdFor(o.verifier.label, o.token.sub) = EntityIdFor(q.verifier.label, q.token.sub)
        BY <1>5, <2>1
      <3>2. PICK l : l = o.verifier.label
        OBVIOUS
      <3>3. PICK m : m = q.verifier.label
        OBVIOUS
      <3>4. PICK t : t = o.token.sub
        OBVIOUS
      <3>5. PICK u : u = q.token.sub
        OBVIOUS
      <3>6. /\ l \in Seq(STRING) /\ t \in Seq(STRING) /\ m \in Seq(STRING) /\ u \in Seq(STRING)
            /\ (\A i \in DOMAIN l : l[i] # ":") /\ (\A i \in DOMAIN m : m[i] # ":")
            /\ EntityIdFor(l, t) = EntityIdFor(m, u)
        BY <1>2, <1>5, <2>1, <3>1, <3>2, <3>3, <3>4, <3>5
      <3>7. l = m /\ t = u
        BY <3>6, NamesApart
      <3> QED BY <3>2, <3>3, <3>4, <3>5, <3>7
    <2> QED BY <1>1, <1>5, <2>1, <2>2, AdmissionAssumption
  <1> QED BY <1>4, <1>5, AcceptedToken

\* What a verified card and verified provenance show.
LEMMA AcceptedCard ==
    ASSUME NEW o, NEW s, Card(o, s) = "verified"
    PROVE  \E g \in s.signatures :
              (\E k \in DOMAIN o.cardKeys : o.cardKeys[k].key = g.signer) /\ g.over = s.items
  <1>1. PICK g \in s.signatures : VerifyOne(g, o.cardKeys, s.items)
    BY DEF Card, CardIdentity
  <1> QED BY <1>1 DEF VerifyOne

LEMMA AcceptedProvenance ==
    ASSUME NEW o \in Option, NEW bound, Provenance(o, bound) = "verified"
    PROVE  \E i \in DOMAIN o.envelopes :
             /\ \E g \in o.envelopes[i].signatures :
                   \E k \in DOMAIN o.provKeys : o.provKeys[k].key = g.signer
             /\ o.envelopes[i].builder \in o.builders
             /\ (IF o.digest # {} THEN o.digest ELSE bound) \subseteq o.envelopes[i].subjects
  <1> DEFINE valid == {i \in DOMAIN o.envelopes : EnvelopeValid(o.envelopes[i], o.provKeys)}
             digest == IF o.digest # {} THEN o.digest ELSE bound
  <1>1. valid # {} /\ CheckStatement(o.envelopes[Min(valid)], digest, o.builders)
    BY DEF Provenance, ProvenanceIdentity
  <1>2. Min(valid) \in valid
    <2>1. valid \subseteq Nat
      BY AdmissionAssumption
    <2> HIDE DEF valid
    <2> QED BY <1>1, <2>1, NatsHaveMin
  <1>3. PICK i : i = Min(valid)
    OBVIOUS
  <1>4. i \in DOMAIN o.envelopes /\ EnvelopeValid(o.envelopes[i], o.provKeys)
    BY <1>2, <1>3
  <1>5. o.envelopes[i].builder \in o.builders /\ digest \subseteq o.envelopes[i].subjects
    BY <1>1, <1>3 DEF CheckStatement
  <1>6. \E g \in o.envelopes[i].signatures :
           \E k \in DOMAIN o.provKeys : o.provKeys[k].key = g.signer
    BY <1>4 DEF EnvelopeValid
  <1> QED BY <1>4, <1>5, <1>6

\* What a detector finds with a party's own names left out, it finds under the
\* screener's subject.
LEMMA HitsAnyway ==
    ASSUME NEW item, NEW index, NEW p \in Party, NEW d \in BlockingDetectors,
           \A n \in index : n.holder \in Party, Hits(item, index, p, d) > 0
    PROVE  Hits(item, index, ScreeningSubject, d) > 0
  <1>1. CASE d = "S2"
    <2>1. NearCollision(item.name, index, p) => NearCollision(item.name, index, ScreeningSubject)
      BY AdmissionAssumption DEF NearCollision
    <2> QED BY <1>1, <2>1 DEF Hits, S2Names
  <1>2. CASE d # "S2"
    BY <1>2 DEF Hits, BlockingDetectors
  <1> QED BY <1>1, <1>2

LEMMA NotBlocked ==
    ASSUME NEW o, NEW s, NEW index, ScreenerVerdict(o, s, index) # "Block",
           o.screen.mode = "Enforce", o.screen.rules.calibrated,
           NEW item \in s.items, NEW d \in BlockingDetectors \ o.screen.rules.disabled,
           Hits(item, index, ScreeningSubject, d) > 0
    PROVE  AcceptanceCovers(o.screen.acceptances, item, d)
  <1>1. Asked(s.items, index, ScreeningSubject, 4, o.screen) # "Block"
    BY DEF ScreenerVerdict, Verdict, Softened
  <1>2. Live(item, index, ScreeningSubject, o.screen) \cap BlockingDetectors = {}
    BY <1>1 DEF Asked
  <1>3. d \in Detectors
    BY DEF BlockingDetectors, Detectors
  <1> QED BY <1>2, <1>3 DEF Live

---------------------------------------------------------------------------
\* A command that has begun, and one that has judged what it is about to write.
Begun(r) ==
    r.party \in Party /\ r.opt \in Option /\ \A n \in r.index : n.holder \in Party

Judged(r) ==
    /\ Begun(r)
    /\ StagesPass(r.opt, r.party, r.pin, r.index, r.bound, r.at)
    /\ r.posture = PostureFor(r.opt, r.party, r.pin, r.bound, r.at)

CmdSound(r) ==
    /\ r.pc \in {"bind", "admit"} =>
         /\ Begun(r)
         /\ r = [pc |-> r.pc, party |-> r.party, opt |-> r.opt, index |-> r.index,
                 bound |-> r.bound, at |-> r.at]
    /\ r.pc = "put" => Judged(r)

\* An entity is what some admission found, but for its posture and its lifecycle.
EntitySound(e, b, p) ==
    /\ e = [lifecycle |-> e.lifecycle, posture |-> e.posture, pin |-> e.pin, owner |-> e.owner]
    /\ Judged(b) /\ b.party = p /\ b.pin = e.pin
    /\ e.posture = "Attested" => b.posture = "Attested"

\* Whoever authenticated a party had a token in its name.
HolderTrue(p, h) ==
    \E o \in Option : o.token.holder = h /\ \E at : Identity(o, p, at) = "verified"

HoldersTrue ==
    /\ holders = [p \in Party |-> holders[p]]
    /\ \A p \in Party : \A h \in holders[p] : HolderTrue(p, h)

EntitiesTrue ==
    /\ DOMAIN entities \subseteq Party /\ DOMAIN entities \subseteq DOMAIN basis
    /\ \A p \in DOMAIN entities :
         /\ EntitySound(entities[p], basis[p], p)
         /\ basis[p].posture = "Attested" => basis[p].opt.token.holder \in holders[p]

CommandsTrue ==
    /\ cmd = [c \in Command |-> cmd[c]]
    /\ \A c \in Command : CmdSound(cmd[c])

AdmissionInv == CommandsTrue /\ EntitiesTrue /\ HoldersTrue

---------------------------------------------------------------------------
\* An attested judgement, and one made under enforcement.
LEMMA JudgedIsProven ==
    ASSUME NEW b, Judged(b)
    PROVE  /\ b.opt.mode = "Enforce" => b.posture = "Attested"
           /\ b.posture = "Attested" =>
                /\ Identity(b.opt, b.party, b.at) = "verified"
                /\ Card(b.opt, b.pin) = "verified"
                /\ Provenance(b.opt, b.bound) = "verified"
  <1>1. /\ ~Denies(Identity(b.opt, b.party, b.at), b.opt.mode)
        /\ ~Denies(Card(b.opt, b.pin), b.opt.mode)
        /\ ~Denies(Provenance(b.opt, b.bound), b.opt.mode)
        /\ b.posture = PostureFor(b.opt, b.party, b.pin, b.bound, b.at)
    BY DEF Judged, StagesPass
  <1>2. /\ Identity(b.opt, b.party, b.at) \in {"verified", "unverified", "error"}
        /\ Card(b.opt, b.pin) \in {"verified", "unverified", "error"}
        /\ Provenance(b.opt, b.bound) \in {"verified", "unverified", "error"}
    <2>1. Identity(b.opt, b.party, b.at) \in {"verified", "unverified", "error"}
      BY DEF Identity, SvidIdentity, OidcIdentity, AssertedIdentity
    <2>2. Card(b.opt, b.pin) \in {"verified", "unverified", "error"}
      BY DEF Card, CardIdentity
    <2>3. Provenance(b.opt, b.bound) \in {"verified", "unverified", "error"}
      BY DEF Provenance, ProvenanceIdentity
    <2> QED BY <2>1, <2>2, <2>3
  <1> QED BY <1>1, <1>2 DEF Denies, PostureFor

LEMMA AdmissionInvSound ==
    ASSUME AdmissionInv
    PROVE  AttestedIsProven /\ ScreenedClean
  <1>1. ASSUME NEW p \in DOMAIN entities
        PROVE  LET b == basis[p]
                   o == b.opt
                   Trusted(sig, keys) == \E k \in DOMAIN keys : keys[k].key = sig.signer
               IN  /\ o.mode = "Enforce" => b.posture = "Attested"
                   /\ entities[p].posture = "Attested" =>
                       /\ Trusted(o.token, o.verifier.keys)
                       /\ o.token.aud = o.verifier.aud
                       /\ b.at < o.token.exp + o.verifier.leeway
                       /\ Cardinality(holders[p]) = 1
                       /\ \E g \in b.pin.signatures :
                             Trusted(g, o.cardKeys) /\ g.over = entities[p].pin.items
                       /\ \E i \in DOMAIN o.envelopes :
                             /\ \E g \in o.envelopes[i].signatures : Trusted(g, o.provKeys)
                             /\ o.envelopes[i].builder \in o.builders
                             /\ (IF o.digest # {} THEN o.digest ELSE b.bound)
                                   \subseteq o.envelopes[i].subjects
    <2>1. PICK b : b = basis[p]
      OBVIOUS
    <2>2. PICK e : e = entities[p]
      OBVIOUS
    <2>3. PICK o : o = b.opt
      OBVIOUS
    <2>4. /\ EntitySound(e, b, p) /\ p \in Party
          /\ b.posture = "Attested" => o.token.holder \in holders[p]
      BY <1>1, <2>1, <2>2, <2>3 DEF AdmissionInv, EntitiesTrue
    <2>5. /\ Judged(b) /\ b.party = p /\ b.pin = e.pin /\ o \in Option
          /\ e.posture = "Attested" => b.posture = "Attested"
      BY <2>3, <2>4 DEF EntitySound, Judged, Begun
    <2>6. o.mode = "Enforce" => b.posture = "Attested"
      BY <2>3, <2>5, JudgedIsProven
    <2>7. ASSUME e.posture = "Attested"
          PROVE  /\ \E k \in DOMAIN o.verifier.keys : o.verifier.keys[k].key = o.token.signer
                 /\ o.token.aud = o.verifier.aud
                 /\ b.at < o.token.exp + o.verifier.leeway
                 /\ Cardinality(holders[p]) = 1
                 /\ \E g \in b.pin.signatures :
                       /\ \E k \in DOMAIN o.cardKeys : o.cardKeys[k].key = g.signer
                       /\ g.over = e.pin.items
                 /\ \E i \in DOMAIN o.envelopes :
                       /\ \E g \in o.envelopes[i].signatures :
                             \E k \in DOMAIN o.provKeys : o.provKeys[k].key = g.signer
                       /\ o.envelopes[i].builder \in o.builders
                       /\ (IF o.digest # {} THEN o.digest ELSE b.bound)
                             \subseteq o.envelopes[i].subjects
      <3>1. /\ Identity(o, p, b.at) = "verified" /\ Card(o, b.pin) = "verified"
            /\ Provenance(o, b.bound) = "verified" /\ o.token.holder \in holders[p]
        BY <2>3, <2>4, <2>5, <2>7, JudgedIsProven
      <3>2. /\ Genuine(o) /\ o.token.aud = o.verifier.aud
            /\ b.at < o.token.exp + o.verifier.leeway
        BY <3>1, AcceptedToken
      <3>3. \A h \in holders[p] : h = o.token.holder
        <4>1. ASSUME NEW h \in holders[p] PROVE h = o.token.holder
          <5>1. PICK q \in Option : q.token.holder = h /\ \E at : Identity(q, p, at) = "verified"
            BY <2>4, <4>1 DEF AdmissionInv, HoldersTrue, HolderTrue
          <5> QED BY <2>5, <3>1, <5>1, OneWorkload
        <4> QED BY <4>1
      <3>4. Cardinality(holders[p]) = 1
        <4>1. holders[p] = {o.token.holder}
          BY <3>1, <3>3
        <4> QED BY <4>1, FS_Singleton
      <3>5. \E g \in b.pin.signatures :
               /\ \E k \in DOMAIN o.cardKeys : o.cardKeys[k].key = g.signer
               /\ g.over = e.pin.items
        BY <2>5, <3>1, AcceptedCard
      <3>6. \E k \in DOMAIN o.verifier.keys : o.verifier.keys[k].key = o.token.signer
        BY <3>2 DEF Genuine
      <3> QED BY <2>5, <3>1, <3>2, <3>4, <3>5, <3>6, AcceptedProvenance
    <2> QED BY <2>1, <2>2, <2>3, <2>6, <2>7
  <1>2. AttestedIsProven
    BY <1>1 DEF AttestedIsProven
  <1>3. ASSUME NEW p \in DOMAIN entities, basis[p].opt.screen.mode = "Enforce",
               basis[p].opt.screen.rules.calibrated, NEW i \in entities[p].pin.items,
               NEW d \in BlockingDetectors \ basis[p].opt.screen.rules.disabled,
               Hits(i, basis[p].index, p, d) > 0
        PROVE  AcceptanceCovers(basis[p].opt.screen.acceptances, i, d)
    <2>1. PICK b : b = basis[p]
      OBVIOUS
    <2>2. /\ Judged(b) /\ b.pin = entities[p].pin /\ p \in Party
      BY <2>1 DEF AdmissionInv, EntitiesTrue, EntitySound
    <2>3. ScreenerVerdict(b.opt, b.pin, b.index) # "Block" /\ \A n \in b.index : n.holder \in Party
      BY <2>2 DEF Judged, StagesPass, Begun
    <2>4. Hits(i, b.index, ScreeningSubject, d) > 0
      BY <1>3, <2>1, <2>2, <2>3, HitsAnyway
    <2> QED BY <1>3, <2>1, <2>2, <2>3, <2>4, NotBlocked
  <1>4. ScreenedClean
    BY <1>3 DEF ScreenedClean
  <1> QED BY <1>2, <1>4

---------------------------------------------------------------------------
(* The steps. *)

LEMMA CommandMoves ==
    ASSUME AdmissionInv, NEW c \in Command, NEW v, CmdSound(v), cmd' = [cmd EXCEPT ![c] = v]
    PROVE  CommandsTrue'
  <1>1. /\ cmd = [x \in Command |-> cmd[x]] /\ \A x \in Command : CmdSound(cmd[x])
    BY DEF AdmissionInv, CommandsTrue
  <1>2. /\ cmd' = [x \in Command |-> cmd'[x]]
        /\ \A x \in Command : cmd'[x] = v \/ cmd'[x] = cmd[x]
    BY <1>1
  <1>3. \A x \in Command : CmdSound(cmd'[x])
    BY <1>1, <1>2
  <1> QED BY <1>2, <1>3 DEF CommandsTrue

LEMMA CommandStops ==
    ASSUME AdmissionInv, NEW c \in Command, cmd' = Stays(c)
    PROVE  CommandsTrue'
  <1>1. CmdSound(Idle)
    BY DEF CmdSound, Idle
  <1>2. /\ cmd' = [x \in Command |-> cmd'[x]]
        /\ \A x \in Command : cmd'[x] = Idle \/ cmd'[x] = cmd[x]
    BY DEF Stays
  <1>3. \A x \in Command : CmdSound(cmd'[x])
    BY <1>1, <1>2 DEF AdmissionInv, CommandsTrue
  <1> QED BY <1>2, <1>3 DEF CommandsTrue

\* A step that leaves the register alone.
LEMMA RegisterStays ==
    ASSUME AdmissionInv, UNCHANGED <<entities, basis, holders>>, CommandsTrue'
    PROVE  AdmissionInv' /\ PinStep
  BY DEF AdmissionInv, EntitiesTrue, HoldersTrue, PinStep

\* A change of a party's lifecycle or posture that attests nobody.
LEMMA EntityChanges ==
    ASSUME AdmissionInv, NEW p \in DOMAIN entities, NEW life, NEW posture,
           entities' = [entities EXCEPT ![p] =
               [lifecycle |-> life, posture |-> posture, pin |-> entities[p].pin,
                owner |-> entities[p].owner]],
           posture = "Attested" => entities[p].posture = "Attested",
           UNCHANGED <<basis, holders>>, CommandsTrue'
    PROVE  AdmissionInv' /\ PinStep
  <1>1. PICK e : e = entities[p]
    OBVIOUS
  <1>2. PICK v : v = [lifecycle |-> life, posture |-> posture, pin |-> e.pin, owner |-> e.owner]
    OBVIOUS
  <1>3. entities' = [entities EXCEPT ![p] = v] /\ (posture = "Attested" => e.posture = "Attested")
    BY <1>1, <1>2
  <1>4. EntitySound(v, basis[p], p) /\ v.pin = e.pin
    <2>1. EntitySound(e, basis[p], p)
      BY <1>1 DEF AdmissionInv, EntitiesTrue
    <2> QED BY <2>1, <1>2, <1>3 DEF EntitySound
  <1>5. DOMAIN entities' = DOMAIN entities
        /\ \A x \in DOMAIN entities : entities'[x] = IF x = p THEN v ELSE entities[x]
    BY <1>3
  <1>6. EntitiesTrue'
    BY <1>4, <1>5 DEF AdmissionInv, EntitiesTrue
  <1>7. PinStep
    BY <1>1, <1>4, <1>5 DEF PinStep
  <1>8. HoldersTrue'
    BY DEF AdmissionInv, HoldersTrue
  <1> QED BY <1>6, <1>7, <1>8 DEF AdmissionInv

LEMMA BeginKeeps ==
    ASSUME AdmissionInv, NEW c \in Command, NEW p \in Party, NEW opt \in Option,
           BeginRegister(c, p, opt)
    PROVE  AdmissionInv' /\ PinStep
  <1>1. PICK held \in BOOLEAN :
          cmd' = [cmd EXCEPT ![c] =
                    [pc |-> IF opt.bind /\ opt.digest = {} THEN "bind" ELSE "admit",
                     party |-> p, opt |-> opt, index |-> EstateNames(held),
                     bound |-> {}, at |-> now]]
    BY DEF BeginRegister
  <1>2. PICK v : v = [pc |-> IF opt.bind /\ opt.digest = {} THEN "bind" ELSE "admit",
                      party |-> p, opt |-> opt, index |-> EstateNames(held),
                      bound |-> {}, at |-> now]
    OBVIOUS
  <1>3. \A n \in EstateNames(held) : n.holder \in Party
    <2>1. DOMAIN entities \subseteq Party
      BY DEF AdmissionInv, EntitiesTrue
    <2> QED BY <2>1 DEF EstateNames
  <1>4. CmdSound(v)
    BY <1>2, <1>3 DEF CmdSound, Begun
  <1>5. CommandsTrue'
    BY <1>1, <1>2, <1>4, CommandMoves
  <1> QED BY <1>5, RegisterStays DEF BeginRegister, registryVars

LEMMA BindKeeps ==
    ASSUME AdmissionInv, NEW c \in Command, BindSurface(c)
    PROVE  AdmissionInv' /\ PinStep
  <1>1. PICK f \in Fetched :
          cmd' = IF f = {} THEN Stays(c) ELSE [cmd EXCEPT ![c].pc = "admit", ![c].bound = f]
    BY DEF BindSurface
  <1>2. PICK r : r = cmd[c]
    OBVIOUS
  <1>3. /\ Begun(r)
        /\ r = [pc |-> r.pc, party |-> r.party, opt |-> r.opt, index |-> r.index,
                bound |-> r.bound, at |-> r.at]
    BY <1>2 DEF BindSurface, AdmissionInv, CommandsTrue, CmdSound
  <1>4. PICK w : w = [r EXCEPT !.pc = "admit", !.bound = f]
    OBVIOUS
  <1>5. w = [pc |-> "admit", party |-> r.party, opt |-> r.opt, index |-> r.index,
             bound |-> f, at |-> r.at]
    BY <1>3, <1>4
  <1>6. CmdSound(w)
    BY <1>3, <1>5 DEF CmdSound, Begun
  <1>7. CommandsTrue'
    <2>1. CASE f = {}
      BY <1>1, <2>1, CommandStops
    <2>2. CASE f # {}
      <3>1. cmd' = [cmd EXCEPT ![c] = w]
        BY <1>1, <1>2, <1>4, <2>2
      <3> QED BY <1>6, <3>1, CommandMoves
    <2> QED BY <2>1, <2>2
  <1> QED BY <1>7, RegisterStays DEF BindSurface, registryVars

LEMMA AdmitKeeps ==
    ASSUME AdmissionInv, NEW c \in Command, AdmitSurface(c)
    PROVE  AdmissionInv' /\ PinStep
  <1>1. PICK r : r = cmd[c]
    OBVIOUS
  <1>2. Begun(r)
    BY <1>1 DEF AdmitSurface, AdmissionInv, CommandsTrue, CmdSound
  <1>3. PICK f \in Fetched :
          cmd' = [cmd EXCEPT ![c] =
             IF ~(\E s \in f : StagesPass(r.opt, r.party, s, r.index, r.bound, r.at))
             THEN [pc |-> "denied", party |-> r.party]
             ELSE LET s == CHOOSE s \in f : TRUE
                  IN  [pc |-> "put", party |-> r.party, opt |-> r.opt, at |-> r.at,
                       index |-> r.index, bound |-> r.bound, pin |-> s,
                       tier |-> DeriveTier(r.opt.declared, s.items, r.opt.internal),
                       posture |-> PostureFor(r.opt, r.party, s, r.bound, r.at)]]
    BY <1>1 DEF AdmitSurface
  <1>4. CASE ~(\E s \in f : StagesPass(r.opt, r.party, s, r.index, r.bound, r.at))
    <2>1. PICK v : v = [pc |-> "denied", party |-> r.party]
      OBVIOUS
    <2>2. CmdSound(v) /\ cmd' = [cmd EXCEPT ![c] = v]
      BY <1>3, <1>4, <2>1 DEF CmdSound
    <2>3. CommandsTrue'
      BY <2>2, CommandMoves
    <2> QED BY <2>3, RegisterStays DEF AdmitSurface, registryVars
  <1>5. CASE \E s \in f : StagesPass(r.opt, r.party, s, r.index, r.bound, r.at)
    <2>1. PICK s \in f : StagesPass(r.opt, r.party, s, r.index, r.bound, r.at)
      BY <1>5
    <2>2. f = {s}
      BY <2>1 DEF Fetched
    <2>3. (CHOOSE x \in f : TRUE) = s
      BY <2>2
    <2>4. PICK v : v = [pc |-> "put", party |-> r.party, opt |-> r.opt, at |-> r.at,
                        index |-> r.index, bound |-> r.bound, pin |-> s,
                        tier |-> DeriveTier(r.opt.declared, s.items, r.opt.internal),
                        posture |-> PostureFor(r.opt, r.party, s, r.bound, r.at)]
      OBVIOUS
    <2>5. cmd' = [cmd EXCEPT ![c] = v]
      BY <1>3, <1>5, <2>3, <2>4
    <2>6. CmdSound(v)
      BY <1>2, <2>1, <2>4 DEF CmdSound, Judged, Begun
    <2>7. CommandsTrue'
      BY <2>5, <2>6, CommandMoves
    <2> QED BY <2>7, RegisterStays DEF AdmitSurface, registryVars
  <1> QED BY <1>4, <1>5

LEMMA PutKeeps ==
    ASSUME AdmissionInv, NEW c \in Command, PutEntity(c)
    PROVE  AdmissionInv' /\ PinStep
  <1>1. PICK r : r = cmd[c]
    OBVIOUS
  <1>2. Judged(r)
    BY <1>1 DEF PutEntity, AdmissionInv, CommandsTrue, CmdSound
  <1>3. r.party \in Party /\ r.opt \in Option
    BY <1>2 DEF Judged, Begun
  <1>4. CASE cmd' = Stays(c) /\ UNCHANGED <<registryVars, basis, holders>>
    <2>1. CommandsTrue'
      BY <1>4, CommandStops
    <2> QED BY <1>4, <2>1, RegisterStays DEF registryVars
  <1>5. CASE /\ Put(r.party, r.posture, r.pin, r.opt.owner)
             /\ basis' = Insert(basis, r.party, r)
             /\ holders' = [holders EXCEPT ![r.party] =
                              @ \cup IF Identity(r.opt, r.party, r.at) = "verified"
                                      THEN {r.opt.token.holder} ELSE {}]
             /\ cmd' = [cmd EXCEPT ![c] = [pc |-> "record", party |-> r.party]]
    <2>1. PICK p : p = r.party
      OBVIOUS
    <2>2. PICK e : e = [lifecycle |-> "Pending", posture |-> r.posture, pin |-> r.pin,
                        owner |-> r.opt.owner]
      OBVIOUS
    <2>3. /\ p \in DOMAIN entities => entities[p].lifecycle = "Pending"
          /\ DOMAIN entities' = DOMAIN entities \cup {p} /\ entities'[p] = e
          /\ \A x \in DOMAIN entities : x # p => entities'[x] = entities[x]
      BY <1>5, <2>1, <2>2 DEF Put, Insert
    <2>4. /\ DOMAIN basis' = DOMAIN basis \cup {p} /\ basis'[p] = r
          /\ \A x \in DOMAIN basis : x # p => basis'[x] = basis[x]
      BY <1>5, <2>1 DEF Insert
    <2>5. PICK more : more = IF Identity(r.opt, r.party, r.at) = "verified"
                             THEN {r.opt.token.holder} ELSE {}
      OBVIOUS
    <2>6. /\ holders' = [x \in Party |-> holders'[x]]
          /\ holders'[p] = holders[p] \cup more
          /\ \A x \in Party : x # p => holders'[x] = holders[x]
      <3>1. holders = [x \in Party |-> holders[x]]
        BY DEF AdmissionInv, HoldersTrue
      <3>2. holders' = [holders EXCEPT ![p] = holders[p] \cup more]
        BY <1>5, <2>1, <2>5
      <3> QED BY <1>3, <2>1, <3>1, <3>2
    <2>7. \A h \in more : HolderTrue(p, h)
      BY <1>3, <2>1, <2>5 DEF HolderTrue
    <2>8. HoldersTrue'
      BY <2>6, <2>7 DEF AdmissionInv, HoldersTrue
    <2>9. r.posture = "Attested" => r.opt.token.holder \in holders'[p]
      BY <1>2, <2>5, <2>6, JudgedIsProven
    <2>10. EntitySound(e, r, p)
      BY <1>2, <2>1, <2>2 DEF EntitySound
    <2>11. EntitiesTrue'
      <3>1. DOMAIN entities' \subseteq Party /\ DOMAIN entities' \subseteq DOMAIN basis'
        BY <1>3, <2>1, <2>3, <2>4 DEF AdmissionInv, EntitiesTrue
      <3>2. ASSUME NEW x \in DOMAIN entities'
            PROVE  /\ EntitySound(entities'[x], basis'[x], x)
                   /\ basis'[x].posture = "Attested" => basis'[x].opt.token.holder \in holders'[x]
        <4>1. CASE x = p
          BY <4>1, <2>3, <2>4, <2>9, <2>10
        <4>2. CASE x # p
          <5>1. x \in DOMAIN entities /\ x \in DOMAIN basis /\ x \in Party
            BY <4>2, <2>3 DEF AdmissionInv, EntitiesTrue
          <5>2. entities'[x] = entities[x] /\ basis'[x] = basis[x] /\ holders'[x] = holders[x]
            BY <4>2, <5>1, <2>3, <2>4, <2>6
          <5> QED BY <5>1, <5>2 DEF AdmissionInv, EntitiesTrue
        <4> QED BY <4>1, <4>2
      <3> QED BY <3>1, <3>2 DEF EntitiesTrue
    <2>12. CommandsTrue'
      <3>1. PICK v : v = [pc |-> "record", party |-> r.party]
        OBVIOUS
      <3>2. CmdSound(v) /\ cmd' = [cmd EXCEPT ![c] = v]
        BY <1>5, <3>1 DEF CmdSound
      <3> QED BY <3>2, CommandMoves
    <2>13. PinStep
      BY <2>3 DEF PinStep
    <2> QED BY <2>8, <2>11, <2>12, <2>13 DEF AdmissionInv
  <1> QED BY <1>1, <1>4, <1>5 DEF PutEntity

LEMMA ActivateKeeps ==
    ASSUME AdmissionInv, NEW c \in Command, NEW p, Activate(c, p)
    PROVE  AdmissionInv' /\ PinStep
  <1>1. /\ p \in DOMAIN entities /\ entities' = [entities EXCEPT ![p].lifecycle = "Active"]
        /\ UNCHANGED <<basis, holders>>
    BY DEF Activate, Transition
  <1>2. PICK e : e = entities[p]
    OBVIOUS
  <1>3. e = [lifecycle |-> e.lifecycle, posture |-> e.posture, pin |-> e.pin, owner |-> e.owner]
    BY <1>1, <1>2 DEF AdmissionInv, EntitiesTrue, EntitySound
  <1>4. PICK w : w = [e EXCEPT !.lifecycle = "Active"]
    OBVIOUS
  <1>5. w = [lifecycle |-> "Active", posture |-> e.posture, pin |-> e.pin, owner |-> e.owner]
    BY <1>3, <1>4
  <1>6. entities' = [entities EXCEPT ![p] = w]
    BY <1>1, <1>2, <1>4
  <1>7. CommandsTrue'
    <2>1. PICK v : v = [pc |-> "record", party |-> p]
      OBVIOUS
    <2>2. CmdSound(v) /\ cmd' = [cmd EXCEPT ![c] = v]
      BY <2>1 DEF CmdSound, Activate
    <2> QED BY <2>2, CommandMoves
  <1> QED BY <1>1, <1>2, <1>5, <1>6, <1>7, EntityChanges

LEMMA ContainKeeps ==
    ASSUME AdmissionInv, NEW p, NEW H, ContainParty(p, H)
    PROVE  AdmissionInv' /\ PinStep
  <1>1. PICK posture, life :
          /\ entities' = [entities EXCEPT ![p].posture = posture, ![p].lifecycle = life]
          /\ posture # "Attested"
    <2>1. CASE Quarantine(p, H)
      <3>1. /\ "Quarantined" # "Attested"
            /\ entities' = [entities EXCEPT ![p].posture = "Quarantined", ![p].lifecycle = "Suspended"]
        BY <2>1 DEF Quarantine
      <3> QED BY <3>1, Zenon
    <2>2. CASE ClearQuarantine(p, H)
      <3>1. /\ "Unattested" # "Attested"
            /\ entities' = [entities EXCEPT ![p].posture = "Unattested", ![p].lifecycle = "Pending"]
        BY <2>2 DEF ClearQuarantine
      <3> QED BY <3>1, Zenon
    <2> QED BY <2>1, <2>2 DEF ContainParty
  <1>2. p \in DOMAIN entities /\ UNCHANGED <<cmd, basis, holders>>
    BY DEF ContainParty, Quarantine, ClearQuarantine
  <1>3. PICK e : e = entities[p]
    OBVIOUS
  <1>4. e = [lifecycle |-> e.lifecycle, posture |-> e.posture, pin |-> e.pin, owner |-> e.owner]
    BY <1>2, <1>3 DEF AdmissionInv, EntitiesTrue, EntitySound
  <1>5. PICK w : w = [e EXCEPT !.posture = posture, !.lifecycle = life]
    OBVIOUS
  <1>6. w = [lifecycle |-> life, posture |-> posture, pin |-> e.pin, owner |-> e.owner]
    BY <1>4, <1>5
  <1>7. entities' = [entities EXCEPT ![p] = w]
    BY <1>1, <1>3, <1>5
  <1>8. CommandsTrue'
    BY <1>2 DEF AdmissionInv, CommandsTrue
  <1> QED BY <1>1, <1>2, <1>3, <1>6, <1>7, <1>8, EntityChanges

LEMMA AdmissionStart ==
    ASSUME AdmissionInit
    PROVE  AdmissionInv
  <1>1. CommandsTrue
    BY DEF AdmissionInit, CommandsTrue, CmdSound, Idle
  <1>2. EntitiesTrue
    BY DEF AdmissionInit, EntitiesTrue
  <1>3. HoldersTrue
    BY DEF AdmissionInit, HoldersTrue
  <1> QED BY <1>1, <1>2, <1>3 DEF AdmissionInv

LEMMA AdmissionStep ==
    ASSUME AdmissionInv, [AdmissionNext]_admissionVars
    PROVE  AdmissionInv' /\ PinStep
  <1>1. CASE AdmissionTick \/ UNCHANGED admissionVars
    <2>1. UNCHANGED <<entities, basis, holders, cmd>>
      BY <1>1 DEF AdmissionTick, admissionVars, registryVars
    <2>2. CommandsTrue'
      BY <2>1 DEF AdmissionInv, CommandsTrue
    <2> QED BY <2>1, <2>2, RegisterStays
  <1>2. ASSUME NEW c \in Command, RecordDenied(c) \/ RecordRow(c) PROVE AdmissionInv' /\ PinStep
    <2>1. cmd' = Stays(c) /\ UNCHANGED <<entities, basis, holders>>
      BY <1>2 DEF RecordDenied, RecordRow, registryVars
    <2> QED BY <2>1, CommandStops, RegisterStays
  <1>3. ASSUME NEW p \in Party, ContainParty(p, Human) PROVE AdmissionInv' /\ PinStep
    BY <1>3, ContainKeeps
  <1>4. ASSUME NEW c \in Command,
               \/ \E p \in Party, opt \in Option : BeginRegister(c, p, opt)
               \/ \E p \in Party : Activate(c, p)
               \/ BindSurface(c) \/ AdmitSurface(c) \/ PutEntity(c)
        PROVE  AdmissionInv' /\ PinStep
    BY <1>4, BeginKeeps, ActivateKeeps, BindKeeps, AdmitKeeps, PutKeeps
  <1> QED BY <1>1, <1>2, <1>3, <1>4 DEF AdmissionNext

\* Whatever is registered, activated and contained in whatever order, by however
\* many commands at once: a party is Attested on proofs that hold of what was pinned
\* and on one workload's token, an enforcing screening left nothing that one of the
\* four blocking detectors hits, going by the names read when the command began, and
\* nobody accepted, and a party past Pending keeps its surface (attest.rs, screen.rs,
\* registry.rs put).
THEOREM AdmissionIsSound == AdmissionSpec => AdmissionSound
  <1>1. AdmissionInit => AdmissionInv
    BY AdmissionStart
  <1>2. AdmissionInv /\ [AdmissionNext]_admissionVars => AdmissionInv' /\ [PinStep]_admissionVars
    BY AdmissionStep
  <1>3. AdmissionInv => AttestedIsProven /\ ScreenedClean
    BY AdmissionInvSound
  <1> QED BY <1>1, <1>2, <1>3, PTL DEF AdmissionSpec, AdmissionSound
=============================================================================
