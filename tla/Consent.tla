------------------------------ MODULE Consent ------------------------------
(***************************************************************************)
(* Consent by a reviewed merge (wc-control/src/authority.rs, scm.rs) and   *)
(* what a provider's pipeline does with it (offer publish).  The asset's   *)
(* repository is a line of commits, each of which leaves a manifest: the   *)
(* terms and, possibly, an [approval] block naming who may approve a       *)
(* change to it.  People merge what the host lets them merge; a pipeline   *)
(* then asserts a commit and presents the bytes it acts on.                *)
(*                                                                         *)
(* The host is external: its answers are the commits, or an error.         *)
(***************************************************************************)
EXTENDS Naturals, Sequences, FiniteSets

CONSTANTS
    Person,       \* accounts of the source host
    AssetOwner,   \* the registered owner of the asset
    Terms,        \* what a manifest may offer
    ApproverLists, \* what an [approval] block may name
    Mins,         \* how many of them it asks for, none excluded
    MaxCommits,   \* bound on the history
    MaxOffers     \* bound on the offers published

NoBlock == [declared |-> FALSE, approvers |-> {}, min |-> 0]
Blocks == {NoBlock} \cup [declared : {TRUE}, approvers : ApproverLists, min : Mins]

VARIABLES
    commits,   \* the branch: what each commit leaves, who wrote and approved it
    offered    \* offered[n]: the n-th offer published, with its consent

consentVars == <<commits, offered>>

NotAsked == [sha |-> 0, bootstrap |-> FALSE]   \* published without --shim

ConsentInit ==
    /\ commits = <<>>
    /\ offered = <<>>

-----------------------------------------------------------------------------
(* The host. *)

\* What the host says of a merge, and the manifest it leaves; the base is the
\* commit before it.
MergeEvidence(author, approvers, guarded, terms, block) ==
    [author |-> author, approvers |-> approvers, guarded |-> guarded,
     terms |-> terms, block |-> block]

\* Any change lands that the host's own rules let through.
LandCommit(terms, block, author, approvers, guarded) ==
    /\ Len(commits) < MaxCommits
    /\ commits' = Append(commits, MergeEvidence(author, approvers, guarded, terms, block))
    /\ UNCHANGED offered

-----------------------------------------------------------------------------
(* The authority. *)

\* MergeEvidence::is_reviewed_merge
IsReviewedMerge(c) ==
    /\ c.guarded
    /\ \E h \in c.approvers : h # c.author

\* ScmMerge::declared_approvers, on the BASE commit; before the first commit
\* there is no manifest.
\* Mutant: on the commit itself.
DeclaredByHead(k) == commits[k].block
DeclaredApprovers(k) == IF k = 1 THEN NoBlock ELSE commits[k - 1].block

\* The registered owner stands in for an absent block, never for an empty one.
Governing(k) ==
    LET b == DeclaredApprovers(k) IN
    IF b.declared THEN b
    ELSE [declared |-> TRUE, approvers |-> {AssetOwner}, min |-> 1]

\* ScmMerge::consent: a reviewed merge, of the bytes presented, approved by
\* enough of those who were entitled before it.
Consents(k, terms, block) ==
    LET c == commits[k]
        b == Governing(k)
    IN /\ IsReviewedMerge(c)
       /\ c.terms = terms /\ c.block = block
       /\ b.approvers # {}
       /\ Cardinality(b.approvers \cap c.approvers) >= b.min

-----------------------------------------------------------------------------

\* offer publish: the version is one above the held one, under the writer lock.
PublishOffer(k, terms, block) ==
    /\ Consents(k, terms, block)
    /\ offered' = Append(offered,
                         [terms |-> terms, block |-> block,
                          consent |-> [sha |-> k,
                                       bootstrap |-> ~DeclaredApprovers(k).declared]])
    /\ UNCHANGED commits

\* Without --shim the offer is published and carries no consent.
PublishUnconsented(terms, block) ==
    /\ offered' = Append(offered, [terms |-> terms, block |-> block, consent |-> NotAsked])
    /\ UNCHANGED commits

\* What need apply mints on: an offer that carries its owner's consent.
Usable(n) == offered[n].consent # NotAsked

ConsentNext ==
    \/ \E terms \in Terms, block \in Blocks, author \in Person,
          approvers \in SUBSET Person, guarded \in BOOLEAN :
              LandCommit(terms, block, author, approvers, guarded)
    \/ /\ Len(offered) < MaxOffers
       /\ \/ \E k \in 1 .. Len(commits), terms \in Terms, block \in Blocks :
                 PublishOffer(k, terms, block)
          \/ \E terms \in Terms, block \in Blocks : PublishUnconsented(terms, block)

ConsentSpec == ConsentInit /\ [][ConsentNext]_consentVars

-----------------------------------------------------------------------------

\* Nobody is let in by the change they approve: what a pipeline publishes with
\* a consent was approved by somebody who was already named when the change was
\* proposed, or by the owner where nobody was, and by two different people in
\* all, its author included ("the list that governs a change is the one that
\* was already on the branch").  Min is at least 1 here: a list that says min = 0
\* (authority.rs takes any number) asks for nobody, and any reviewer will do.
NoSelfEntitlement ==
    \A n \in DOMAIN offered : Usable(n) =>
        LET k == offered[n].consent.sha
            before == IF k > 1 /\ commits[k - 1].block.declared
                      THEN commits[k - 1].block.approvers ELSE {AssetOwner}
        IN /\ commits[k].approvers \cap before # {}
           /\ Cardinality(commits[k].approvers \cup {commits[k].author}) > 1
           /\ offered[n].terms = commits[k].terms
=============================================================================
