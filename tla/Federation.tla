----------------------------- MODULE Federation -----------------------------
(***************************************************************************)
(* Trust chains (wc-control/src/federate.rs) and `connect federate'.       *)
(* Organisations publish entity statements about others and themselves; a  *)
(* partner hands over a chain, leaf first, and the command resolves it     *)
(* against the anchors configured here.  An honest organisation names only *)
(* the keys its subject really holds; the others sign what they like with  *)
(* the keys they hold.                                                     *)
(*                                                                         *)
(* A key is named after the organisation that holds it, so a statement     *)
(* verifies under a key set exactly when its signer is in the set.  One    *)
(* set, caps, stands for the three sets of FederationMetadata and one      *)
(* ceiling, ttl, for its two.                                              *)
(***************************************************************************)
EXTENDS Naturals, FiniteSets, FiniteSetsExt, Sequences, SequencesExt

CONSTANTS
    AnchorOrg,    \* the configured trust anchor
    Honest,       \* organisations that publish the truth
    Claims,       \* what may be claimed: [by, iss, sub, jwks, meta] records
    AnchorMeta,   \* metadata configured for the anchor
    Inside(_, _), \* zone::contains(outer, inner)
    Unset,        \* an Option that is None
    MaxChain,     \* MAX_CHAIN_LEN
    Leeway,       \* --leeway
    Lifetime,     \* exp - iat of a statement
    Reverify,     \* reverify_every of the anchor, 0 for never
    MaxStatements,\* bound on published statements
    MaxHour       \* bound on the clock

VARIABLES
    hour,         \* the clock
    statements,   \* the entity statements published so far
    verifiedAt,   \* verified_at of the anchor
    resolved      \* what the last `connect federate' answered

federationVars == <<hour, statements, verifiedAt, resolved>>

Unresolved == [answer |-> [ok |-> FALSE], mayIssue |-> FALSE, terms |-> Unset]

FederationInit ==
    /\ hour = 0
    /\ statements = {}
    /\ verifiedAt = 0
    /\ resolved = Unresolved

-----------------------------------------------------------------------------
(* The ceiling algebra. *)

MinOpt(a, b) ==
    IF a = Unset THEN b ELSE IF b = Unset THEN a ELSE IF a < b THEN a ELSE b

\* A superior that states nothing does not narrow.
Narrow(mine, theirs) == IF theirs = {} THEN mine ELSE mine \cap theirs

NarrowedBy(meta, superior) ==
    [caps |-> Narrow(meta.caps, superior.caps),
     ttl |-> MinOpt(meta.ttl, superior.ttl),
     zone |-> IF superior.zone = Unset THEN meta.zone
              ELSE IF meta.zone # Unset /\ Inside(superior.zone, meta.zone)
                   THEN meta.zone ELSE superior.zone]

Widens(meta, superior) ==
    \/ superior.caps # {} /\ ~ (meta.caps \subseteq superior.caps)
    \/ meta.ttl # Unset /\ superior.ttl # Unset /\ meta.ttl > superior.ttl
    \/ /\ meta.zone # Unset /\ superior.zone # Unset
       /\ ~ Inside(superior.zone, meta.zone)

-----------------------------------------------------------------------------
(* Resolution. *)

IsSelfSigned(s) == s.iss = s.sub

IsCurrent(s) == hour < s.exp + Leeway /\ s.iat <= hour + Leeway

IsStale == Reverify > 0 /\ hour > verifiedAt + Reverify

\* Each statement must be about, or by, the entity the one above it named.
\* Mutant: valid statements stapled together.
FollowsAny(s, expected) == TRUE
Follows(s, expected) == expected \in {s.iss, s.sub}

\* The walk from the anchor down: each statement is verified with the keys of the
\* one above, never with its own.
Linked(chain) ==
    \A i \in DOMAIN chain :
        /\ IsCurrent(chain[i])
        /\ IF i = Len(chain) THEN chain[i].by = AnchorOrg
           ELSE chain[i].by \in chain[i + 1].jwks /\ Follows(chain[i], chain[i + 1].sub)

\* On the way each narrows the ceiling, and none may widen it.
Descend(walk, s) ==
    [ok |-> walk.ok /\ ~ Widens(s.meta, walk.ceiling),
     ceiling |-> NarrowedBy(s.meta, walk.ceiling)]
Descent(chain) ==
    FoldRight(LAMBDA s, w : Descend(w, s), chain, [ok |-> TRUE, ceiling |-> AnchorMeta])

\* The chain is leaf first; the top statement must be the anchor's.
Resolve(chain) ==
    IF /\ chain # <<>> /\ Len(chain) <= MaxChain
       /\ Last(chain).iss = AnchorOrg
       /\ Linked(chain) /\ Descent(chain).ok /\ IsSelfSigned(Head(chain))
    THEN [ok |-> TRUE, subject |-> Head(chain).sub, signer |-> Head(chain).by,
          jwks |-> Head(chain).jwks, meta |-> Descent(chain).ceiling,
          until |-> Min({s.exp : s \in Range(chain)}), stale |-> IsStale, at |-> hour]
    ELSE [ok |-> FALSE]

\* Resolved::may_issue, and the terms a partner is given.
MayIssue(r) == r.ok /\ ~ r.stale /\ hour < r.until

PartnerTerms(r) ==
    [zone |-> IF r.meta.zone = Unset THEN "partner.unclassified" ELSE r.meta.zone,
     ttl |-> r.meta.ttl, depth |-> 1, caps |-> r.meta.caps]

-----------------------------------------------------------------------------
(* Actions. *)

\* External: an organisation publishes a statement.
Publish(claim) ==
    /\ Cardinality(statements) < MaxStatements
    /\ claim.by \in Honest => claim.iss = claim.by /\ claim.jwks = {claim.sub}
    /\ statements' = statements \cup
           {[by |-> claim.by, iss |-> claim.iss, sub |-> claim.sub, jwks |-> claim.jwks,
             meta |-> claim.meta, iat |-> hour, exp |-> hour + Lifetime]}
    /\ resolved' = Unresolved
    /\ UNCHANGED <<hour, verifiedAt>>

\* `connect federate': any chain of what was published.
FederateCmd(chain) ==
    /\ LET r == Resolve(chain) IN resolved' =
           [answer |-> r, mayIssue |-> MayIssue(r),
            terms |-> IF r.ok THEN PartnerTerms(r) ELSE Unset]
    /\ UNCHANGED <<hour, statements, verifiedAt>>

\* External: the operator verifies the anchor again, out of band.
ReverifyAnchor ==
    /\ verifiedAt # hour
    /\ verifiedAt' = hour
    /\ resolved' = Unresolved
    /\ UNCHANGED <<hour, statements>>

NextHour ==
    /\ hour < MaxHour
    /\ hour' = hour + 1
    /\ UNCHANGED <<statements, verifiedAt, resolved>>

Chains == UNION {[1 .. n -> statements] : n \in 0 .. MaxChain + 1}

FederationNext ==
    \/ \E claim \in Claims : Publish(claim)
    \/ \E chain \in Chains : FederateCmd(chain)
    \/ ReverifyAnchor
    \/ NextHour

FederationSpec == FederationInit /\ [][FederationNext]_federationVars

-----------------------------------------------------------------------------
(* Properties. *)

\* What one may believe: the least set of current statements with everything the
\* anchor signed as itself, and everything signed with a key that a statement in
\* the set gives to its issuer or to its subject.
Vouched(t, S) ==
    /\ IsCurrent(t)
    /\ \/ t.iss = AnchorOrg /\ t.by = AnchorOrg
       \/ \E u \in S : t.by \in u.jwks /\ u.sub \in {t.iss, t.sub}
Believed ==
    {t \in statements :
        \A S \in SUBSET statements : (\A u \in statements : Vouched(u, S) => u \in S) => t \in S}

\* "A leaf's self-signed statement is not evidence of its keys": a chain that
\* resolves to a party was signed by that party, unless a dishonest
\* organisation that was itself vouched for published that its key is that
\* party's.  No staple of valid statements, no expired link and no self-made
\* chain speaks for somebody else (federate.rs, resolve).
NoImpersonation ==
    LET r == resolved.answer IN
    r.ok /\ r.at = hour /\ r.signer # r.subject =>
        \E t \in Believed : t.by \notin Honest /\ t.sub = r.subject /\ r.signer \in t.jwks
=============================================================================
