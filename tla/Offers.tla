------------------------------- MODULE Offers -------------------------------
(***************************************************************************)
(* Offer and acceptance in time (wc-control/src/offer.rs, need.rs and the  *)
(* `offer' and `need' verbs): what a provider's terms permit one consumer, *)
(* how a need is matched against them, what the derived identity makes of  *)
(* a repeated build, and what the provider is told about live contracts.   *)
(*                                                                         *)
(* One provider, one consumer.  A consumer's `shape' is its zone and tier  *)
(* in the registry, an audience the set of shapes it admits.  Who consents *)
(* to a manifest is Consent's matter; who holds which lock, Commands'.     *)
(***************************************************************************)
EXTENDS Naturals, Sequences, FiniteSets, FiniteSetsExt

CONSTANTS
    OItem,      \* names a term may cover
    Declared,   \* the items of the provider's canonical surface
    Shape,      \* zone and tier a registered consumer may have
    Manifests,  \* the offer manifests the provider may commit
    NeedSet,    \* the needs the consumer may commit: [items, ttl]
    PolicyTtl,  \* lifetimes the zone bars and rules may cap a request to
    TtlCeiling, \* TTL_MAX_CEILING
    RequestLife,\* seconds until a pending request lapses
    MaxVersion, \* bound on publications
    MaxDay,     \* bound on the clock
    LastDate    \* bound on the withdrawal dates, which may lie ahead of the clock's

VARIABLES
    day,        \* the clock
    shape,      \* the consumer's zone and tier
    offer,      \* the held offer
    apply,      \* the `need apply' under way, planned and not yet minted
    oasks,      \* pending requests of the gated path
    derived,    \* the contract under the derived cid
    signed      \* contracts minted on a provider's signature

\* What a manifest may hold.  A term is [items, to, open, approval, ttl, drops]: the
\* shapes its audience admits, whether it names no audience at all, and the set of
\* <<item, date>> it deprecates.
Term == [items : SUBSET OItem, to : SUBSET Shape, open : BOOLEAN,
         approval : {"PreGranted", "NamedConsumer"}, ttl : Nat,
         drops : SUBSET (OItem \X (0 .. LastDate))]

ASSUME ManifestsAssumption ==
    \A terms \in Manifests :
        terms \in Seq(Term) /\ \A i \in DOMAIN terms : terms[i].open => terms[i].to = Shape
ASSUME NeedsAssumption == \A need \in NeedSet : need.items \subseteq OItem /\ need.ttl \in Nat
ASSUME DatesAssumption ==
    /\ PolicyTtl \subseteq Nat /\ TtlCeiling \in Nat /\ RequestLife \in Nat
    /\ MaxDay \in Nat /\ LastDate \in Nat /\ MaxDay <= LastDate

offerVars == <<day, shape, offer, apply, oasks, derived, signed>>

NoDate == LastDate + 1
NoOffer == [version |-> 0, terms |-> <<>>, consented |-> FALSE]
NoApply == [pc |-> "idle"]
NoContract == [status |-> "none"]

OffersInit ==
    /\ day = 0
    /\ shape \in Shape
    /\ offer = NoOffer
    /\ apply = NoApply
    /\ oasks = {}
    /\ derived = NoContract
    /\ signed = {}

-----------------------------------------------------------------------------
(* The provider's terms. *)

\* OfferManifest::into_offer.
IntoOffer(terms) ==
    /\ terms # <<>>
    /\ \A i \in DOMAIN terms :
          /\ terms[i].items # {} /\ terms[i].items \subseteq Declared
          /\ terms[i].ttl \in 1 .. TtlCeiling
          /\ \A d \in terms[i].drops : d[1] \in terms[i].items

\* Mutant: the first term that admits the consumer governs.
PermitsFirst(terms, item, s) ==
    LET admit == {i \in DOMAIN terms : item \in terms[i].items /\ s \in terms[i].to}
    IN IF admit = {} THEN [outcome |-> "NotOffered", ttl |-> 0]
       ELSE [outcome |-> terms[Min(admit)].approval, ttl |-> terms[Min(admit)].ttl]

\* Offer::permits: the strictest admitting term, the first among equals.
Permits(terms, item, s) ==
    LET admit == {i \in DOMAIN terms : item \in terms[i].items /\ s \in terms[i].to}
        named == {i \in admit : terms[i].approval = "NamedConsumer"}
        best == Min(IF named # {} THEN named ELSE admit)
    IN IF admit = {} THEN [outcome |-> "NotOffered", ttl |-> 0]
       ELSE [outcome |-> terms[best].approval, ttl |-> terms[best].ttl]

\* Offer::deprecated_after: the earliest date any term gives.
DeprecatedAfter(terms, item) ==
    LET dates == {d[2] : d \in {e \in UNION {terms[i].drops : i \in DOMAIN terms} :
                                   e[1] = item}}
    IN IF dates = {} THEN NoDate ELSE Min(dates)

\* Offer::as_seen_by: the items the catalogue lists as contractable now, those
\* on ask, and the dates still ahead.
AsSeenBy(terms, s, at) ==
    LET of == [x \in OItem |-> Permits(terms, x, s)]
        shown(kind) == {x \in OItem : of[x].outcome = kind}
        visible == shown("PreGranted") \cup shown("NamedConsumer")
    IN [now |-> shown("PreGranted"), ask |-> shown("NamedConsumer"),
        withdrawing |-> {x \in visible : DeprecatedAfter(terms, x) \in at + 1 .. LastDate}]

\* offer::impact for one live contract: what the provider is told.
Impact(terms, items, s, at) ==
    LET outcome == [x \in items |-> Permits(terms, x, s).outcome]
        of(kind) == {x \in items : outcome[x] = kind}
        date(x) == DeprecatedAfter(terms, x)
    IN [gone |-> of("NotOffered"),
        gated |-> of("NamedConsumer"),
        withdrawn |-> {x \in of("PreGranted") : date(x) <= at},
        withdrawing |-> {x \in of("PreGranted") : date(x) \in at + 1 .. LastDate}]

\* Mutant: a date still ahead is nothing to report.
IsCleanToday(row) == row.gone = {} /\ row.gated = {} /\ row.withdrawn = {}

IsClean(row) ==
    row.gone = {} /\ row.gated = {} /\ row.withdrawn = {} /\ row.withdrawing = {}

-----------------------------------------------------------------------------
(* The consumer's need. *)

\* Mutant: an item's withdrawal date is only looked at once it has passed.
OutlivesPassed(terms, item, at, ceiling) == at >= DeprecatedAfter(terms, item)

\* A need covering an item that is withdrawn, or would be within the lifetime.
Outlives(terms, item, at, ceiling) ==
    LET after == DeprecatedAfter(terms, item)
    IN after # NoDate /\ (at >= after \/ at + ceiling > after)

\* match_need.
MatchNeed(terms, need, s, at) ==
    LET of == [x \in need.items |-> Permits(terms, x, s)]
        ceiling == Min({need.ttl} \cup
                       {of[x].ttl : x \in {y \in need.items : of[y].outcome # "NotOffered"}})
    IN [verdict |->
          IF \E x \in need.items : \/ of[x].outcome = "NotOffered"
                                   \/ Outlives(terms, x, at, ceiling)
          THEN "Refused"
          ELSE IF \E x \in need.items : of[x].outcome = "NamedConsumer"
          THEN "NeedsApproval" ELSE "Grant",
        ttl |-> ceiling]

\* What the consumer's build is told of a need now: without an offer, without the
\* provider's consent and without items it is refused before any term is read.
NextBuild(need) ==
    IF offer = NoOffer \/ ~ offer.consented \/ need.items = {} THEN "Refused"
    ELSE MatchNeed(offer.terms, need, shape, day).verdict

\* derive_jti: the meaning of the need, not its text.  The cid is the pair's.
NeedJti(version, need, ttl) == <<version, need.items, ttl>>

\* has_lapsed.
AskOpen(q) == q.status = "Pending" /\ day < q.lapses

\* ContractRecord::is_live.
IsLive(c) == c.status = "Active" /\ day < c.exp

\* offer::lint's errors: the checks of IntoOffer it repeats.
LintErrs(terms) ==
    \/ terms = <<>>
    \/ \E i \in DOMAIN terms : \/ terms[i].items = {} \/ ~ terms[i].items \subseteq Declared
                              \/ terms[i].ttl = 0

\* Mutant: a date is near when it falls before the ceiling's last day.
NearLate(date, ttl, at) == date <= at \/ date - at < ttl - 1
\* A withdrawal date that has passed, or that comes before the ceiling runs out.
Near(date, ttl, at) == date <= at \/ date - at < ttl

\* offer::lint's warnings.
LintWarns(terms, at) ==
    \/ \E i \in DOMAIN terms :
          \/ terms[i].open
          \/ \E d \in terms[i].drops : d[1] \notin terms[i].items \/ Near(d[2], terms[i].ttl, at)
    \/ \E i, j \in DOMAIN terms : i # j /\ terms[i].items \cap terms[j].items # {}

-----------------------------------------------------------------------------
(* The portal's page (portal.rs), drawn from the register as it is.          *)

\* catalogue_section: a provider's row for one consumer; an unsigned offer is
\* listed and marked as not contractable.
PageCatalogue(s) ==
    LET seen == AsSeenBy(offer.terms, s, day)
    IN [now |-> seen.now, ask |-> seen.ask, contractable |-> offer.consented]

\* generator_section: the needs the page writes from a row, any of its items for
\* any lifetime; a provider that published nothing has none.
PageNeeds(s) ==
    LET row == PageCatalogue(s)
    IN IF offer = NoOffer THEN {}
       ELSE [items : (SUBSET (row.now \cup row.ask)) \ {{}}, ttl : 1 .. TtlCeiling]

\* impact_section: a live contract that is not clean is shown under one heading,
\* the first that applies.  Mutant: a date that has passed is shown as on ask.
PageImpactLate(row) ==
    IF row.gone # {} THEN "gone"
    ELSE IF row.gated # {} \/ row.withdrawn # {} THEN "on ask"
    ELSE IF row.withdrawing # {} THEN "scheduled" ELSE "none"
PageImpact(row) ==
    IF row.gone # {} THEN "gone"
    ELSE IF row.withdrawn # {} THEN "past its date"
    ELSE IF row.gated # {} THEN "on ask"
    ELSE IF row.withdrawing # {} THEN "scheduled" ELSE "none"

-----------------------------------------------------------------------------
(* The provider's pipeline. *)

\* offer publish; `consented' without a shim is FALSE.
PublishTerms(terms, consented) ==
    /\ offer.version < MaxVersion
    /\ IntoOffer(terms)
    /\ offer' = [version |-> offer.version + 1, terms |-> terms, consented |-> consented]
    /\ UNCHANGED <<day, shape, apply, oasks, derived, signed>>

\* The provider's owner signs a request: the lifetime runs from now.
SignAsk(q) ==
    /\ AskOpen(q)
    /\ oasks' = (oasks \ {q}) \cup {[q EXCEPT !.status = "Minted"]}
    /\ signed' = signed \cup {[status |-> "Active", items |-> q.items, ttl |-> q.ttl,
                               exp |-> day + q.ttl, terms |-> q.terms, shape |-> q.shape,
                               at |-> q.at]}
    /\ UNCHANGED <<day, shape, offer, apply, derived>>

DenyAsk(q) ==
    /\ AskOpen(q)
    /\ oasks' = (oasks \ {q}) \cup {[q EXCEPT !.status = "Denied"]}
    /\ UNCHANGED <<day, shape, offer, apply, derived, signed>>

\* revoke <cid>: one connection, in the register.
RevokeOne ==
    /\ derived.status = "Active"
    /\ derived' = [derived EXCEPT !.status = "Revoked"]
    /\ UNCHANGED <<day, shape, offer, apply, oasks, signed>>

-----------------------------------------------------------------------------
(* The consumer's pipeline: need apply. *)

\* The command tells the pipeline why nothing is to be done, and ends.
Answered(why) ==
    /\ why \in {"refused", "asked", "current"}
    /\ apply' = NoApply
    /\ UNCHANGED <<day, shape, offer, oasks, derived, signed>>

Planned(pc, need, ttl) ==
    /\ apply' = [pc |-> pc, items |-> need.items, ttl |-> ttl, at |-> day,
                 version |-> offer.version, terms |-> offer.terms, shape |-> shape]
    /\ UNCHANGED <<day, shape, offer, oasks, derived, signed>>

\* The plan, made with the store open: no offer, no consent and a refusal end
\* the run; an artifact or an open request of the same meaning is left alone.
PlanNeed(need) ==
    /\ apply = NoApply
    /\ LET m == MatchNeed(offer.terms, need, shape, day) IN
       \/ NextBuild(need) = "Refused" /\ Answered("refused")
       \/ /\ NextBuild(need) = "NeedsApproval"
          /\ IF \E q \in oasks : AskOpen(q) /\ q.items = need.items /\ q.ttl = m.ttl
             THEN Answered("asked") ELSE Planned("ask", need, m.ttl)
       \/ /\ NextBuild(need) = "Grant"
          /\ IF derived # NoContract /\ derived.jti = NeedJti(offer.version, need, m.ttl)
             THEN Answered("current") ELSE Planned("mint", need, m.ttl)

\* The issuer, the store open again: the request is evaluated under the policy,
\* which may deny it or shorten it, and the identity is the plan's.
MintNeed(cap) ==
    /\ apply.pc = "mint"
    /\ derived' = [status |-> "Active", items |-> apply.items,
                   ttl |-> Min({apply.ttl, cap}), exp |-> day + Min({apply.ttl, cap}),
                   jti |-> <<apply.version, apply.items, apply.ttl>>,
                   terms |-> apply.terms, shape |-> apply.shape, at |-> apply.at]
    /\ apply' = NoApply
    /\ UNCHANGED <<day, shape, offer, oasks, signed>>

\* The gated half: the request carries the policy's lifetime, not the plan's.
OpenAsk(cap) ==
    /\ apply.pc = "ask"
    /\ oasks' = oasks \cup {[status |-> "Pending", items |-> apply.items,
                           ttl |-> Min({apply.ttl, cap}), lapses |-> day + RequestLife,
                           terms |-> apply.terms, shape |-> apply.shape, at |-> apply.at]}
    /\ apply' = NoApply
    /\ UNCHANGED <<day, shape, offer, derived, signed>>

\* The policy denies the request, or the process ends.
ApplyEnds == apply # NoApply /\ Answered("refused")

-----------------------------------------------------------------------------

Move(s) ==
    /\ s # shape
    /\ shape' = s
    /\ UNCHANGED <<day, offer, apply, oasks, derived, signed>>

NextDay ==
    /\ day < MaxDay
    /\ day' = day + 1
    /\ UNCHANGED <<shape, offer, apply, oasks, derived, signed>>

OffersNext ==
    \/ \E terms \in Manifests, c \in BOOLEAN : PublishTerms(terms, c)
    \/ \E q \in oasks : SignAsk(q) \/ DenyAsk(q)
    \/ \E need \in NeedSet : PlanNeed(need)
    \/ \E cap \in PolicyTtl : MintNeed(cap) \/ OpenAsk(cap)
    \/ ApplyEnds \/ RevokeOne \/ NextDay
    \/ \E s \in Shape : Move(s)

OffersSpec == OffersInit /\ [][OffersNext]_offerVars

-----------------------------------------------------------------------------
(* Properties. *)

\* Nobody gets more than was offered: whatever was published, moved or signed
\* since, a contract of either path keeps, for each of its items, to every
\* admitting term it was matched against - no item behind the provider's own
\* approval is in a contract no owner signed, and the lifetime is within the ceiling
\* of the term that governs the item (offer.rs "Strictest term wins, not first
\* match"; need.rs "All or nothing").  Two limits of the code: of several terms that
\* are equally strict the first governs, whatever ceiling the others set; and the
\* lifetime ends before each withdrawal date counted from the day of the match, which
\* the mint or the owner's signature may be later than.
GrantsWithinOffer ==
    \A c \in signed \cup ({derived} \ {NoContract}) : \A x \in c.items :
        LET admit == {i \in DOMAIN c.terms : /\ x \in c.terms[i].items
                                             /\ c.shape \in c.terms[i].to}
            named == {i \in admit : c.terms[i].approval = "NamedConsumer"}
        IN /\ admit # {}
           /\ c \notin signed => named = {}
           /\ c.ttl <= c.terms[Min(IF named # {} THEN named ELSE admit)].ttl
           /\ \A i \in DOMAIN c.terms : \A d \in c.terms[i].drops :
                 d[1] = x => c.at + c.ttl <= d[2]

\* What the provider is told about a live contract foretells the consumer's next
\* build: a contract `offer status' finds nothing to say about is one whose need
\* the offer in force grants as it stands, for the consumer as registered now
\* (offer.rs LiveContract, "what would happen on the consumer's next build").  The
\* exception is an offer published without the owner's consent: impact does not look
\* at it and every build is refused.
ImpactForetells ==
    \A c \in signed \cup ({derived} \ {NoContract}) :
        offer.consented /\ IsLive(c) /\ IsClean(Impact(offer.terms, c.items, shape, day)) =>
            \A t \in 1 .. TtlCeiling : NextBuild([items |-> c.items, ttl |-> t]) = "Grant"

\* Published terms that lint finds nothing wrong with do what they say: on every day
\* the offer lints clean, every consumer a term is addressed to is matched for each of
\* its items and the term's full ceiling, as its catalogue says (offer.rs, lint: "a
\* ceiling longer than the remaining window means every consumer at that ceiling is
\* refused").  Of terms not yet published it says nothing: lint repeats only some of
\* the checks of `offer publish'.
LintForetells ==
    ~ LintErrs(offer.terms) /\ ~ LintWarns(offer.terms, day) =>
        \A i \in DOMAIN offer.terms : \A x \in offer.terms[i].items, s \in offer.terms[i].to :
            LET open == offer.terms[i].approval = "PreGranted"
                seen == AsSeenBy(offer.terms, s, day)
            IN /\ MatchNeed(offer.terms, [items |-> {x}, ttl |-> offer.terms[i].ttl], s, day)
                    = [verdict |-> IF open THEN "Grant" ELSE "NeedsApproval",
                       ttl |-> offer.terms[i].ttl]
               /\ x \in IF open THEN seen.now ELSE seen.ask

\* What the page says is what happens.  A need written from a consumer's row is
\* about items the provider offers it, so only a withdrawal date, or the missing
\* consent the row is marked with, refuses it, and
\* it is granted without the owner only where every item is listed as `now'; the
\* needs of a contract shown as gone or past its date are refused for any
\* lifetime, and of one shown as on ask are never granted without the owner
\* (portal.rs generator_section, impact_section).
PageTells ==
    /\ \A need \in PageNeeds(shape) :
          LET m == MatchNeed(offer.terms, need, shape, day)
          IN /\ NextBuild(need) = "Refused" =>
                    \/ ~ PageCatalogue(shape).contractable
                    \/ \E x \in need.items : Outlives(offer.terms, x, day, m.ttl)
             /\ NextBuild(need) = "Grant" => need.items \subseteq PageCatalogue(shape).now
    /\ \A c \in signed \cup ({derived} \ {NoContract}) : IsLive(c) =>
          LET shown == PageImpact(Impact(offer.terms, c.items, shape, day))
          IN \A t \in 1 .. TtlCeiling :
                LET v == NextBuild([items |-> c.items, ttl |-> t])
                IN /\ shown \in {"gone", "past its date"} => v = "Refused"
                   /\ shown = "on ask" => v # "Grant"

\* A contract is within the terms that governed it on the day of its match, and what
\* impact, lint and the portal's page say of the offer in force is what the
\* consumer's next build is told (offer.rs, need.rs, portal.rs).
OffersSound == GrantsWithinOffer /\ ImpactForetells /\ LintForetells /\ PageTells
=============================================================================
