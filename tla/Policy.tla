------------------------------- MODULE Policy -------------------------------
(***************************************************************************)
(* Connection policy (wc-control/src/cpolicy.rs, wc-core/src/zone.rs and   *)
(* the narrowing algebra of wc-core/src/contract.rs): how the request, the *)
(* bars of both zones and of all that contain them, the trust levels and   *)
(* the first matching rule are folded into what a contract may say, and    *)
(* who has to agree to it.                                                 *)
(*                                                                         *)
(* A zone is its path, <<"internal", "pay">>; its first segment is its     *)
(* trust level.  Lifetimes are in days.  Absent ceilings are Unlimited.    *)
(* Terms keep the two allowlists, one rate ceiling, the delegation depth,  *)
(* the oversight threshold (0 is "required", Unlimited is none asked for)  *)
(* and the evidence obligation; the other ceilings are treated like the    *)
(* rate.  Conditions of a rule may read the requested lists and depth and  *)
(* the capped lifetime; what else they may read (names, zones, tiers, the  *)
(* postures) is left out.                                                  *)
(***************************************************************************)
EXTENDS Naturals, Sequences, FiniteSets, FiniteSetsExt

CONSTANTS
    ZoneOf,     \* [parties -> zone paths]
    TierOf,     \* [parties -> 1 .. 4]
    Policies,   \* the policy files an operator may put in force; `zones' holds
                \* the bar of each declaration, its declared trust included
    Asks,       \* what may be requested: [terms, ttl, items, write]
    MaxAge,     \* bound on the clock
    MaxMinted   \* bound on contracts

VARIABLES
    pol,        \* the policy in force
    unproven,   \* the parties that are not attested
    pending,    \* requests awaiting approval
    minted,     \* contracts, each with what it was decided from
    age         \* the clock, in days

policyVars == <<pol, unproven, pending, minted, age>>

Side == DOMAIN ZoneOf
Lists == {"classes", "jurisdictions"}
NoneListed == [l \in Lists |-> {}]
NotClosed == [l \in Lists |-> FALSE]
Unlimited == 255
IssuerMaxTtl == 30

Bar == [approval : 0 .. 2, ttl : Nat, depth : Nat, oversight : BOOLEAN, distinct : BOOLEAN]

\* A party has a zone, and a zone a trust level.
ASSUME ZonesAssumption ==
    \A a \in Side : /\ ZoneOf[a] \in Seq(STRING) /\ ZoneOf[a] # <<>> /\ TierOf[a] \in 1 .. 4
                    /\ ZoneOf[a][1] \in {"internal", "partner", "public"}
\* What the policy loader leaves of a file.
ASSUME PoliciesAssumption ==
    \A p \in Policies :
        /\ \A z \in DOMAIN p.zones : p.zones[z] \in Bar
        /\ DOMAIN p = {"default", "strict", "strictZones", "crossings", "zones", "rules", "standing"}
        /\ p.default \in {"allow", "ask", "deny"}
        /\ p.standing.reviewed \in Nat /\ p.standing.minTier \in Nat
        /\ p.standing.maxTools \in Nat /\ p.standing.perWindow \in Nat
        /\ p.standing.sample \in Nat /\ p.standing.window \in Nat
        /\ p.rules \in Seq({p.rules[n] : n \in DOMAIN p.rules})
        /\ \A n \in DOMAIN p.rules :
              /\ p.rules[n].decision \in {"allow", "ask", "deny"}
              /\ p.rules[n].approval \in 0 .. 2 /\ p.rules[n].ttl \in Nat
              /\ p.rules[n].terms.depth \in Nat /\ p.rules[n].terms.rate \in Nat
              /\ p.rules[n].terms.oversight \in 0 .. Unlimited
              /\ p.rules[n].terms.blocking \in BOOLEAN
ASSUME AsksAssumption ==
    \A req \in Asks : /\ DOMAIN req = {"terms", "ttl", "items", "write"}
                      /\ DOMAIN req.terms =
                            {"lists", "closed", "rate", "depth", "oversight", "blocking"}
                      /\ req.ttl \in Nat /\ req.terms.rate \in Nat
                      /\ req.terms.depth \in 0 .. Unlimited
                      /\ req.terms.oversight \in 0 .. Unlimited
                      /\ req.terms.blocking \in BOOLEAN /\ IsFiniteSet(req.items)
                      /\ req.terms.closed = NotClosed
                      /\ req.terms.lists \in [Lists -> {req.terms.lists[l] : l \in Lists}]

-----------------------------------------------------------------------------
(* Zones. *)

Trust(zone) == zone[1]
Outwardness(zone) == CHOOSE n \in 0 .. 2 :
    <<"internal", "partner", "public">>[n + 1] = Trust(zone)
Ancestors(zone) == {SubSeq(zone, 1, n) : n \in 1 .. Len(zone)}
ZoneContains(outer, inner) == outer \in Ancestors(inner)

\* zone::classify.
Classify(a, b) ==
    IF "public" \in {Trust(a), Trust(b)} THEN "public"
    ELSE CASE Outwardness(a) < Outwardness(b) -> "egress"
           [] Outwardness(a) > Outwardness(b) -> "ingress"
           [] a = b -> "same"
           [] a # b /\ ZoneContains(a, b) -> "descend"
           [] a # b /\ ZoneContains(b, a) -> "ascend"
           [] OTHER -> "lateral"

InternalToLevel == {"same", "descend", "ascend", "lateral"}

\* CrossingRule::covers; the empty path is an end left open.
Covers(rule, a, b) ==
    /\ rule.crossing = Classify(a, b)
    /\ rule.from = <<>> \/ ZoneContains(rule.from, a)
    /\ rule.to = <<>> \/ ZoneContains(rule.to, b)

\* ZoneLattice::resolve.
Permitted(p, a, b) ==
    /\ p.strictZones =>
          \A z \in {a, b} : Ancestors(z) \cap DOMAIN p.zones # {}
    /\ \/ Classify(a, b) \in InternalToLevel
       \/ \E rule \in p.crossings : Covers(rule, a, b)

-----------------------------------------------------------------------------
(* Assurance bars: [approval, ttl, depth, oversight, distinct], approval    *)
(* counting the humans asked for.                                           *)

\* AssuranceBar::for_trust.
ForTrust(level) ==
    CASE level = "internal" -> [approval |-> 0, ttl |-> 30, depth |-> 3,
                                oversight |-> FALSE, distinct |-> FALSE]
      [] level = "partner"  -> [approval |-> 1, ttl |-> 7, depth |-> 1,
                                oversight |-> TRUE, distinct |-> TRUE]
      [] level = "public"   -> [approval |-> 2, ttl |-> 1, depth |-> 0,
                                oversight |-> TRUE, distinct |-> TRUE]

\* AssuranceBar::strictest, over any number of bars.
Strictest(bars) ==
    [approval |-> Max({b.approval : b \in bars}),
     ttl |-> Min({b.ttl : b \in bars}),
     depth |-> Min({b.depth : b \in bars}),
     oversight |-> \E b \in bars : b.oversight,
     distinct |-> \E b \in bars : b.distinct]

\* ConnectPolicy::bar_for: every ancestor's declaration counts.
BarFor(p, zone) ==
    Strictest({ForTrust(Trust(zone))} \cup
              {p.zones[z] : z \in Ancestors(zone) \cap DOMAIN p.zones})

BarForPair(p, a, b) == Strictest({BarFor(p, ZoneOf[a]), BarFor(p, ZoneOf[b])})

-----------------------------------------------------------------------------
(* The narrowing algebra. *)

\* meet_allowlist for each of the two lists: an empty list is a source with
\* nothing to say, unless the emptiness was already decided.
MeetLists(a, b) ==
    LET closed(l) == \/ a.closed[l] \/ b.closed[l]
                     \/ /\ a.lists[l] # {} /\ b.lists[l] # {}
                        /\ a.lists[l] \cap b.lists[l] = {}
        met(l) == IF closed(l) THEN {}
                  ELSE IF a.lists[l] = {} THEN b.lists[l]
                  ELSE IF b.lists[l] = {} THEN a.lists[l]
                  ELSE a.lists[l] \cap b.lists[l]
    IN [lists |-> [l \in Lists |-> met(l)], closed |-> [l \in Lists |-> closed(l)]]

\* Terms::intersect.
Meet(a, b) ==
    LET m == MeetLists(a, b)
    IN [lists |-> m.lists, closed |-> m.closed,
        rate |-> Min({a.rate, b.rate}), depth |-> Min({a.depth, b.depth}),
        oversight |-> IF a.oversight # Unlimited THEN a.oversight ELSE b.oversight,
        blocking |-> a.blocking \/ b.blocking]

IsClosed(t) == \E l \in Lists : t.closed[l]

\* TermsOverride::to_terms: a rule says nothing about the lists.
ToTerms(o) ==
    [lists |-> NoneListed, closed |-> NotClosed, rate |-> o.rate, depth |-> o.depth,
     oversight |-> o.oversight, blocking |-> o.blocking]

\* Serialised and read back: the flags stay behind, and an empty list reads
\* as no constraint.
OnTheWire(t) == [t EXCEPT !.closed = NotClosed]
TermsAdmit(t, l, x) == t.lists[l] = {} \/ x \in t.lists[l]

-----------------------------------------------------------------------------
(* Evaluation. *)

\* SurfaceMatch::matches: `write' holds the capabilities that will do, both when
\* the rule does not say.
SurfaceMatches(rule, req) ==
    /\ req.write \in rule.write
    /\ Cardinality(req.items) <= rule.maxTools

\* Facts a condition may name: what was asked for, the lifetime already capped.
Facts(req, ttl) == [depth |-> req.terms.depth, lists |-> req.terms.lists, ttl |-> ttl]

\* Match::matches, of a tree of all, any and not written as the alternatives it
\* comes to: each says what the lists must and must not contain, and which depths
\* and lifetimes its comparisons hold of.
WhenHolds(rule, facts) ==
    \E c \in rule.when :
        /\ \A l \in Lists : /\ c.has[l] \subseteq facts.lists[l]
                            /\ c.lacks[l] \cap facts.lists[l] = {}
        /\ facts.depth \in c.depth
        /\ facts.ttl \in c.ttl

\* ConnRule::matches.  `named' holds the conditions the rule states, an absent one
\* always holds; `from' and `to' are the zones their globs match.
Matches(rule, req, a, b, ttl) ==
    /\ "from" \in rule.named => ZoneOf[a] \in rule.from
    /\ "to" \in rule.named => ZoneOf[b] \in rule.to
    /\ "callerTier" \in rule.named => TierOf[a] \in rule.callerTiers
    /\ "calleeTier" \in rule.named => TierOf[b] \in rule.calleeTiers
    /\ "surface" \in rule.named => SurfaceMatches(rule, req)
    /\ \A l \in Lists : l \in rule.named => rule.lists[l] \subseteq req.terms.lists[l]
    /\ "when" \in rule.named => WhenHolds(rule, Facts(req, ttl))

\* The first match, or the default.
Ruling(p, req, a, b, ttl) ==
    LET hit == {n \in DOMAIN p.rules : Matches(p.rules[n], req, a, b, ttl)}
    IN IF hit = {} THEN [decision |-> p.default, approval |-> 0, ttl |-> Unlimited,
                         terms |-> ToTerms([rate |-> Unlimited, depth |-> Unlimited,
                                            oversight |-> Unlimited, blocking |-> FALSE])]
       ELSE LET rule == p.rules[Min(hit)]
            IN [decision |-> rule.decision, approval |-> rule.approval, ttl |-> rule.ttl,
                terms |-> ToTerms(rule.terms)]

Standing(k) == k.mode = "standing"

\* Issuer::standing_state: what was issued without a human in the window that ends then.
InWindow(p, then) ==
    {k \in minted : Standing(k) /\ k.at <= then /\ then <= k.at + p.standing.window}

\* StandingLimits::blocks, for a max_share of one half.
CapBlocks(p, req, b) ==
    \/ ~ p.standing.enabled
    \/ TierOf[b] < p.standing.minTier
    \/ req.write /\ ~ p.standing.allowWrite
    \/ Cardinality(req.items) > p.standing.maxTools
    \/ Cardinality(InWindow(p, age)) >= p.standing.perWindow
    \/ /\ Cardinality(minted) >= p.standing.sample
       /\ 2 * Cardinality({k \in minted : Standing(k)}) >= Cardinality(minted)
    \/ age > p.standing.reviewed

Floor(bar, rule) == Max({bar.approval, rule.approval})

\* The request's terms narrowed by what the bar demands.
Narrowed(terms, bar) ==
    [terms EXCEPT !.depth = Min({@, bar.depth}),
                  !.oversight = IF bar.oversight /\ @ = Unlimited THEN 0 ELSE @]

\* The floor, the posture of both parties, closed terms and the standing caps:
\* each may only turn an allowance into a question, or a question into a no.
Decided(p, req, a, b, rule, terms, floor) ==
    LET barred == \/ IsClosed(terms)
                  \/ p.strict /\ ~ Permitted(p, ZoneOf[a], ZoneOf[b])
        doubted == floor > 0 \/ {a, b} \cap unproven # {} \/ CapBlocks(p, req, b)
    IN CASE barred -> "deny"
         [] ~ barred /\ rule.decision = "allow" /\ doubted -> "ask"
         [] OTHER -> rule.decision

\* ConnectPolicy::evaluate after its structural checks.
Evaluate(p, req, a, b) ==
    LET bar == BarForPair(p, a, b)
        capped == Min({req.ttl, IssuerMaxTtl, bar.ttl})
        rule == Ruling(p, req, a, b, capped)
        terms == Meet(Narrowed(req.terms, bar), rule.terms)
        floor == Floor(bar, rule)
    IN [decision |-> Decided(p, req, a, b, rule, terms, floor),
        terms |-> terms, ttl |-> Min({capped, rule.ttl}),
        dual |-> floor = 2, distinct |-> bar.distinct]

\* ConnectPolicy::dry_run, of one contract: what it says is asked for again.
DryRun(p, k) ==
    Evaluate(p, [k.req EXCEPT !.terms = k.terms, !.ttl = k.ttl], k.caller, k.callee).decision

-----------------------------------------------------------------------------
(* What `policy lint' tells the operator. *)

\* ConnRule::is_catch_all.  Mutant: the zones are all that is looked at.
CatchAllZones(rule) == rule.named \cap {"from", "to"} = {}
CatchAll(rule) == rule.named = {}

\* ConnectPolicy::lint: the rules it calls unreachable.
Unreachable(p) ==
    {n \in DOMAIN p.rules : \E k \in DOMAIN p.rules : k < n /\ CatchAll(p.rules[k])}

\* ZoneLattice::lint: crossing rules whose ends contradict the crossing.
NeverMatch(p) ==
    {c \in p.crossings : /\ c.from # <<>> /\ c.to # <<>>
                         /\ Classify(c.from, c.to) # c.crossing}

\* ConnectPolicy::implied_crossings.
ImpliedCrossings(p) ==
    LET permitting == {n \in DOMAIN p.rules : /\ p.rules[n].decision # "deny"
                                              /\ {"from", "to"} \subseteq p.rules[n].named}
    IN (UNION {{[crossing |-> Classify(x, y), from |-> x, to |-> y] :
                   x \in p.rules[n].from \cap DOMAIN p.zones,
                   y \in p.rules[n].to \cap DOMAIN p.zones} : n \in permitting})
       \ [crossing : InternalToLevel, from : DOMAIN p.zones, to : DOMAIN p.zones]

-----------------------------------------------------------------------------

PolicyInit ==
    /\ pol \in Policies
    /\ unproven = {}
    /\ pending = {}
    /\ minted = {}
    /\ age = 0

Contracted(q, mode, by) ==
    [caller |-> q.caller, callee |-> q.callee, req |-> q.req, terms |-> OnTheWire(q.terms),
     ttl |-> q.ttl, mode |-> mode, by |-> by, under |-> q.under, at |-> age,
     proven |-> {q.caller, q.callee} \cap unproven = {}]

\* Issuer::request: denied, minted on the spot, or left for humans.
AskConnection(req, a, b) ==
    /\ a # b
    /\ Cardinality(minted \cup pending) < MaxMinted
    /\ LET e == Evaluate(pol, req, a, b)
           q == [caller |-> a, callee |-> b, req |-> req, terms |-> e.terms, ttl |-> e.ttl,
                 dual |-> e.dual, distinct |-> e.distinct, under |-> pol]
       IN /\ minted' = IF e.decision = "allow"
                       THEN minted \cup {Contracted(q, "standing", 0)} ELSE minted
          /\ pending' = IF e.decision = "ask" THEN pending \cup {q} ELSE pending
    /\ UNCHANGED <<pol, unproven, age>>

\* verify_approval: a proof speaks for the request as it was shown, under the
\* policy that is live.
VerifyApproval(q) == q.under = pol

\* Issuer::approve by n humans: under the policy the request was decided with,
\* and only parties that are attested (the mint's own precondition).
ApproveConnection(q, n) ==
    /\ VerifyApproval(q)
    /\ q.dual => n >= 2
    /\ {q.caller, q.callee} \cap unproven = {}
    /\ pending' = pending \ {q}
    /\ minted' = minted \cup {Contracted(q, "human", n)}
    /\ UNCHANGED <<pol, unproven, age>>

\* A contract is revoked or runs out: it is not active any more.
Lapse(k) ==
    /\ minted' = minted \ {k}
    /\ UNCHANGED <<pol, unproven, pending, age>>

ForgetRequest(q) ==
    /\ pending' = pending \ {q}
    /\ UNCHANGED <<pol, unproven, minted, age>>

PutInForce(p) ==
    /\ pol' = p
    /\ UNCHANGED <<unproven, pending, minted, age>>

Attest(a) ==
    /\ unproven' = IF a \in unproven THEN unproven \ {a} ELSE unproven \cup {a}
    /\ UNCHANGED <<pol, pending, minted, age>>

Age ==
    /\ age < MaxAge
    /\ age' = age + 1
    /\ UNCHANGED <<pol, unproven, pending, minted>>

PolicyNext ==
    \/ \E req \in Asks, a, b \in Side : AskConnection(req, a, b)
    \/ \E q \in pending : ForgetRequest(q) \/ \E n \in 1 .. 2 : ApproveConnection(q, n)
    \/ \E k \in minted : Lapse(k)
    \/ \E p \in Policies : PutInForce(p)
    \/ \E a \in Side : Attest(a)
    \/ Age

PolicySpec == PolicyInit /\ [][PolicyNext]_policyVars

-----------------------------------------------------------------------------

\* Within the rule that decided: its lifetime, its terms and the people it asks
\* for.  Excepted is the oversight threshold, where the request's own is kept
\* however lax it is beside the rule's (contract.rs, Terms::intersect: `or_else',
\* under "a request can never raise either").
WithinRule(k) ==
    LET p == k.under
        capped == Min({k.req.ttl, IssuerMaxTtl, BarForPair(p, k.caller, k.callee).ttl})
        rule == Ruling(p, k.req, k.caller, k.callee, capped)
    IN /\ rule.decision # "deny" /\ (k.mode = "standing" => rule.decision = "allow")
       /\ k.ttl <= rule.ttl /\ rule.approval <= k.by
       /\ k.terms.rate <= rule.terms.rate /\ k.terms.depth <= rule.terms.depth
       /\ rule.terms.blocking => k.terms.blocking
       /\ \/ k.terms.oversight <= rule.terms.oversight
          \/ k.req.terms.oversight # Unlimited /\ k.terms.oversight = k.req.terms.oversight

\* Within the standing limits, for a contract nobody was asked about.  Of the share
\* of such contracts see ShareStep.
WithinLimits(k) ==
    LET cap == k.under.standing
    IN /\ k.proven /\ cap.enabled /\ k.at <= cap.reviewed
       /\ cap.minTier <= TierOf[k.callee] /\ (k.req.write => cap.allowWrite)
       /\ Cardinality(k.req.items) <= cap.maxTools
       /\ Cardinality({j \in InWindow(k.under, k.at) : j.under = k.under}) <= cap.perWindow

\* Nothing is ever widened.  Whatever policies came and went, a contract as a
\* mediator reads it keeps within what every source of its decision allowed:
\* the request, both zones, every zone that contains them, both trust levels
\* and the rule, but for the oversight threshold of WithinRule; and it was issued
\* without a human only if all of those, the parties' attestation and the standing
\* limits agreed (zone.rs, "Why containment has to be inherited"; contract.rs, "a
\* rule can never raise a ceiling a zone bar set, and a request can never raise
\* either").
NothingWidened ==
    \A k \in minted :
        LET p == k.under
            around == Ancestors(ZoneOf[k.caller]) \cup Ancestors(ZoneOf[k.callee])
            bars == {p.zones[z] : z \in around \cap DOMAIN p.zones}
                    \cup {ForTrust(Trust(z)) : z \in around}
            asked == k.req
        IN /\ \A bar \in bars :
                 /\ k.ttl <= bar.ttl /\ k.terms.depth <= bar.depth
                 /\ bar.oversight => k.terms.oversight # Unlimited
                 /\ k.by >= bar.approval
           /\ k.ttl <= asked.ttl /\ k.terms.depth <= asked.terms.depth
           /\ k.terms.rate <= asked.terms.rate
           /\ k.terms.oversight <= asked.terms.oversight
           /\ asked.terms.blocking => k.terms.blocking
           /\ \A l \in Lists : \A x \in UNION {r.terms.lists[l] : r \in Asks} :
                 TermsAdmit(k.terms, l, x) => TermsAdmit(asked.terms, l, x)
           /\ WithinRule(k)
           /\ k.mode = "standing" => WithinLimits(k)
           /\ p.strict => Permitted(p, ZoneOf[k.caller], ZoneOf[k.callee])

\* A contract nobody was asked about is added only while there are few contracts, or
\* fewer than half of them were issued like that.
ShareStep ==
    \A k \in minted' \ minted :
        Standing(k) => \/ Cardinality(minted) < k.under.standing.sample
                       \/ 2 * Cardinality({j \in minted : Standing(j)}) < Cardinality(minted)

\* What lint says of a policy is true of every decision taken under it: with the
\* rules it calls unreachable and the crossings it says can never match taken
\* out, every request of every pair is decided as before; and a pair some rule
\* permits, in zones the policy declares, can cross once the stanzas that
\* implied_crossings lists are written and crossings are made strict.
LintTells(p) ==
    \A req \in Asks, a, b \in Side :
        LET kept == Min(Unreachable(p) \cup {Len(p.rules) + 1}) - 1
            cleaned == [p EXCEPT !.rules = SubSeq(@, 1, kept),
                                 !.crossings = @ \ NeverMatch(p)]
            strict == [p EXCEPT !.strict = TRUE,
                                !.crossings = @ \cup ImpliedCrossings(p)]
        IN /\ Evaluate(cleaned, req, a, b) = Evaluate(p, req, a, b)
           /\ \A n \in DOMAIN p.rules :
                 LET rule == p.rules[n]
                     known(globbed, zone) == Ancestors(zone) \cap DOMAIN p.zones \cap globbed # {}
                 IN /\ rule.decision # "deny" /\ {"from", "to"} \subseteq rule.named
                    /\ Matches(rule, req, a, b, req.ttl)
                    /\ known(rule.from, ZoneOf[a]) /\ known(rule.to, ZoneOf[b])
                    => Permitted(strict, ZoneOf[a], ZoneOf[b])

\* A dry run does not cry wolf: of a contract that was decided under the policy in
\* force it does not say `would deny', unless a rule asks for the depth or the
\* lifetime, which the fold itself has narrowed (cpolicy.rs dry_run, "what breaks
\* if I ship this").
FoldReads(rule) ==
    /\ "when" \in rule.named
    /\ \E c \in rule.when : ~ (0 .. Unlimited \subseteq c.depth) \/ ~ (0 .. IssuerMaxTtl \subseteq c.ttl)
DryRunTells ==
    \A k \in minted :
        k.under = pol /\ (\A n \in DOMAIN pol.rules : ~ FoldReads(pol.rules[n])) =>
            DryRun(pol, k) # "deny"

\* No contract is wider than any source of its decision, the rule's oversight
\* threshold excepted; none is issued without a human beyond the standing limits; the
\* dry run denies nothing the policy in force allowed, unless a rule reads what the
\* fold narrows; and lint tells the truth of a policy that is put in force before
\* anything was asked for (cpolicy.rs, zone.rs, contract.rs).
PolicySound ==
    /\ [](NothingWidened /\ DryRunTells)
    /\ [][ShareStep]_policyVars
    /\ [][minted \cup pending = {} => \A p \in {pol'} \ {pol} : LintTells(p)]_policyVars
=============================================================================
