------------------------------- MODULE Views -------------------------------
(***************************************************************************)
(* What an estate says about itself: the registers filed with a regulator  *)
(* (wc-control/src/export.rs), mediated discovery (broker.rs), the blast   *)
(* radius of a cut (assurance.rs), the gauges (wc-core/src/obs.rs and      *)
(* wc-control/src/obs.rs) and the portal's front page (portal.rs).  Each   *)
(* is a function of the projection, or of a prefix of the log, taken while *)
(* the estate goes on changing.                                            *)
(*                                                                         *)
(* What is fixed about a party (tier, zone, service, tools) is a constant; *)
(* what its history decides (lifecycle, posture, contracts) is in the log. *)
(***************************************************************************)
EXTENDS Naturals, FiniteSets, Sequences, FiniteSetsExt

CONSTANTS
    Member,     \* parties of the estate
    Founders,   \* a sequence: the members already active and attested at the start
    Profile,    \* [Member -> [tier, outside, service, keys, rank]]; `keys' are
                \* token sets, `rank' is the order of the identifiers
    Unrecorded, \* no business service
    Welcome,    \* pairs of members the connection policy does not deny
    Queries,    \* token sets asked for
    MaxMatches, \* matches in one answer
    Depths,     \* depths a blast radius is asked for
    Cap,        \* series of one metric family
    MaxDeals,   \* bound on contracts
    MaxEvents,  \* bound on the log
    MaxWait,    \* days a command waits for the lock of the state
    LastDay     \* bound on the calendar

ASSUME ViewsAssumption ==
    /\ Founders \in Seq(Member)
    /\ MaxWait \in Nat
    /\ Depths \subseteq Nat

VARIABLES
    calendar,   \* the day
    log,        \* the state log: [ts, ev]
    estate,     \* the projection of the whole log
    gauges,     \* the series of wc_entities and wc_contracts_active
    scraped,    \* the gauges were set from this projection
    filed       \* registers taken of a day that had passed, each with the number
                \* of frames there were

viewVars == <<calendar, log, estate, gauges, scraped, filed>>

-----------------------------------------------------------------------------
(* The projection of a log. *)

Blank == [life |-> [m \in Member |-> "absent"],
          posture |-> [m \in Member |-> "unattested"],
          deals |-> <<>>]

\* A containment fans out to every contract of the party, in both directions.
Cut(deals, m) ==
    [n \in DOMAIN deals |->
        IF m \in {deals[n].caller, deals[n].callee} /\ deals[n].status = "active"
        THEN [deals[n] EXCEPT !.status = "revoked"] ELSE deals[n]]

\* Projection::apply, on the events these views are made of.  What names a party or
\* a contract that is not there changes nothing of it: a replay up to a day may hold
\* a frame and not the earlier one it rests on.
Apply(p, e) ==
    CASE e.op = "register" -> [p EXCEPT !.life[e.who] = "pending", !.posture[e.who] = e.posture]
      [] e.op = "activate" -> [p EXCEPT !.life[e.who] = IF @ = "absent" THEN @ ELSE "active"]
      [] e.op = "quarantine" ->
            [p EXCEPT !.life[e.who] = IF @ = "absent" THEN @ ELSE "suspended",
                      !.posture[e.who] = IF p.life[e.who] = "absent" THEN @ ELSE "quarantined",
                      !.deals = Cut(@, e.who)]
      [] e.op = "mint" ->
            [p EXCEPT !.deals = [n \in DOMAIN @ \cup {e.who} |->
                                    IF n = e.who THEN e.deal ELSE @[n]]]
      [] e.op = "revoke" ->
            [p EXCEPT !.deals = [n \in DOMAIN @ |->
                                    IF n = e.who THEN [@[n] EXCEPT !.status = "revoked"]
                                    ELSE @[n]]]

\* One frame of a replay up to a day: what was written later is left out.
Replayed(p, frame, day) == IF frame.ts <= day THEN Apply(p, frame.ev) ELSE p

\* The projections a replay of some frames up to a day goes through.
Replay(frames, day) ==
    LET state[n \in 0 .. Len(frames)] ==
          IF n = 0 THEN Blank ELSE Replayed(state[n - 1], frames[n], day)
    IN  state

\* Projection::as_of: the frames written up to a day, from the log alone.
\* Mutant: the projection as it is now.
AsOfNow(day) == estate
AsOf(day) == Replay(log, day)[Len(log)]

Registered(p) == {m \in Member : p.life[m] # "absent"}
Usable(p, m) == p.life[m] = "active" /\ p.posture[m] # "quarantined"

\* An estate starts new, or with its founders.
FoundingLog ==
    [n \in 1 .. 2 * Len(Founders) |->
        LET m == Founders[(n + 1) \div 2]
        IN  [ts |-> 0,
             ev |-> IF n % 2 = 1
                    THEN [op |-> "register", who |-> m, posture |-> "attested"]
                    ELSE [op |-> "activate", who |-> m]]]

ViewsInit ==
    /\ calendar = 0
    /\ log \in {<<>>, FoundingLog}
    /\ estate = Replay(log, 0)[Len(log)]
    /\ gauges = [entities |-> <<>>, active |-> <<>>]
    /\ scraped = FALSE
    /\ filed = {}

-----------------------------------------------------------------------------
(* Registers. *)

\* live_contracts.
Standing(p, day) ==
    {n \in DOMAIN p.deals : /\ p.deals[n].status = "active"
                            /\ p.deals[n].iat <= day /\ day < p.deals[n].exp}

ByCaller(p, m) == {n \in DOMAIN p.deals : p.deals[n].caller = m}
ByCallee(p, m) == {n \in DOMAIN p.deals : p.deals[n].callee = m}

\* gaps: what the register says it cannot vouch for.
Gaps(p, day) ==
    {<<p.posture[m], m>> : m \in {x \in Registered(p) : p.posture[x] # "attested"}}
    \cup {<<"never_activated", m>> : m \in {x \in Registered(p) : p.life[x] = "pending"}}
    \cup {<<"no_pin", m>> : m \in {x \in Registered(p) : Profile[x].keys = {}}}
    \cup {<<"no_business_service", m>> :
            m \in {x \in Registered(p) : Profile[x].service = Unrecorded}}
    \cup {<<"dangling_party", n>> : n \in
            {x \in DOMAIN p.deals : ~ {p.deals[x].caller, p.deals[x].callee} \subseteq Registered(p)}}
    \cup {<<"expired_but_active", n>> : n \in
            {x \in DOMAIN p.deals : p.deals[x].status = "active" /\ p.deals[x].exp <= day}}

\* dora_register.  RT.02: arrangements and their terms.
DoraArrangements(p, day) ==
    {<<n, p.deals[n].callee, p.deals[n].caller, Profile[p.deals[n].callee].service,
       p.deals[n].iat, p.deals[n].exp>> : n \in Standing(p, day)}
\* RT.03: third parties.
DoraProviders(p) ==
    {<<m, p.posture[m]>> : m \in {x \in Registered(p) : Profile[x].outside}}
\* RT.04: consumers, with the number of their contracts of whatever status.
DoraConsumers(p) ==
    {<<m, Cardinality(ByCaller(p, m))>> : m \in {x \in Registered(p) : ByCaller(p, x) # {}}}
\* RT.06: functions.
DoraFunctions(p) ==
    {LET of == {m \in Registered(p) : Profile[m].service = s}
     IN  <<s, Min({Profile[m].tier : m \in of}), Cardinality(of),
           Cardinality({m \in of : Profile[m].outside})>> :
     s \in {Profile[m].service : m \in Registered(p)}}
Dora(p, day) ==
    <<DoraArrangements(p, day), DoraProviders(p), DoraConsumers(p), DoraFunctions(p),
      Gaps(p, day)>>

\* cps230_register: services with the providers they depend on, and providers.
CpsOperations(p, day) ==
    LET live == Standing(p, day)
        using(s) == {n \in live : Profile[p.deals[n].caller].service = s}
    IN {<<s, {p.deals[n].callee : n \in using(s)},
          Min({Profile[p.deals[n].callee].tier : n \in using(s)} \cup {4})>> :
        s \in {Profile[p.deals[n].caller].service : n \in live}}
CpsProviders(p, day) ==
    {<<m, p.posture[m], Cardinality(ByCallee(p, m) \cap Standing(p, day))>> :
     m \in {x \in Registered(p) : ByCallee(p, x) # {}}}
Cps230(p, day) == <<CpsOperations(p, day), CpsProviders(p, day), Gaps(p, day)>>

\* oscal_component: every party with the live contracts it holds.
Oscal(p, day) ==
    <<{<<m, p.posture[m], ByCaller(p, m) \cap Standing(p, day)>> : m \in Registered(p)},
      Gaps(p, day)>>

\* cyclonedx_bom: refused for a party without a pinned surface.
Bom(p, m) ==
    IF m \in Registered(p) /\ Profile[m].keys # {} THEN <<m, p.posture[m]>> ELSE <<>>

\* legacy_export: the parties, and in JSON the gaps.
Flat(p, day) ==
    <<{<<m, p.posture[m], p.life[m]>> : m \in Registered(p)}, Gaps(p, day)>>

\* A register, in each of its formats.
Tables(p, day) ==
    <<Dora(p, day), Cps230(p, day), Oscal(p, day), [m \in Member |-> Bom(p, m)], Flat(p, day)>>

\* `connect export' of a day.  The header, which names the head of the evidence
\* chain when the export is made, is left out.
Export(day) ==
    /\ filed' = filed \cup {[day |-> day, at |-> Len(log), tables |-> Tables(AsOf(day), day)]}
    /\ UNCHANGED <<calendar, log, estate, gauges, scraped>>

-----------------------------------------------------------------------------
(* Discovery. *)

\* CapKey::satisfies, for some key of the party.
Offers(m, query) == \E key \in Profile[m].keys : query \subseteq key

\* eligibility: what the policy would deny, or cannot decide, is not there.
Eligible(p, asker, m) ==
    /\ Usable(p, m) /\ p.posture[asker] # "quarantined"
    /\ <<asker, m>> \in Welcome

Before(m, n) ==
    \/ Profile[m].tier < Profile[n].tier
    \/ Profile[m].tier = Profile[n].tier /\ Profile[m].rank < Profile[n].rank

\* The first MaxMatches in the order of tier and identifier.
Leading(found) ==
    {m \in found : Cardinality({n \in found : Before(n, m)}) < MaxMatches}

\* The parties that match, before and after the policy.
Candidates(p, there, asker, query) ==
    {m \in there \ {asker} : p.life[m] = "active" /\ Offers(m, query)}

\* broker::discover, for an asker within its budget.  Mutant: the answer is cut
\* short before it is filtered.
AnswerCutFirst(p, there, asker, query) ==
    LET found == Candidates(p, there, asker, query)
    IN  IF query = {} THEN [matches |-> {}, truncated |-> FALSE, considered |-> 0]
        ELSE [matches |-> {m \in Leading(found) : Eligible(p, asker, m)},
              truncated |-> Cardinality(found) > MaxMatches,
              considered |-> Cardinality(found)]
Answer(p, there, asker, query) ==
    LET found == Candidates(p, there, asker, query)
        open == {m \in found : Eligible(p, asker, m)}
    IN  IF query = {} THEN [matches |-> {}, truncated |-> FALSE, considered |-> 0]
        ELSE [matches |-> Leading(open), truncated |-> Cardinality(open) > MaxMatches,
              considered |-> Cardinality(found)]

\* `connect discover': refused to a party that is not active, or contained; the
\* throttle is new with every query, so it never refuses.  The number of the
\* candidates is not told.
DiscoverCmd(p, there, asker, query) ==
    IF ~ Usable(p, asker) THEN <<"refused">>
    ELSE LET found == Answer(p, there, asker, query) IN <<found.matches, found.truncated>>

-----------------------------------------------------------------------------
(* Blast radius. *)

\* One edge, over every contract the indexes hold.
Next1(p, from, outward) ==
    {IF outward THEN p.deals[n].callee ELSE p.deals[n].caller :
        n \in UNION {IF outward THEN ByCaller(p, m) ELSE ByCallee(p, m) : m \in from}}

\* traverse: the parties first met at each depth.
Levels(p, subject, depth, outward) ==
    LET near[d \in 0 .. depth] ==
          IF d = 0 THEN {subject}
          ELSE Next1(p, near[d - 1], outward) \ UNION {near[k] : k \in 0 .. d - 1}
    IN  near

\* Mutant: the depth limit is not told.
BeyondNever(p, level, outward) == FALSE
Beyond(p, level, outward) == Next1(p, level, outward) # {}

BlastRadius(p, subject, depth) ==
    LET out == Levels(p, subject, depth, TRUE)
        in == Levels(p, subject, depth, FALSE)
        near(levels) == UNION {levels[d] : d \in 0 .. depth - 1}
    IN [forward |-> UNION {out[d] : d \in 1 .. depth},
        reverse |-> UNION {in[d] : d \in 1 .. depth},
        cutSet |-> (UNION {ByCaller(p, m) : m \in near(out)})
                   \cup (UNION {ByCallee(p, m) : m \in near(in)}),
        truncated |-> Beyond(p, out[depth], TRUE) \/ Beyond(p, in[depth], FALSE)]

\* `connect blast-radius' exits with an error when the report is truncated.
BlastRadiusCmd(p, subject, depth) ==
    LET report == BlastRadius(p, subject, Max({1, depth}))
    IN  [report |-> report, failed |-> subject \notin Registered(p) \/ report.truncated]

-----------------------------------------------------------------------------
(* Gauges. *)

Bucket(p, m) == <<p.posture[m], p.life[m], Profile[m].tier>>
Pair(p, n) == <<Profile[p.deals[n].caller].outside, Profile[p.deals[n].callee].outside,
                Profile[p.deals[n].callee].tier>>
ActiveDeals(p) == {n \in DOMAIN p.deals : p.deals[n].status = "active"}

\* Registry::set for each series of a family.  A series once there stays; in a
\* family at its cap what is new is folded into one series.
Overflow == <<"overflow">>
SetSeries(family, counts) ==
    LET old == DOMAIN family
        new == DOMAIN counts \ old
        room == Min({Cardinality(new), Cap - Min({Cap, Cardinality(old)})})
        kept == CHOOSE S \in SUBSET new : Cardinality(S) = room
        lost == new \ kept
    IN  [s \in old \cup kept \cup (IF lost = {} THEN {} ELSE {Overflow}) |->
            IF s \in DOMAIN counts THEN counts[s]
            ELSE IF s = Overflow /\ lost # {} THEN counts[CHOOSE x \in lost : TRUE]
            ELSE family[s]]

Counts(items, Key(_)) ==
    [k \in {Key(i) : i \in items} |-> Cardinality({i \in items : Key(i) = k})]

EntityCounts(p) == Counts(Registered(p), LAMBDA m : Bucket(p, m))
ActiveCounts(p) == Counts(ActiveDeals(p), LAMBDA n : Pair(p, n))

\* obs::snapshot, called by GET /metrics.
Scrape ==
    /\ gauges' = [entities |-> SetSeries(gauges.entities, EntityCounts(estate)),
                  active |-> SetSeries(gauges.active, ActiveCounts(estate))]
    /\ scraped' = TRUE
    /\ UNCHANGED <<calendar, log, estate, filed>>

-----------------------------------------------------------------------------
(* The estate. *)

\* A command takes the time once, before it waits for the lock of the state, and the
\* frame it commits under the lock carries that time.
Stamps == {day \in 0 .. calendar : calendar <= day + MaxWait}

\* One commit to the state log.
CommitEvent(ts, e) ==
    /\ Len(log) < MaxEvents
    /\ log' = Append(log, [ts |-> ts, ev |-> e])
    /\ estate' = Apply(estate, e)
    /\ scraped' = FALSE
    /\ UNCHANGED <<calendar, gauges, filed>>

RegisterMember(ts, m, posture) ==
    /\ estate.life[m] = "absent"
    /\ CommitEvent(ts, [op |-> "register", who |-> m, posture |-> posture])
ActivateMember(ts, m) ==
    /\ estate.life[m] = "pending"
    /\ CommitEvent(ts, [op |-> "activate", who |-> m])
QuarantineMember(ts, m) ==
    /\ m \in Registered(estate) /\ estate.posture[m] # "quarantined"
    /\ CommitEvent(ts, [op |-> "quarantine", who |-> m])
Conclude(ts, a, b) ==
    /\ a # b /\ Usable(estate, a) /\ Usable(estate, b)
    /\ Cardinality(DOMAIN estate.deals) < MaxDeals
    /\ CommitEvent(ts, [op |-> "mint", who |-> Cardinality(DOMAIN estate.deals) + 1,
               deal |-> [caller |-> a, callee |-> b, status |-> "active",
                         iat |-> ts, exp |-> ts + 1]])
RevokeDeal(ts, n) ==
    /\ n \in DOMAIN estate.deals /\ estate.deals[n].status = "active"
    /\ CommitEvent(ts, [op |-> "revoke", who |-> n])
DayPasses ==
    /\ calendar < LastDay
    /\ calendar' = calendar + 1
    /\ UNCHANGED <<log, estate, gauges, scraped, filed>>

ViewsNext ==
    \/ \E ts \in Stamps, m \in Member :
          \/ \E s \in {"attested", "unattested"} : RegisterMember(ts, m, s)
          \/ ActivateMember(ts, m) \/ QuarantineMember(ts, m)
    \/ \E ts \in Stamps, a, b \in Member : Conclude(ts, a, b)
    \/ \E ts \in Stamps, n \in DOMAIN estate.deals : RevokeDeal(ts, n)
    \/ DayPasses
    \/ \E day \in 0 .. calendar - 1 : Export(day)
    \/ Scrape

ViewsSpec == ViewsInit /\ [][ViewsNext]_viewVars

-----------------------------------------------------------------------------
(* Properties. *)

\* A register of a day that has passed says the same whenever it is asked
\* for, in every format, whatever the estate became meanwhile, as long as no frame
\* with a stamp of that day or before is committed in between: export replays the
\* log up to the day instead of reading the projection.  The exception is real: a
\* command that waited for the lock over the end of the day commits with the time it
\* was started, and the register filed before it is then not the one filed after.
RegisterStable ==
    \A r, s \in filed :
        /\ r.day = s.day /\ r.at <= s.at
        /\ \A n \in r.at + 1 .. s.at : log[n].ts > r.day
        => r.tables = s.tables

\* A discovery answer, its "cut short" included, is what it would be if the
\* parties the asker may not connect to did not exist: discover filters
\* before it sorts and truncates.
DiscoveryBlind ==
    \A asker \in {m \in Member : Usable(estate, m)} : \A query \in Queries :
        DiscoverCmd(estate, Member, asker, query) =
            DiscoverCmd(estate, {m \in Member : Eligible(estate, asker, m)}, asker, query)

ClosedUnder(p, S, outward) == Next1(p, S, outward) \subseteq S
Reach(p, subject, outward) ==
    {m \in Member : \A S \in SUBSET Member :
        subject \in S /\ ClosedUnder(p, S, outward) => m \in S}

\* A blast radius that is not reported as truncated is whole: it names every
\* party reachable over contracts in either direction, and the contracts on
\* every path.
BlastComplete ==
    \A subject \in Registered(estate) :
        LET out == Reach(estate, subject, TRUE)
            in == Reach(estate, subject, FALSE)
        IN  \A depth \in Depths :
            LET answer == BlastRadiusCmd(estate, subject, depth)
            IN  ~answer.failed =>
                  /\ answer.report.forward \cup {subject} = out
                  /\ answer.report.reverse \cup {subject} = in
                  /\ answer.report.cutSet = (UNION {ByCaller(estate, m) : m \in out})
                                            \cup (UNION {ByCallee(estate, m) : m \in in})

\* A register of a past day changes only by a command started that day and committed
\* after it was filed, discovery tells an asker nothing of parties it may not reach,
\* and a blast radius that is not marked truncated is whole (export.rs, broker.rs,
\* assurance.rs).
ViewsSound == RegisterStable /\ DiscoveryBlind /\ BlastComplete
=============================================================================
