----------------------------- MODULE Screening -----------------------------
(***************************************************************************)
(* What a declared surface is judged by before it is pinned: the screening *)
(* detectors and their verdict (screen.rs), and the risk tier              *)
(* (admission.rs derive_tier).                                             *)
(*                                                                         *)
(* An item has a name (a sequence of letters), its texts and its           *)
(* parameters.  A text is known by what the detectors look for in it: the  *)
(* kinds of character it holds, the payloads it carries, what each of its  *)
(* sentences says, and the registered names it mentions.                   *)
(***************************************************************************)
EXTENDS Integers, Sequences, FiniteSets, FiniteSetsExt

Detectors == {"S1", "S2", "S3", "S4", "S5", "S6", "S7", "S8"}
BlockingDetectors == {"S1", "S2", "S3", "S4"}
Weight == [S5 |-> 30, S6 |-> 40, S7 |-> 35, S8 |-> 15]

\* A ruleset that parses may still be refused.
RulesValid(rules) ==
    /\ rules.flagAt <= rules.escalateAt
    /\ ~(rules.calibrated /\ BlockingDetectors \subseteq rules.disabled)

\* An acceptance holds for one text of one item, for the detectors it lists or,
\* when it lists none, for all.
AcceptanceCovers(acceptances, item, d) ==
    \E a \in acceptances : /\ a.item = item
                           /\ a.detectors = {} \/ d \in a.detectors

\* The texts of an item: its name and every string and key of its definition.
TextFields(item) == {item.nameText} \cup item.texts
Count(S, P(_)) == Cardinality({x \in S : P(x)})

\* S1.  A joining or directional control hides nothing where the script needs it.
Hides(f) == \/ "concealing" \in f.chars
            \/ "joiner" \in f.chars /\ "complex" \notin f.chars
S1Invisible(item) == Count(TextFields(item), Hides)

\* One substitution, or one letter more in the longer: the first letter that
\* differs is skipped and the rest must agree.
EditDistanceAtMost1(a, b) ==
    LET long == IF Len(a) >= Len(b) THEN a ELSE b
        short == IF Len(a) >= Len(b) THEN b ELSE a
        differ == {i \in 1 .. Len(short) : long[i] # short[i]}
        skip == Min(differ \cup {Len(short) + 1})
    IN  /\ a # b
        /\ \/ Len(long) = Len(short) /\ Cardinality(differ) = 1
           \/ /\ Len(long) = Len(short) + 1
              /\ \A j \in skip .. Len(short) : long[j + 1] = short[j]

\* The index says who holds a name; the names of subject itself do not count.
NearCollision(name, index, subject) ==
    \E n \in index : n.holder # subject /\ EditDistanceAtMost1(n.name, name)

\* S2: a confusable script mixed into the name, and the estate's near namesakes.
S2Names(item, index, subject) ==
    (IF {"ascii", "confusable"} \subseteq item.nameText.chars THEN 1 ELSE 0)
      + (IF NearCollision(item.name, index, subject) THEN 1 ELSE 0)

\* S3: each kind of payload a text carries is a hit.
S3Payloads(item) ==
    MapThenSumSet(LAMBDA f : Cardinality(f.carries \cap {"data-uri", "comment", "blob"}),
                  TextFields(item))

\* S4: one sentence that names a secret and a way to hand it over.
Egress(f) == \E s \in f.sentences : {"secret", "handover"} \subseteq s
S4Egress(item) == Count(TextFields(item), Egress)

Overrides(f) == \E s \in f.sentences : "override" \in s
S5Override(item) == Count(TextFields(item), Overrides)

\* S6: an endpoint, or the name of something somebody else registered.
S6CrossEntity(item, index, subject) ==
    Cardinality({f \in TextFields(item) :
        \/ "endpoint" \in f.carries
        \/ \E n \in index : /\ n.holder # subject /\ Len(n.name) >= 4
                             /\ n.name \in f.mentions})

\* S7: a parameter asks for a secret without marking it, or for the context.
S7Params(item) ==
    MapThenSumSet(LAMBDA x : Cardinality(x \cap {"context"})
                                + (IF "secret" \in x /\ "marked" \notin x THEN 1 ELSE 0),
                  item.params)

\* S8: a long description, many parameters, a deep schema.
S8Outliers(item) == Cardinality(item.outliers)

Hits(item, index, subject, d) ==
    CASE d = "S1" -> S1Invisible(item)
      [] d = "S2" -> S2Names(item, index, subject)
      [] d = "S3" -> S3Payloads(item)
      [] d = "S4" -> S4Egress(item)
      [] d = "S5" -> S5Override(item)
      [] d = "S6" -> S6CrossEntity(item, index, subject)
      [] d = "S7" -> S7Params(item)
      [] d = "S8" -> S8Outliers(item)

\* (a mutant) An acceptance for one detector silences them all.
LiveByItem(item, index, subject, ctx) ==
    {d \in Detectors \ ctx.rules.disabled :
        /\ Hits(item, index, subject, d) > 0
        /\ \A e \in Detectors : ~AcceptanceCovers(ctx.acceptances, item, e)}

\* The detectors that fire on the item and that no acceptance covers.
Live(item, index, subject, ctx) ==
    {d \in Detectors \ ctx.rules.disabled :
        Hits(item, index, subject, d) > 0 /\ ~AcceptanceCovers(ctx.acceptances, item, d)}

ItemScore(item, index, subject, ctx) ==
    LET live == Live(item, index, subject, ctx) \ BlockingDetectors
        sum == MapThenSumSet(LAMBDA d : Weight[d] * Hits(item, index, subject, d), live)
    IN  IF sum > 100 THEN 100 ELSE sum

Score(items, index, subject, ctx) ==
    MapThenSumSet(LAMBDA i : ItemScore(i, index, subject, ctx), items)

\* What the detectors ask for.
Asked(items, index, subject, tier, ctx) ==
    LET score == Score(items, index, subject, ctx)
    IN  IF \E i \in items : Live(i, index, subject, ctx) \cap BlockingDetectors # {} THEN "Block"
        ELSE IF score >= ctx.rules.escalateAt THEN IF tier <= 2 THEN "Block" ELSE "EscalateTier"
        ELSE IF score >= ctx.rules.flagAt THEN "Flag"
        ELSE "Pass"

\* What the mode and the calibration leave of it.
Softened(asked, ctx) ==
    CASE asked = "Block" /\ (ctx.mode # "Enforce" \/ ~ctx.rules.calibrated) -> "Flag"
      [] asked = "EscalateTier" /\ ctx.mode = "Observe" -> "Flag"
      [] OTHER -> asked

Verdict(items, index, subject, tier, ctx) ==
    Softened(Asked(items, index, subject, tier, ctx), ctx)

-----------------------------------------------------------------------------
(* The tier: 1 is the most sensitive.                                      *)

\* A read-only hint changes nothing: no class above 3 is ever assigned.
CapabilityClass(item) ==
    IF item.destructive THEN 1
    ELSE IF item.cls # 0 THEN item.cls
    ELSE IF item.alarming THEN 1
    ELSE 2

DataClassTier(class) ==
    CASE class = "restricted" -> 1
      [] class = "internal" -> 3
      [] class = "public" -> 4
      [] OTHER -> 2

SpansResidency(groups) == Cardinality(groups) > 1

MoreSensitive(tier, condition) == IF condition /\ tier > 1 THEN tier - 1 ELSE tier

\* declared: [classes, groups] as the registering party states them.
DeriveTier(declared, items, internalZone) ==
    LET base == IF declared.classes = {} THEN 2
                ELSE Min({DataClassTier(c) : c \in declared.classes})
        cap == Min({4} \cup {CapabilityClass(i) : i \in items})
        start == Min({base, cap})
    IN  MoreSensitive(
          MoreSensitive(
            MoreSensitive(start, ~internalZone),
            \E i \in items : i.unbounded),
          SpansResidency(declared.groups))
=============================================================================
