----------------------------- MODULE Admission -----------------------------
(***************************************************************************)
(* `connect register` and `connect activate`: the pipeline of admission.rs *)
(* with the verifiers and the screener wc-cli gives it, and the writes it  *)
(* ends in.  A command reads the estate's names, fetches the surface, once *)
(* more when provenance is bound to it, judges it, writes the register and *)
(* then the evidence; other commands and the server run in between.        *)
(***************************************************************************)
EXTENDS Registry, Screening

CONSTANTS
    Command,     \* concurrent runs of the command line
    Surface,     \* what a server may serve: [items, listsSignatures, signatures]
    Option,      \* the command lines an operator may use
    MaxClock,    \* bound on the clock
    MaxRuns      \* bound on commands started

\* A token that the verifier of a command line has the key for.
Genuine(o) ==
    /\ o.token.kid \in DOMAIN o.verifier.keys
    /\ o.token.signer = o.verifier.keys[o.token.kid].key

\* RulesetScreener screens under a subject of its own.
ScreeningSubject == <<"screening-subject">>

\* Nobody registers as the screener; names, labels and envelopes come in sequences;
\* and those who sign tokens give a name to one workload: a SPIFFE id is no urn, and
\* an issuer's label stands for one issuer.
ASSUME AdmissionAssumption ==
    /\ ScreeningSubject \notin Party
    /\ \A o \in Option :
         /\ o.verifier.label \in Seq(STRING) /\ o.token.sub \in Seq(STRING)
         /\ o.token.spiffe => o.token.sub # <<>> /\ Head(o.token.sub) # "urn:wc:oidc:"
         /\ DOMAIN o.envelopes \subseteq Nat
    /\ \A o, q \in Option :
         /\ Genuine(o) /\ Genuine(q) /\ o.identity = q.identity /\ o.token.sub = q.token.sub
         /\ o.identity = "oidc" => o.verifier.label = q.verifier.label
         => o.token.holder = q.token.holder

VARIABLES
    cmd,         \* cmd[c]: where a command is
    basis,       \* basis[p]: what the admission that wrote p found
    holders,     \* holders[p]: whose tokens have authenticated p
    now,
    runs

admissionVars == <<registryVars, cmd, basis, holders, now, runs>>

Idle == [pc |-> "idle"]

\* estate_names: every name pinned in the register, and nothing when the store
\* cannot be opened.
EstateNames(held) ==
    IF held THEN {}
    ELSE UNION {{[name |-> i.name, holder |-> p] : i \in entities[p].pin.items} :
                   p \in DOMAIN entities}

AdmissionInit ==
    /\ entities = << >> /\ contracts = << >>
    /\ cmd = [c \in Command |-> Idle]
    /\ basis = << >> /\ holders = [p \in Party |-> {}]
    /\ now = 0 /\ runs = 0

-----------------------------------------------------------------------------
(* The verifiers (attest.rs): the workload's token, the signatures on its  *)
(* card, the provenance of its build.  Each answers verified, unverified   *)
(* or error; an error ends the registration in every mode, unverified only *)
(* where the mode enforces.                                                *)
(*                                                                         *)
(* A key set maps a kid to the key it names and the algorithm it is        *)
(* registered for.  A signature is the key that made it and what it was    *)
(* made over.                                                              *)

Asymmetric == {"ES256", "EdDSA"}

CheckedAlg(alg, registered) == alg \in Asymmetric /\ alg = registered

\* The token is signed with the key its kid names, for this audience, and alive
\* at that time: leeway bounds clock skew on both ends.
TokenValid(tok, v, at) ==
    /\ tok.kid \in DOMAIN v.keys
    /\ CheckedAlg(tok.alg, v.keys[tok.kid].alg)
    /\ tok.signer = v.keys[tok.kid].key
    /\ tok.aud = v.aud
    /\ at < tok.exp + v.leeway
    /\ tok.nbf <= at + v.leeway

\* Stage 1 with a JWT-SVID: the subject is the party.
SvidIdentity(tok, v, claimed, at) ==
    IF /\ v.aud # "" /\ DOMAIN v.keys # {}
       /\ TokenValid(tok, v, at)
       /\ tok.spiffe
       /\ claimed = tok.sub
    THEN "verified" ELSE "error"

\* Stage 1 with an OIDC token: the party is named, under a prefix of its own, by the
\* issuer's label and the subject, joined by a colon, which the subject may contain
\* and the label may not.
EntityIdFor(label, subject) == <<"urn:wc:oidc:">> \o label \o <<":">> \o subject

CheckConfig(v) ==
    /\ v.aud # "" /\ v.issuer # "" /\ v.label # <<>>
    /\ \A i \in DOMAIN v.label : v.label[i] # ":"
    /\ DOMAIN v.keys # {}

VerifiedClaims(tok, v, at) ==
    CheckConfig(v) /\ TokenValid(tok, v, at) /\ tok.iss = v.issuer

OidcIdentity(tok, v, claimed, at) ==
    IF /\ VerifiedClaims(tok, v, at)
       /\ tok.sub # <<>>
       /\ claimed = EntityIdFor(v.label, tok.sub)
    THEN "verified" ELSE "error"

\* Stage 1 without a token.
AssertedIdentity == "unverified"

\* One signature on a card, over the canonical form of what the card says.
VerifyOne(sig, keys, content) ==
    /\ sig.kid \in DOMAIN keys
    /\ CheckedAlg(sig.alg, keys[sig.kid].alg)
    /\ sig.signer = keys[sig.kid].key
    /\ sig.over = content

\* Stage 3.  A card may carry no list of signatures; of the list, one that verifies
\* is enough, and a claim to be signed that nothing backs is an error.
CardIdentity(card, keys, required) ==
    IF DOMAIN keys = {} THEN "unverified"
    ELSE IF ~card.listsSignatures THEN IF required THEN "error" ELSE "unverified"
    ELSE IF \E s \in card.signatures : VerifyOne(s, keys, card.content) THEN "verified"
    ELSE "error"

\* An envelope has a trusted signature and holds a provenance statement with at
\* least one subject digest.  Its key hint may be empty: every trusted key is tried.
EnvelopeValid(env, keys) ==
    /\ \E s \in env.signatures :
          \E kid \in DOMAIN keys : /\ s.kid \in {"", kid}
                                   /\ s.signer = keys[kid].key
    /\ env.statement = "slsa"
    /\ env.subjects # {}

\* What the statement binds; digest is empty or the one digest expected.  Nothing to
\* compare with, or nobody allowed, binds nothing.
CheckStatement(env, digest, builders) ==
    /\ digest # {} /\ digest \subseteq env.subjects
    /\ env.builder \in builders

\* Stage 4.  The first envelope that is valid decides.
ProvenanceIdentity(envelopes, keys, digest, builders) ==
    LET valid == {i \in DOMAIN envelopes : EnvelopeValid(envelopes[i], keys)}
    IN  IF envelopes = <<>> THEN "unverified"
        ELSE IF valid = {} THEN "error"
        ELSE IF CheckStatement(envelopes[Min(valid)], digest, builders) THEN "verified"
        ELSE "unverified"

-----------------------------------------------------------------------------
(* What surrounds the commands: a server may serve a different surface at  *)
(* each fetch or not answer, and the store may be held at each opening.    *)

Fetched == {{}} \cup {{s} : s \in Surface}

AdmissionTick ==
    /\ now < MaxClock
    /\ now' = now + 1
    /\ UNCHANGED <<registryVars, cmd, basis, holders, runs>>

-----------------------------------------------------------------------------
(* admit: the stages.                                                      *)

\* Whether an unverified stage ends the registration: the codes of the three
\* verification stages deny where the mode enforces.
Denies(verdict, mode) == verdict = "error" \/ (verdict = "unverified" /\ mode = "Enforce")

Identity(opt, p, at) ==
    CASE opt.identity = "svid" -> SvidIdentity(opt.token, opt.verifier, p, at)
      [] opt.identity = "oidc" -> OidcIdentity(opt.token, opt.verifier, p, at)
      [] OTHER -> AssertedIdentity

Card(opt, s) ==
    CardIdentity([listsSignatures |-> s.listsSignatures, signatures |-> s.signatures,
                  content |-> s.items], opt.cardKeys, opt.requireSignature)

\* The digest the provenance must name: the operator's, or that of the surface
\* fetched for the purpose.
Provenance(opt, bound) ==
    IF opt.envelopes = <<>> /\ DOMAIN opt.provKeys = {} THEN "unverified"
    ELSE ProvenanceIdentity(opt.envelopes, opt.provKeys,
                            IF opt.digest # {} THEN opt.digest ELSE bound, opt.builders)

\* RulesetScreener screens before the tier is known, as if the surface were of the
\* least sensitive one.
ScreenerVerdict(opt, s, index) ==
    Verdict(s.items, index, ScreeningSubject, 4, opt.screen)

\* All stages pass, in their order, on the surface s.
StagesPass(opt, p, s, index, bound, at) ==
    /\ ~Denies(Identity(opt, p, at), opt.mode)
    /\ ~Denies(Card(opt, s), opt.mode)
    /\ ~Denies(Provenance(opt, bound), opt.mode)
    /\ ScreenerVerdict(opt, s, index) # "Block"
    /\ DeriveTier(opt.declared, s.items, opt.internal) >= opt.ceiling

\* (a mutant) The card is not looked at.
PostureWithoutCard(opt, p, s, bound, at) ==
    IF /\ Identity(opt, p, at) = "verified"
       /\ Provenance(opt, bound) = "verified"
    THEN "Attested" ELSE "Unattested"

PostureFor(opt, p, s, bound, at) ==
    IF /\ Identity(opt, p, at) = "verified"
       /\ Card(opt, s) = "verified"
       /\ Provenance(opt, bound) = "verified"
    THEN "Attested" ELSE "Unattested"

-----------------------------------------------------------------------------
(* connect register.                                                       *)

Stays(c) == [d \in Command |-> IF d = c THEN Idle ELSE cmd[d]]

\* The arguments are read, the ruleset is validated and the names of the estate
\* are taken.
BeginRegister(c, p, opt) ==
    /\ cmd[c] = Idle /\ runs < MaxRuns
    /\ RulesValid(opt.screen.rules)
    /\ runs' = runs + 1
    /\ \E held \in BOOLEAN :
          cmd' = [cmd EXCEPT ![c] =
                    [pc |-> IF opt.bind /\ opt.digest = {} THEN "bind" ELSE "admit",
                     party |-> p, opt |-> opt, index |-> EstateNames(held),
                     bound |-> {}, at |-> now]]
    /\ UNCHANGED <<registryVars, basis, holders, now>>

\* --bind-surface fetches the surface for its digest.
BindSurface(c) ==
    /\ cmd[c].pc = "bind"
    /\ \E f \in Fetched :
          cmd' = IF f = {} THEN Stays(c)
                 ELSE [cmd EXCEPT ![c].pc = "admit", ![c].bound = f]
    /\ UNCHANGED <<registryVars, basis, holders, now, runs>>

\* The pipeline fetches the surface, judges it and pins it.
AdmitSurface(c) ==
    /\ cmd[c].pc = "admit"
    /\ \E f \in Fetched :
       LET r == cmd[c]
           ok == \E s \in f : StagesPass(r.opt, r.party, s, r.index, r.bound, r.at)
       IN  cmd' = [cmd EXCEPT ![c] =
             IF ~ok THEN [pc |-> "denied", party |-> r.party]
             ELSE LET s == CHOOSE s \in f : TRUE
                  IN  [pc |-> "put", party |-> r.party, opt |-> r.opt, at |-> r.at,
                       index |-> r.index, bound |-> r.bound, pin |-> s,
                       tier |-> DeriveTier(r.opt.declared, s.items, r.opt.internal),
                       posture |-> PostureFor(r.opt, r.party, s, r.bound, r.at)]]
    /\ UNCHANGED <<registryVars, basis, holders, now, runs>>

\* A refusal is recorded; that the record fails is ignored.
RecordDenied(c) ==
    /\ cmd[c].pc = "denied"
    /\ cmd' = Stays(c)
    /\ UNCHANGED <<registryVars, basis, holders, now, runs>>

\* The store is opened again and the entity written, if the party is still new or
\* Pending.
PutEntity(c) ==
    /\ cmd[c].pc = "put"
    /\ LET r == cmd[c] IN
       \/ /\ Put(r.party, r.posture, r.pin, r.opt.owner)
          /\ basis' = Insert(basis, r.party, r)
          /\ holders' = [holders EXCEPT ![r.party] =
                           @ \cup IF Identity(r.opt, r.party, r.at) = "verified"
                                   THEN {r.opt.token.holder} ELSE {}]
          /\ cmd' = [cmd EXCEPT ![c] = [pc |-> "record", party |-> r.party]]
       \* the store is held, or the party is past Pending
       \/ /\ cmd' = Stays(c)
          /\ UNCHANGED <<registryVars, basis, holders>>
    /\ UNCHANGED <<now, runs>>

\* The evidence is written after the register; whether that fails changes nothing
\* here (the trail itself is EvidenceChain's).
RecordRow(c) ==
    /\ cmd[c].pc = "record"
    /\ cmd' = Stays(c)
    /\ UNCHANGED <<registryVars, basis, holders, now, runs>>

\* connect activate.
Activate(c, p) ==
    /\ cmd[c] = Idle
    /\ Transition(p, "Active")
    /\ cmd' = [cmd EXCEPT ![c] = [pc |-> "record", party |-> p]]
    /\ UNCHANGED <<basis, holders, now, runs>>

\* Containment of a party and its return, which re-opens it to registration.
ContainParty(p, H) ==
    /\ Quarantine(p, H) \/ ClearQuarantine(p, H)
    /\ entities' # entities
    /\ UNCHANGED <<cmd, basis, holders, now, runs>>

AdmissionNext ==
    \/ AdmissionTick
    \/ \E p \in Party : ContainParty(p, Human)
    \/ \E c \in Command :
        \/ \E p \in Party, opt \in Option : BeginRegister(c, p, opt)
        \/ \E p \in Party : Activate(c, p)
        \/ BindSurface(c) \/ AdmitSurface(c) \/ RecordDenied(c) \/ PutEntity(c) \/ RecordRow(c)

AdmissionSpec == AdmissionInit /\ [][AdmissionNext]_admissionVars
-----------------------------------------------------------------------------
\* A party is Attested only on the token of one workload, alive and meant for this
\* audience when the command began, a card whose trusted signature covers exactly
\* what was pinned, and trusted provenance of the expected digest by an allowed
\* builder; and what was admitted under enforcement is Attested.
AttestedIsProven ==
    \A p \in DOMAIN entities :
        LET b == basis[p]
            o == b.opt
            Trusted(sig, keys) == \E k \in DOMAIN keys : keys[k].key = sig.signer
        IN  /\ o.mode = "Enforce" => b.posture = "Attested"
            /\ entities[p].posture = "Attested" =>
                /\ Trusted(o.token, o.verifier.keys)
                /\ o.token.aud = o.verifier.aud
                /\ b.at < o.token.exp + o.verifier.leeway
                /\ Cardinality(holders[p]) = 1
                /\ \E g \in b.pin.signatures :
                      Trusted(g, o.cardKeys) /\ g.over = entities[p].pin.items
                /\ \E i \in DOMAIN o.envelopes :
                      /\ \E g \in o.envelopes[i].signatures : Trusted(g, o.provKeys)
                      /\ o.envelopes[i].builder \in o.builders
                      /\ (IF o.digest # {} THEN o.digest ELSE b.bound)
                            \subseteq o.envelopes[i].subjects

\* Where screening enforces, nothing in the register carries a finding of the four
\* detectors that block by themselves (S1 to S4) that nobody accepted: S2, a name one
\* edit away from another party's, against the names the command read before it took
\* the lock, so two commands may still register such a pair.  Of the score that
\* blocks a party of tier 1 or 2 it says nothing: admission screens for tier 4 and,
\* against screen.rs ("A tier-driven block is re-checked once the tier is known"),
\* never looks again.
ScreenedClean ==
    \A p \in DOMAIN entities :
        LET b == basis[p]
            x == b.opt.screen
        IN  x.mode = "Enforce" /\ x.rules.calibrated =>
                \A i \in entities[p].pin.items :
                    \A d \in BlockingDetectors \ x.rules.disabled :
                        Hits(i, b.index, p, d) > 0 => AcceptanceCovers(x.acceptances, i, d)

\* A step that leaves the surfaces of parties past Pending alone.
PinStep ==
    \A p \in DOMAIN entities : entities[p].lifecycle # "Pending" =>
         p \in DOMAIN entities' /\ entities'[p].pin = entities[p].pin

\* A party is attested only on proofs that hold of the surface that was pinned, a
\* screening that enforces lets no item through that a blocking detector hits and
\* nobody accepted, going by the names read when it began, and a registration never
\* changes the surface of a party past Pending, even when it was activated or
\* contained while the command was under way (attest.rs, screen.rs, registry.rs put,
\* as register_cmd drives them).
AdmissionSound ==
    /\ [](AttestedIsProven /\ ScreenedClean)
    /\ [][PinStep]_admissionVars
=============================================================================
