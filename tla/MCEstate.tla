------------------------------ MODULE MCEstate ------------------------------
(***************************************************************************)
(* How the estate is governed, one component at a time: admission of       *)
(* parties, the HTTP API of the plane, the command line, discovery of      *)
(* declarations, consent, proposals from repositories, offers and needs,   *)
(* the connection policy, and configuration.                               *)
(***************************************************************************)
EXTENDS Admission, Discovery, Consent, Plane, Commands, Proposals, Offers, Policy, Settings,
        TLC

CONSTANTS
    Parts,                \* the components that are run
    x1, x2, r1, s1, s2, a1, own, dev

VARIABLE part

(* Admission. *)
\* One party known by an SVID, one by OIDC; two issuers' labels and subjects
\* could spell the second.
Spiffe == <<"spiffe">>
Oidc == <<"urn:wc:oidc:", "a", ":", "b", ":", "c">>
MCParty == {Spiffe, Oidc}
Text(chars, carries, says) ==
    [chars |-> chars, carries |-> carries, sentences |-> {says}, mentions |-> {}]
Item(name, texts) ==
    [name |-> name, nameText |-> Text({"ascii"}, {}, {}), texts |-> texts, params |-> {},
     outliers |-> {}, cls |-> 3, alarming |-> FALSE, destructive |-> FALSE,
     readOnly |-> FALSE, unbounded |-> FALSE]

CardKeys == "card" :> [key |-> "cardkey", alg |-> "ES256"]
Signed(items) ==
    [items |-> items, listsSignatures |-> TRUE,
     signatures |-> {[kid |-> "card", alg |-> "ES256", signer |-> "cardkey", over |-> items]}]

NoKeys == << >>
GetA == <<"g", "e", "t", "a">>
GetB == <<"g", "e", "t", "b">>
Reads == <<"r", "e", "a", "d">>
Plain == Signed({Item(GetA, {})})
Sibling == Signed({Item(GetB, {})})
Pair == Signed({Item(GetA, {}), Item(GetB, {})})
\* A hidden character is in place in a script that needs it; a payload never is.
Hidden == Signed({Item(Reads, {Text({"joiner"}, {}, {}), Text({"joiner", "complex"}, {}, {})})})
Worse == Signed({Item(Reads, {Text({"joiner"}, {"blob"}, {})}),
                 Item(GetB, {Text({}, {}, {"secret"}), Text({}, {}, {"handover"}),
                             Text({}, {"endpoint"}, {"override"})})})
Resigned == [Plain EXCEPT !.signatures =
                {[g EXCEPT !.over = Pair.items] : g \in Plain.signatures}]

MCSurface == {Plain, Sibling, Hidden, Worse, Resigned}

Token(sub, iss, kid, signer, aud, exp, holder) ==
    [sub |-> sub, iss |-> iss, spiffe |-> sub = Spiffe, kid |-> kid, alg |-> "ES256",
     signer |-> signer, aud |-> aud, exp |-> exp, nbf |-> 0, holder |-> holder]
Verifier(kid, key, issuer, label) ==
    [keys |-> kid :> [key |-> key, alg |-> "ES256"], aud |-> "here", leeway |-> 0,
     issuer |-> issuer, label |-> label]

Envelope(signer, subjects) ==
    [signatures |-> {[kid |-> "", signer |-> signer]}, statement |-> "slsa",
     subjects |-> subjects, builder |-> "ci"]

Screen(mode, accepted) ==
    [mode |-> mode, acceptances |-> accepted,
     rules |-> [flagAt |-> 25, escalateAt |-> 60, calibrated |-> TRUE, disabled |-> {}]]

Strict(identity, token, verifier) ==
    [mode |-> "Enforce", identity |-> identity, token |-> token, verifier |-> verifier,
     cardKeys |-> CardKeys, requireSignature |-> TRUE,
     provKeys |-> "prov" :> [key |-> "provkey", alg |-> "ES256"],
     envelopes |-> <<Envelope("otherkey", MCSurface), Envelope("provkey", {Plain})>>,
     bind |-> TRUE, digest |-> {}, builders |-> {"ci"},
     screen |-> Screen("Enforce", {}),
     declared |-> [classes |-> {"public"}, groups |-> {}], internal |-> TRUE,
     ceiling |-> 1, owner |-> 1]

Svid == Strict("svid", Token(Spiffe, "", "svid", "svidkey", "here", 1, "w1"),
               Verifier("svid", "svidkey", "", <<>>))
OidcOne == Strict("oidc", Token(<<"b", ":", "c">>, "iss1", "k1", "key1", "here", 2, "w2"),
                  Verifier("k1", "key1", "iss1", <<"a">>))
OidcTwo == Strict("oidc", Token(<<"c">>, "iss2", "k2", "key2", "here", 2, "w3"),
                  Verifier("k2", "key2", "iss2", <<"a", ":", "b">>))
\* The defaults: nothing is verified and the screening only flags.
Lenient == [Svid EXCEPT !.mode = "Observe", !.identity = "none",
                        !.cardKeys = NoKeys, !.provKeys = NoKeys, !.envelopes = <<>>,
                        !.bind = FALSE, !.screen.mode = "Flag"]
\* Everything is verified but the card.
Uncarded == [Svid EXCEPT !.mode = "Observe", !.cardKeys = NoKeys, !.screen.mode = "Flag"]
\* Screening enforces, in observe mode; one finding was accepted.
Accepting == [Lenient EXCEPT !.screen =
    Screen("Enforce", {[item |-> i, detectors |-> {"S1"}] : i \in Hidden.items \cup Worse.items})]

MCOption == {Svid, OidcOne, OidcTwo, Uncarded, Accepting}
-----------------------------------------------------------------------------
(* The HTTP API. *)
MCRoles == [ops |-> {"secops", "mediator"}, dev |-> {"request", "approve", "register", "read"}]

V4(n) == [family |-> "v4", host |-> n]
V6(n) == [family |-> "v6", host |-> n]

\* --trusted-proxy of one v4 block, behind a TLS proxy that shares a secret.
MCTransport ==
    CHOOSE t \in TransportPolicy(
        [insecure |-> FALSE, proxy |-> TRUE, secret |-> TRUE,
         trusted |-> TrustedSource(V4(3), 1) \cup TrustedSource(V6(2), 0)],
        V4(0)) : TRUE

AskOf(route, key, body, arg, token, peer, secret) ==
    [route |-> route, key |-> key, body |-> body, arg |-> arg, token |-> token,
     peer |-> peer, https |-> TRUE, secret |-> secret]

MCAsk ==
    {AskOf("quarantine", "k1", "b1", "p", "ops", V4(2), TRUE),
     AskOf("create", "k1", "b2", "none", "dev", V4(3), TRUE),
     AskOf("create", "k2", "b2", "none", "dev", V4(3), TRUE),
     AskOf("clear", "k3", "b3", "p", "ops", V4(2), TRUE),
     AskOf("approve", "k4", "b3", "r", "dev", V4(2), TRUE),
     AskOf("ack", NoKey, "b4", "m", "ops", V4(2), TRUE),
     AskOf("approve", NoKey, "b3", "r", "dev", V4(2), TRUE),
     AskOf("mediators", NoKey, "b4", "m", "dev", V4(2), TRUE),
     AskOf("revoke", "k1", "b1", "c", "ops", V6(2), TRUE),
     AskOf("malformed", NoKey, "b4", "m", NoToken, V4(0), FALSE)}
-----------------------------------------------------------------------------
(* Proposals: two services of two owners find one consumer. *)
MCZoneMaps == {{}, {r1}}
MCFinds == s1 :> {r1} @@ s2 :> {r1}
MCOwners == s1 :> own @@ s2 :> dev

-----------------------------------------------------------------------------
(* Offers: two items, two shapes, five manifests: one that names no audience, *)
(* one that adds an item behind approval, two that schedule a withdrawal   *)
(* (one for every shape by name) and one whose ceiling is too long; and an  *)
(* empty one.                                                              *)
open(items, approval, ttl) ==
    [items |-> items, to |-> {"in", "out"}, open |-> TRUE, approval |-> approval, ttl |-> ttl,
     drops |-> {}]
term(items, to, approval, ttl, drops) ==
    [items |-> items, to |-> to, open |-> FALSE, approval |-> approval, ttl |-> ttl,
     drops |-> drops]

MCManifests ==
    {<<open({"read"}, "PreGranted", 2)>>,
     <<term({"read", "pay"}, {"in"}, "PreGranted", 3, {}),
       term({"pay"}, {"in", "out"}, "NamedConsumer", 2, {})>>,
     <<term({"read"}, {"in"}, "PreGranted", 3, {<<"read", 3>>}),
       term({"read"}, {"out"}, "NamedConsumer", 2, {<<"read", 4>>})>>,
     <<term({"pay"}, {"out"}, "NamedConsumer", 9, {})>>,
     <<term({"read"}, {"in", "out"}, "PreGranted", 2, {<<"read", 3>>})>>,
     <<>>}

MCNeeds == [items : {{"read"}}, ttl : {1, 3}] \cup {[items |-> {"read", "pay"}, ttl |-> 3]}
-----------------------------------------------------------------------------
(* Policy: three parties, one in a zone inside another's, one of a partner.  *)
(* The policies disagree on every source the fold has: a parent stricter   *)
(* than its child, a rule laxer than its zones, a lattice that is enforced. *)
inner == <<"internal", "pay">>
outer == <<"internal">>
acme  == <<"partner", "acme">>

MCZoneOf == [app |-> inner, db |-> outer, ally |-> acme]
MCTierOf == [app |-> 3, db |-> 3, ally |-> 2]

bar(approval, ttl, depth) ==
    [approval |-> approval, ttl |-> ttl, depth |-> depth, oversight |-> FALSE, distinct |-> FALSE]
anyTerms == [rate |-> Unlimited, depth |-> Unlimited, oversight |-> Unlimited, blocking |-> FALSE]
noLists == [l \in Lists |-> {}]
partner == <<"partner">>
everywhere == {inner, outer, acme, partner}
anyRule ==
    [named |-> {}, from |-> everywhere, to |-> everywhere, callerTiers |-> 1 .. 4,
     calleeTiers |-> 1 .. 4, write |-> BOOLEAN, maxTools |-> 2, lists |-> noLists, when |-> {},
     decision |-> "allow", approval |-> 0, ttl |-> Unlimited, terms |-> anyTerms]
anyCase == [has |-> noLists, lacks |-> noLists, depth |-> 0 .. Unlimited, ttl |-> 0 .. IssuerMaxTtl]
limits(enabled, reviewed) ==
    [enabled |-> enabled, minTier |-> 3, allowWrite |-> FALSE, maxTools |-> 1,
     perWindow |-> 1, window |-> 0, sample |-> 2, reviewed |-> reviewed]

MCPolicies ==
    {[default |-> "deny", strict |-> FALSE, strictZones |-> FALSE, crossings |-> {},
      zones |-> (outer :> bar(0, 5, 1)) @@ (inner :> bar(0, 9, 3)) @@ (partner :> bar(0, 9, 3)),
      rules |-> << [anyRule EXCEPT !.named = {"surface", "when"}, !.decision = "deny", !.write = {TRUE},
                        !.when = {[anyCase EXCEPT !.has["jurisdictions"] = {"eu"}],
                                  [anyCase EXCEPT !.has["classes"] = {"pii"}]}],
                   [anyRule EXCEPT !.named = {"from", "to", "callerTier", "calleeTier", "surface"},
                        !.callerTiers = 2 .. 3, !.write = {FALSE},
                        !.terms.rate = 10, !.terms.oversight = 3] >>,
      standing |-> limits(TRUE, 1)],
     [default |-> "ask", strict |-> TRUE, strictZones |-> TRUE,
      crossings |-> {[crossing |-> "egress", from |-> outer, to |-> <<>>],
                     [crossing |-> "ingress", from |-> outer, to |-> partner]},
      zones |-> (outer :> bar(1, 9, 3)) @@ (partner :> bar(0, 9, 3)),
      rules |-> << [anyRule EXCEPT !.named = {"when", "classes"}, !.decision = "ask", !.ttl = 1,
                        !.lists["classes"] = {"pii"},
                        !.when = {[anyCase EXCEPT !.depth = 4 .. Unlimited]}],
                   [anyRule EXCEPT !.approval = 2, !.ttl = 2, !.terms.blocking = TRUE],
                   [anyRule EXCEPT !.named = {"surface"}, !.decision = "deny"] >>,
      standing |-> limits(FALSE, 9)]}

ask(lists, depth, oversight, ttl, items, write) ==
    [terms |-> [lists |-> lists, closed |-> [l \in Lists |-> FALSE], rate |-> 50,
                depth |-> depth, oversight |-> oversight, blocking |-> FALSE],
     ttl |-> ttl, items |-> items, write |-> write]

MCAsks ==
    {ask(noLists, 2, 5, 6, {"read"}, FALSE),
     ask([noLists EXCEPT !["classes"] = {"pii"}], 4, Unlimited, 40, {"read", "pay"}, TRUE)}
-----------------------------------------------------------------------------
(* Settings: two commands, a global switch with two spellings, the root of *)
(* the estate and a key of one command.                                    *)
MCFlags == [serve |-> {"external", "root", "listen"}, entities |-> {"external", "root"}]
MCTable == "keys.external" :> "external" @@ "external" :> "external" @@ "server.root" :> "root"
           @@ "server.listen" :> "listen"
MCLater == {<<"keys.external", "external">>}

-----------------------------------------------------------------------------
(* Each component by itself: the others stay as they are at the start, and *)
(* where nothing is asked no policy is in force.                           *)
PolicyIdle == pol = 0 /\ unproven = {} /\ pending = {} /\ minted = {} /\ age = 0

EstateInit ==
    /\ part \in Parts
    /\ AdmissionInit /\ PlaneInit /\ CommandsInit /\ DiscoveryInit /\ ConsentInit /\ ProposalsInit
    /\ OffersInit /\ (part # "offers" => shape = "in")
    /\ SettingsInit
    /\ IF part = "policy" THEN PolicyInit ELSE PolicyIdle

\* What a step of component c leaves alone.
Others(c) ==
    /\ UNCHANGED part
    /\ c # "admission" => UNCHANGED admissionVars
    /\ c # "plane" => UNCHANGED planeVars
    /\ c # "commands" => UNCHANGED cmdVars
    /\ c # "discovery" => UNCHANGED discoveryVars
    /\ c # "consent" => UNCHANGED consentVars
    /\ c # "proposals" => UNCHANGED proposalVars
    /\ c # "offers" => UNCHANGED offerVars
    /\ c # "policy" => UNCHANGED policyVars
    /\ c # "settings" => UNCHANGED settingsVars

EstateNext ==
    \/ part = "admission" /\ AdmissionNext /\ Others("admission")
    \/ part = "plane" /\ PlaneNext /\ Others("plane")
    \/ part = "commands" /\ CommandsNext /\ Others("commands")
    \/ part = "discovery" /\ DiscoveryNext /\ Others("discovery")
    \/ part = "consent" /\ ConsentNext /\ Others("consent")
    \/ part = "proposals" /\ ProposalsNext /\ Others("proposals")
    \/ part = "offers" /\ OffersNext /\ Others("offers")
    \/ part = "policy" /\ PolicyNext /\ Others("policy")
    \/ part = "settings" /\ SettingsNext /\ Others("settings")

EstateVars == <<part, admissionVars, planeVars, cmdVars, discoveryVars,
    consentVars, proposalVars, offerVars, policyVars, settingsVars>>

EstateSpec == EstateInit /\ [][EstateNext]_EstateVars

-----------------------------------------------------------------------------
(* State constraint, where a component needs one: of the proposals, one pull *)
(* request at a time, the registry changes before the second merge or       *)
(* mint, and promote and apply, which meet in the registry and the branch,  *)
(* take turns, and after a merge a promote activates and covers everybody;  *)
(* of the offers, one request at a time, the last one is consented to, and  *)
(* a need is applied anew where no contract stands; of the settings, which  *)
(* do not meet, one variable at a time; of discovery, the state file and    *)
(* the undated repository in the first second, and one of them at a time;   *)
(* of the policy, one party unattested and one request waiting at a time,   *)
(* and contracts of one callee; of admission, the clock moves before the    *)
(* second command; of two commands, one commits once, judges twice or uses  *)
(* a key, and beside a list verb runs one that commits once.                *)
Bounded ==
    /\ part = "commands" =>
        /\ \E p \in {x1, x2} :
              prog[p] \in UNION {{<<>>}, ActivateCmd, RegisterCmd, QuarantineCmd}
        /\ \A p, q \in {x1, x2} : p # q /\ prog[p] \in Batches =>
              prog[q] \in {<<>>} \cup ActivateCmd
    /\ part = "discovery" =>
        /\ second > 0 \/ content["r3"] # {} => stateFile = Nothing /\ proposed = {}
        /\ second > 0 => content["r3"] = {}
    /\ part = "admission" => now = 0 \/ runs < 2
    /\ part = "proposals" =>
        /\ promo.pc = "idle" \/ \A a \in {a1} : jobs[a] = NoJob
        /\ Len(history) = 2 => promo.pc = "idle" /\ pulls = {}
        /\ promo.pc # "idle" /\ history # <<>> =>
              promo.zoned # {} /\ promo.activate /\ history[1].approvers # {}
        /\ Cardinality(pulls) <= 1
        /\ LET changed == {p \in {s1, s2, r1} :
                \/ state[p].life = "Quarantined"
                \/ p \in {s1, s2} /\ state[p].owner \notin {None, MCOwners[p]}}
           IN  changed # {} =>
                 Cardinality(changed) = 1 /\ Len(history) + Cardinality(DOMAIN grants) <= 1
    /\ part = "offers" =>
        /\ Cardinality(oasks) <= 1
        /\ derived # NoContract => oasks = {}
        /\ apply # NoApply => derived.status # "Active"
        /\ offer.version = MaxVersion => offer.consented
    /\ part = "settings" => Cardinality({f \in Flag : environ[f] # Unset}) <= 1
    /\ part = "policy" =>
        /\ Cardinality(unproven) <= 1 /\ Cardinality(pending) <= 1
        /\ age = 2 => pending = {}
        /\ Cardinality(minted) = 2 => unproven = {}
        /\ Cardinality(minted) = 3 => pol.default = "deny"
        /\ Cardinality(minted \cup pending) = 3 =>
              unproven = {} /\ \A j, k \in minted : j.under = k.under
        /\ \A j, k \in minted \cup pending : j.callee = k.callee

\* The processes, threads and terms of a component are interchangeable, and so
\* are the services of the proposals together with their owners.
Symmetry ==
    Permutations({x1, x2}) \cup {s1 :> s2 @@ s2 :> s1 @@ own :> dev @@ dev :> own}
=============================================================================
