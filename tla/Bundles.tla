------------------------------ MODULE Bundles ------------------------------
(***************************************************************************)
(* Contracts carried by hand to a mediator that cannot pull                *)
(* (wc-control/src/bundle.rs, `connect bundle') out of an estate whose     *)
(* tenants share one root (wc-control/src/tenant.rs).  The courier may be  *)
(* late, carry an old bundle again, or change what is in it.               *)
(***************************************************************************)
EXTENDS Naturals, FiniteSets

CONSTANTS
    TenantName,  \* names a command line or the environment can give
    TenantDefs,  \* a tenant registry: set of [id, mode, key, kid]
    IssuerId,    \* [tenants -> the issuer identity in their contracts]
    Site,        \* mediators
    Deal,        \* contracts
    DealOf,      \* [Deal -> its tenant]
    DealFor,     \* [Deal -> the mediator it is addressed to]
    Unnamed,     \* a setting that is not given
    MaxTtl,      \* MAX_BUNDLE_TTL_SECS
    Ahead,       \* how far in the future a bundle may be issued
    MaxNow,      \* bound on the clock
    MaxBundles   \* bound on bundles

VARIABLES
    today,     \* the clock
    register,  \* [Deal -> [until, cut, stored]], or Unnamed before it is minted
    listed,    \* the contracts the revocation feed names
    exporting, \* the export under way
    carried,   \* the bundles the courier holds
    loaded     \* every import that succeeded

bundleVars == <<today, register, listed, exporting, carried, loaded>>

-----------------------------------------------------------------------------
(* Tenants. *)

\* TenantId::new: lower case letters, digits and dashes; the names that are not
\* are outside DOMAIN IssuerId.
WellNamed(name) == name \in DOMAIN IssuerId

\* tenant_id: the flag, then the environment, then "default"; no fallback for a
\* name that is not valid.
TenantFor(flag, env) ==
    IF flag # Unnamed THEN flag ELSE IF env # Unnamed THEN env ELSE "default"

\* TenantRegistry::validate.
ValidRegistry(defs) ==
    /\ \A d, e \in defs : d.id = e.id => d = e
    /\ \A d \in defs :
        /\ d.mode \in {"enforce", "observe"}
        /\ d.mode = "enforce" => d.key # Unnamed
        /\ (d.key = Unnamed) = (d.kid = Unnamed)

\* TenantRegistry::resolve.
TenantKey(t) == (CHOOSE d \in TenantDefs : d.id = t).key

\* A contract in the register: when it ends, when it was cut, and whether the
\* issuer stored its artifact.
DealEntry == [until : Nat, cut : Nat \cup {Unnamed}, stored : BOOLEAN]

\* A contract names its tenant: no two tenants sign with one key under one issuer
\* identity (each has its own `issuer_key', and is given its own --issuer-id).
ASSUME TenantAssumption ==
    /\ \A s, t \in DOMAIN IssuerId :
        TenantKey(s) = TenantKey(t) /\ IssuerId[s] = IssuerId[t] => s = t
    /\ {d.id : d \in TenantDefs} \subseteq DOMAIN IssuerId
    /\ DealOf \in [Deal -> DOMAIN IssuerId]
    /\ {MaxTtl, MaxNow} \subseteq Nat
    /\ Unnamed \notin DealEntry

\* TenantPaths: everything of a tenant is below its own directory.
Below(t) == {d \in Deal : DealOf[d] = t /\ register[d] # Unnamed}

-----------------------------------------------------------------------------
(* The register and the feed. *)

Alive(d, when) == register[d].cut = Unnamed /\ when < register[d].until

Artifact(d) == [deal |-> d, iss |-> IssuerId[DealOf[d]], key |-> TenantKey(DealOf[d]),
                aud |-> DealFor[d], exp |-> register[d].until]

MintDeal(d, until, stored) ==
    /\ register[d] = Unnamed
    /\ register' = [register EXCEPT ![d] = [until |-> until, cut |-> Unnamed, stored |-> stored]]
    /\ UNCHANGED <<today, listed, exporting, carried, loaded>>

CutDeal(d) ==
    /\ register[d] # Unnamed /\ register[d].cut = Unnamed
    /\ register' = [register EXCEPT ![d].cut = today]
    /\ UNCHANGED <<today, listed, exporting, carried, loaded>>

ListDeal(d) ==
    /\ register[d] # Unnamed /\ register[d].cut # Unnamed /\ d \notin listed
    /\ listed' = listed \cup {d}
    /\ UNCHANGED <<today, register, exporting, carried, loaded>>

NextDay ==
    /\ today < MaxNow /\ today' = today + 1
    /\ UNCHANGED <<register, listed, exporting, carried, loaded>>

-----------------------------------------------------------------------------
(* bundle export: three reads, of files others write meanwhile. *)

NoExport == [at |-> "none"]

\* The projection: every live contract addressed to the mediator.
OpenProjection(flag, env, site, ttl) ==
    LET t == TenantFor(flag, env) IN
    /\ exporting = NoExport /\ Cardinality(carried) < MaxBundles
    /\ WellNamed(t)
    /\ exporting' = [at |-> "projection", tenant |-> t, site |-> site, ttl |-> ttl, ts |-> today,
                     live |-> {d \in Below(t) : Alive(d, today) /\ DealFor[d] = site}]
    /\ UNCHANGED <<today, register, listed, carried, loaded>>

\* The artifacts the issuer stored; refused when one is missing.  Mutant: the
\* bundle is exported without it.
ReadArtifactsLax ==
    /\ exporting.at = "projection"
    /\ exporting' = [at |-> "artifacts", tenant |-> exporting.tenant, site |-> exporting.site,
                     ttl |-> exporting.ttl, ts |-> exporting.ts, live |-> exporting.live,
                     contracts |-> {Artifact(d) : d \in {e \in exporting.live : register[e].stored}}]
    /\ UNCHANGED <<today, register, listed, carried, loaded>>
ReadArtifacts ==
    /\ exporting.at = "projection"
    /\ exporting' = IF \A d \in exporting.live : register[d].stored
                    THEN [at |-> "artifacts", tenant |-> exporting.tenant, site |-> exporting.site,
                          ttl |-> exporting.ttl, ts |-> exporting.ts, live |-> exporting.live,
                          contracts |-> {Artifact(d) : d \in exporting.live}]
                    ELSE NoExport
    /\ UNCHANGED <<today, register, listed, carried, loaded>>

\* The feed, and bundle::export: the lifetime is bounded, and the signature is
\* over a digest of the whole body.
ExportBundle ==
    LET x == exporting
        body == [site |-> x.site, issued |-> x.ts, exp |-> x.ts + x.ttl,
                 contracts |-> x.contracts, revocations |-> listed \cap Below(x.tenant)]
    IN  /\ x.at = "artifacts"
        /\ exporting' = NoExport
        /\ carried' = IF x.ttl \in 1 .. MaxTtl
                      THEN carried \cup
                            {[body |-> body, by |-> TenantKey(x.tenant), live |-> x.live,
                              claims |-> [digest |-> body, site |-> body.site, exp |-> body.exp]]}
                      ELSE carried
        /\ UNCHANGED <<today, register, listed, loaded>>

\* The courier changes one field of the body; the signature stays what it was.
Tampered(body) ==
    {[body EXCEPT !.exp = MaxNow + 1], [body EXCEPT !.issued = today],
     [body EXCEPT !.revocations = {}]}
    \cup {[body EXCEPT !.site = s] : s \in Site}
    \cup {[body EXCEPT !.contracts = {Artifact(d) : d \in D}] :
                D \in SUBSET {d \in Deal : register[d] # Unnamed}}
Tamper(b) ==
    /\ b.claims.digest = b.body
    /\ \E body \in Tampered(b.body) : carried' = (carried \ {b}) \cup {[b EXCEPT !.body = body]}
    /\ UNCHANGED <<today, register, listed, exporting, loaded>>

-----------------------------------------------------------------------------
(* bundle::import. *)

\* The envelope.  Mutant: the claims are compared field by field.
SealedByFields(b, key) ==
    /\ b.by = key
    /\ b.claims.site = b.body.site /\ b.claims.exp = b.body.exp
Sealed(b, key) ==
    /\ b.by = key
    /\ b.claims.digest = b.body
    /\ b.claims.site = b.body.site /\ b.claims.exp = b.body.exp

\* Mutant: a bundle lasts as long as its contracts.
CurrentByContracts(body) == today + Ahead >= body.issued
Current(body) == today < body.exp /\ today + Ahead >= body.issued

\* verify_artifact under Trust.
Verified(a, t, site) ==
    /\ a.key = TenantKey(t) /\ a.iss = IssuerId[t]
    /\ a.aud = site
    /\ today < a.exp

\* A contract that does not verify is rejected by itself, and the bundle is then
\* not clean: the command reports an error.
Import(b, t, site) ==
    LET good == {a \in b.body.contracts : Verified(a, t, site)} IN
    /\ Sealed(b, TenantKey(t))
    /\ b.body.site = site
    /\ Current(b.body)
    /\ loaded' = loaded \cup {[tenant |-> t, site |-> site, at |-> today,
                               deals |-> {a.deal : a \in good},
                               clean |-> good = b.body.contracts,
                               live |-> b.live, revocations |-> b.body.revocations]}
    /\ UNCHANGED <<today, register, listed, exporting, carried>>

-----------------------------------------------------------------------------

BundlesInit ==
    /\ ValidRegistry(TenantDefs)
    /\ today = 0 /\ register = [d \in Deal |-> Unnamed]
    /\ listed = {} /\ exporting = NoExport /\ carried = {} /\ loaded = {}

BundlesNext ==
    \/ \E d \in Deal, until \in {1, MaxNow + 1}, stored \in BOOLEAN : MintDeal(d, until, stored)
    \/ \E d \in Deal : CutDeal(d) \/ ListDeal(d)
    \/ NextDay
    \/ \E flag, env \in TenantName \cup {Unnamed}, site \in Site, ttl \in {0, MaxTtl, MaxTtl + 1} :
        OpenProjection(flag, env, site, ttl)
    \/ ReadArtifacts \/ ExportBundle
    \/ \E b \in carried : Tamper(b)
    \/ \E b \in carried, d \in TenantDefs, site \in Site : Import(b, d.id, site)

BundlesSpec == BundlesInit /\ [][BundlesNext]_bundleVars

-----------------------------------------------------------------------------
(* Properties. *)

\* Whatever the courier does, a contract that a site takes from a bundle is its
\* tenant's, is addressed to it, and was in force within the longest lifetime of
\* a bundle (bundle.rs: the expiry is the only bound on how stale an air-gapped
\* estate can be), although two tenants may sign with one key; and a clean import
\* is short of none of the contracts that were in force when it was exported.
BundleBounded ==
    \A i \in loaded :
        /\ \A d \in i.deals :
            /\ DealOf[d] = i.tenant /\ DealFor[d] = i.site
            /\ register[d].cut = Unnamed \/ register[d].cut + MaxTtl >= i.at
        /\ i.clean => i.live \subseteq i.deals
=============================================================================
