------------------------------ MODULE Artifact ------------------------------
(***************************************************************************)
(* The signed artifact and what is believed about the two ends of a        *)
(* connection (wc-core/src/contract.rs, canon.rs; wc-mediator/src/peer.rs; *)
(* wc-gateway/src/adapter.rs): which keys a key set yields, what a payload *)
(* must say to be minted, what a verifier checks and in which order, when  *)
(* a presented surface is the pinned one, and how a peer is identified.    *)
(*                                                                         *)
(* A signature is the key it was made with; a text is its words and its    *)
(* layout, and canonicalisation keeps the words.                           *)
(***************************************************************************)
EXTENDS Naturals, Sequences, FiniteSets, FiniteSetsExt, Functions

CONSTANT Absent   \* what is not there

AcceptedAlgs == {"ES256", "ES384", "EdDSA", "PS256", "RS256"}
ContractAlgs == {"ES256", "ES384", "EdDSA"}

-----------------------------------------------------------------------------
(* Keys. *)

\* The algorithm the material of a published key calls for, "" if none we take.
MaterialAlg(j) ==
    CASE j.kind = "P-256"   -> "ES256"
      [] j.kind = "P-384"   -> "ES384"
      [] j.kind = "Ed25519" -> "EdDSA"
      [] j.kind = "RSA" /\ j.alg \in {"RS256", "PS256"} -> j.alg
      [] OTHER -> ""

\* jwk_from_pem: how the plane renders a key of its ring.  The declared algorithm
\* names the curve, whatever the key is; of an elliptic-curve key the point must
\* be written out in full.
JwkFromPem(kid, pem) ==
    LET curve == [ES256 |-> "P-256", ES384 |-> "P-384", EdDSA |-> "Ed25519"]
    IN IF pem.alg \in DOMAIN curve /\ (pem.alg = "EdDSA" \/ pem.point = "full")
       THEN [kid |-> kid, kind |-> curve[pem.alg], alg |-> pem.alg, use |-> "sig",
             usable |-> TRUE, key |-> pem.key]
       ELSE Absent

\* Loaded unless it is an encryption key, has no name, is of a kind we do not
\* take, or is labelled with another algorithm than its material's.
Loadable(j) ==
    /\ j.use # "enc"
    /\ j.kid # Absent
    /\ MaterialAlg(j) # ""
    /\ j.alg \in {Absent, MaterialAlg(j)}

\* IssuerKeys::add_jwks: all or nothing.  One symmetric key, one unusable key,
\* or no key at all, and the document is refused.
JwksRefused(doc) ==
    \/ \E i \in DOMAIN doc : doc[i].kind = "oct"
    \/ \E i \in DOMAIN doc : Loadable(doc[i]) /\ ~ doc[i].usable
    \/ \A i \in DOMAIN doc : ~ Loadable(doc[i])

AddJwks(doc) ==
    LET loaded == {i \in DOMAIN doc : Loadable(doc[i])}
    IN [k \in {doc[i].kid : i \in loaded} |->
            LET j == doc[Max({i \in loaded : doc[i].kid = k})]
            IN [alg |-> MaterialAlg(j), key |-> j.key]]

-----------------------------------------------------------------------------
(* Minting. *)

\* ContractPayload::assert_coherent.
Coherent(p) ==
    /\ p.typ = "contract"
    /\ p.exp > p.nbf
    /\ p.tools \cup p.skills \cup p.resources # {}
    /\ p.digest # Absent
    /\ p.tools \cap p.skills = {}

\* IssuerKey::sign_input: the raw signature of the right length, nothing else.
Signs(signer) == signer.encoding = "raw"

\* contract::mint.
Minted(p, signer) == Coherent(p) /\ Signs(signer) /\ ~ p.oversize
Jws(p, signer) == [payload |-> p, alg |-> signer.alg, kid |-> signer.kid, sig |-> signer.key]

-----------------------------------------------------------------------------
(* Verifying. *)

\* header_alg and the checks before the payload is looked at: an algorithm of
\* the contract set, a named key we hold, registered for that algorithm, and
\* the signature under it.
HeaderHolds(a, keys) ==
    /\ ~ a.payload.oversize
    /\ a.alg \in ContractAlgs
    /\ a.kid \in DOMAIN keys
    /\ keys[a.kid].alg = a.alg
    /\ keys[a.kid].key = a.sig

\* The payload: known schema, the artifact's type, in its window, for this
\* verifier, from the issuer it obeys.
PayloadHolds(p, me, issuer, now) ==
    /\ p.schema = 1 /\ p.typ = "contract"
    /\ p.nbf <= now /\ now < p.exp
    /\ p.aud = me
    /\ p.iss = issuer

\* Mutant: whoever it is addressed to.
VerifyAnyAudience(a, keys, me, issuer, now) ==
    HeaderHolds(a, keys) /\ PayloadHolds(a.payload, a.payload.aud, issuer, now)

VerifyArtifact(a, keys, me, issuer, now) ==
    HeaderHolds(a, keys) /\ PayloadHolds(a.payload, me, issuer, now)

\* verify_detached, for feed entries: the third-party algorithms too, and the
\* key the envelope names.
VerifyDetached(e, keys) ==
    /\ e.alg \in AcceptedAlgs
    /\ e.kid \in DOMAIN keys
    /\ keys[e.kid] = [alg |-> e.alg, key |-> e.sig]

-----------------------------------------------------------------------------
(* Surfaces. *)

\* normalise_text and canon_value: composition, line ends and spacing go, and
\* so does the order of the arrays whose order means nothing.
Canonical(v) == v.words

\* The fields of a tool that are pinned; project drops the others, and nulls.
ToolFields == {"description", "inputSchema", "annotations"}
Project(tool) == [f \in {g \in ToolFields \cap DOMAIN tool.fields : tool.fields[g] # Absent}
                    |-> Canonical(tool.fields[f])]

\* mcp_items: an array of tools, each with a legal name, none twice.
Listed(raw) ==
    /\ raw.tools # Absent
    /\ ~ raw.oversize
    /\ \A i \in DOMAIN raw.tools : raw.tools[i].named
    /\ \A i, j \in DOMAIN raw.tools : raw.tools[i].name = raw.tools[j].name => i = j

\* canon::pin, for what was listed.
PinOf(raw) ==
    [n \in {raw.tools[i].name : i \in DOMAIN raw.tools} |->
        Project(raw.tools[CHOOSE i \in DOMAIN raw.tools : raw.tools[i].name = n])]

Items(p) == p.tools \cup p.skills

\* Pin::surface_digest over exactly the contracted items.
SurfaceDigest(pin, items) == [n \in items |-> pin[n]]

\* VerifiedContract::check_pin.
CheckPin(p, pin) ==
    /\ p.digest # Absent
    /\ Items(p) \subseteq DOMAIN pin
    /\ SurfaceDigest(pin, Items(p)) = p.digest

-----------------------------------------------------------------------------
(* Peers. *)

\* Origin::is_local: an address counts by its host, a socket always.
IsLocal(origin) == origin.kind # "tcp" \/ origin.host = "loopback"

\* MeshTrust::accepts: the one socket, or a local address on the list; with
\* neither configured, nothing.
Accepts(trust, origin) ==
    \/ origin.kind = "unix" /\ trust.socket = origin.at
    \/ origin.kind = "tcp" /\ IsLocal(origin) /\ origin.at \in trust.addrs

\* parse_xfcc_pairs: the pairs that name a URI.
Uris(element) == {i \in DOMAIN element : element[i].key = "URI"}

\* xfcc_peer_uri: one element, with one URI.
XfccPeerUri(elements) ==
    IF Len(elements) = 1 /\ \E i \in Uris(elements[1]) : Uris(elements[1]) = {i}
    THEN elements[1][CHOOSE i \in Uris(elements[1]) : TRUE].value
    ELSE Absent

\* uri_sans: of a certificate's subject alternative names, the URIs.
UriSans(cert) == {n \in cert : n.kind = "uri"}

\* spiffe_from_cert_pem: exactly one of them a SPIFFE id.
SpiffeFromCert(cert) ==
    LET ids == {n.value : n \in {u \in UriSans(cert) : u.spiffe}}
    IN IF Cardinality(ids) = 1 THEN CHOOSE n \in ids : TRUE ELSE Absent

\* Mutant: the header is read wherever it comes from.
CallerFromXfccAnywhere(presented, trust) ==
    IF presented.xfcc # Absent THEN XfccPeerUri(presented.xfcc) ELSE Absent

\* caller_from_xfcc: PeerSource::Mesh.
CallerFromXfcc(presented, trust) ==
    IF presented.xfcc # Absent /\ Accepts(trust, presented.origin)
    THEN XfccPeerUri(presented.xfcc) ELSE Absent

\* caller_from_tls: PeerSource::Mtls, once the terminator says it verified.
CallerFromTls(presented) ==
    IF presented.verify = "SUCCESS" /\ presented.cert # Absent
    THEN SpiffeFromCert(presented.cert) ELSE Absent

\* VerifiedContract::admit_context, with no token to bind: the two ends, the
\* posture unless the mode only observes, and the zones.
AdmitContext(p, caller, callee, mode, anyZone) ==
    /\ p.caller = caller
    /\ p.callee = callee
    /\ p.posture = "attested" \/ mode = "observe"
    /\ anyZone \/ p.zones[1] = p.zones[2]

-----------------------------------------------------------------------------
(* The conformance verdict: all of the above for one artifact, in a context *)
(* a file states (wc connect verify --scenario).                            *)

\* ScenarioRevocations: the artifact, its connection or either end.
RevokedBy(p, revs) == {p.jti, p.cid, p.caller, p.callee} \cap revs # {}

\* ScenarioZones: the pairs listed, or the shipped rule where none are.
ScenarioZones(p, pairs) == pairs # Absent /\ p.zones \in pairs

\* verify_with_scenario: the artifact stage with the feed attached, then the
\* context, and the surface's digest when the scenario presents one.
VerifyScenario(a, keys, me, sc, now, mode) ==
    /\ VerifyArtifact(a, keys, me, IF sc.iss = Absent THEN a.payload.iss ELSE sc.iss, now)
    /\ ~ RevokedBy(a.payload, sc.revoked)
    /\ sc.presented # Absent => CheckPin(a.payload, sc.presented)
    /\ IF sc.pairs = Absent THEN AdmitContext(a.payload, sc.caller, sc.callee, mode, FALSE)
       ELSE /\ AdmitContext(a.payload, sc.caller, sc.callee, mode, TRUE)
            /\ ScenarioZones(a.payload, sc.pairs)
=============================================================================
