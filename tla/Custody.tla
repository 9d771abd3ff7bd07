------------------------------ MODULE Custody ------------------------------
(***************************************************************************)
(* Key custody (wc-control/src/custody.rs), the signing helper             *)
(* (wc-control/src/signer.rs) and the commands that sign: which key a role *)
(* signs with, what keeps the keys of two roles apart, and what a helper   *)
(* that fails, hangs or lies does to the command that waits for it.        *)
(*                                                                         *)
(* A role's key is given as a file, which holds a key in some encoding, or *)
(* as a command, behind which a key is held.                               *)
(***************************************************************************)
EXTENDS Naturals, Sequences

CONSTANTS
    Human,      \* approvers
    KeyFile,    \* [paths -> [key, body]]: the key in the file, and the bytes that encode it
    KeyHelper,  \* [commands -> the key behind it]
    Kid,        \* names of revocation keys
    Asked,      \* the pairs of key flags the operators use: [pem, command]
    None        \* a flag that was not given

VARIABLES
    external,   \* the estate requires external signing
    service,    \* the flags of the service's own keys: [issuer, anchor]
    todo,       \* the signatures the running command has still to make
    helper,     \* the signing helper: "idle", "running" or "closed"
    signed,     \* every signature made
    approved    \* the approvals handed to the issuer: sets of signatures

custodyVars == <<external, service, todo, helper, signed, approved>>

\* Request: at most one of the two is meant to be given.
Request == [pem : DOMAIN KeyFile \cup {None}, command : DOMAIN KeyHelper \cup {None}]

ASSUME AskedAssumption == Asked \subseteq Request

\* Bytes encode one key.
ASSUME KeyFileAssumption ==
    \A f, g \in DOMAIN KeyFile : KeyFile[f].body = KeyFile[g].body => KeyFile[f].key = KeyFile[g].key

CustodyInit ==
    /\ external \in BOOLEAN
    /\ service \in [issuer : Asked, anchor : Asked]
    /\ todo = <<>> /\ helper = "idle" /\ signed = {} /\ approved = {}

-----------------------------------------------------------------------------
(* Resolution and separation. *)

IsHuman(role) == role = "approver"

\* Role::honours_external_signing.  Mutant: the break-glass key is kept on disk.
HonoursExternalUsually(role) == role \notin {"benchmark", "revoke-offline"}
HonoursExternal(role) == role # "benchmark"

\* custody::resolve succeeds.
Resolves(role, req) ==
    /\ (req.pem = None) # (req.command = None)
    /\ req.pem # None => ~ (external /\ HonoursExternal(role))

KeyOf(req) == IF req.command # None THEN KeyHelper[req.command] ELSE KeyFile[req.pem].key

\* Fingerprint::of_request: the bytes a file's armour wraps, the text of a command.
\* A copy has the fingerprint of the original, the same key in another encoding has
\* one of its own.
\* Mutant: the path of the file.
FingerprintPath(req) ==
    IF req.command # None THEN <<"command", req.command>>
    ELSE IF req.pem # None THEN <<"pem", req.pem>> ELSE <<>>
Fingerprint(req) ==
    IF req.command # None THEN <<"command", req.command>>
    ELSE IF req.pem # None THEN <<"pem", KeyFile[req.pem].body>> ELSE <<>>

\* collision: r and s are [role, label, req].
Collides(r, s) ==
    IF IsHuman(r.role) /\ IsHuman(s.role) THEN r.label # s.label
    ELSE \/ IsHuman(r.role) # IsHuman(s.role)
         \/ {r.role, s.role} = {"revoke-online", "revoke-offline"}

\* Separation::observe, over everything one command observes.
Separate(held) ==
    \A i, j \in DOMAIN held :
        i < j /\ Fingerprint(held[i].req) # <<>>
              /\ Fingerprint(held[i].req) = Fingerprint(held[j].req)
            => ~ Collides(held[i], held[j])

\* service_key_separation.
ServiceKeys ==
    <<[role |-> "issuer", label |-> "control-plane", req |-> service.issuer],
      [role |-> "anchor", label |-> "evidence-anchor", req |-> service.anchor]>>

-----------------------------------------------------------------------------
(* Commands: each checks every key it will use before anything signs. *)

Begin(uses) == todo = <<>> /\ helper = "idle" /\ todo' = uses
               /\ UNCHANGED <<external, service, helper, signed, approved>>

Use(role, who, req, theirs, meant) ==
    [role |-> role, who |-> who, req |-> req, key |-> KeyOf(req),
     theirs |-> theirs, meant |-> meant]

\* approve with one or two approvers, and breakglass, which needs two.
ApproveWith(by, first, second, req1, req2) ==
    LET one == [role |-> "approver", label |-> first, req |-> req1]
        two == [role |-> "approver", label |-> second, req |-> req2]
        pair == IF second = None THEN <<one>> ELSE <<one, two>>
        held == ServiceKeys \o pair
        theirs == {x \in {service.issuer, service.anchor} : Fingerprint(x) # <<>>}
    IN  /\ by = "breakglass" => second # None /\ first # second
        /\ Separate(held)
        /\ \A n \in DOMAIN pair : Resolves("approver", pair[n].req)
        /\ Resolves("issuer", service.issuer)
        /\ Begin([n \in DOMAIN pair |->
                    Use("approver", pair[n].label, pair[n].req, theirs, FALSE)])

\* RevocationCustody::role_of.
RoleOf(kid, offline) == IF offline # None /\ kid = offline THEN "revoke-offline" ELSE "revoke-online"

\* resolve_revocation_custody.  Mutant: naming the offline key is consent.
AuthoriseAny(role, acknowledged) == TRUE
Authorise(role, acknowledged) == role = "revoke-offline" => acknowledged

\* online is --revocation-kid, whose fallback is --kid.
RevokeWith(req, kid, online, offline, breakGlass) ==
    LET named == IF breakGlass THEN offline ELSE IF online # None THEN online ELSE kid
        role == RoleOf(named, offline)
    IN  /\ online # None /\ offline # None => online # offline
        /\ named # None
        /\ Authorise(role, breakGlass)
        /\ Resolves(role, req)
        /\ Begin(<<Use(role, named, req, {}, breakGlass)>>)

\* attest surface: card_key reads its file and signs with it, whatever custody says.
AttestSurface(req) ==
    /\ req.pem # None /\ req.command = None
    /\ Begin(<<Use("card", None, req, {}, FALSE)>>)

-----------------------------------------------------------------------------
(* CommandSigner::sign. *)

SignedNow(use) ==
    /\ signed' = signed \cup {use}
    /\ todo' = Tail(todo)
    /\ approved' = IF Len(todo) = 1 /\ use.role = "approver"
                   THEN approved \cup {{u \in signed \cup {use} : u.role = "approver"}}
                   ELSE approved

\* A key in a file signs at once.
SignHere ==
    /\ todo # <<>> /\ helper = "idle" /\ Head(todo).req.pem # None
    /\ SignedNow(Head(todo))
    /\ UNCHANGED <<external, service, helper>>

Spawn ==
    /\ todo # <<>> /\ helper = "idle" /\ Head(todo).req.command # None
    /\ helper' = "running"
    /\ UNCHANGED <<external, service, todo, signed, approved>>

\* It cannot be spawned, closes its input, cannot be read, exits with an error
\* or answers with something that is no signature; or it is killed when the
\* time is up.  The command fails.
HelperFails ==
    /\ helper \in {"running", "closed"} \/ (todo # <<>> /\ helper = "idle")
    /\ helper' = "idle" /\ todo' = <<>>
    /\ UNCHANGED <<external, service, signed, approved>>
HelperTimeout ==
    /\ helper = "running"
    /\ helper' = "idle" /\ todo' = <<>>
    /\ UNCHANGED <<external, service, signed, approved>>

\* It closes its output; from then on it is waited for without a timeout.
HelperAnswers ==
    /\ helper = "running" /\ helper' = "closed"
    /\ UNCHANGED <<external, service, todo, signed, approved>>
HelperExits ==
    /\ helper = "closed" /\ helper' = "idle"
    /\ SignedNow(Head(todo))
    /\ UNCHANGED <<external, service>>

\* The command ends, and the next one starts with nothing signed.
NextCommand ==
    /\ todo = <<>> /\ helper = "idle" /\ signed # {}
    /\ signed' = {} /\ approved' = {}
    /\ UNCHANGED <<external, service, todo, helper>>

CustodyNext ==
    \/ /\ signed = {} /\ todo = <<>>
       /\ \E req1, req2 \in Asked, by \in {"approve", "breakglass"},
             first \in Human, second \in Human \cup {None} :
             ApproveWith(by, first, second, req1, req2)
    \/ /\ signed = {} /\ todo = <<>>
       /\ \E req \in Asked, kid, online, offline \in Kid \cup {None}, bg \in BOOLEAN :
             RevokeWith(req, kid, online, offline, bg)
    \/ signed = {} /\ \E req \in Asked : AttestSurface(req)
    \/ SignHere \/ Spawn \/ HelperFails \/ HelperTimeout \/ HelperAnswers \/ HelperExits
    \/ NextCommand

CustodySpec ==
    /\ CustodyInit /\ [][CustodyNext]_custodyVars
    /\ WF_custodyVars(SignHere) /\ WF_custodyVars(Spawn) /\ WF_custodyVars(HelperTimeout)

-----------------------------------------------------------------------------
(* Properties. *)

\* One key in two files, encoded in two ways.
Reencoded(r, s) ==
    /\ r.command = None /\ s.command = None
    /\ KeyFile[r.pem].body # KeyFile[s.pem].body

\* Approvals of two people are signed with two keys, and no approval with a key
\* the command gave to the service: key material is compared, so a copy under
\* another name is refused.  The exception is the one custody.rs:213-217 states: a
\* key in two encodings passes for two.  (A key behind a helper that is also in a
\* file is out of sight too; the instance has none.)
DualIsDual ==
    \A pair \in approved : \A u \in pair :
        /\ \A r \in u.theirs : KeyOf(r) = u.key => Reencoded(r, u.req)
        /\ \A v \in pair : u.who # v.who /\ u.key = v.key => Reencoded(u.req, v.req)

\* Under --require-external-signing nothing is signed with a key read from this
\* disk, in any role a command signs in but one, and the offline revocation key
\* signs only when the operator said break-glass.  The exception is attest surface,
\* whose card key is read from a file without asking custody (main.rs:5506-5519,
\* under a comment that says "through the custody rules like every other role").
CustodyHolds ==
    \A u \in signed : /\ external => u.req.pem = None \/ u.role = "card"
                      /\ u.role = "revoke-offline" => u.meant

\* Two approvals are two keys, no service key approves, and under external signing
\* nothing is signed from a file (custody.rs, signer.rs), with the two exceptions
\* above: a key that was re-encoded, and the card key.
CustodySeparates == DualIsDual /\ CustodyHolds
=============================================================================
