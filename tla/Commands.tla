------------------------------ MODULE Commands ------------------------------
(***************************************************************************)
(* The `connect' command line (wc-cli/src/main.rs).  One process runs one  *)
(* command; several run beside each other on one tenant's directory.  What *)
(* a command does to the estate is the ORDER of a few steps, each of which *)
(* may be refused and after each of which the process may die:             *)
(*                                                                         *)
(*   args    its flags and input files are read        policy  the policy  *)
(*   key     a signing key resolved under the custody rules                *)
(*   lock    open_store: the writer lock of the state directory            *)
(*   view    open_projection: the state read without any lock              *)
(*   chain   open_evidence: the anchor's posture, then the chain's lock    *)
(*   row, grant, cut     a commit: a request, authority, its withdrawal;   *)
(*   mark    a commit nothing guards: a request is minted, an offer        *)
(*           published, a synthetic estate laid down                       *)
(*   note    a record in the evidence chain                                *)
(*   feed, orders        the revocation feed, the order ledger             *)
(*   file    an output file          ring, save     the key ring's file    *)
(*   judge   a verdict that may say no            shim   the source host   *)
(*   sign    a signature, by a key or by a helper that may fail            *)
(*   peek    the lock taken if it is free, the state read, the lock given  *)
(*           back              glance  the state read without any lock;    *)
(*           that either cannot be read is no error                        *)
(*   refuse  the handler ends with an error                                *)
(*   drop    the store goes out of scope          listen serve, until the  *)
(*                                                       process ends      *)
(*                                                                         *)
(* A command is a set of such sequences, one per way through its handler;  *)
(* what it commits is modelled by Registry, Issuance and Containment.      *)
(***************************************************************************)
EXTENDS Naturals, Sequences, FiniteSets

CONSTANTS
    Process,   \* processes started on one tenant's directory
    Nobody     \* holder of a free lock, not a process

VARIABLES
    prog,     \* prog[p]: the way its command takes, <<>> before it starts
    rest,     \* rest[p]: the steps it has not made
    exit,     \* exit[p]: "none" until it ends; "0", "1", ..., "killed"
    why,      \* why[p]: what it was refused over, "-" if nothing
    did,      \* did[p]: the kinds of durable writes it has made
    store,    \* holder of the writer lock
    chain,    \* holder of the chain's lock
    version,  \* commits in the state log
    seen      \* seen[p]: the versions it has read and goes by; its own commits follow

cmdVars == <<prog, rest, exit, why, did, store, chain, version, seen>>

-----------------------------------------------------------------------------
(* The writing verbs. *)

WithIssuer(body) == <<"policy", "key", "lock", "chain">> \o body \o <<"drop">>
MintSteps == <<"judge", "sign", "note", "grant", "mark", "file">>

\* admit_and_record: estate_names reads the names for the screening, admission
\* judges by them, and the entity is put once the store is open again.
AdmitSteps == <<"args", "peek", "lock", "grant", "chain", "note">>
AdmitRefused == <<"args", "peek", "chain", "note", "refuse">>
RegisterCmd == {AdmitSteps, AdmitRefused}
\* Mutant: the party's state is read without the writer lock.
ActivateCmdUnlocked == {<<"args", "view", "grant", "chain", "note">>}
ActivateCmd == {<<"args", "lock", "grant", "chain", "note">>}
UnquarantineCmd == {<<"args", "lock", "grant", "chain", "note">>}

PropagateSteps == <<"args", "sign", "feed", "orders">>
CutBy(tail) ==
    <<"args", "key", "lock", "cut", "chain", "note", "args">> \o tail
\* Without a revocation key nothing is sent; with the offline one its use is
\* recorded too.
\* Mutant: the key is resolved at the fan-out.
QuarantineCmdLate ==
    {<<"args", "lock", "cut", "chain", "note", "args", "key">> \o PropagateSteps}
QuarantineCmd ==
    {CutBy(<<>>), CutBy(PropagateSteps), CutBy(PropagateSteps \o <<"note">>)}
RevokeCmd == {CutBy(<<>>), CutBy(PropagateSteps)}

\* Issued under a standing rule, left for a human, denied by policy, or
\* refused by structure.
RequestCmd ==
    {<<"args">> \o WithIssuer(<<"row", "note">> \o MintSteps) \o <<"file">>,
     <<"args">> \o WithIssuer(<<"row", "note">>) \o <<"refuse">>,
     <<"args">> \o WithIssuer(<<"row", "note", "note">>) \o <<"refuse">>,
     <<"args">> \o WithIssuer(<<"note">>) \o <<"refuse">>}
\* The approvers' keys come before the store.
\* Mutant: the owner's consent is looked at once the contract is minted.
ApproveCmdLate ==
    {<<"args", "key">> \o WithIssuer(MintSteps \o <<"judge", "row", "note">>)
        \o <<"file">>}
ApproveCmd ==
    {<<"args", "key">> \o WithIssuer(<<"judge", "row", "note">> \o MintSteps)
        \o <<"file">>}
ApproveByMergeCmd ==
    {<<"args", "glance", "shim", "judge">>
        \o WithIssuer(<<"judge", "row", "note">> \o MintSteps)
        \o <<"file">>}
EmitApprovalCmd == {<<"args", "view", "file">>}
BreakglassCmd ==
    {<<"args", "key">> \o WithIssuer(<<"judge", "note">> \o MintSteps) \o <<"file">>}
DenyCmd == {<<"args">> \o WithIssuer(<<"row", "note">>)}
\* The offer is judged with the store open; the merge is read when a shim is
\* given, and without one the offer is held without consent.  Who is affected is
\* told after the commit.
OfferPublishCmd == {<<"args", "lock", "judge", "mark">>,
                    <<"args", "lock", "judge", "args", "glance", "shim", "judge", "mark">>}
\* bench --materialise: the parties, then each contract with its evidence.
MaterialiseCmd == {<<"args", "lock", "mark", "chain", "note", "mark">>}

-----------------------------------------------------------------------------
(* The verbs that go through a list: each element is committed by itself.    *)

\* The issuer's answer for one element: a contract, a request left for a human, a
\* denial by the policy.  What to mint was decided with the store open before.
OneMinted == <<"row", "note">> \o MintSteps
OneAsked == <<"row", "note">>
OneDenied == <<"row", "note", "note", "refuse">>

\* need apply: the consumer's merge is verified; with the store open the manifest's
\* approvers are recorded and every need is matched; then the grants go to one
\* issuer and the gated needs to another.
NeedPlan == <<"args", "glance", "shim", "judge", "lock", "mark", "judge", "drop">>
NeedApplyCmd ==
    {NeedPlan, NeedPlan \o WithIssuer(OneMinted \o OneMinted),
     NeedPlan \o WithIssuer(OneMinted \o OneDenied),
     NeedPlan \o WithIssuer(OneMinted) \o WithIssuer(OneAsked)}

\* proposals apply: the merge is verified, the files are judged with the store open.
ProposalsPlan == <<"args", "shim", "judge", "args", "lock", "judge", "drop">>
ProposalsApplyCmd ==
    {ProposalsPlan, ProposalsPlan \o WithIssuer(OneMinted \o OneMinted),
     ProposalsPlan \o WithIssuer(OneMinted \o OneDenied)}

\* inventory promote: the server is registered, or pinned anew when it is there and a
\* surface is given; then each consumer is registered.  Whether a party is there or
\* active is looked up first, and the store opened again to act on it.
LookFirst == <<"args", "lock", "drop">>
AdmitDone == AdmitSteps \o <<"drop">>
ActivateIfAsked == LookFirst \o <<"lock", "grant", "drop">>
PromoteCmd ==
    {LookFirst \o AdmitDone \o ActivateIfAsked \o LookFirst \o AdmitDone \o <<"file", "shim">>,
     LookFirst \o <<"lock", "mark", "drop">> \o LookFirst \o <<"file">>,
     LookFirst \o AdmitDone \o LookFirst \o AdmitRefused}

-----------------------------------------------------------------------------
(* The verbs that only read: none of them may need a lock. *)

EntitiesCmd == {<<"args", "view">>}
ShowCmd == {<<"args", "view">>}
PostureCmd == {<<"view">>}
RequestsCmd == {<<"view">>}
ContractsCmd == {<<"view", "args">>}
DiscoverCmd == {<<"args", "policy", "view">>}
BlastRadiusCmd == {<<"args", "view", "judge">>}
NeedCheckCmd == {<<"args", "view", "judge">>}
OfferListCmd == {<<"args", "view", "judge">>}
OfferShowCmd == {<<"args", "view">>}
OfferStatusCmd == {<<"args", "view", "judge">>}
OfferUpcomingCmd == {<<"view", "judge">>}
DryRunCmd == {<<"policy", "view">>}
PolicyLintCmd == {<<"policy", "judge">>}
PolicyShowCmd == {<<"policy">>}
ReceiptCmd == {<<"args", "view", "file">>, <<"args", "view", "shim", "shim">>}
DistributionCmd == {<<"args", "view", "args", "judge">>}
MediatorsCmd == {<<"args", "args", "judge">>}
BundleExportCmd == {<<"args", "key", "view", "judge", "args", "file">>}
BundleVerifyCmd == {<<"args", "judge">>}
VerifyCmd == {<<"args", "judge">>}
AttestSurfaceCmd == {<<"args", "key", "file">>}
AttestVerifyCmd == {<<"args", "judge">>}
ScreenCmd == {<<"args", "judge">>}
CanonCmd == {<<"args">>}
OfferLintCmd == {<<"args", "judge">>}
FederateCmd == {<<"args", "judge">>}
TenantsCmd == {<<"args">>}
CaepIngestCmd == {<<"args">>}
ScmProbeCmd == {<<"args", "shim", "judge">>}
InventoryCmd == {<<"args", "shim", "file">>}
AuditVerifyCmd == {<<"args", "judge">>}
EvidenceVerifyCmd == {<<"args", "judge">>}
EvidenceSinceCmd == {<<"args", "judge">>}
ExportCmd == {<<"args", "judge", "view", "file">>}
\* The gates measure an estate in memory, with a key of the caller's.
BenchCmd == {<<"args", "judge">>, <<"args", "args", "sign", "args", "judge">>}
KeysListCmd == {<<"ring">>}
\* Opening the handle is the check, and it may create the evidence trail's file.
GatewayCheckCmd == {<<"args", "judge", "file">>}

Readers ==
    UNION {EntitiesCmd, ShowCmd, PostureCmd, RequestsCmd, ContractsCmd,
           DiscoverCmd, BlastRadiusCmd, NeedCheckCmd, OfferListCmd, OfferShowCmd,
           OfferStatusCmd, OfferUpcomingCmd, DryRunCmd, PolicyLintCmd,
           PolicyShowCmd, ReceiptCmd, DistributionCmd, MediatorsCmd,
           BundleExportCmd, BundleVerifyCmd, VerifyCmd, AttestSurfaceCmd,
           AttestVerifyCmd, ScreenCmd, CanonCmd, OfferLintCmd, FederateCmd,
           TenantsCmd, CaepIngestCmd, ScmProbeCmd, InventoryCmd, AuditVerifyCmd,
           EvidenceVerifyCmd, EvidenceSinceCmd, ExportCmd, EmitApprovalCmd,
           BenchCmd, KeysListCmd, GatewayCheckCmd}

-----------------------------------------------------------------------------
(* The key ring's verbs, backup and the plane itself. *)

KeysChange == {<<"args", "ring", "judge", "save">>}
KeysRead == {<<"ring", "file">>}
BackupCmd == {<<"args", "view", "file">>}
\* Refused when there is state where it should go.
RestoreCmd == {<<"args", "judge", "file">>}
RetentionCmd == {<<"args", "judge", "file">>}

ServeCmd == {<<"args", "policy", "judge", "key", "lock", "chain", "args", "key",
            "args", "listen">>}
ServeReadOnlyCmd == {<<"args", "policy", "judge", "key", "view", "chain", "args",
                    "key", "args", "listen">>}

Writers == UNION {RegisterCmd, ActivateCmd, UnquarantineCmd, QuarantineCmd,
                  RevokeCmd, RequestCmd, ApproveCmd, ApproveByMergeCmd,
                  BreakglassCmd, DenyCmd, OfferPublishCmd, MaterialiseCmd,
                  NeedApplyCmd, ProposalsApplyCmd, PromoteCmd, KeysChange,
                  RestoreCmd, RetentionCmd, ServeCmd}
Programs == UNION {Writers, Readers, KeysRead, BackupCmd, ServeReadOnlyCmd}

-----------------------------------------------------------------------------

CommandsInit ==
    /\ prog = [p \in Process |-> <<>>]
    /\ rest = [p \in Process |-> <<>>]
    /\ exit = [p \in Process |-> "none"]
    /\ why = [p \in Process |-> "-"]
    /\ did = [p \in Process |-> {}]
    /\ store = Nobody
    /\ chain = Nobody
    /\ version = 0
    /\ seen = [p \in Process |-> {}]

Starts(p) == prog[p] = <<>> /\ exit[p] = "none"
Running(p) == prog[p] # <<>> /\ exit[p] = "none"
At(p, k) == Running(p) /\ rest[p] # <<>> /\ Head(rest[p]) = k

\* The end of a process: whatever the outcome, its locks go with it.
Ends(p, code, cause) ==
    /\ exit' = [exit EXCEPT ![p] = code]
    /\ why' = [why EXCEPT ![p] = cause]
    /\ store' = IF store = p THEN Nobody ELSE store
    /\ chain' = IF chain = p THEN Nobody ELSE chain
    /\ UNCHANGED <<prog, rest, did, version, seen>>

Advance(p) == rest' = [rest EXCEPT ![p] = Tail(@)]

\* dispatch: the command's shape, the config file, its flags and its tenant
\* come before its handler.
Dispatch(p) ==
    /\ Starts(p)
    /\ \E w \in Programs : /\ prog' = [prog EXCEPT ![p] = w]
                           /\ rest' = [rest EXCEPT ![p] = w]
    /\ UNCHANGED <<exit, why, did, store, chain, version, seen>>

UsageError(p) == Starts(p) /\ Ends(p, "2", "usage")

Harmless == {"args", "policy", "key", "shim", "judge", "sign", "ring"}

\* A step that writes nothing and takes nothing.
Pass(p) ==
    /\ \E k \in Harmless : At(p, k)
    /\ Advance(p)
    /\ UNCHANGED <<prog, exit, why, did, store, chain, version, seen>>

\* The state is read; what an earlier read was judged by stays judged.
ReadsState(p) == seen' = [seen EXCEPT ![p] = @ \cup {version}]

OpenStore(p) ==
    /\ At(p, "lock")
    /\ store = Nobody
    /\ store' = p
    /\ ReadsState(p)
    /\ Advance(p)
    /\ UNCHANGED <<prog, exit, why, did, chain, version>>

OpenProjection(p) ==
    /\ At(p, "view")
    /\ ReadsState(p)
    /\ Advance(p)
    /\ UNCHANGED <<prog, exit, why, did, store, chain, version>>

\* estate_names and bootstrap_owner: what cannot be read counts as empty.
LookOnce(p) ==
    /\ \/ At(p, "peek") /\ store = Nobody /\ ReadsState(p)
       \/ At(p, "glance") /\ ReadsState(p)
       \/ (At(p, "peek") \/ At(p, "glance")) /\ UNCHANGED seen
    /\ Advance(p)
    /\ UNCHANGED <<prog, exit, why, did, store, chain, version>>

OpenEvidence(p) ==
    /\ At(p, "chain")
    /\ chain = Nobody
    /\ chain' = p
    /\ Advance(p)
    /\ UNCHANGED <<prog, exit, why, did, store, version, seen>>

\* with_issuer, or a block, returns: the handles it holds are dropped.
Drop(p) ==
    /\ At(p, "drop")
    /\ store' = Nobody
    /\ chain' = IF chain = p THEN Nobody ELSE chain
    /\ Advance(p)
    /\ UNCHANGED <<prog, exit, why, did, version, seen>>

\* The events of the state log, by what one does: opens, decides or closes a
\* request; gives authority; takes it away; any other.
EventKinds == {"row", "grant", "cut", "mark"}

Commit(p) ==
    \E k \in EventKinds :
        /\ At(p, k)
        /\ did' = [did EXCEPT ![p] = @ \cup {k}]
        /\ version' = version + 1
        /\ seen' = [seen EXCEPT ![p] = {IF v = version THEN version + 1 ELSE v : v \in @}]
        /\ Advance(p)
        /\ UNCHANGED <<prog, exit, why, store, chain>>

Write(p) ==
    \E k \in {"note", "feed", "orders", "file", "save"} :
        /\ At(p, k)
        /\ did' = [did EXCEPT ![p] = @ \cup {k}]
        /\ Advance(p)
        /\ UNCHANGED <<prog, exit, why, store, chain, version, seen>>

Succeed(p) == Running(p) /\ rest[p] = <<>> /\ Ends(p, "0", "-")

\* exit_code: a policy, lifecycle, verification, screening or dual control
\* refusal has a code of its own (3 to 6); everything else that fails is 1.
Fail(p) ==
    \/ \E k \in {"args", "policy", "view", "shim", "sign", "ring", "note", "feed",
                 "orders", "file", "save", "mark"} : At(p, k) /\ Ends(p, "1", "input")
    \/ At(p, "key") /\ Ends(p, "1", "key")
    \/ /\ At(p, "lock") /\ (store # Nobody \/ \E q \in Process : At(q, "peek"))
       /\ Ends(p, "1", "busy")
    \/ At(p, "chain") /\ chain # Nobody /\ Ends(p, "1", "busy")
    \/ At(p, "chain") /\ Ends(p, "1", "anchor")
    \/ \E k \in {"judge", "refuse", "row", "grant", "cut"} :
           At(p, k) /\ \E code \in {"1", "refusal"} : Ends(p, code, "verdict")

Die(p) == Running(p) /\ Ends(p, "killed", "-")

CommandsNext ==
    \E p \in Process :
        \/ Dispatch(p) \/ UsageError(p) \/ Pass(p) \/ OpenStore(p)
        \/ OpenProjection(p) \/ LookOnce(p) \/ OpenEvidence(p) \/ Drop(p) \/ Commit(p)
        \/ Write(p) \/ Succeed(p) \/ Fail(p) \/ Die(p)

CommandsSpec == CommandsInit /\ [][CommandsNext]_cmdVars

-----------------------------------------------------------------------------

\* The verbs that judge by one reading of the state and commit under another lock,
\* and those of them that commit more than once.
Batches == UNION {NeedApplyCmd, ProposalsApplyCmd, PromoteCmd}
TwoReadings == UNION {Batches, RegisterCmd, ApproveByMergeCmd}

\* A refusal over a signing key comes before the command's first commit
\* (quarantine, revoke, approve, breakglass: "custody resolved before any
\* state is written"), and a verdict's exit code (3 to 6) says that no
\* authority was given.  `need apply' keeps neither: it resolves the issuer's key
\* after it recorded the manifest, and again after the mints; it, `proposals apply'
\* and `inventory promote' end in a verdict over one element when others are done.
RefusedUntouched ==
    \A p \in Process :
        /\ why[p] = "key" /\ prog[p] \notin NeedApplyCmd => did[p] \cap EventKinds = {}
        /\ exit[p] = "refusal" /\ prog[p] \notin Batches => "grant" \notin did[p]

\* A step that commits, if at all, under the lock and on what was last committed.
CommitStep ==
    \A p \in Process : version' # version /\ rest'[p] # rest[p] =>
        /\ store = p /\ version \in seen[p]
        /\ prog[p] \notin TwoReadings => seen[p] = {version}

\* Whoever commits holds the writer lock and has read the last commit under it, and
\* goes by nothing older: the lock is held from the read to the commit.  The
\* exceptions also go by a reading made before: the names `register' screens against,
\* the owner `approve --merge-repo' falls back on, the plans of the list verbs.
CommitsOnCurrent == [][CommitStep]_cmdVars

\* A verb refused over a key has committed nothing, one that ends in a verdict's exit
\* code has given no authority, and nobody commits without the lock or by a state
\* older than the last commit (main.rs), but for the verbs the two parts name.
CommandsSound == []RefusedUntouched /\ CommitsOnCurrent
=============================================================================
