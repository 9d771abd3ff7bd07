----------------------------- MODULE Proposals -----------------------------
(***************************************************************************)
(* Contracts by pull request into one repository (wc-cli/src/main.rs       *)
(* inventory promote, proposals apply; wc-control/src/proposal.rs).        *)
(*                                                                         *)
(* promote registers a discovered server and its consumers one commit at a *)
(* time, then raises one pull request with a proposal file per consumer.   *)
(* People merge.  apply is told of a merge and of a directory: it has the  *)
(* source host vouch for the merge, reads the WHOLE directory, plans with  *)
(* the writer lock, gives the lock back, and mints what it planned one     *)
(* contract at a time.  That the directory is the merge's is checked       *)
(* nowhere.  Either process may stop after any of its writes, and is run   *)
(* again.                                                                  *)
(***************************************************************************)
EXTENDS Naturals, Sequences, FiniteSets

CONSTANTS
    Service,     \* discovered servers
    Consumer,    \* repositories that declare them
    Finds,       \* Finds[s]: the repositories an inventory names for s
    ZoneMaps,    \* sets of repositories a zone map may list
    Staff,       \* accounts of the source host
    OwnerSaid,   \* OwnerSaid[s]: the --owner given when s is promoted
    Tools,       \* surfaces a proposal may ask for
    Unreadable,  \* a file that is no proposal: it does not parse or asks for nothing
    Applier,     \* processes that run proposals apply
    MaxHistory   \* bound on the commits of the contracts repository

None == "none"
Paths == Consumer \X Service
\* A tree is a function from some of the paths to what the file asks for.
NoFiles == [f \in {} |-> None]

VARIABLES
    state,     \* state[p]: the registered party, absent before that
    promo,     \* the promote that is running
    pulls,     \* the contents of the open pull requests
    history,   \* commits of the contracts repository
    jobs,      \* jobs[a]: the apply that a runs
    writer,    \* who holds the writer lock between two mints
    grants     \* grants[f]: the contract minted for a path, with where it came from

proposalVars == <<state, promo, pulls, history, jobs, writer, grants>>

Absent == [life |-> "Absent", owner |-> None]
NoPromo == [pc |-> "idle", server |-> None, tools |-> None, activate |-> FALSE, zoned |-> {},
            left |-> {}]
NoJob == [pc |-> "idle", sha |-> 0, dir |-> NoFiles, plan |-> <<>>, owners |-> NoFiles]
BaseTree == IF history = <<>> THEN NoFiles ELSE history[Len(history)].tree

ProposalsInit ==
    /\ state = [p \in Service \cup Consumer |-> Absent]
    /\ promo = NoPromo
    /\ pulls = {}
    /\ history = <<>>
    /\ jobs = [a \in Applier |-> NoJob]
    /\ writer = None
    /\ grants = NoFiles

-----------------------------------------------------------------------------
(* promote *)

PromoteStart(s, t, activate, zoned) ==
    /\ promo.pc = "idle"
    /\ Finds[s] # {}
    /\ promo' = [pc |-> "register", server |-> s, tools |-> t, activate |-> activate,
                 zoned |-> zoned, left |-> Finds[s]]
    /\ UNCHANGED <<state, pulls, history, jobs, writer, grants>>

\* The server, then each consumer: admitted if it is not there, activated if
\* that was asked and it is not active.  A consumer outside the zone map ends
\* the command, whatever it has written.
Admitted(p, owner) ==
    IF state[p].life = "Absent" THEN [life |-> "Pending", owner |-> owner] ELSE state[p]
Accepted(e) ==
    IF promo.activate /\ e.life = "Pending" THEN [e EXCEPT !.life = "Active"] ELSE e

PromoteServer ==
    /\ promo.pc = "register"
    /\ writer = None
    /\ state' = [state EXCEPT ![promo.server] =
                     Accepted(Admitted(promo.server, OwnerSaid[promo.server]))]
    /\ promo' = [promo EXCEPT !.pc = "consumers"]
    /\ UNCHANGED <<pulls, history, jobs, writer, grants>>

PromoteConsumer(r) ==
    /\ promo.pc = "consumers"
    /\ r \in promo.left
    /\ IF r \in promo.zoned
       THEN /\ writer = None
            /\ state' = [state EXCEPT ![r] =
                             Accepted(Admitted(r, OwnerSaid[promo.server]))]
            /\ promo' = [promo EXCEPT !.left = @ \ {r}]
       ELSE /\ promo' = NoPromo
            /\ UNCHANGED state
    /\ UNCHANGED <<pulls, history, jobs, writer, grants>>

\* raise_proposal_pr: nothing when every file is on the base as it is; else a
\* branch named for the content, whose open pull request is reused.
ProposalFiles == [f \in Finds[promo.server] \X {promo.server} |-> promo.tools]
OnBase(files) ==
    \A f \in DOMAIN files : f \in DOMAIN BaseTree /\ BaseTree[f] = files[f]
\* ScmShim::open_pr: one pull request per content; opened, never merged.
OpenPr(files) == pulls \cup {files}

RaiseProposalPr ==
    /\ promo.pc = "consumers"
    /\ promo.left = {}
    /\ pulls' = IF OnBase(ProposalFiles) THEN pulls ELSE OpenPr(ProposalFiles)
    /\ promo' = NoPromo
    /\ UNCHANGED <<state, history, jobs, writer, grants>>

PromoteStops ==
    /\ promo.pc # "idle"
    /\ promo' = NoPromo
    /\ UNCHANGED <<state, pulls, history, jobs, writer, grants>>

-----------------------------------------------------------------------------
(* People *)

\* Anyone can open a pull request.
HandWritten(f, t) ==
    /\ pulls' = pulls \cup {[g \in {f} |-> t]}
    /\ UNCHANGED <<state, promo, history, jobs, writer, grants>>

\* The base with the files of a pull request laid over it.
Merged(files) ==
    [f \in DOMAIN files \cup DOMAIN BaseTree |->
        IF f \in DOMAIN files THEN files[f] ELSE BaseTree[f]]

MergePull(files, author, approvers) ==
    /\ Len(history) < MaxHistory
    /\ history' = Append(history, [tree |-> Merged(files),
                                   author |-> author, approvers |-> approvers])
    /\ pulls' = pulls \ {files}
    /\ UNCHANGED <<state, promo, jobs, writer, grants>>

\* The registry contains a party, or registers a pending one again under
\* another owner.
Contain(p) ==
    /\ state[p].life = "Active"
    /\ writer = None
    /\ state' = [state EXCEPT ![p].life = "Quarantined"]
    /\ UNCHANGED <<promo, pulls, history, jobs, writer, grants>>

Reown(s, h) ==
    /\ state[s].life = "Pending"
    /\ writer = None
    /\ state' = [state EXCEPT ![s].owner = h]
    /\ UNCHANGED <<promo, pulls, history, jobs, writer, grants>>

-----------------------------------------------------------------------------
(* apply *)

OwnerApproved(approvers, owner) == owner \in approvers

Parses(t) == t # Unreadable
Registered(f) == state[f[1]].life # "Absent" /\ state[f[2]].life # "Absent"

\* One file's verdict: parse, both parties, the owner's approval, and only then
\* whether its contract is already the current one.
\* Mutant: the refusals are collected and not acted on.
RefusedNever(f, t, k) == FALSE
Refused(f, t, k) ==
    \/ ~Parses(t)
    \/ ~Registered(f)
    \/ ~OwnerApproved(history[k].approvers, state[f[2]].owner)

Current(f, t) == f \in DOMAIN grants /\ grants[f].tools = t

\* checked_evidence: a merge somebody other than its author approved.
CheckedEvidence(k) == \E h \in history[k].approvers : h # history[k].author

\* The orders the names of some files may give them.
Orders(files) ==
    {order \in [1 .. Cardinality(files) -> files] :
        \A i, j \in 1 .. Cardinality(files) : order[i] = order[j] => i = j}

\* What may lie under --dir: a checkout of any commit, or of the branch of an
\* open pull request.
Checkouts == {history[k].tree : k \in DOMAIN history} \cup {Merged(files) : files \in pulls}

\* checked_evidence, then the plan with the store open; the files come in the
\* order of their names, which says nothing of the parties.
Plan(a, k, dir, order) ==
    /\ jobs[a].pc = "idle"
    /\ CheckedEvidence(k)
    /\ writer = None
    /\ order \in Seq(DOMAIN dir)
    /\ order \in Orders({f \in DOMAIN dir : ~Current(f, dir[f])})
    /\ IF \E f \in DOMAIN dir : Refused(f, dir[f], k)
       THEN UNCHANGED jobs
       ELSE jobs' = [jobs EXCEPT ![a] =
                [pc |-> "planned", sha |-> k, dir |-> dir, plan |-> order,
                 owners |-> [f \in DOMAIN dir |-> state[f[2]].owner]]]
    /\ UNCHANGED <<state, promo, pulls, history, writer, grants>>

\* with_issuer: the lock, for all that is planned.
TakeIssuer(a) ==
    /\ jobs[a].pc = "planned"
    /\ writer = None
    /\ writer' = a
    /\ jobs' = [jobs EXCEPT ![a].pc = "minting"]
    /\ UNCHANGED <<state, promo, pulls, history, grants>>

\* One proposal: the request, judged on the parties as they are, then the mint
\* under the derived identity.
MintOne(a) ==
    /\ jobs[a].pc = "minting"
    /\ jobs[a].plan # <<>>
    /\ LET f == Head(jobs[a].plan) IN
       /\ \A p \in {f[1], f[2]} : state[p].life = "Active"
       /\ grants' = [g \in DOMAIN grants \cup {f} |->
                        IF g # f THEN grants[g]
                        ELSE [tools |-> jobs[a].dir[f], sha |-> jobs[a].sha,
                              dir |-> jobs[a].dir, owners |-> jobs[a].owners]]
       /\ jobs' = [jobs EXCEPT ![a].plan = Tail(@)]
    /\ UNCHANGED <<state, promo, pulls, history, writer>>

\* Issued under a standing rule, with an identity of its own: nothing is minted
\* for the proposal.
IssueStanding(a) ==
    /\ jobs[a].pc = "minting"
    /\ jobs[a].plan # <<>>
    /\ jobs' = [jobs EXCEPT ![a].plan = Tail(@)]
    /\ UNCHANGED <<state, promo, pulls, history, writer, grants>>

\* All minted, or the policy, a party or the process stopped it on the way.
EndApply(a) ==
    /\ jobs[a].pc # "idle"
    /\ jobs' = [jobs EXCEPT ![a] = NoJob]
    /\ writer' = IF writer = a THEN None ELSE writer
    /\ UNCHANGED <<state, promo, pulls, history, grants>>

ProposalsNext ==
    \/ \E s \in Service, t \in Tools, activate \in BOOLEAN, zoned \in ZoneMaps :
           PromoteStart(s, t, activate, zoned)
    \/ PromoteServer \/ RaiseProposalPr \/ PromoteStops
    \/ \E r \in Consumer : PromoteConsumer(r)
    \/ \E f \in Paths : HandWritten(f, Unreadable)
    \/ \E files \in pulls, author \in Staff, approvers \in SUBSET Staff :
           MergePull(files, author, approvers)
    \/ \E p \in Service \cup Consumer : Contain(p)
    \/ \E s \in Service, h \in Staff : Reown(s, h)
    \/ \E a \in Applier :
           \/ \E k \in 1 .. Len(history), dir \in Checkouts :
                  \E order \in Orders({f \in DOMAIN dir : ~Current(f, dir[f])}) :
                      Plan(a, k, dir, order)
           \/ TakeIssuer(a) \/ MintOne(a) \/ IssueStanding(a) \/ EndApply(a)

ProposalsSpec == ProposalsInit /\ [][ProposalsNext]_proposalVars

-----------------------------------------------------------------------------

\* Every contract comes from a file of the directory apply read, and rests on a
\* merge that somebody other than its author reviewed and that the owner of every
\* service named in that directory approved, as the owners were when the plan was
\* made: one file without its owner's consent keeps the others back ("a directory
\* with one bad file mints none of them", main.rs).  Excepted is what authority.rs
\* asks third of a consent, that the files are the ones that were reviewed: apply
\* never compares the directory with the merge, so the approvers named need not
\* have seen what is minted.
WholeTreeConsented ==
    \A f \in DOMAIN grants :
        LET merge == history[grants[f].sha]
            dir == grants[f].dir
        IN  /\ f \in DOMAIN dir /\ grants[f].tools = dir[f]
            /\ \A g \in DOMAIN dir : dir[g] # Unreadable /\ grants[f].owners[g] \in merge.approvers
            /\ \E h \in merge.approvers : h # merge.author
=============================================================================
