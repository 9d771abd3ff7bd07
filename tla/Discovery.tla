----------------------------- MODULE Discovery -----------------------------
(***************************************************************************)
(* `connect inventory' (wc-control/src/inventory.rs, scm.rs): a sweep of   *)
(* an organisation's repositories through the source host's shim.  A sweep *)
(* lists the repositories, then reads them one by one while people go on   *)
(* pushing; any answer may fail and the sweep then reports nothing.  Its   *)
(* watermark is passed as --since to the next one, which reads only what   *)
(* was pushed later.  Its answer may be proposed as a file in a repository.*)
(*                                                                         *)
(* The host is external: a repository is what its client configuration     *)
(* declares, and the time of its last push.                                *)
(***************************************************************************)
EXTENDS Naturals, FiniteSets, FiniteSetsExt

CONSTANTS
    Repo,       \* the organisation's repositories
    Undated,    \* those the host reports without a time of push
    Target,     \* servers a client configuration may declare
    MaxSecond,  \* bound on the clock
    MaxOpen     \* bound on open pull requests

VARIABLES
    content,    \* content[r]: the targets r declares at HEAD
    pushed,     \* pushed[r]: the second of its last push
    second,     \* the host's clock
    sweep,      \* the sweep under way
    cursor,     \* watermark of the last sweep that ended, Never before
    known,      \* known[r]: what the sweeps so far say r declares
    stateFile,  \* the state file on the base branch
    proposed,   \* contents of the open pull requests, one branch each
    tied        \* history: repositories last pushed in the second of a watermark
                \* that had been taken before

discoveryVars ==
    <<content, pushed, second, sweep, cursor, known, stateFile, proposed,
      tied>>

Never == MaxSecond + 1   \* no watermark
Quiet == [pc |-> "idle", todo |-> {}, found |-> {}, read |-> {}, mark |-> Never]
Nothing == [rows |-> {}, mark |-> Never]

DiscoveryInit ==
    /\ content = [r \in Repo |-> {}]
    /\ pushed = [r \in Repo |-> 0]
    /\ second = 0
    /\ sweep = Quiet
    /\ cursor = Never
    /\ known = [r \in Repo |-> {}]
    /\ stateFile = Nothing
    /\ proposed = {}
    /\ tied = {}

-----------------------------------------------------------------------------

\* RepoRef::changed_since: undated is always read, dated only if later.
ChangedSince(r, since) ==
    \/ since = Never
    \/ r \in Undated
    \/ pushed[r] > since

\* The watermark is the latest push of the LISTING, not the time of the sweep.
\* Mutant: the time of the sweep's last answer.
WatermarkOfClock(listed) == second
Watermark(listed) == listed

\* render_state: the findings of this sweep, by target.
RenderState(found, mark) ==
    [rows |-> {<<t, {f[1] : f \in {g \in found : g[2] = t}}>> : t \in {f[2] : f \in found}},
     mark |-> mark]

-----------------------------------------------------------------------------
(* The world. *)

\* The host dates a push in whole seconds.
Push(r) ==
    /\ \E s \in {second, second + 1} :
           /\ s <= MaxSecond
           /\ second' = s
           /\ pushed' = [pushed EXCEPT ![r] = s]
           /\ tied' = IF s \in {sweep.mark, cursor} THEN tied \cup {r} ELSE tied \ {r}
    /\ \E c \in SUBSET Target \ {content[r]} : content' = [content EXCEPT ![r] = c]
    /\ UNCHANGED <<sweep, cursor, known, stateFile, proposed>>

MergeState(body) ==
    /\ proposed' = proposed \ {body}
    /\ stateFile' = body
    /\ UNCHANGED <<content, pushed, second, sweep, cursor, known, tied>>

-----------------------------------------------------------------------------
(* The sweep. *)

\* scan: repos_with_cursor, then the unchanged ones are skipped.
List(since) ==
    /\ sweep.pc = "idle"
    /\ sweep' = [pc |-> "reading",
                 todo |-> {r \in Repo : ChangedSince(r, since)},
                 found |-> {},
                 read |-> {},
                 mark |-> IF Repo \ Undated = {} THEN Never
                          ELSE Max({pushed[r] : r \in Repo \ Undated})]
    /\ UNCHANGED <<content, pushed, second, cursor, known, stateFile, proposed, tied>>

\* One repository's configuration at HEAD, whatever was pushed since the
\* listing.  Text that does not parse declares nothing.
Read(r) ==
    /\ sweep.pc = "reading"
    /\ r \in sweep.todo
    /\ sweep' = [sweep EXCEPT !.todo = @ \ {r},
                              !.read = @ \cup {r},
                              !.found = @ \cup ({r} \X content[r])]
    /\ UNCHANGED <<content, pushed, second, cursor, known, stateFile, proposed, tied>>

\* Any answer that fails ends the sweep; no watermark is printed.
ShimFails ==
    /\ sweep.pc # "idle"
    /\ sweep' = Quiet
    /\ UNCHANGED <<content, pushed, second, cursor, known, stateFile, proposed, tied>>

Report ==
    /\ known' = [r \in Repo |-> IF r \in sweep.read
                                THEN {f[2] : f \in {g \in sweep.found : g[1] = r}}
                                ELSE known[r]]
    /\ cursor' = Watermark(sweep.mark)
    /\ sweep' = Quiet
    /\ UNCHANGED <<content, pushed, second, tied>>

\* With --state-repo the answer is compared with the file on the base and
\* proposed on a branch named for its content, before anything is printed.
EndSweep ==
    /\ sweep.pc = "reading"
    /\ sweep.todo = {}
    /\ Report
    /\ LET body == RenderState(sweep.found, sweep.mark) IN
       proposed' \in {p \in {proposed, IF stateFile = body THEN proposed
                                       ELSE proposed \cup {body}} :
                         Cardinality(p) <= MaxOpen}
    /\ UNCHANGED stateFile

\* inventory --declared on a host with an index: one answer, no watermark, and
\* --since is not looked at.
SearchDeclared ==
    /\ sweep.pc = "idle"
    /\ known' = content
    /\ UNCHANGED <<content, pushed, second, sweep, cursor, stateFile, proposed, tied>>

DiscoveryNext ==
    \/ \E r \in Repo : Push(r) \/ Read(r)
    \/ \E since \in {Never, cursor} : List(since)
    \/ ShimFails \/ EndSweep \/ SearchDeclared
    \/ \E body \in proposed : MergeState(body)

DiscoverySpec == DiscoveryInit /\ [][DiscoveryNext]_discoveryVars

-----------------------------------------------------------------------------

\* Whatever was pushed up to the watermark the operator passes on has been
\* read: the cursor skips nothing, though repositories are pushed to between
\* the listing and the reading, and sweeps fail half way.  ("Skipping is the
\* one direction a discovery cursor must never be wrong in", inventory.rs.)
\* Excepted are the repositories whose last push fell into the very second of a
\* watermark, after the listing: changed_since is strict (scm.rs), and those
\* the code skips until they are pushed to again.
CursorMissesNothing ==
    \A r \in Repo \ (Undated \cup tied) :
        cursor # Never /\ pushed[r] <= cursor => known[r] = content[r]
=============================================================================
