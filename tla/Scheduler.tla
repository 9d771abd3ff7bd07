----------------------------- MODULE Scheduler -----------------------------
(***************************************************************************)
(* The re-attestation scheduler (wc-control/src/assurance.rs, Scheduler):  *)
(* a queue ordered by due time, a budget per tick and a rate per endpoint  *)
(* and minute.  Callers push tasks and tick in any order.                  *)
(***************************************************************************)
EXTENDS Integers, Sequences, SequencesExt, FiniteSets, TLC

CONSTANTS
    Watched,       \* parties; numbers, in the order of their identifiers
    EndpointOf,    \* [Watched -> endpoint, or NoEndpoint]
    NoEndpoint,    \* a party without an endpoint
    BaseInterval,  \* base_interval of their tier
    LeastInterval, \* the least a shortened interval is
    Draw, MaxDraw, \* [Watched -> 0 .. MaxDraw]: the digest of each identifier
    Spread,        \* the jitter, in seconds either way
    BenignBurst,   \* benign drifts a window may hold
    PerMinute,     \* starts per endpoint and minute
    MinuteLen,     \* seconds in a minute
    LastSecond,    \* bound on the clock
    MaxQueue       \* bound on the queue

VARIABLES
    sec,         \* the clock
    active,      \* parties in the Active lifecycle
    reattested,  \* [Watched -> second of the last re-attestation]
    queue,       \* the heap, in order
    windows,     \* [endpoint -> <<minute, starts>>], where it has started one
    report,      \* the last TickReport, with the queue it left
    starts       \* <<endpoint, minute>> of every start so far, in order

schedulerVars == <<sec, active, reattested, queue, windows, report, starts>>

Kinds == <<"reattest", "expiry-warn", "cred-expiry", "posture-rescore", "federation-refresh">>
KindAt(k) == CHOOSE i \in DOMAIN Kinds : Kinds[i] = k

NoReport == [due |-> <<>>, deferred |-> <<>>, left |-> <<>>, full |-> FALSE, minute |-> 0]

SchedulerInit ==
    /\ sec = 0 /\ active = Watched /\ reattested = [p \in Watched |-> 0]
    /\ queue = <<>> /\ windows = <<>> /\ report = NoReport /\ starts = <<>>

-----------------------------------------------------------------------------
(* The queue. *)

\* Ord for Task: due time first, then kind, then target.
TaskBefore(a, b) ==
    \/ a.due < b.due
    \/ a.due = b.due /\ KindAt(a.kind) < KindAt(b.kind)
    \/ a.due = b.due /\ a.kind = b.kind /\ a.target < b.target

Heap(tasks) == SortSeq(tasks, TaskBefore)
TaskFor(p, kind, due) == [due |-> due, kind |-> kind, target |-> p, endpoint |-> EndpointOf[p]]

\* interval_for: a restless party is looked at twice as often.
IntervalFor(drifts) ==
    LET half == BaseInterval \div 2 IN
    IF drifts > BenignBurst THEN (IF half > LeastInterval THEN half ELSE LeastInterval)
    ELSE BaseInterval

\* jitter_offset: the draw, mapped onto the spread either way.
JitterOffset(p) == (Draw[p] * 2 * Spread) \div MaxDraw - Spread

ScheduleReattest(p, drifts) ==
    LET base == IF reattested[p] > sec THEN reattested[p] ELSE sec IN
    /\ Len(queue) < MaxQueue
    /\ queue' = Heap(Append(queue, TaskFor(p, "reattest",
                                           base + IntervalFor(drifts) + JitterOffset(p))))
    /\ UNCHANGED <<sec, active, reattested, windows, report, starts>>

\* push, of a task of another kind.
PushTask(p, kind, due) ==
    /\ Len(queue) < MaxQueue
    /\ queue' = Heap(Append(queue, TaskFor(p, kind, due)))
    /\ UNCHANGED <<sec, active, reattested, windows, report, starts>>

\* enqueue_due: every overdue active party, whether or not it is queued already.
Overdue == {p \in active : sec - reattested[p] > BaseInterval}
EnqueueDue ==
    /\ Overdue # {} /\ Len(queue) + Cardinality(Overdue) <= MaxQueue
    /\ queue' = Heap(queue \o SetToSeq({TaskFor(p, "reattest", sec) : p \in Overdue}))
    /\ UNCHANGED <<sec, active, reattested, windows, report, starts>>

-----------------------------------------------------------------------------
(* tick. *)

Minute == sec \div MinuteLen

\* take_slot: the starts of this endpoint in this minute.  Mutant: the count of
\* the last minute it was seen in.
TakenEver(w, e) == IF e \in DOMAIN w THEN w[e][2] ELSE 0
Taken(w, e) == IF e \in DOMAIN w /\ w[e][1] = Minute THEN w[e][2] ELSE 0

TryTask(acc, task, budget) ==
    IF Len(acc.due) >= budget THEN [acc EXCEPT !.deferred = Append(@, task)]
    ELSE IF task.endpoint = NoEndpoint THEN [acc EXCEPT !.due = Append(@, task)]
    ELSE IF Taken(acc.windows, task.endpoint) >= PerMinute
    THEN [acc EXCEPT !.deferred = Append(@, task)]
    ELSE [acc EXCEPT !.due = Append(@, task),
                     !.windows = (task.endpoint :> <<Minute, Taken(@, task.endpoint) + 1>>) @@ @]

\* A deferred task goes back with the due time it had.  Mutant: with now, behind
\* what became due meanwhile.
HeldLate(tasks) == [i \in DOMAIN tasks |-> [tasks[i] EXCEPT !.due = sec + 1]]
Held(tasks) == tasks

Tick(budget) ==
    LET ready == SelectSeq(queue, LAMBDA t : t.due <= sec)
        later == SelectSeq(queue, LAMBDA t : t.due > sec)
        all == FoldLeft(LAMBDA acc, t : TryTask(acc, t, budget),
                        [due |-> <<>>, deferred |-> <<>>, windows |-> windows], ready)
    IN  /\ ready # <<>>
        /\ queue' = Heap(later \o Held(all.deferred))
        /\ report' = [due |-> all.due, deferred |-> all.deferred, left |-> queue',
                       full |-> Len(all.due) >= budget, minute |-> Minute]
        /\ windows' = all.windows
        /\ starts' = starts \o [i \in DOMAIN all.due |-> <<all.due[i].endpoint, Minute>>]
        /\ UNCHANGED <<sec, active, reattested>>

\* A re-attestation ends; a party is taken out of service; time passes.
Reattested(p) ==
    /\ \E i \in DOMAIN report.due : report.due[i].target = p
    /\ reattested' = [reattested EXCEPT ![p] = sec]
    /\ UNCHANGED <<sec, active, queue, windows, report, starts>>
Deactivate(p) ==
    /\ active' = active \ {p}
    /\ UNCHANGED <<sec, reattested, queue, windows, report, starts>>
NextSecond ==
    /\ sec < LastSecond /\ sec' = sec + 1
    /\ UNCHANGED <<active, reattested, queue, windows, report, starts>>

SchedulerNext ==
    \/ \E p \in Watched, drifts \in {0, BenignBurst + 1} : ScheduleReattest(p, drifts)
    \/ \E p \in Watched, due \in {sec, sec + 1} : PushTask(p, "cred-expiry", due)
    \/ EnqueueDue
    \/ \E budget \in 0 .. 2 : Tick(budget)
    \/ \E p \in Watched : Reattested(p) \/ Deactivate(p)
    \/ NextSecond

SchedulerSpec == SchedulerInit /\ [][SchedulerNext]_schedulerVars

-----------------------------------------------------------------------------
(* Properties. *)

StartsIn(e, minute) == Cardinality({i \in DOMAIN starts : starts[i] = <<e, minute>>})

\* Nothing is starved and nothing is hammered.  Whatever a tick defers is in the
\* queue it leaves; no task it starts overtakes one for the same endpoint that it
\* leaves behind; no endpoint is asked more often than the rate in any minute; and
\* a tick whose budget lasts defers only for endpoints that have used their rate
\* up in this very minute.
FairTurns ==
    /\ \A i \in DOMAIN report.deferred : \E j \in DOMAIN report.left : report.left[j] = report.deferred[i]
    /\ \A i \in DOMAIN report.due, j \in DOMAIN report.left :
        report.due[i].endpoint = report.left[j].endpoint => ~ TaskBefore(report.left[j], report.due[i])
    /\ \A i \in DOMAIN starts :
        starts[i][1] # NoEndpoint => StartsIn(starts[i][1], starts[i][2]) <= PerMinute
    /\ ~ report.full =>
        \A i \in DOMAIN report.deferred : StartsIn(report.deferred[i].endpoint, report.minute) >= PerMinute
=============================================================================
