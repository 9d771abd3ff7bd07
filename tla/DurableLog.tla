----------------------------- MODULE DurableLog -----------------------------
(***************************************************************************)
(* What the state store promises its users: one linear history.  The one   *)
(* active process sees all of it and extends it; other processes see it as *)
(* it was; a failure may take back its end, but never what was made        *)
(* durable.                                                                *)
(***************************************************************************)
EXTENDS Naturals, Sequences

CONSTANTS Proc, Event

VARIABLES history,  \* the writes that took effect, in order
          kept,     \* how many of them no failure can take back
          writer,   \* the processes that may write: one or none
          view      \* [Proc -> what the process has seen], <<>> if it is down

vars == <<history, kept, writer, view>>

Init ==
    /\ history = <<>> /\ kept = 0
    /\ writer = {}
    /\ view = [p \in Proc |-> <<>>]

\* A process comes up or looks again, as the writer if there is none.
Look(p) ==
    /\ \/ writer = {} /\ writer' = {p}
       \/ UNCHANGED writer /\ p \notin writer
    /\ view' = [view EXCEPT ![p] = history]
    /\ UNCHANGED <<history, kept>>

\* A write takes effect at the end of the history, once; its writer sees it.
Append1(p, e) ==
    /\ writer = {p}
    /\ \A i \in 1 .. Len(history) : history[i] # e
    /\ history' = Append(history, e)
    /\ kept' \in {kept, Len(history) + 1}
    /\ \/ view' = [view EXCEPT ![p] = history'] /\ UNCHANGED writer
       \/ view' = [view EXCEPT ![p] = <<>>] /\ writer' = {}

Keep ==
    /\ kept' \in kept .. Len(history)
    /\ UNCHANGED <<history, writer, view>>

Leave(p) ==
    /\ view' = [view EXCEPT ![p] = <<>>]
    /\ writer' = writer \ {p}
    /\ UNCHANGED <<history, kept>>

\* Everybody goes down, and the end of the history with them.
Lose ==
    /\ \E n \in kept .. Len(history) : history' = SubSeq(history, 1, n)
    /\ view' = [p \in Proc |-> <<>>]
    /\ writer' = {}
    /\ UNCHANGED kept

Next ==
    \/ \E p \in Proc : Look(p) \/ Leave(p)
    \/ \E p \in Proc, e \in Event : Append1(p, e)
    \/ Keep \/ Lose

Spec == Init /\ [][Next]_vars
=============================================================================
