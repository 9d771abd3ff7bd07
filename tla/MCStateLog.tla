----------------------------- MODULE MCStateLog -----------------------------
(***************************************************************************)
(* StateLog for TLC.  Two stores in one run, chosen at the start: a short  *)
(* log that several processes contend for, and a log of one process that   *)
(* is long enough for several segments.                                    *)
(***************************************************************************)
EXTENDS StateLog

CONSTANTS p, e4, e5
VARIABLE store

Contended == INSTANCE StateLog WITH Event <- Event \ {e4, e5}, MaxLog <- 3
Segmented == INSTANCE StateLog WITH SegLines <- 2

StoresNext ==
    /\ UNCHANGED store
    /\ \/ store = "contended" /\ Contended!Next
       \/ store = "segmented" /\ (Segmented!PowerLoss \/ Segmented!ProcStep(p))
StoresInit == Init /\ store \in {"contended", "segmented"}
Stores ==
    /\ StoresInit
    /\ [][StoresNext]_<<vars, store>>
    /\ Fairness

\* One store with the configuration's own constants.
OneStore ==
    Init /\ store = "one" /\ [][Next /\ UNCHANGED store]_<<vars, store>>
=============================================================================
