--------------------------- MODULE MCContainment ---------------------------
(***************************************************************************)
(* Small estates for TLC.  Two in one run, chosen at the start: keys that   *)
(* are rotated and retired under a cut, on a network that loses calls; and  *)
(* a quarantine that is lifted, with the party admitted again.              *)
(***************************************************************************)
EXTENDS Containment, TLC

CONSTANTS a, b, c1, k1, k2

OneContract == c1 :> Party
Everyone == [c \in Contract |-> Mediator]

VARIABLE estate

Rotating == INSTANCE Containment WITH MaxSeq <- 2, Clears <- FALSE
Lifting == INSTANCE Containment WITH
    Outages <- FALSE, Rotations <- FALSE, Retirements <- FALSE

EstatesNext ==
    /\ UNCHANGED estate
    /\ \/ estate = "rotating" /\ Rotating!CutsNext
       \/ estate = "lifting" /\ Lifting!CutsNext
EstatesInit == CutsInit /\ ring[k1] = "Active" /\ estate \in {"rotating", "lifting"}
Estates ==
    /\ EstatesInit
    /\ [][EstatesNext]_<<cutVars, estate>>
    /\ CutsFairness

\* One estate with the configuration's own constants.
OneEstate ==
    CutsInit /\ estate = "one" /\ [][CutsNext /\ UNCHANGED estate]_<<cutVars, estate>>
=============================================================================
