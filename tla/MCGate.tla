------------------------------- MODULE MCGate -------------------------------
(***************************************************************************)
(* Small instances of Gate.                                                *)
(***************************************************************************)
EXTENDS Gate, TLC

CONSTANTS a, b, c1, c2, j1, j2, j3, t1, t2

Agreed == [cid |-> c1, caller |-> a, callee |-> b, attested |-> TRUE,
           zone |-> TRUE, items |-> {t1}, pins |-> {<<t1, 1>>}]

\* j1, the artifact j2 that replaces it with another surface, and j3 of another
\* connection of the same pair, which this mediator's zone rule refuses.
MCOf == j1 :> Agreed @@
        j2 :> [Agreed EXCEPT !.items = {t2}, !.pins = {<<t2, 2>>}] @@
        j3 :> [Agreed EXCEPT !.cid = c2, !.attested = FALSE, !.zone = FALSE]

MCSnapshots == {<<>>, <<j1>>, <<j3, j2>>}

MCSurfaces == {{<<t1, 1>>, <<t2, 2>>}, {<<t1, 2>>, <<t2, 2>>}}

NoToken == {}

\* State constraint: a child that has written a stray line is followed to the
\* end of the request, and no further unless it has been replaced by then.
StrayWithinRequest == strayed => pc # "idle"
=============================================================================
