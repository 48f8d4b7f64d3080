----------------------------- MODULE MCLimiter -----------------------------
(***************************************************************************)
(* The ways the limiter is used.  Connections are interchangeable.         *)
(***************************************************************************)
EXTENDS Limiter, TLC

CONSTANTS u1, u2, i1, i2, c1, c2

\* One user connects from both addresses and the other shares one of them.
MCAddresses == u1 :> {i1, i2} @@ u2 :> {i2}

\* Calls one after the other, with and without dynamic limits, and overlapping calls: two
\* checks with a report, two with an update or a new alive list, one with all of them.
Calm(dynamic, n) ==
    [serial |-> TRUE, dynamic |-> dynamic, speeds |-> {0, 1}, devices |-> {0, 1},
     checks |-> 1, reports |-> n, updates |-> n, changed |-> 2]

Races(c, r, n) ==
    [serial |-> FALSE, dynamic |-> FALSE, speeds |-> {0}, devices |-> {1},
     checks |-> c, reports |-> r, updates |-> n, changed |-> 1]

MCUses == {Calm(FALSE, 2), Calm(TRUE, 1), Races(2, 1, 0), Races(2, 0, 1), Races(1, 1, 1)}

Symmetry == Permutations(Conns)
=============================================================================
