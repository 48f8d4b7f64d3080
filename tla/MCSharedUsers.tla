--------------------------- MODULE MCSharedUsers ----------------------------
(* Two devices of one user and one of another on a node, and a second      *)
(* node with the first user.                                               *)
EXTENDS SharedUsers, TLC

CONSTANTS t1, t2, u1, u2, c1, c2, c3, r1, r2

MCListed == t1 :> {u1, u2} @@ t2 :> {u1}

MCOwner == c1 :> u1 @@ c2 :> u2 @@ c3 :> u1

MCOn == c1 :> t1 @@ c2 :> t1 @@ c3 :> t1

\* Two loops of the report task of the first node.
MCOf == r1 :> t1 @@ r2 :> t1

MCSetting(which, ls, n1, n2, k) ==
    [core |-> which, loops |-> ls, sent |-> u1 :> n1 @@ u2 :> n2, changes |-> k]

\* Two loops read the traffic of one user, or one loop that of two.
MCSettings ==
    {MCSetting(which, {r1, r2}, 2, 0, 1) : which \in {"sing", "hy2"}} \cup
    UNION {{MCSetting("sing", {r}, 2, 1, 1), MCSetting("sing", {r}, 1, 1, 2), MCSetting("hy2", {r}, 1, 1, 1)} :
           r \in {r1, r2}}

\* The first and the third connection are alike, and the two loops.
Alike == Permutations({c1, c3}) \cup Permutations({r1, r2})
=============================================================================
