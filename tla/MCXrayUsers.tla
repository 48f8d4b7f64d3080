---------------------------- MODULE MCXrayUsers ----------------------------
(***************************************************************************)
(* Instances of XrayUsers.  Users, connections and reporters are           *)
(* interchangeable.                                                        *)
(***************************************************************************)
EXTENDS XrayUsers, TLC

\* One user and two loops of the report task; two users, one loop and a minimum of one byte.
MCSettings ==
    {[users |-> {u}, reporters |-> Reporters, min |-> 0, reports |-> 2, changes |-> 2] : u \in Users}
    \cup
    {[users |-> Users, reporters |-> {r}, min |-> 1, reports |-> 1, changes |-> 1] : r \in Reporters}

Symmetry == Permutations(Users) \cup Permutations(Conns) \cup Permutations(Reporters)
=============================================================================
