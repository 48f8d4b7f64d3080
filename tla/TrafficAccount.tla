--------------------------- MODULE TrafficAccount ---------------------------
(***************************************************************************)
(* What a core promises the panel about traffic: a user is charged for     *)
(* nothing but bytes of its own that were sent before, and for each of     *)
(* them at most once.  A core may lose bytes; it may not invent them, but  *)
(* of a user whose counter was read by two reports at once.                *)
(***************************************************************************)
EXTENDS Naturals

CONSTANT Users

VARIABLES sent,    \* bytes each user has sent
          charged, \* bytes reported for each user
          doubled  \* users with a counter that two reports had loaded before either reset it

Init == sent = [u \in Users |-> 0] /\ charged = [u \in Users |-> 0] /\ doubled = {}

Send ==
    /\ \E u \in Users : sent'[u] > sent[u] /\ sent' = [sent EXCEPT ![u] = sent'[u]]
    /\ UNCHANGED <<charged, doubled>>

\* A slice holds the traffic of several users.
Charge ==
    /\ charged' = [u \in Users |-> charged'[u]]
    /\ \A u \in Users : charged'[u] >= charged[u] /\ (charged'[u] <= sent[u] \/ u \in doubled)
    /\ UNCHANGED <<sent, doubled>>

ReadTwice == doubled \subseteq doubled' /\ UNCHANGED <<sent, charged>>

Spec == Init /\ [][Send \/ Charge \/ ReadTwice]_<<sent, charged, doubled>>
=============================================================================
