---------------------------- MODULE MCController ----------------------------
(***************************************************************************)
(* Instances of Controller: node configurations of which one needs a       *)
(* certificate, and user lists in which a user comes and goes, changes its *)
(* speed limit, changes only its device limit, or nobody is left.          *)
(***************************************************************************)
EXTENDS Controller, TLC

CONSTANTS n1, n2, m1, m2, m3, m4, u1, u2

User(id, s, d) == [uuid |-> id, speed |-> s, device |-> d]

Lists ==
    { {User(u1, 1, 1)},
      {User(u1, 2, 1), User(u2, 1, 1)},
      {User(u1, 1, 2), User(u2, 1, 1)},
      {} }

TwoLists == { {User(u1, 1, 1)}, {User(u1, 1, 1), User(u2, 1, 1)} }

OneList == { {User(u1, 1, 1), User(u2, 1, 1)} }

\* n1 and n2 have the same intervals; those of m1 and m2 and of m3 and m4 differ.
Panel(nodes, lists, n) == [nodes |-> nodes, lists |-> lists, changes |-> n]

FailingPanels == { Panel({n1, n2}, Lists, 2) }

NamedPanels == { Panel({n1, n2}, Lists, 2) }

IntervalPanels == { Panel({m1, m2}, OneList, 1) }

\* In the second both intervals change; in the third the pull interval and the list, so that two
\* monitor loops meet the changes.
LivePanels ==
    { Panel({n1, n2}, Lists, 3), Panel({m3, m4}, OneList, 1), Panel({m1, m2}, TwoLists, 3) }

SameInterval == [n \in NodeConfigs |-> 60]

Interval == [n \in NodeConfigs |-> IF n = m2 THEN 120 ELSE 60]

\* m1 names no pull interval, so going back to it restarts nothing and two Starts suffice.
LivePull == [n \in NodeConfigs |-> CASE n \in {m2, m3} -> 120 [] n = m1 -> 0 [] OTHER -> 60]

LivePush == [n \in NodeConfigs |-> IF n = m3 THEN 120 ELSE 60]
=============================================================================
