------------------------------ MODULE MCReload ------------------------------
EXTENDS Reload, TLC

CONSTANTS d0, d1, d2

\* The DNS servers of one node in one order, in either of two, and those of two nodes.
OneText == 1 :> {d1} @@ 2 :> {}

MCPanels == {OneText, 1 :> {d1, d2} @@ 2 :> {}, 1 :> {d1} @@ 2 :> {d2}}

\* A poll that writes the DNS file is enough to start the reloads that follow each other; what
\* two changes of the configuration leave behind does not depend on what the file contains.
MCMaxEdits == [p \in MCPanels |-> IF p = OneText THEN 2 ELSE 0]
=============================================================================
