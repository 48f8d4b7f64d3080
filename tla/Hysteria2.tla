----------------------------- MODULE Hysteria2 ------------------------------
(***************************************************************************)
(* The hysteria2 core, seen from three sides that do not touch each other: *)
(* the secret of the reset keys (ResetSecret, whose names this module      *)
(* has), what a node takes from the machine (Machine), and the server      *)
(* configuration (Config).                                                 *)
(***************************************************************************)
EXTENDS ResetSecret, Integers

CONSTANTS
    Tags, Pids, Outside, UdpPort, Setups, MaxAdds,  \* of Hy2Node
    Configs, Unset                                  \* of Hy2Config

VARIABLES
    setup, ended, node, nodePc, bound, adds, failedOpen, masq, masqWait, inst, proc, owner, lock,
    stopped, exited, judged, warned,
    c, stage, hy

Machine == INSTANCE Hy2Node WITH Nodes <- Tags, pc <- nodePc

Config == INSTANCE Hy2Config

\* The bounds on the calls of AddNode are numbers, and the administrator's process is none of
\* those that are started here.
MachineAssumption ==
    /\ MaxAdds \in [Tags -> Nat]
    /\ Outside \notin Pids /\ None \notin Pids \cup Tags

----------------------------------------------------------------------------
(* While the program runs, every Mimic process it started belongs to a      *)
(* node of the map or to an AddNode or DelNode under way.                   *)
MimicHasANode == Machine!MimicHasANode

(* A node that is not in the map keeps no socket, unless an AddNode of it   *)
(* failed after the socket was opened.                                      *)
DeletedReleasesPort == Machine!DeletedReleasesPort

(* A masquerade listener ends the program only on the reload of a node, for *)
(* a port named twice, or for one that something outside may refuse.        *)
FatalNeedsCause == Machine!FatalNeedsCause

(* DelNode and a failing AddNode come back from Mimic's Close.              *)
CloseReturns == Machine!CloseReturns

(* Of what getHyConfig accepts, the server rejects only what it passes on   *)
(* unchecked.                                                               *)
RejectedOnlyForUnchecked == Config!RejectedOnlyForUnchecked

(* A receive window the user sets is the one the server runs with.          *)
UserWindowsKept == Config!UserWindowsKept
=============================================================================
