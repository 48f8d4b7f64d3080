------------------------------ MODULE Hy2Node ------------------------------
(***************************************************************************)
(* The life of the hysteria2 core's nodes (core/hy2/node.go) and of what   *)
(* they take from the machine: a UDP socket, the TCP port of the           *)
(* masquerade server and a Mimic process (core/hy2/mimic).  AddNode and    *)
(* DelNode of different nodes run in the tasks of their controllers and    *)
(* interleave; those of one node do not.  All nodes are on one interface:  *)
(* Mimic processes of different interfaces never meet.  The configuration  *)
(* itself is the subject of Hy2Config; here it is accepted or not.         *)
(***************************************************************************)
EXTENDS Naturals, FiniteSets

CONSTANTS
    Nodes,          \* tags
    Pids,           \* process ids of the Mimic processes started
    Outside,        \* the process id of a Mimic the administrator may run
    UdpPort,        \* [Nodes -> port]
    Setups,         \* the machines considered, each a record of
                    \*   masq: [Nodes -> [Listeners -> port or None]], masquerade.listenHTTP
                    \*         and listenHTTPS; the first is never set without the second
                    \*   refused: ports on which a listener may fail at any time for a reason
                    \*         outside this core: another program has it, no permission, no
                    \*         such address, an address that does not parse
                    \*   mimic: the nodes whose configuration enables Mimic
                    \*   filters: the ports Outside has filters for
    MaxAdds,        \* [Nodes -> bound on the calls of AddNode]
    None            \* no node, process or port

VARIABLES
    setup,
    ended,      \* what made logger.Fatal end the process: "no", "config" or "masquerade"
    node,       \* h.Hy2nodes: "closed" is an entry whose server failed to close
    pc,         \* where the AddNode or DelNode of the node is
    bound,      \* the node's UDP socket is open
    adds,       \* calls of AddNode so far
    failedOpen, \* history: AddNode returned an error and kept the socket open
    masq,       \* masquerade listeners that listen: <<node, which AddNode, which listener>>
    masqWait,   \* those whose goroutine has yet to listen
    inst,       \* n.Mimic, or the instance being started
    proc,       \* the Mimic processes; "foreign" is another program with a reused pid
    owner,      \* the node a Mimic process was started for
    lock,       \* processes with a lock file in /run/mimic
    stopped,    \* instances on which Close was called
    exited,     \* instances whose exited channel is closed
    judged,     \* instances whose wait goroutine has read stopped
    warned      \* nodes that logged that they run without Mimic

osVars == <<proc, owner, lock>>
instVars == <<inst, stopped, exited, judged>>
nodeVars == <<ended, node, pc, bound, adds, failedOpen, masq, masqWait, warned,
          instVars, osVars>>
vars == <<setup, nodeVars>>

AllPids == Pids \cup {Outside}

Listeners == {"http", "https"}

alive == ended = "no"

Init ==
    /\ setup \in Setups
    /\ ended = "no"
    /\ node = [n \in Nodes |-> "absent"]
    /\ pc = [n \in Nodes |-> "idle"]
    /\ bound = [n \in Nodes |-> FALSE]
    /\ adds = [n \in Nodes |-> 0]
    /\ failedOpen = {} /\ masq = {} /\ masqWait = {} /\ warned = {}
    /\ inst = [n \in Nodes |-> None]
    /\ proc \in {[p \in AllPids |-> IF p = Outside THEN s ELSE "unused"] : s \in {"unused", "ready"}}
    /\ owner = [p \in AllPids |-> None]
    /\ lock = {p \in AllPids : proc[p] = "ready"}
    /\ stopped = {} /\ exited = {} /\ judged = {}

----------------------------------------------------------------------------
(* AddNode.  getHyConfig opens the socket and starts the masquerade server *)
(* halfway; none of the errors after that closes the socket again.         *)

PortBusy(n) == \E m \in Nodes : bound[m] /\ UdpPort[m] = UdpPort[n]

\* The goroutines of a masquerade server: one for each address that is set.
MasqStarted(n) ==
    masqWait \cup {<<n, adds[n] + 1, k>> : k \in {l \in Listeners : setup.masq[n][l] # None}}

getHyConfig(n) ==
    \/ \* getTLSConfig, getQUICConfig or ListenUDP fails
       UNCHANGED <<pc, bound, failedOpen, masqWait>>
    \/ \* a part built after the socket is rejected, before or after the masquerade server starts
       /\ ~PortBusy(n)
       /\ bound' = [bound EXCEPT ![n] = TRUE]
       /\ failedOpen' = failedOpen \cup {n}
       /\ masqWait' \in {masqWait, MasqStarted(n)}
       /\ UNCHANGED pc
    \/ /\ ~PortBusy(n)
       /\ bound' = [bound EXCEPT ![n] = TRUE]
       /\ masqWait' = MasqStarted(n)
       /\ pc' = [pc EXCEPT ![n] = IF n \in setup.mimic THEN "mimic" ELSE "server"]
       /\ UNCHANGED failedOpen

AddNode(n) ==
    /\ alive /\ pc[n] = "idle" /\ node[n] = "absent" /\ adds[n] < MaxAdds[n]
    /\ adds' = [adds EXCEPT ![n] = @ + 1]
    /\ warned' = warned \ {n}
    /\ \/ \* the configuration file cannot be read or parsed
          ended' = "config" /\ UNCHANGED <<pc, bound, failedOpen, masqWait>>
       \/ \* the listen address is not one Mimic can filter: the socket is closed
          /\ n \in setup.mimic /\ ~PortBusy(n)
          /\ masqWait' = MasqStarted(n)
          /\ UNCHANGED <<ended, pc, bound, failedOpen>>
       \/ getHyConfig(n) /\ UNCHANGED ended
    /\ UNCHANGED <<node, masq, instVars, osVars>>

\* Mutant: the plain listener is given the address of the other one.
ListensHttps(w) == setup.masq[w[1]].https

\* The port a listener asks for.
Listens(w) == setup.masq[w[1]][w[3]]

\* ListenAndServeHTTP or ListenAndServeHTTPS: the first error of either ends the program
\* through logger.Fatal, whatever the error is.
runMasqTCPServer(n) ==
    /\ alive
    /\ \E w \in masqWait :
         /\ w[1] = n
         /\ masqWait' = masqWait \ {w}
         /\ LET taken == \E v \in masq : Listens(v) = Listens(w) IN
            \/ ~taken /\ masq' = masq \cup {w} /\ UNCHANGED ended
            \/ /\ taken \/ Listens(w) \in setup.refused
               /\ ended' = "masquerade" /\ UNCHANGED masq
    /\ UNCHANGED <<node, pc, bound, adds, failedOpen, warned, instVars, osVars>>

\* Mutant: the process is not signalled.
CloseNothing(n) ==
    /\ stopped' = stopped
    /\ pc' = [pc EXCEPT ![n] = "idle"]

\* n.Mimic.Close: nothing for a nil instance, otherwise the process is signalled and awaited.
CloseMimic(n) ==
    /\ stopped' = stopped \cup ({inst[n]} \ {None})
    /\ pc' = [pc EXCEPT ![n] = IF inst[n] = None THEN "idle" ELSE "closing"]

\* server.NewServer: config.fill rejects the configuration and leaves the socket open, or
\* the QUIC listener fails and the socket is closed; n.Mimic is closed in both cases.
NewServer(n) ==
    /\ alive /\ pc[n] = "server"
    /\ \/ /\ node' = [node EXCEPT ![n] = "serving"]
          /\ pc' = [pc EXCEPT ![n] = "idle"]
          /\ UNCHANGED <<bound, failedOpen, stopped>>
       \/ /\ \/ failedOpen' = failedOpen \cup {n} /\ UNCHANGED bound
             \/ bound' = [bound EXCEPT ![n] = FALSE] /\ UNCHANGED failedOpen
          /\ CloseMimic(n)
          /\ UNCHANGED node
    /\ UNCHANGED <<ended, adds, masq, masqWait, warned, inst, exited, judged, osVars>>

\* Mutant: DelNode forgets to close the server.
ServerLeftOpen(n) == bound

ServerClosed(n) == [bound EXCEPT ![n] = FALSE]

\* DelNode: the server's Close returns an error and leaves the entry, or the instance is closed too.
DelNode(n) ==
    /\ alive /\ pc[n] = "idle" /\ node[n] = "serving"
    /\ bound' = ServerClosed(n)
    /\ \/ node' = [node EXCEPT ![n] = "closed"] /\ UNCHANGED <<pc, stopped>>
       \/ node' = [node EXCEPT ![n] = "absent"] /\ CloseMimic(n)
    /\ UNCHANGED <<ended, adds, failedOpen, masq, masqWait, warned, inst, exited, judged, osVars>>

----------------------------------------------------------------------------
(* mimic.Start, Close and the wait goroutine.                              *)

Live(p) == proc[p] \in {"starting", "ready"}

\* runningOn: lock files whose process exists, stale files of a reused pid included.
runningOn == {p \in lock : Live(p) \/ proc[p] = "foreign"}

\* filtersCover: what "mimic show" lists for the running process; it fails for another program.
filtersCover(p, n) ==
    \/ p = Outside /\ UdpPort[n] \in setup.filters
    \/ owner[p] # None /\ UdpPort[owner[p]] = UdpPort[n]

Start(n) ==
    /\ alive /\ pc[n] = "mimic"
    /\ \/ /\ \E p \in runningOn :
                warned' = IF proc[p] # "foreign" /\ filtersCover(p, n) THEN warned ELSE warned \cup {n}
          /\ pc' = [pc EXCEPT ![n] = "server"]
          /\ UNCHANGED <<inst, proc, owner>>
       \/ \* no binary, no interface, or the process does not start
          /\ runningOn = {}
          /\ warned' = warned \cup {n}
          /\ pc' = [pc EXCEPT ![n] = "server"]
          /\ UNCHANGED <<inst, proc, owner>>
       \/ /\ runningOn = {}
          /\ \E p \in Pids :
                /\ proc[p] = "unused"
                /\ proc' = [proc EXCEPT ![p] = "starting"]
                /\ owner' = [owner EXCEPT ![p] = n]
                /\ inst' = [inst EXCEPT ![n] = p]
          /\ pc' = [pc EXCEPT ![n] = "waitReady"]
          /\ UNCHANGED warned
    /\ UNCHANGED <<ended, node, bound, adds, failedOpen, masq, masqWait, stopped, exited, judged, lock>>

\* waitReady: the exit is looked at first, then our own lock file; or ten seconds pass.
waitReady(n) ==
    /\ alive /\ pc[n] = "waitReady"
    /\ LET p == inst[n] IN
       \/ /\ p \notin exited /\ p \in lock
          /\ pc' = [pc EXCEPT ![n] = "server"]
          /\ UNCHANGED stopped
       \/ /\ p \in exited \/ p \notin lock
          /\ stopped' = stopped \cup {p}
          /\ pc' = [pc EXCEPT ![n] = "abandon"]
    /\ UNCHANGED <<ended, node, bound, adds, failedOpen, masq, masqWait, warned, inst, exited, judged, osVars>>

\* Close has seen <-i.exited: DelNode, a failed AddNode or a failed Start goes on.
Closed(n) ==
    /\ alive /\ pc[n] \in {"closing", "abandon"} /\ inst[n] \in exited
    /\ inst' = [inst EXCEPT ![n] = None]
    /\ IF pc[n] = "abandon"
       THEN pc' = [pc EXCEPT ![n] = "server"] /\ warned' = warned \cup {n}
       ELSE pc' = [pc EXCEPT ![n] = "idle"] /\ UNCHANGED warned
    /\ UNCHANGED <<ended, node, bound, adds, failedOpen, masq, masqWait, stopped, exited, judged, osVars>>

\* wait: cmd.Wait returns and exited is closed; then stopped is read and onExit called.
Reap(p) ==
    /\ alive /\ proc[p] = "dead" /\ owner[p] # None /\ p \notin exited
    /\ exited' = exited \cup {p}
    /\ UNCHANGED <<ended, node, pc, bound, adds, failedOpen, masq, masqWait, warned, inst, stopped, judged, osVars>>

Judge(p) ==
    /\ alive /\ p \in exited \ judged
    /\ judged' = judged \cup {p}
    /\ warned' = IF p \in stopped THEN warned ELSE warned \cup {owner[p]}
    /\ UNCHANGED <<ended, node, pc, bound, adds, failedOpen, masq, masqWait, inst, stopped, exited, osVars>>

----------------------------------------------------------------------------
(* The Mimic processes.                                                    *)

\* A second Mimic cannot attach to the interface.
Attach(p) ==
    /\ proc[p] = "starting" /\ \A q \in AllPids : proc[q] # "ready"
    /\ proc' = [proc EXCEPT ![p] = "ready"]
    /\ lock' = lock \cup {p}
    /\ UNCHANGED <<ended, node, pc, bound, adds, failedOpen, masq, masqWait, warned, instVars, owner>>

\* Mutant: the process is not signalled.
NeverSignalled(p) == FALSE

\* The interrupt of cancel, the kill five seconds later, or the death signal.
Signalled(p) == p \in stopped \/ (owner[p] # None /\ ~alive)

\* Only a clean exit removes the lock file.
Die(p) ==
    /\ Live(p)
    /\ proc' = [proc EXCEPT ![p] = "dead"]
    /\ lock' \in {lock, lock \ {p}}
    /\ UNCHANGED <<ended, node, pc, bound, adds, failedOpen, masq, masqWait, warned, instVars, owner>>

Exit(p) == ~Signalled(p) /\ Die(p)

ExitOnSignal(p) == Signalled(p) /\ Die(p)

PidReused(p) ==
    /\ proc[p] = "dead" /\ p \in lock
    /\ owner[p] = None \/ p \in exited
    /\ proc' = [proc EXCEPT ![p] = "foreign"]
    /\ UNCHANGED <<ended, node, pc, bound, adds, failedOpen, masq, masqWait, warned, instVars, owner, lock>>

NodeStep(n) ==
    AddNode(n) \/ NewServer(n) \/ DelNode(n) \/ Start(n) \/ waitReady(n) \/ Closed(n) \/ runMasqTCPServer(n)

ProcessStep(p) ==
    Reap(p) \/ Judge(p) \/ Attach(p) \/ Exit(p) \/ ExitOnSignal(p) \/ PidReused(p)

Next ==
    /\ UNCHANGED setup
    /\ (\E n \in Nodes : NodeStep(n)) \/ (\E p \in AllPids : ProcessStep(p))

\* Goroutines run, waitReady has its deadline, and a signalled process ends: WaitDelay kills
\* the one that does not.
Fairness ==
    /\ \A n \in Nodes : WF_nodeVars(Start(n) \/ waitReady(n) \/ Closed(n) \/ NewServer(n))
    /\ \A p \in AllPids : WF_nodeVars(Reap(p)) /\ WF_nodeVars(ExitOnSignal(p))

Spec == Init /\ [][Next]_vars /\ Fairness

----------------------------------------------------------------------------
TypeOK ==
    /\ ended \in {"no", "config", "masquerade"}
    /\ node \in [Nodes -> {"absent", "serving", "closed"}]
    /\ pc \in [Nodes -> {"idle", "mimic", "waitReady", "abandon", "server", "closing"}]
    /\ bound \in [Nodes -> BOOLEAN]
    /\ \A n \in Nodes : adds[n] \in 0..MaxAdds[n]
    /\ masq \subseteq Nodes \X Nat \X Listeners /\ masqWait \subseteq Nodes \X Nat \X Listeners
    /\ failedOpen \subseteq Nodes /\ warned \subseteq Nodes
    /\ inst \in [Nodes -> Pids \cup {None}]
    /\ proc \in [AllPids -> {"unused", "starting", "ready", "dead", "foreign"}]
    /\ owner \in [AllPids -> Nodes \cup {None}]
    /\ lock \subseteq AllPids
    /\ stopped \subseteq Pids /\ exited \subseteq Pids /\ judged \subseteq exited

(* While the program runs, every Mimic process it started belongs to a     *)
(* node of the map or to an AddNode or DelNode under way: no path of Start, *)
(* AddNode or DelNode leaves a process behind that would rewrite packets    *)
(* for a node that is gone and block the next start.                       *)
MimicHasANode ==
    alive => \A p \in Pids : Live(p) =>
        \E n \in Nodes : inst[n] = p /\ (node[n] # "absent" \/ pc[n] # "idle")

(* A node that is not in the map keeps no socket, unless an AddNode of it  *)
(* failed after the socket was opened: that socket stays open for good and *)
(* every later AddNode of the node fails to listen.                        *)
DeletedReleasesPort ==
    \A n \in Nodes : node[n] = "absent" /\ pc[n] = "idle" /\ bound[n] => n \in failedOpen

(* A masquerade listener ends the program only for a port that something    *)
(* outside may refuse, that its node names twice, or that was taken by an   *)
(* earlier AddNode: nothing ever closes a listener, so that is the first    *)
(* reload of the node, or a second node that names the same port.           *)
FatalNeedsCause ==
    ended = "masquerade" => \E n \in Nodes, k \in Listeners :
        /\ setup.masq[n][k] # None /\ adds[n] > 0
        /\ \/ setup.masq[n][k] \in setup.refused
           \/ setup.masq[n].http = setup.masq[n].https
           \/ adds[n] > 1
           \/ \E m \in Nodes \ {n}, j \in Listeners : setup.masq[m][j] = setup.masq[n][k] /\ adds[m] > 0

(* DelNode and a failing AddNode come back from Mimic's Close: the process *)
(* was signalled before Close waits for its exit.                          *)
CloseReturns ==
    \A n \in Nodes : pc[n] = "closing" ~> (pc[n] = "idle" \/ ~alive)
=============================================================================
