----------------------------- MODULE ResetSecret ----------------------------
(***************************************************************************)
(* The secret that the stateless reset keys of the hysteria2 nodes are     *)
(* derived from (core/hy2/stateless_reset.go): one file beside the         *)
(* configuration, created by the node that first misses it.  Nodes load it *)
(* whenever they are added, each in the goroutine of its controller.  A    *)
(* node that cannot load it uses a random key.  The key of a node is the   *)
(* secret it was derived from; every random key is Random here.            *)
(***************************************************************************)
EXTENDS Naturals

CONSTANTS
    Nodes,
    NoPath,      \* the nodes whose Hysteria2ConfigPath is empty
    Secrets,     \* valid contents of the file
    None,        \* no key yet
    Random,
    Absent,      \* there is no file
    Invalid,     \* a file that is empty or was cut short
    MaxFaults    \* bound: crashes and failing calls

ASSUME NodesAssumption == NoPath \subseteq Nodes

ASSUME SecretsAssumption == {None, Random, Absent, Invalid} \cap Secrets = {}

ASSUME ValuesAssumption == None # Random /\ Absent # Invalid

ASSUME FaultsAssumption == MaxFaults \in Nat

VARIABLES
    file,
    pc,         \* per node: what loadStatelessResetSecret does next
    drawn,      \* per node: the secret it has drawn
    key,        \* per node: the key of its present or last server
    faults,
    undone,     \* history: a file that was complete is about to be removed
    overlapped  \* history: a load began while another one was under way

vars == <<file, pc, drawn, key, faults, undone, overlapped>>

Init ==
    /\ file \in {Absent} \cup Secrets
    /\ pc = [n \in Nodes |-> "idle"]
    /\ drawn \in [Nodes -> Secrets]
    /\ key = [n \in Nodes |-> None]
    /\ faults = 0 /\ undone = FALSE /\ overlapped = FALSE

Goto(n, l) == pc' = [pc EXCEPT ![n] = l]

Fault == faults < MaxFaults /\ faults' = faults + 1

\* getHyConfig takes the key, or nil for a random one.
Return(n, k) == key' = [key EXCEPT ![n] = k] /\ Goto(n, "idle")

\* The node is added: at the start, or again after a change.  Without a configuration there is
\* no file to look for, which is not an error.
Load(n) ==
    /\ pc[n] = "idle"
    /\ \/ n \in NoPath /\ Return(n, Random) /\ UNCHANGED overlapped
       \/ /\ n \notin NoPath /\ Goto(n, "read")
          /\ overlapped' = (overlapped \/ \E m \in Nodes : pc[m] # "idle")
          /\ UNCHANGED key
    /\ UNCHANGED <<file, drawn, faults, undone>>

\* Mutant: a missing file is an error like any other.
ReadFileOnly(n) ==
    /\ pc[n] = "read" /\ Return(n, IF file \in Secrets THEN file ELSE Random)
    /\ UNCHANGED <<file, drawn, faults, undone, overlapped>>

ReadFile(n) ==
    /\ pc[n] = "read"
    /\ \/ file \in Secrets /\ Return(n, file) /\ UNCHANGED <<drawn, faults>>
       \/ file = Invalid /\ Return(n, Random) /\ UNCHANGED <<drawn, faults>>
       \/ /\ file = Absent
          /\ \E s \in Secrets : drawn' = [drawn EXCEPT ![n] = s]
          /\ Goto(n, "create") /\ UNCHANGED <<key, faults>>
       \/ Fault /\ Return(n, Random) /\ UNCHANGED drawn
    /\ UNCHANGED <<file, undone, overlapped>>

\* Mutant: the file is created whether there is one or not, and emptied.
OpenFileTruncating(n) ==
    /\ pc[n] = "create"
    /\ file' = Invalid /\ Goto(n, "write") /\ UNCHANGED <<key, faults>>
    /\ UNCHANGED <<drawn, undone, overlapped>>

\* O_EXCL: one creator; the others find the file and start again.
OpenFile(n) ==
    /\ pc[n] = "create"
    /\ \/ file = Absent /\ file' = Invalid /\ Goto(n, "write") /\ UNCHANGED <<key, faults>>
       \/ file # Absent /\ Goto(n, "read") /\ UNCHANGED <<file, key, faults>>
       \/ Fault /\ Return(n, Random) /\ UNCHANGED file
    /\ UNCHANGED <<drawn, undone, overlapped>>

\* WriteString and Close: the file may be complete when they fail.
Write(n) ==
    /\ pc[n] = "write"
    /\ \/ file' = drawn[n] /\ Return(n, drawn[n]) /\ UNCHANGED <<faults, undone>>
       \/ Fault /\ Goto(n, "remove") /\ UNCHANGED <<file, key, undone>>
       \/ Fault /\ Goto(n, "remove") /\ file' = drawn[n] /\ undone' = TRUE /\ UNCHANGED key
    /\ UNCHANGED <<drawn, overlapped>>

\* The error of Remove is ignored.
Remove(n) ==
    /\ pc[n] = "remove" /\ Return(n, Random)
    /\ \/ file' = Absent /\ UNCHANGED faults
       \/ Fault /\ UNCHANGED file
    /\ UNCHANGED <<drawn, undone, overlapped>>

\* The program ends at any point, and starts again.
Crash ==
    /\ Fault /\ pc' = [n \in Nodes |-> "idle"]
    /\ UNCHANGED <<file, drawn, key, undone, overlapped>>

Call(n) == ReadFile(n) \/ OpenFile(n) \/ Write(n) \/ Remove(n)

Next == Crash \/ \E n \in Nodes : Load(n) \/ Call(n)

Spec == Init /\ [][Next]_vars

----------------------------------------------------------------------------
TypeOK ==
    /\ file \in {Absent, Invalid} \cup Secrets
    /\ pc \in [Nodes -> {"idle", "read", "create", "write", "remove"}]
    /\ drawn \in [Nodes -> Secrets]
    /\ key \in [Nodes -> {None, Random} \cup Secrets]
    /\ faults \in 0..MaxFaults
    /\ undone \in BOOLEAN
    /\ overlapped \in BOOLEAN

(* All nodes with a persistent key derive it from the secret that is in the *)
(* file, whatever crashed or failed and in whatever order they loaded it,   *)
(* except after a Write or Close that failed with the file complete: its    *)
(* secret may have been read before the file is removed.                    *)
OneSecret == undone \/ \A n \in Nodes : key[n] \in Secrets => file = key[n]

(* A node that has a configuration falls back to a random key only if a     *)
(* call failed, the program ended, or two loads overlapped: nodes that load *)
(* one after the other always get the persistent key.                       *)
RandomNeedsCause == (\E n \in Nodes \ NoPath : key[n] = Random) => faults > 0 \/ overlapped

=============================================================================
