------------------------------ MODULE Hy2Proofs -----------------------------
(***************************************************************************)
(* What is proved of the hysteria2 core: of the secret of the reset keys   *)
(* (ResetSecret), of what a node takes from the machine (Hy2Node), of its  *)
(* configuration (Hy2Config), and of the certificate files that it serves  *)
(* from (Certs).  Tags are the nodes of the last three.                    *)
(***************************************************************************)
EXTENDS Hysteria2, CertFiles, TLAPS

----------------------------------------------------------------------------
(* The secret.                                                             *)

(* OneSecret is not inductive: a step that writes or removes the file could *)
(* meet a node that uses its content.  O_EXCL gives the file one creator at *)
(* a time, and until it has written, the content is nobody's key.           *)

Creates(n) == pc[n] \in {"write", "remove"}

OneCreator == \A n, m \in Nodes : Creates(n) /\ Creates(m) => n = m

CreatedExists == \A n \in Nodes : Creates(n) => file # Absent

WritesInvalid == \A n \in Nodes : pc[n] = "write" => file = Invalid

RemovesInvalid == undone \/ \A n \in Nodes : pc[n] = "remove" => file = Invalid

Exclusion == OneCreator /\ CreatedExists /\ WritesInvalid /\ RemovesInvalid

\* The type invariant is inductive: every call returns a key, or moves on to the next one.
THEOREM TypeCorrect == Spec => []TypeOK
<1>1. Init => TypeOK
  <2> SUFFICES ASSUME Init PROVE TypeOK
    OBVIOUS
  <2>1. undone \in BOOLEAN /\ overlapped \in BOOLEAN
    BY Zenon DEF Init
  <2>2. faults \in 0..MaxFaults
    BY FaultsAssumption DEF Init
  <2> QED
    BY <2>1, <2>2 DEF Init, TypeOK
<1>2. TypeOK /\ [Next]_vars => TypeOK'
  <2> SUFFICES ASSUME TypeOK, [Next]_vars PROVE TypeOK'
    OBVIOUS
  <2> USE FaultsAssumption DEF TypeOK, Goto, Fault, Return
  <2>1. CASE Crash
    BY <2>1 DEF Crash
  <2>2. ASSUME NEW n \in Nodes, Load(n) PROVE TypeOK'
    <3>1. overlapped' \in BOOLEAN
      BY <2>2, Zenon DEF Load
    <3> QED
      BY <2>2, <3>1 DEF Load
  <2>3. ASSUME NEW n \in Nodes, ReadFile(n) PROVE TypeOK'
    BY <2>3 DEF ReadFile
  <2>4. ASSUME NEW n \in Nodes, OpenFile(n) PROVE TypeOK'
    BY <2>4 DEF OpenFile
  <2>5. ASSUME NEW n \in Nodes, Write(n) PROVE TypeOK'
    <3>1. undone' \in BOOLEAN
      BY <2>5, Zenon DEF Write
    <3> QED
      BY <2>5, <3>1 DEF Write
  <2>6. ASSUME NEW n \in Nodes, Remove(n) PROVE TypeOK'
    BY <2>6 DEF Remove
  <2>7. CASE UNCHANGED vars
    BY <2>7 DEF vars
  <2> QED
    BY <2>1, <2>2, <2>3, <2>4, <2>5, <2>6, <2>7 DEF Next, Call
<1> QED
  BY <1>1, <1>2, PTL DEF Spec

\* The file has one creator at a time, and what it has not completed stays invalid.
LEMMA ExclusionStep == TypeOK /\ Exclusion /\ [Next]_vars => Exclusion'
<1> SUFFICES ASSUME TypeOK, Exclusion, [Next]_vars PROVE Exclusion'
  OBVIOUS
<1> USE SecretsAssumption, ValuesAssumption DEF TypeOK, Exclusion, OneCreator, CreatedExists, WritesInvalid,
        RemovesInvalid, Creates, Goto, Return
<1>1. CASE Crash
  BY <1>1 DEF Crash
<1>2. ASSUME NEW n \in Nodes, Load(n) PROVE Exclusion'
  BY <1>2 DEF Load
<1>3. ASSUME NEW n \in Nodes, ReadFile(n) PROVE Exclusion'
  BY <1>3 DEF ReadFile
<1>4. ASSUME NEW n \in Nodes, OpenFile(n) PROVE Exclusion'
  BY <1>4 DEF OpenFile
<1>5. ASSUME NEW n \in Nodes, Write(n) PROVE Exclusion'
  BY <1>5 DEF Write
<1>6. ASSUME NEW n \in Nodes, Remove(n) PROVE Exclusion'
  BY <1>6 DEF Remove
<1>7. CASE UNCHANGED vars
  BY <1>7 DEF vars
<1> QED
  BY <1>1, <1>2, <1>3, <1>4, <1>5, <1>6, <1>7 DEF Next, Call

\* All persistent keys come from the secret in the file, unless a complete file was removed.
THEOREM KeysAgree == Spec => []OneSecret
<1>1. Init => Exclusion /\ OneSecret
  BY SecretsAssumption DEF Init, Exclusion, OneCreator, CreatedExists, WritesInvalid, RemovesInvalid, Creates, OneSecret
<1>2. TypeOK /\ Exclusion /\ OneSecret /\ [Next]_vars => OneSecret'
  <2> SUFFICES ASSUME TypeOK, Exclusion, OneSecret, [Next]_vars PROVE OneSecret'
    OBVIOUS
  <2> USE SecretsAssumption DEF TypeOK, OneSecret, Goto, Return
  <2>1. CASE Crash
    BY <2>1 DEF Crash
  <2>2. ASSUME NEW n \in Nodes, Load(n) PROVE OneSecret'
    BY <2>2 DEF Load
  <2>3. ASSUME NEW n \in Nodes, ReadFile(n) PROVE OneSecret'
    BY <2>3 DEF ReadFile
  <2>4. ASSUME NEW n \in Nodes, OpenFile(n) PROVE OneSecret'
    BY <2>4 DEF OpenFile
  <2>5. ASSUME NEW n \in Nodes, Write(n) PROVE OneSecret'
    <3>1. file = Invalid
      BY <2>5 DEF Write, Exclusion, WritesInvalid
    <3> QED
      BY <2>5, <3>1 DEF Write
  <2>6. ASSUME NEW n \in Nodes, Remove(n) PROVE OneSecret'
    <3>1. undone \/ file = Invalid
      BY <2>6 DEF Remove, Exclusion, RemovesInvalid
    <3> QED
      BY <2>6, <3>1 DEF Remove
  <2>7. CASE UNCHANGED vars
    BY <2>7 DEF vars
  <2> QED
    BY <2>1, <2>2, <2>3, <2>4, <2>5, <2>6, <2>7 DEF Next, Call
<1> QED
  BY <1>1, <1>2, TypeCorrect, ExclusionStep, PTL DEF Spec

----------------------------------------------------------------------------
(* Without faults and overlap there is at most one load, and an invalid     *)
(* file is the one it is writing.                                           *)

Undisturbed == faults = 0 /\ ~overlapped

OneLoad == \A n, m \in Nodes : pc[n] # "idle" /\ pc[m] # "idle" => n = m

InvalidIsBeingWritten == file = Invalid => \E n \in Nodes : pc[n] = "write"

NoRemoval == \A n \in Nodes : pc[n] # "remove" /\ (n \in NoPath \/ key[n] # Random)

Sequential == Undisturbed => OneLoad /\ InvalidIsBeingWritten /\ NoRemoval

\* A random key needs a failed call, a crash or two loads at a time.
THEOREM RandomIsExplained == Spec => []RandomNeedsCause
<1>1. Init => Sequential
  BY SecretsAssumption, ValuesAssumption
  DEF Init, Sequential, OneLoad, InvalidIsBeingWritten, NoRemoval
<1>2. TypeOK /\ Sequential /\ [Next]_vars => Sequential'
  <2> SUFFICES ASSUME TypeOK, Sequential, [Next]_vars, Undisturbed' PROVE (OneLoad /\ InvalidIsBeingWritten /\ NoRemoval)'
    BY DEF Sequential
  <2> USE SecretsAssumption, ValuesAssumption
      DEF TypeOK, Goto, Return, Fault, Undisturbed, OneLoad, InvalidIsBeingWritten, NoRemoval
  <2>1. CASE Crash
    BY <2>1 DEF Crash
  <2>2. ASSUME NEW n \in Nodes, Load(n) PROVE (OneLoad /\ InvalidIsBeingWritten /\ NoRemoval)'
    <3>1. CASE n \in NoPath
      BY <2>2, <3>1 DEF Load, Sequential
    <3>2. CASE n \notin NoPath
      <4>1. ~overlapped /\ \A m \in Nodes : pc[m] = "idle"
        BY <2>2, <3>2, Zenon DEF Load
      <4>2. faults = 0
        BY <2>2 DEF Load
      <4> QED
        BY <2>2, <3>2, <4>1, <4>2 DEF Load, Sequential
    <3> QED
      BY <3>1, <3>2
  <2>3. ASSUME NEW n \in Nodes, ReadFile(n) PROVE (OneLoad /\ InvalidIsBeingWritten /\ NoRemoval)'
    BY <2>3 DEF ReadFile, Sequential
  <2>4. ASSUME NEW n \in Nodes, OpenFile(n) PROVE (OneLoad /\ InvalidIsBeingWritten /\ NoRemoval)'
    BY <2>4 DEF OpenFile, Sequential
  <2>5. ASSUME NEW n \in Nodes, Write(n) PROVE (OneLoad /\ InvalidIsBeingWritten /\ NoRemoval)'
    BY <2>5 DEF Write, Sequential
  <2>6. ASSUME NEW n \in Nodes, Remove(n) PROVE (OneLoad /\ InvalidIsBeingWritten /\ NoRemoval)'
    BY <2>6 DEF Remove, Sequential
  <2>7. CASE UNCHANGED vars
    BY <2>7 DEF vars, Sequential
  <2> QED
    BY <2>1, <2>2, <2>3, <2>4, <2>5, <2>6, <2>7 DEF Next, Call
<1>3. TypeOK /\ Sequential => RandomNeedsCause
  BY DEF TypeOK, Sequential, Undisturbed, NoRemoval, RandomNeedsCause
<1> QED
  BY <1>1, <1>2, <1>3, TypeCorrect, PTL DEF Spec

----------------------------------------------------------------------------
(* The machine.                                                            *)

\* A process has left before its exit is known, and is one that was started here.
ExitedIsDead == \A p \in exited : proc[p] \in {"dead", "foreign"} /\ owner[p] # None

\* Only a node that has an instance waits for it.
WaitsForInstance == \A n \in Tags : nodePc[n] \in {"waitReady", "abandon", "closing"} => inst[n] # None

MachineTyped ==
    /\ Machine!TypeOK /\ adds \in [Tags -> Nat]
    /\ ExitedIsDead /\ WaitsForInstance
    /\ owner[Outside] = None

\* The steps of the machine, one by one.
LEMMA MachineSteps ==
    ASSUME [Machine!Next]_(Machine!vars)
    PROVE  \/ UNCHANGED Machine!vars
           \/ /\ UNCHANGED setup
              /\ \/ \E n \in Tags : \/ Machine!AddNode(n) \/ Machine!NewServer(n) \/ Machine!DelNode(n)
                                    \/ Machine!Start(n) \/ Machine!waitReady(n) \/ Machine!Closed(n)
                                    \/ Machine!runMasqTCPServer(n)
                 \/ \E p \in Pids \cup {Outside} :
                       \/ Machine!Reap(p) \/ Machine!Judge(p) \/ Machine!Attach(p) \/ Machine!Die(p)
                       \/ Machine!PidReused(p)
BY Zenon DEF Machine!Next, Machine!NodeStep, Machine!ProcessStep, Machine!AllPids, Machine!Exit, Machine!ExitOnSignal

\* The types hold at the start.
LEMMA MachineTypedInit ==
    ASSUME MachineAssumption, Machine!Init
    PROVE  MachineTyped
<1> USE DEF MachineAssumption, Machine!Init, Machine!AllPids
<1>1. \A n \in Tags : adds[n] = 0 /\ 0 \in 0..MaxAdds[n]
  OBVIOUS
<1>2. proc \in [Pids \cup {Outside} -> {"unused", "starting", "ready", "dead", "foreign"}]
  OBVIOUS
<1>3. Machine!TypeOK
  BY <1>1, <1>2 DEF Machine!TypeOK
<1> QED
  BY <1>1, <1>3 DEF MachineTyped, ExitedIsDead, WaitsForInstance

\* Every step keeps the types.
LEMMA MachineTypedStep ==
    ASSUME MachineAssumption, MachineTyped, [Machine!Next]_(Machine!vars)
    PROVE  MachineTyped'
<1> USE DEF MachineAssumption, MachineTyped, ExitedIsDead, WaitsForInstance,
        Machine!TypeOK, Machine!AllPids, Machine!instVars, Machine!osVars, Machine!alive
<1>1. ASSUME NEW n \in Tags, Machine!AddNode(n) PROVE MachineTyped'
  <2>1. /\ adds[n] \in Nat /\ adds[n] + 1 \in 0..MaxAdds[n] /\ adds' = [adds EXCEPT ![n] = adds[n] + 1]
        /\ masqWait' \subseteq masqWait \cup {n} \X {adds[n] + 1} \X Machine!Listeners
    BY <1>1 DEF Machine!AddNode, Machine!getHyConfig, Machine!MasqStarted
  <2>2. /\ \A m \in Tags : adds'[m] \in 0..MaxAdds[m]
        /\ adds' \in [Tags -> Nat] /\ masqWait' \subseteq Tags \X Nat \X Machine!Listeners
    BY <2>1
  <2>3. /\ ended' \in {"no", "config", "masquerade"}
        /\ nodePc' \in [Tags -> {"idle", "mimic", "waitReady", "abandon", "server", "closing"}]
        /\ bound' \in [Tags -> BOOLEAN]
        /\ failedOpen' \subseteq Tags /\ warned' \subseteq Tags
        /\ \A m \in Tags : nodePc'[m] \in {"waitReady", "abandon", "closing"} => nodePc'[m] = nodePc[m]
    <3>1. /\ ended' = ended \/ ended' = "config"
          /\ nodePc' = nodePc \/ \E p \in {"mimic", "server"} : nodePc' = [nodePc EXCEPT ![n] = p]
          /\ bound' = bound \/ bound' = [bound EXCEPT ![n] = TRUE]
          /\ failedOpen' \in {failedOpen, failedOpen \cup {n}} /\ warned' = warned \ {n}
      <4> HIDE DEF MachineTyped, Machine!TypeOK, ExitedIsDead, WaitsForInstance
      <4> QED
        BY <1>1 DEF Machine!AddNode, Machine!getHyConfig
    <3>2. /\ nodePc' \in [Tags -> {"idle", "mimic", "waitReady", "abandon", "server", "closing"}]
          /\ \A m \in Tags : nodePc'[m] \in {"waitReady", "abandon", "closing"} => nodePc'[m] = nodePc[m]
      BY <3>1
    <3>3. bound' \in [Tags -> BOOLEAN]
      BY <3>1
    <3> QED
      BY <3>1, <3>2, <3>3
  <2>4. UNCHANGED <<node, masq, inst, stopped, exited, judged, proc, owner, lock>>
    BY <1>1 DEF Machine!AddNode
  <2>5. /\ node' \in [Tags -> {"absent", "serving", "closed"}] /\ inst' \in [Tags -> Pids \cup {None}]
        /\ proc' \in [Pids \cup {Outside} -> {"unused", "starting", "ready", "dead", "foreign"}]
        /\ owner' \in [Pids \cup {Outside} -> Tags \cup {None}] /\ lock' \subseteq Pids \cup {Outside}
        /\ stopped' \subseteq Pids /\ exited' \subseteq Pids /\ judged' \subseteq exited'
    BY <2>4
  <2>6. ExitedIsDead'
    BY <2>4
  <2>7. WaitsForInstance'
    BY <2>3, <2>4
  <2>8. /\ nodePc' \in [Tags -> {"idle", "mimic", "waitReady", "abandon", "server", "closing"}]
        /\ bound' \in [Tags -> BOOLEAN]
        /\ failedOpen' \subseteq Tags /\ warned' \subseteq Tags
    BY <2>3
  <2>9. Machine!TypeOK'
    <3>1. masq' \subseteq Tags \X Nat \X Machine!Listeners
      BY <2>4
    <3>2. ended' \in {"no", "config", "masquerade"}
      BY <2>3
    <3>3. masqWait' \subseteq Tags \X Nat \X Machine!Listeners /\ \A m \in Tags : adds'[m] \in 0..MaxAdds[m]
      BY <2>2
    <3> HIDE DEF MachineTyped, MachineAssumption, ExitedIsDead, WaitsForInstance
    <3> QED
      BY <3>1, <3>2, <3>3, <2>5, <2>8
  <2>10. owner'[Outside] = None
    BY <2>4
  <2> HIDE DEF Machine!TypeOK, ExitedIsDead, WaitsForInstance
  <2> QED
    BY <2>2, <2>6, <2>7, <2>9, <2>10
<1>2. ASSUME NEW n \in Tags, Machine!NewServer(n) PROVE MachineTyped'
  <2>1. UNCHANGED <<ended, adds, masq, masqWait, warned, inst, exited, judged, proc, owner, lock>>
    BY <1>2 DEF Machine!NewServer
  <2>2. /\ node' \in [Tags -> {"absent", "serving", "closed"}] /\ bound' \in [Tags -> BOOLEAN]
        /\ failedOpen' \subseteq Tags
    BY <1>2 DEF Machine!NewServer
  <2>3. \/ nodePc' = [nodePc EXCEPT ![n] = "idle"] /\ stopped' = stopped
        \/ Machine!CloseMimic(n)
    BY <1>2 DEF Machine!NewServer
  <2>4. /\ nodePc' \in [Tags -> {"idle", "mimic", "waitReady", "abandon", "server", "closing"}]
        /\ stopped' \subseteq Pids
        /\ \A m \in Tags : nodePc'[m] \in {"waitReady", "abandon", "closing"} => inst[m] # None
    BY <2>3 DEF Machine!CloseMimic
  <2> QED
    BY <2>1, <2>2, <2>4
<1>3. ASSUME NEW n \in Tags, Machine!DelNode(n) PROVE MachineTyped'
  BY <1>3 DEF Machine!DelNode, Machine!CloseMimic, Machine!ServerClosed
<1>4. ASSUME NEW n \in Tags, Machine!Start(n) PROVE MachineTyped'
  BY <1>4 DEF Machine!Start, Machine!runningOn
<1>5. ASSUME NEW n \in Tags, Machine!waitReady(n) PROVE MachineTyped'
  BY <1>5 DEF Machine!waitReady
<1>6. ASSUME NEW n \in Tags, Machine!Closed(n) PROVE MachineTyped'
  BY <1>6 DEF Machine!Closed
<1>7. ASSUME NEW n \in Tags, Machine!runMasqTCPServer(n) PROVE MachineTyped'
  BY <1>7 DEF Machine!runMasqTCPServer
<1>8. ASSUME NEW p \in Pids \cup {Outside}, Machine!Reap(p) PROVE MachineTyped'
  BY <1>8 DEF Machine!Reap
<1>9. ASSUME NEW p \in Pids \cup {Outside}, Machine!Judge(p) PROVE MachineTyped'
  BY <1>9 DEF Machine!Judge
<1>10. ASSUME NEW p \in Pids \cup {Outside}, Machine!Attach(p) PROVE MachineTyped'
  BY <1>10 DEF Machine!Attach
<1>11. ASSUME NEW p \in Pids \cup {Outside}, Machine!Die(p) PROVE MachineTyped'
  BY <1>11 DEF Machine!Die, Machine!Live
<1>12. ASSUME NEW p \in Pids \cup {Outside}, Machine!PidReused(p) PROVE MachineTyped'
  BY <1>12 DEF Machine!PidReused
<1>13. CASE UNCHANGED Machine!vars
  BY <1>13 DEF Machine!vars, Machine!nodeVars
<1> QED
  BY <1>1, <1>2, <1>3, <1>4, <1>5, <1>6, <1>7, <1>8, <1>9, <1>10, <1>11, <1>12, <1>13, MachineSteps, Zenon

(* The variables of Hy2Node keep their types, which includes that only a    *)
(* process started here is waited for (mimic.go).                           *)
THEOREM MachineTypeOK == ASSUME MachineAssumption PROVE Machine!Spec => []Machine!TypeOK
<1>1. Machine!Init => MachineTyped
  BY MachineTypedInit
<1>2. MachineTyped /\ [Machine!Next]_(Machine!vars) => MachineTyped'
  BY MachineTypedStep
<1>3. MachineTyped => Machine!TypeOK
  BY DEF MachineTyped
<1> QED
  BY <1>1, <1>2, <1>3, PTL DEF Machine!Spec

----------------------------------------------------------------------------
(* A process that runs is the instance of the node it was started for, and  *)
(* an instance is kept until its process has left: Close waits for it.      *)

LiveIsKept ==
    \A p \in Pids : Machine!Live(p) => owner[p] \in Tags /\ inst[owner[p]] = p

InstanceHasANode == \A n \in Tags : inst[n] # None => node[n] # "absent" \/ nodePc[n] # "idle"

StartsWithNone == \A n \in Tags : nodePc[n] = "mimic" => inst[n] = None

ProcessInv == LiveIsKept /\ InstanceHasANode /\ StartsWithNone

\* Every step keeps the processes with their nodes.
LEMMA ProcessStep ==
    ASSUME MachineAssumption, MachineTyped, ProcessInv, [Machine!Next]_(Machine!vars)
    PROVE  ProcessInv'
<1> USE DEF MachineAssumption, ProcessInv, LiveIsKept, InstanceHasANode, StartsWithNone, Machine!Live,
        Machine!instVars, Machine!osVars
<1>0. /\ node \in [Tags -> {"absent", "serving", "closed"}]
      /\ nodePc \in [Tags -> {"idle", "mimic", "waitReady", "abandon", "server", "closing"}]
      /\ inst \in [Tags -> Pids \cup {None}]
      /\ proc \in [Pids \cup {Outside} -> {"unused", "starting", "ready", "dead", "foreign"}]
      /\ owner \in [Pids \cup {Outside} -> Tags \cup {None}]
      /\ ExitedIsDead
  BY DEF MachineTyped, Machine!TypeOK, Machine!AllPids
<1>1. ASSUME NEW n \in Tags, Machine!AddNode(n) PROVE ProcessInv'
  <2>1. /\ nodePc[n] = "idle" /\ node[n] = "absent"
        /\ UNCHANGED <<node, inst, proc, owner>>
        /\ nodePc' = nodePc \/ \E l \in {"mimic", "server"} : nodePc' = [nodePc EXCEPT ![n] = l]
    BY <1>1 DEF Machine!AddNode, Machine!getHyConfig
  <2> QED
    BY <1>0, <2>1
<1>2. ASSUME NEW n \in Tags, Machine!NewServer(n) PROVE ProcessInv'
  <2>1. /\ UNCHANGED <<inst, proc, owner>>
        /\ \/ node' = [node EXCEPT ![n] = "serving"] /\ nodePc' = [nodePc EXCEPT ![n] = "idle"]
           \/ UNCHANGED node /\ Machine!CloseMimic(n)
    BY <1>2 DEF Machine!NewServer
  <2> QED
    BY <1>0, <2>1 DEF Machine!CloseMimic
<1>3. ASSUME NEW n \in Tags, Machine!DelNode(n) PROVE ProcessInv'
  <2>1. /\ UNCHANGED <<inst, proc, owner>>
        /\ \/ node' = [node EXCEPT ![n] = "closed"] /\ UNCHANGED nodePc
           \/ node' = [node EXCEPT ![n] = "absent"] /\ Machine!CloseMimic(n)
    BY <1>3 DEF Machine!DelNode
  <2> QED
    BY <1>0, <2>1 DEF Machine!CloseMimic
<1>4. ASSUME NEW n \in Tags, Machine!Start(n) PROVE ProcessInv'
  <2>1. /\ nodePc[n] = "mimic" /\ UNCHANGED node
        /\ \/ nodePc' = [nodePc EXCEPT ![n] = "server"] /\ UNCHANGED <<inst, proc, owner>>
           \/ \E p \in Pids : /\ proc' = [proc EXCEPT ![p] = "starting"]
                              /\ owner' = [owner EXCEPT ![p] = n]
                              /\ inst' = [inst EXCEPT ![n] = p]
                              /\ nodePc' = [nodePc EXCEPT ![n] = "waitReady"]
    BY <1>4, Zenon DEF Machine!Start
  <2>2. CASE nodePc' = [nodePc EXCEPT ![n] = "server"] /\ UNCHANGED <<inst, proc, owner>>
    BY <1>0, <2>1, <2>2
  <2>3. ASSUME NEW p \in Pids,
               proc' = [proc EXCEPT ![p] = "starting"], owner' = [owner EXCEPT ![p] = n],
               inst' = [inst EXCEPT ![n] = p], nodePc' = [nodePc EXCEPT ![n] = "waitReady"]
        PROVE  ProcessInv'
    BY <1>0, <2>1, <2>3
  <2> QED
    BY <2>1, <2>2, <2>3
<1>5. ASSUME NEW n \in Tags, Machine!waitReady(n) PROVE ProcessInv'
  BY <1>0, <1>5 DEF Machine!waitReady
<1>6. ASSUME NEW n \in Tags, Machine!Closed(n) PROVE ProcessInv'
  BY <1>0, <1>6 DEF Machine!Closed, ExitedIsDead
<1>7. ASSUME NEW n \in Tags, Machine!runMasqTCPServer(n) PROVE ProcessInv'
  BY <1>0, <1>7 DEF Machine!runMasqTCPServer
<1>8. ASSUME NEW p \in Pids \cup {Outside}, Machine!Reap(p) \/ Machine!Judge(p) PROVE ProcessInv'
  BY <1>0, <1>8 DEF Machine!Reap, Machine!Judge
<1>9. ASSUME NEW p \in Pids \cup {Outside}, Machine!Attach(p) PROVE ProcessInv'
  BY <1>0, <1>9 DEF Machine!Attach
<1>10. ASSUME NEW p \in Pids \cup {Outside}, Machine!Die(p) PROVE ProcessInv'
  BY <1>0, <1>10 DEF Machine!Die
<1>11. ASSUME NEW p \in Pids \cup {Outside}, Machine!PidReused(p) PROVE ProcessInv'
  BY <1>0, <1>11 DEF Machine!PidReused
<1>12. CASE UNCHANGED Machine!vars
  BY <1>0, <1>12 DEF Machine!vars, Machine!nodeVars
<1> QED
  BY <1>1, <1>2, <1>3, <1>4, <1>5, <1>6, <1>7, <1>8, <1>9, <1>10, <1>11, <1>12, MachineSteps, Zenon

(* While the program runs, every Mimic process it started belongs to a node *)
(* or to an AddNode or DelNode under way (mimic.go's Start and Close, and    *)
(* the early returns of node.go).                                           *)
THEOREM MimicIsOwned == ASSUME MachineAssumption PROVE Machine!Spec => []MimicHasANode
<1>1. Machine!Init => MachineTyped /\ ProcessInv
  <2> SUFFICES ASSUME Machine!Init PROVE ProcessInv
    BY MachineTypedInit
  <2>1. \A p \in Pids : ~Machine!Live(p)
    BY DEF Machine!Init, Machine!AllPids, Machine!Live, MachineAssumption
  <2> QED
    BY <2>1 DEF Machine!Init, ProcessInv, LiveIsKept, InstanceHasANode, StartsWithNone
<1>2. MachineTyped /\ ProcessInv /\ [Machine!Next]_(Machine!vars) => (MachineTyped /\ ProcessInv)'
  BY MachineTypedStep, ProcessStep
<1>3. ProcessInv => MimicHasANode
  <2> SUFFICES ASSUME ProcessInv, NEW p \in Pids, Machine!Live(p)
               PROVE  \E n \in Tags : inst[n] = p /\ (node[n] # "absent" \/ nodePc[n] # "idle")
    BY DEF MimicHasANode, Machine!MimicHasANode
  <2> QED
    BY DEF ProcessInv, LiveIsKept, InstanceHasANode, MachineAssumption
<1> QED
  BY <1>1, <1>2, <1>3, PTL DEF Machine!Spec

----------------------------------------------------------------------------
(* The socket is closed before Close of the instance is awaited, so that it *)
(* is already gone while a DelNode or a failed AddNode waits.               *)

GoneReleasesPort ==
    \A n \in Tags : node[n] = "absent" /\ nodePc[n] \in {"idle", "closing"} /\ bound[n] => n \in failedOpen

(* A node that is not in the map keeps no socket, unless an AddNode of it   *)
(* failed after ListenUDP (config.go's early returns).                      *)
THEOREM PortsAreReleased == ASSUME MachineAssumption PROVE Machine!Spec => []DeletedReleasesPort
<1>1. Machine!Init => MachineTyped /\ GoneReleasesPort
  BY MachineTypedInit DEF Machine!Init, GoneReleasesPort
<1>2. MachineTyped /\ GoneReleasesPort /\ [Machine!Next]_(Machine!vars) => GoneReleasesPort'
  <2> SUFFICES ASSUME MachineTyped, GoneReleasesPort, [Machine!Next]_(Machine!vars) PROVE GoneReleasesPort'
    OBVIOUS
  <2> USE DEF GoneReleasesPort, Machine!instVars, Machine!osVars
  <2>0. /\ node \in [Tags -> {"absent", "serving", "closed"}] /\ bound \in [Tags -> BOOLEAN]
        /\ nodePc \in [Tags -> {"idle", "mimic", "waitReady", "abandon", "server", "closing"}]
    BY DEF MachineTyped, Machine!TypeOK
  <2>1. ASSUME NEW n \in Tags, Machine!AddNode(n) PROVE GoneReleasesPort'
    BY <2>0, <2>1 DEF Machine!AddNode, Machine!getHyConfig
  <2>2. ASSUME NEW n \in Tags, Machine!NewServer(n) PROVE GoneReleasesPort'
    BY <2>0, <2>2 DEF Machine!NewServer, Machine!CloseMimic
  <2>3. ASSUME NEW n \in Tags, Machine!DelNode(n) PROVE GoneReleasesPort'
    BY <2>0, <2>3 DEF Machine!DelNode, Machine!CloseMimic, Machine!ServerClosed
  <2>4. ASSUME NEW n \in Tags, Machine!Start(n) PROVE GoneReleasesPort'
    BY <2>0, <2>4 DEF Machine!Start
  <2>5. ASSUME NEW n \in Tags, Machine!waitReady(n) PROVE GoneReleasesPort'
    BY <2>0, <2>5 DEF Machine!waitReady
  <2>6. ASSUME NEW n \in Tags, Machine!Closed(n) PROVE GoneReleasesPort'
    BY <2>0, <2>6 DEF Machine!Closed
  <2>7. ASSUME NEW n \in Tags, Machine!runMasqTCPServer(n) PROVE GoneReleasesPort'
    BY <2>7 DEF Machine!runMasqTCPServer
  <2>8. ASSUME NEW p \in Pids \cup {Outside},
               \/ Machine!Reap(p) \/ Machine!Judge(p) \/ Machine!Attach(p) \/ Machine!Die(p) \/ Machine!PidReused(p)
        PROVE  GoneReleasesPort'
    BY <2>8 DEF Machine!Reap, Machine!Judge, Machine!Attach, Machine!Die, Machine!PidReused
  <2>9. CASE UNCHANGED Machine!vars
    BY <2>9 DEF Machine!vars, Machine!nodeVars
  <2> QED
    BY <2>1, <2>2, <2>3, <2>4, <2>5, <2>6, <2>7, <2>8, <2>9, MachineSteps, Zenon
<1>3. GoneReleasesPort => DeletedReleasesPort
  BY DEF GoneReleasesPort, DeletedReleasesPort, Machine!DeletedReleasesPort
<1> QED
  BY <1>1, <1>2, <1>3, MachineTypedStep, PTL DEF Machine!Spec

----------------------------------------------------------------------------
(* A listener carries the number of its AddNode, so that two listeners of   *)
(* one port belong to two nodes, to two calls for one node, or to one call  *)
(* whose two addresses are the same.                                        *)

ListenersOfAdds ==
    \A w \in masq \cup masqWait : w[2] \in 1..adds[w[1]] /\ setup.masq[w[1]][w[3]] # None

ListenOnce == masq \cap masqWait = {}

MasqInv == ListenersOfAdds /\ ListenOnce /\ Machine!FatalNeedsCause

(* A masquerade listener ends the program only for a port that something    *)
(* outside may refuse, that its node names twice, that an earlier AddNode   *)
(* of the node has, or that another node names too (runMasqTCPServer).      *)
THEOREM FatalHasCause == ASSUME MachineAssumption PROVE Machine!Spec => []FatalNeedsCause
<1>1. Machine!Init => MachineTyped /\ MasqInv
  BY MachineTypedInit DEF Machine!Init, MasqInv, ListenersOfAdds, ListenOnce, Machine!FatalNeedsCause
<1>2. MachineTyped /\ MasqInv /\ [Machine!Next]_(Machine!vars) => MasqInv'
  <2> SUFFICES ASSUME MachineTyped, MasqInv, [Machine!Next]_(Machine!vars) PROVE MasqInv'
    OBVIOUS
  <2> USE DEF MasqInv, ListenersOfAdds, ListenOnce, Machine!FatalNeedsCause, Machine!alive,
          Machine!instVars, Machine!osVars
  <2>0. /\ adds \in [Tags -> Nat]
        /\ masq \subseteq Tags \X Nat \X Machine!Listeners /\ masqWait \subseteq Tags \X Nat \X Machine!Listeners
    BY DEF MachineTyped, Machine!TypeOK
  <2>1. ASSUME UNCHANGED setup, NEW n \in Tags, Machine!AddNode(n) PROVE MasqInv'
    <3>1. /\ ended = "no" /\ ended' \in {"no", "config"} /\ UNCHANGED masq
          /\ adds' = [adds EXCEPT ![n] = adds[n] + 1]
          /\ masqWait' = masqWait \/ masqWait' = Machine!MasqStarted(n)
      BY <2>1 DEF Machine!AddNode, Machine!getHyConfig
    <3>2. \A w \in masqWait' : w \in masqWait \/ (w[1] = n /\ w[2] = adds[n] + 1 /\ setup.masq[n][w[3]] # None)
      BY <3>1 DEF Machine!MasqStarted
    <3>3. \A m \in Tags : adds'[m] \in Nat /\ adds[m] <= adds'[m] /\ adds'[n] = adds[n] + 1
      BY <2>0, <3>1
    <3>4. \A w \in masq \cup masqWait : w[1] \in Tags /\ w[2] \in Nat
      BY <2>0
    <3>5. ListenersOfAdds'
      <4>1. ASSUME NEW w \in masq \cup masqWait PROVE w[2] \in 1..adds'[w[1]] /\ setup.masq[w[1]][w[3]] # None
        BY <2>0, <3>3, <3>4
      <4> QED
        BY <2>0, <2>1, <3>1, <3>2, <3>3, <4>1
    <3>6. ListenOnce'
      <4>1. \A w \in masq : w[1] = n => w[2] <= adds[n]
        BY <2>0, <3>4
      <4> QED
        BY <2>0, <3>1, <3>2, <4>1
    <3> QED
      BY <3>1, <3>5, <3>6
  <2>2. ASSUME UNCHANGED setup, NEW n \in Tags, Machine!runMasqTCPServer(n) PROVE MasqInv'
    <3>1. PICK w \in masqWait :
            /\ masqWait' = masqWait \ {w} /\ UNCHANGED adds
            /\ \/ masq' = masq \cup {w} /\ UNCHANGED ended
               \/ /\ UNCHANGED masq
                  /\ \/ setup.masq[w[1]][w[3]] \in setup.refused
                     \/ \E v \in masq : setup.masq[v[1]][v[3]] = setup.masq[w[1]][w[3]]
      BY <2>2 DEF Machine!runMasqTCPServer, Machine!Listens
    <3>2. ended = "no"
      BY <2>2 DEF Machine!runMasqTCPServer
    <3>3. ListenersOfAdds' /\ ListenOnce'
      BY <2>2, <3>1
    <3>4. /\ w = <<w[1], w[2], w[3]>> /\ w[1] \in Tags /\ w[2] \in Nat /\ w[3] \in Machine!Listeners
          /\ setup.masq[w[1]][w[3]] # None /\ adds[w[1]] > 0
      BY <2>0
    <3>5. CASE masq' = masq \cup {w} /\ UNCHANGED ended
      BY <3>2, <3>3, <3>5
    <3>6. CASE setup.masq[w[1]][w[3]] \in setup.refused
      BY <2>2, <3>1, <3>3, <3>4, <3>6
    <3>7. ASSUME NEW v \in masq, setup.masq[v[1]][v[3]] = setup.masq[w[1]][w[3]] PROVE MasqInv'
      <4>1. /\ v = <<v[1], v[2], v[3]>> /\ v[1] \in Tags /\ v[2] \in Nat /\ v[3] \in Machine!Listeners
            /\ adds[v[1]] > 0 /\ v # w
        BY <2>0, <3>1
      <4>2. CASE v[1] # w[1]
        BY <2>2, <3>1, <3>3, <3>4, <3>7, <4>1, <4>2
      <4>3. CASE v[1] = w[1] /\ v[2] # w[2]
        <5>1. v[2] \in 1..adds[w[1]] /\ w[2] \in 1..adds[w[1]]
          BY <4>3
        <5>2. adds[w[1]] > 1
          BY <2>0, <3>4, <4>3, <5>1
        <5> QED
          BY <2>2, <3>1, <3>3, <3>4, <5>2
      <4>4. CASE v[1] = w[1] /\ v[2] = w[2]
        <5>1. v[3] # w[3]
          BY <3>4, <4>1, <4>4
        <5>2. setup.masq[w[1]].http = setup.masq[w[1]].https
          BY <3>4, <3>7, <4>1, <4>4, <5>1 DEF Machine!Listeners
        <5> QED
          BY <2>2, <3>1, <3>3, <3>4, <5>2
      <4> QED
        BY <4>2, <4>3, <4>4
    <3> QED
      BY <3>1, <3>5, <3>6, <3>7
  <2>3. ASSUME NEW n \in Tags, Machine!NewServer(n), UNCHANGED setup PROVE MasqInv'
    BY <2>3 DEF Machine!NewServer
  <2>4. ASSUME NEW n \in Tags, UNCHANGED setup,
               Machine!DelNode(n) \/ Machine!Start(n) \/ Machine!waitReady(n) \/ Machine!Closed(n)
        PROVE  MasqInv'
    BY <2>4 DEF Machine!DelNode, Machine!Start, Machine!waitReady, Machine!Closed
  <2>5. ASSUME NEW p \in Pids \cup {Outside}, UNCHANGED setup,
               \/ Machine!Reap(p) \/ Machine!Judge(p) \/ Machine!Attach(p) \/ Machine!Die(p) \/ Machine!PidReused(p)
        PROVE  MasqInv'
    BY <2>5 DEF Machine!Reap, Machine!Judge, Machine!Attach, Machine!Die, Machine!PidReused
  <2>6. CASE UNCHANGED Machine!vars
    BY <2>6 DEF Machine!vars, Machine!nodeVars
  <2> QED
    BY <2>1, <2>2, <2>3, <2>4, <2>5, <2>6, MachineSteps, Zenon
<1>3. MasqInv => FatalNeedsCause
  BY DEF MasqInv, FatalNeedsCause
<1> QED
  BY <1>1, <1>2, <1>3, MachineTypedStep, PTL DEF Machine!Spec

----------------------------------------------------------------------------
(* The configuration.  The numbers are those of the fields' Go types: window *)
(* sizes are unsigned, times, streams and multipliers may be negative.       *)

\* The product with a million is an int64.
MaxMbps == 9000000000000

ConfigAssumption ==
    /\ Unset \notin Int
    /\ \A cf \in Configs :
          /\ cf.quic \in [initStream: Nat, maxStream: Nat, initConn: Nat, maxConn: Nat, idle: Int, streams: Int]
          /\ \A m \in {cf.redundancy.multiplier, cf.redundancy.writeTo, cf.redundancy.sendMessage} : m \in Int \cup {Unset}
          /\ cf.up \in 0..MaxMbps /\ cf.down \in 0..MaxMbps
          /\ cf.udpIdle \in Int

BuiltIsChecked == stage = "built" => ~hy.error /\ hy = Config!getHyConfig(c)

StageOK == c \in Configs /\ stage \in {"read", "built", "serving", "refused", "rejected"}

ConfigInv == StageOK /\ BuiltIsChecked /\ Config!RejectedOnlyForUnchecked

\* What getQUICConfig accepts, fill accepts too: its defaults are in range.
LEMMA QUICAccepted ==
    ASSUME NEW q \in [initStream: Nat, maxStream: Nat, initConn: Nat, maxConn: Nat, idle: Int, streams: Int],
           NEW b, b = Config!getQUICConfig(q), ~b.error
    PROVE  /\ \A w \in {b.initStream, b.maxStream, b.initConn, b.maxConn} : ~(w # 0 /\ w < 16)
           /\ ~(b.idle # 0 /\ (b.idle < 4 \/ b.idle > 120))
           /\ ~(b.streams # 0 /\ b.streams < 8)
<1> DEFINE wrong == \/ \E w \in {q.initStream, q.maxStream, q.initConn, q.maxConn} : Config!WindowTooSmall(w)
                    \/ q.idle # 0 /\ (q.idle < 4 \/ q.idle > 120)
                    \/ q.streams # 0 /\ q.streams < 8
<1>1. ~wrong
  <2> SUFFICES ASSUME wrong PROVE FALSE
    OBVIOUS
  <2>1. b = [error |-> TRUE]
    BY DEF Config!getQUICConfig, Config!Error
  <2> QED
    BY <2>1
<1>2. b = [error |-> FALSE,
           initStream |-> IF q.initStream = 0 THEN 8192 ELSE 0,
           maxStream |-> IF q.maxStream = 0 THEN 8192 ELSE q.maxStream,
           initConn |-> IF q.initConn = 0 THEN 20480 ELSE q.initConn,
           maxConn |-> IF q.maxConn = 0 THEN 20480 ELSE q.maxConn,
           idle |-> IF q.idle = 0 THEN 30 ELSE q.idle,
           streams |-> IF q.streams = 0 THEN 4096 ELSE q.streams]
  BY <1>1 DEF Config!getQUICConfig, Config!OrDefault, Config!defaultStreamReceiveWindow, Config!defaultConnReceiveWindow
<1> QED
  BY <1>1, <1>2 DEF Config!WindowTooSmall

\* The same for the multipliers: one that is not set takes the legacy one, or 1.
LEMMA MultipliersAccepted ==
    ASSUME Unset \notin Int, NEW r,
           \A m \in {r.multiplier, r.writeTo, r.sendMessage} : m \in Int \cup {Unset},
           NEW b, b = Config!getUDPForwardingRedundancyMultipliers(r), ~b.error
    PROVE  b.WriteTo \in 1..100 /\ b.SendMessage \in 1..100
<1>1. \A m \in {r.multiplier, r.writeTo, r.sendMessage} : ~Config!InvalidMultiplier(m)
  <2> SUFFICES ASSUME ~(\A m \in {r.multiplier, r.writeTo, r.sendMessage} : ~Config!InvalidMultiplier(m)) PROVE FALSE
    OBVIOUS
  <2>1. b = [error |-> TRUE]
    BY DEF Config!getUDPForwardingRedundancyMultipliers, Config!Error
  <2> QED
    BY <2>1
<1>2. \A m \in {r.multiplier, r.writeTo, r.sendMessage} : m = Unset \/ m \in 1..100
  BY <1>1 DEF Config!InvalidMultiplier
<1>3. PICK l : l = (IF r.multiplier = Unset THEN 1 ELSE r.multiplier)
  OBVIOUS
<1>4. l \in 1..100
  BY <1>2, <1>3
<1>5. \/ b = [error |-> FALSE, WriteTo |-> 1, SendMessage |-> 1]
      \/ b = [error |-> FALSE,
              WriteTo |-> IF r.writeTo = Unset THEN l ELSE r.writeTo,
              SendMessage |-> IF r.sendMessage = Unset THEN l ELSE r.sendMessage]
  BY <1>1, <1>3 DEF Config!getUDPForwardingRedundancyMultipliers
<1> QED
  BY <1>2, <1>4, <1>5

\* A rate is either not set or at least 125000 bytes per second.
LEMMA BandwidthAccepted ==
    ASSUME NEW mbps \in Nat
    PROVE  ~(Config!getBandwidthConfig(mbps) # 0 /\ Config!getBandwidthConfig(mbps) < 65536)
<1>1. mbps # 0 => (mbps * 1000000) \div 8 >= 125000
  BY SMT
<1>2. mbps = 0 => (mbps * 1000000) \div 8 = 0
  BY SMT
<1> QED
  BY <1>1, <1>2, SMT DEF Config!getBandwidthConfig

\* What getHyConfig accepts and the server rejects has a field that is passed on unchecked.
LEMMA RejectedHasCause ==
    ASSUME ConfigAssumption, NEW cf \in Configs,
           ~Config!getHyConfig(cf).error, Config!FillRejects(Config!getHyConfig(cf))
    PROVE  cf.congestion \notin {"bbr", "reno"} \/ cf.udpIdle \notin {0} \cup 2..600
<1>1. PICK q : q = Config!getQUICConfig(cf.quic)
  OBVIOUS
<1>2. PICK o : o = Config!getOutboundConfig(cf)
  OBVIOUS
<1>3. PICK m : m = Config!getUDPForwardingRedundancyMultipliers(cf.redundancy)
  OBVIOUS
<1>4. PICK h : h = Config!getHyConfig(cf)
  OBVIOUS
<1>5. ~q.error /\ ~m.error /\ h = [error |-> FALSE, quic |-> q, chain |-> o.chain, multipliers |-> m,
                    congestion |-> cf.congestion, udpIdle |-> cf.udpIdle,
                    MaxTx |-> Config!getBandwidthConfig(cf.up), MaxRx |-> Config!getBandwidthConfig(cf.down)]
  <2>1. ~(q.error \/ m.error)
    <3> SUFFICES ASSUME q.error \/ m.error PROVE FALSE
      OBVIOUS
    <3>1. h = [error |-> TRUE]
      BY <1>1, <1>2, <1>3, <1>4, Zenon DEF Config!getHyConfig, Config!Error
    <3> QED
      BY <1>4, <3>1
  <2>2. h # [error |-> TRUE]
    BY <1>4
  <2> QED
    BY <1>1, <1>2, <1>3, <1>4, <2>1, <2>2, Zenon DEF Config!getHyConfig, Config!Error
<1>6. /\ \A w \in {q.initStream, q.maxStream, q.initConn, q.maxConn} : ~(w # 0 /\ w < 16)
      /\ ~(q.idle # 0 /\ (q.idle < 4 \/ q.idle > 120))
      /\ ~(q.streams # 0 /\ q.streams < 8)
  BY <1>1, <1>5, QUICAccepted DEF ConfigAssumption
<1>7. m.WriteTo \in 1..100 /\ m.SendMessage \in 1..100
  BY <1>3, <1>5, MultipliersAccepted DEF ConfigAssumption
<1>8. /\ ~(h.MaxTx # 0 /\ h.MaxTx < 65536)
      /\ ~(h.MaxRx # 0 /\ h.MaxRx < 65536)
  <2>1. cf.up \in Nat /\ cf.down \in Nat
    BY DEF ConfigAssumption
  <2>2. h.MaxTx = Config!getBandwidthConfig(cf.up) /\ h.MaxRx = Config!getBandwidthConfig(cf.down)
    BY <1>5
  <2> QED
    BY <2>1, <2>2, BandwidthAccepted
<1>9. h.congestion \notin {"bbr", "reno"} \/ (h.udpIdle # 0 /\ (h.udpIdle < 2 \/ h.udpIdle > 600))
  <2>1. Config!FillRejects(h)
    BY <1>4
  <2>2. h.quic = q /\ h.multipliers = m
    BY <1>5
  <2> QED
    BY <1>6, <1>7, <1>8, <2>1, <2>2 DEF Config!FillRejects
<1>10. cf.udpIdle \in Int /\ h.udpIdle = cf.udpIdle /\ h.congestion = cf.congestion
  BY <1>5 DEF ConfigAssumption
<1> QED
  BY <1>9, <1>10

(* Of what getHyConfig accepts, the server rejects only an unknown           *)
(* congestion control or an idle timeout out of range (config.go, and fill   *)
(* of the server).                                                           *)
THEOREM RejectedIsUnchecked == ASSUME ConfigAssumption PROVE Config!Spec => []RejectedOnlyForUnchecked
<1>1. Config!Init => ConfigInv
  BY DEF Config!Init, ConfigInv, StageOK, BuiltIsChecked, Config!RejectedOnlyForUnchecked
<1>2. ConfigInv /\ [Config!Next]_(Config!vars) => ConfigInv'
  <2> SUFFICES ASSUME ConfigInv, [Config!Next]_(Config!vars) PROVE ConfigInv'
    OBVIOUS
  <2> USE DEF ConfigInv, StageOK, BuiltIsChecked, Config!RejectedOnlyForUnchecked
  <2>1. CASE Config!Build
    <3>1. /\ hy' = Config!getHyConfig(c) /\ UNCHANGED c
          /\ stage' \in {"refused", "built"} /\ (stage' = "built" => ~hy'.error)
      BY <2>1 DEF Config!Build
    <3> QED
      BY <3>1
  <2>2. CASE Config!NewServer
    <3>1. /\ stage = "built" /\ UNCHANGED c /\ stage' \in {"rejected", "serving"}
          /\ stage' = "rejected" => Config!FillRejects(hy)
      BY <2>2 DEF Config!NewServer
    <3>2. stage' = "rejected" => c.congestion \notin {"bbr", "reno"} \/ c.udpIdle \notin {0} \cup 2..600
      BY <3>1, RejectedHasCause
    <3> QED
      BY <3>1, <3>2
  <2>3. CASE UNCHANGED Config!vars
    BY <2>3 DEF Config!vars
  <2> QED
    BY <2>1, <2>2, <2>3 DEF Config!Next
<1>3. ConfigInv => RejectedOnlyForUnchecked
  BY DEF ConfigInv, RejectedOnlyForUnchecked
<1> QED
  BY <1>1, <1>2, <1>3, PTL DEF Config!Spec

----------------------------------------------------------------------------
(* The certificates, of any nodes that share them and any bounds.           *)

\* The numbers of certificates are bounded; the bound is that of the mode.
CertsTyped == Pair!TypeOK /\ mode \in {"acme", "self"}

Procedures ==
    {"start", "newLego", "fillAccount", "check", "issue", "openCert", "fillCert",
     "openKey", "fillKey", "addNode", "up", "failed", "rejected"}

\* The steps of the certificates, one by one.
LEMMA CertSteps ==
    ASSUME [Pair!Next]_<<mode, Pair!vars>>
    PROVE  /\ UNCHANGED mode
           /\ \/ UNCHANGED Pair!vars
              \/ Pair!Age \/ Pair!Stop
              \/ \E n \in Sharers :
                    \/ Pair!Start(n) \/ Pair!ReloadNode(n) \/ Pair!RenewCertTask(n) \/ Pair!NewLegoUser(n)
                    \/ Pair!SaveUser(n) \/ Pair!RenewCert(n) \/ Pair!Issue(n) \/ Pair!Write(n)
                    \/ Pair!ReadCert(n) \/ Pair!Reload(n)
BY Zenon DEF Pair!Next, Pair!NodeStep

\* Every step keeps the types.
LEMMA CertsTypedStep ==
    ASSUME CertsAssumption, CertsTyped, [Pair!Next]_<<mode, Pair!vars>>
    PROVE  CertsTyped'
<1>m. UNCHANGED mode
  BY CertSteps, Zenon
<1>k. PICK k \in Nat \ {0} : k = MaxIssued[mode]
  BY DEF CertsTyped, CertsAssumption
<1>s. PICK s \in Nat : s = MaxStops[mode]
  BY DEF CertsTyped, CertsAssumption
<1>0. /\ cert \in 0..k /\ keyFile \in 0..k
      /\ account \in {"absent", "foreign", "torn", "saved"}
      /\ certPc \in [Sharers -> Procedures]
      /\ mine \in [Sharers -> 0..k] /\ cached \in [Sharers -> 0..k] /\ reading \in [Sharers -> 0..k]
      /\ issued \in 1..k /\ due \in 1..k
      /\ stops \in 0..s
  BY <1>k, <1>s DEF CertsTyped, Pair!TypeOK, Procedures
<1>b. cut \in BOOLEAN /\ crossed \in BOOLEAN
  BY Zenon DEF CertsTyped, Pair!TypeOK
<1> DEFINE Typed ==
      /\ cert' \in 0..k /\ keyFile' \in 0..k
      /\ account' \in {"absent", "foreign", "torn", "saved"}
      /\ certPc' \in [Sharers -> Procedures]
      /\ mine' \in [Sharers -> 0..k] /\ cached' \in [Sharers -> 0..k] /\ reading' \in [Sharers -> 0..k]
      /\ issued' \in 1..k /\ due' \in 1..k
      /\ stops' \in 0..s /\ cut' \in BOOLEAN /\ crossed' \in BOOLEAN
<1>1. ASSUME NEW n \in Sharers,
             \/ Pair!Start(n) \/ Pair!RenewCertTask(n) \/ Pair!RenewCert(n)
      PROVE  Typed
  BY <1>0, <1>b, <1>1 DEF Pair!Start, Pair!RenewCertTask, Pair!RenewCert, Pair!To, Pair!requestCert, Procedures
<1>2. ASSUME NEW n \in Sharers, Pair!ReloadNode(n) PROVE Typed
  BY <1>0, <1>b, <1>2 DEF Pair!ReloadNode, Pair!To, Pair!requestCert, Procedures
<1>3. ASSUME NEW n \in Sharers, Pair!NewLegoUser(n) \/ Pair!SaveUser(n) PROVE Typed
  BY <1>0, <1>b, <1>3 DEF Pair!NewLegoUser, Pair!SaveUser, Pair!To, Pair!Fail, Procedures
<1>4. ASSUME NEW n \in Sharers, Pair!Issue(n) PROVE Typed
  <2>1. crossed' \in BOOLEAN /\ UNCHANGED cut
    BY <1>b, <1>4, Zenon DEF Pair!Issue
  <2> QED
    BY <1>0, <1>b, <1>k, <1>4, <2>1 DEF Pair!Issue, Pair!To, Pair!Fail, Procedures
<1>5. ASSUME NEW n \in Sharers, Pair!Write(n) PROVE Typed
  <2>1. UNCHANGED <<account, cached, reading, issued, due, stops, crossed>>
    BY <1>5 DEF Pair!Write
  <2>2. 1 \in 0..k /\ mine[n] \in 0..k
    BY <1>0
  <2>3. cert' \in {cert, 1, mine[n]} /\ keyFile' \in {keyFile, 1, mine[n]}
    BY <1>5 DEF Pair!Write, Pair!writeCert, Pair!Opened
  <2>4. mine' = mine \/ mine' = [mine EXCEPT ![n] = 0]
    BY <1>5, Zenon DEF Pair!Write, Pair!writeCert
  <2>5. certPc' \in [Sharers -> Procedures]
    BY <1>0, <1>5 DEF Pair!Write, Pair!writeCert, Pair!To, Pair!Done, Pair!Fail, Procedures
  <2>6. cut' = cut \/ cut' = TRUE
    BY <1>5, Zenon DEF Pair!Write, Pair!writeCert
  <2> QED
    <3>1. cut' \in BOOLEAN /\ crossed' \in BOOLEAN
      BY <1>b, <2>1, <2>6, Zenon
    <3>2. mine' \in [Sharers -> 0..k] /\ cert' \in 0..k /\ keyFile' \in 0..k
      BY <1>0, <2>2, <2>3, <2>4
    <3> QED
      BY <1>0, <2>1, <2>5, <3>1, <3>2
<1>6. ASSUME NEW n \in Sharers, Pair!ReadCert(n) \/ Pair!Reload(n) PROVE Typed
  BY <1>0, <1>b, <1>6 DEF Pair!ReadCert, Pair!Reload, Pair!GetCertificate, Procedures
<1>7. ASSUME Pair!Age \/ Pair!Stop \/ UNCHANGED Pair!vars PROVE Typed
  <2>1. CASE Pair!Age
    BY <1>0, <1>b, <2>1 DEF Pair!Age
  <2>2. CASE Pair!Stop
    <3>1. UNCHANGED <<cert, keyFile, account, issued, due>> /\ stops' \in 0..s
      BY <1>0, <1>s, <2>2 DEF Pair!Stop
    <3>2. certPc' \in [Sharers -> Procedures] /\ mine' \in [Sharers -> 0..k] /\ cached' \in [Sharers -> 0..k] /\ reading' \in [Sharers -> 0..k]
      BY <2>2 DEF Pair!Stop, Procedures
    <3>3. cut' \in BOOLEAN /\ UNCHANGED crossed
      BY <1>b, <2>2, Zenon DEF Pair!Stop
    <3> QED
      BY <1>0, <1>b, <3>1, <3>2, <3>3
  <2>3. CASE UNCHANGED Pair!vars
    BY <1>0, <1>b, <2>3 DEF Pair!vars
  <2> QED
    BY <1>7, <2>1, <2>2, <2>3
<1>8. Typed
  BY <1>1, <1>2, <1>3, <1>4, <1>5, <1>6, <1>7, CertSteps, Zenon
<1>9. k = MaxIssued[mode'] /\ s = MaxStops[mode'] /\ mode' \in {"acme", "self"}
  BY <1>m, <1>k, <1>s DEF CertsTyped
<1> QED
  BY <1>8, <1>9, Zenon DEF CertsTyped, Pair!TypeOK, Procedures

\* The types hold at the start.
LEMMA CertsTypedInit ==
    ASSUME CertsAssumption, Pair!Init
    PROVE  CertsTyped
<1>1. mode \in {"acme", "self"} /\ MaxIssued[mode] \in Nat \ {0} /\ MaxStops[mode] \in Nat
  BY DEF Pair!Init, CertsAssumption
<1>2. cut \in BOOLEAN /\ crossed \in BOOLEAN
  BY Zenon DEF Pair!Init
<1> QED
  BY <1>1, <1>2 DEF Pair!Init, CertsTyped, Pair!TypeOK

(* The variables of Certs keep their types: a file holds nothing, a torn    *)
(* text or a certificate that was issued (cert.go, lego.go).                *)
THEOREM CertsTypeOK == ASSUME CertsAssumption PROVE Pair!Spec => []Pair!TypeOK
<1>1. Pair!Init => CertsTyped
  BY CertsTypedInit
<1>2. CertsTyped /\ [Pair!Next]_<<mode, Pair!vars>> => CertsTyped'
  BY CertsTypedStep
<1>3. CertsTyped => Pair!TypeOK
  BY DEF CertsTyped
<1> QED
  BY <1>1, <1>2, <1>3, PTL DEF Pair!Spec

----------------------------------------------------------------------------
(* Until a write is cut short or two nodes write at a time, the one writer  *)
(* finds the files as it left them.                                         *)

OneWriter == \A n, m \in Sharers : Pair!Writing(n) /\ Pair!Writing(m) => n = m

WritesACertificate ==
    \A n \in Sharers : Pair!Writing(n) =>
        mine[n] > 1 /\ (certPc[n] \in {"openKey", "fillKey"} => cert = mine[n])

WholeAtRest == (\A n \in Sharers : ~Pair!Writing(n)) => cert = 0 \/ keyFile = 0 \/ Pair!Usable

PairInv == ~cut /\ ~crossed => OneWriter /\ WritesACertificate /\ WholeAtRest

(* Certificate and key that do not belong together take a write cut short,  *)
(* or two nodes that wrote at the same time (writeCert, requestCert).       *)
THEOREM BrokenPairHasCause == ASSUME CertsAssumption PROVE Pair!Spec => []BrokenPairNeedsCause
<1>1. Pair!Init => PairInv
  BY DEF Pair!Init, PairInv, OneWriter, WritesACertificate, WholeAtRest, Pair!Writing
<1>2. CertsTyped /\ PairInv /\ [Pair!Next]_<<mode, Pair!vars>> => PairInv'
  <2> SUFFICES ASSUME CertsTyped, PairInv, [Pair!Next]_<<mode, Pair!vars>>, ~cut', ~crossed'
               PROVE  (OneWriter /\ WritesACertificate /\ WholeAtRest)'
    BY DEF PairInv
  <2> DEFINE Kept == (OneWriter /\ WritesACertificate /\ WholeAtRest)'
             Steps == {"openCert", "fillCert", "openKey", "fillKey"}
             Quiet == ~cut /\ ~crossed
  <2>0. /\ certPc \in [Sharers -> Procedures] /\ mine \in [Sharers -> Nat]
        /\ issued \in Nat \ {0} /\ cert \in Nat /\ keyFile \in Nat
    <3>1. PICK k \in Nat \ {0} : k = MaxIssued[mode]
      BY DEF CertsTyped, CertsAssumption
    <3> QED
      BY <3>1 DEF CertsTyped, Pair!TypeOK, Procedures
  <2>i. Quiet => OneWriter /\ WritesACertificate /\ WholeAtRest
    BY DEF PairInv
  <2> USE DEF OneWriter, WritesACertificate, WholeAtRest, Pair!Writing, Pair!Usable
  <2>m. ASSUME NEW n \in Sharers, NEW l \in Procedures, certPc[n] \notin Steps, l \notin Steps,
               certPc' = [certPc EXCEPT ![n] = l], UNCHANGED <<cert, keyFile, mine, cut, crossed>>
        PROVE  Kept
    <3>1. \A m \in Sharers : certPc'[m] \in Steps <=> certPc[m] \in Steps
      BY <2>0, <2>m
    <3>2. \A m \in Sharers : certPc'[m] \in Steps => certPc'[m] = certPc[m]
      BY <2>0, <2>m
    <3> QED
      BY <2>i, <2>m, <3>1, <3>2
  <2>1. ASSUME NEW n \in Sharers,
               \/ Pair!Start(n) \/ Pair!ReloadNode(n) \/ Pair!RenewCertTask(n) \/ Pair!NewLegoUser(n)
               \/ Pair!SaveUser(n) \/ Pair!RenewCert(n)
        PROVE  Kept
    <3>1. /\ certPc[n] \notin Steps /\ UNCHANGED <<cert, keyFile, mine, cut, crossed>>
          /\ \E l \in Procedures \ Steps : certPc' = [certPc EXCEPT ![n] = l]
      BY <2>1 DEF Pair!Start, Pair!ReloadNode, Pair!RenewCertTask, Pair!NewLegoUser, Pair!SaveUser, Pair!RenewCert,
                  Pair!To, Pair!Fail, Pair!requestCert, Procedures
    <3> QED
      BY <2>m, <3>1
  <2>2. ASSUME NEW n \in Sharers, Pair!Issue(n) PROVE Kept
    <3>1. certPc[n] = "issue" /\ UNCHANGED <<cert, keyFile, cut>>
      BY <2>2 DEF Pair!Issue
    <3>2. CASE /\ mine' = [mine EXCEPT ![n] = issued + 1] /\ Pair!To(n, "openCert")
               /\ crossed' = (crossed \/ \E m \in Sharers : Pair!Writing(m))
      <4>1. ~crossed /\ \A m \in Sharers : ~Pair!Writing(m)
        BY <3>2, Zenon
      <4>2. \A m \in Sharers : certPc'[m] \in Steps => m = n
        BY <2>0, <3>2, <4>1 DEF Pair!To
      <4>3. certPc'[n] = "openCert" /\ mine'[n] > 1
        BY <2>0, <3>2 DEF Pair!To
      <4> QED
        BY <4>2, <4>3
    <3>3. CASE Pair!Fail(n) /\ UNCHANGED <<mine, crossed>>
      <4>0. PICK l : l = (IF cached[n] # 0 THEN "up" ELSE "failed")
        OBVIOUS
      <4>1. l \in Procedures \ Steps /\ certPc' = [certPc EXCEPT ![n] = l]
        BY <3>3, <4>0 DEF Pair!Fail, Pair!To, Procedures
      <4>2. certPc[n] \notin Steps /\ UNCHANGED <<cert, keyFile, mine, cut, crossed>>
        BY <3>1, <3>3
      <4> QED
        BY <2>m, <4>1, <4>2
    <3> QED
      BY <2>2, <3>2, <3>3, Zenon DEF Pair!Issue
  <2>3. ASSUME NEW n \in Sharers, Pair!Write(n) PROVE Kept
    <3>1. Pair!writeCert(n) /\ UNCHANGED crossed /\ UNCHANGED cut
      BY <2>3, Zenon DEF Pair!Write, Pair!writeCert
    <3>2. /\ certPc[n] \in Steps /\ mine[n] > 1 /\ (certPc[n] \in {"openKey", "fillKey"} => cert = mine[n])
          /\ \A m \in Sharers : certPc[m] \in Steps => m = n
      <4>1. certPc[n] \in Steps
        BY <3>1 DEF Pair!writeCert
      <4> QED
        BY <2>i, <3>1, <4>1
    <3>3. CASE certPc[n] = "openCert" /\ certPc' = [certPc EXCEPT ![n] = "fillCert"] /\ UNCHANGED mine
      BY <2>0, <3>2, <3>3
    <3>4. CASE /\ certPc[n] = "fillCert" /\ certPc' = [certPc EXCEPT ![n] = "openKey"]
               /\ cert' = mine[n] /\ UNCHANGED mine
      BY <2>0, <3>2, <3>4
    <3>5. CASE /\ certPc[n] = "openKey" /\ certPc' = [certPc EXCEPT ![n] = "fillKey"]
               /\ UNCHANGED <<cert, mine>>
      BY <2>0, <3>2, <3>5
    <3>6. CASE /\ certPc[n] = "fillKey" /\ keyFile' = mine[n] /\ UNCHANGED cert
               /\ \E l \in Procedures \ Steps : certPc' = [certPc EXCEPT ![n] = l]
      <4>1. \A m \in Sharers : certPc'[m] \notin Steps
        BY <2>0, <3>2, <3>6
      <4>2. Pair!Usable'
        BY <3>2, <3>6
      <4> QED
        BY <4>1, <4>2
    <3>7. Pair!Done(n) => \E l \in Procedures \ Steps : certPc' = [certPc EXCEPT ![n] = l]
      BY DEF Pair!Done, Pair!To, Procedures
    <3> QED
      BY <3>1, <3>3, <3>4, <3>5, <3>6, <3>7 DEF Pair!writeCert, Pair!To
  <2>4. ASSUME NEW n \in Sharers, Pair!ReadCert(n) PROVE Kept
    BY <2>i, <2>4 DEF Pair!ReadCert
  <2>5. ASSUME NEW n \in Sharers, Pair!Reload(n) PROVE Kept
    <3>1. UNCHANGED <<cert, keyFile, mine, cut, crossed>>
      BY <2>5 DEF Pair!Reload
    <3>2. \/ UNCHANGED certPc
          \/ certPc[n] = "addNode" /\ \E l \in {"up", "rejected"} : certPc' = [certPc EXCEPT ![n] = l]
      BY <2>5 DEF Pair!Reload
    <3> QED
      BY <2>i, <2>m, <3>1, <3>2 DEF Procedures
  <2>6. CASE Pair!Age \/ UNCHANGED Pair!vars
    BY <2>i, <2>6 DEF Pair!Age, Pair!vars
  <2>7. CASE Pair!Stop
    <3>1. /\ ~cut /\ \A n \in Sharers : ~Pair!Writing(n)
          /\ UNCHANGED <<cert, keyFile, crossed>>
      BY <2>7, Zenon DEF Pair!Stop
    <3>2. \A n \in Sharers : certPc'[n] = "start"
      BY <2>7 DEF Pair!Stop
    <3> QED
      BY <2>i, <3>1, <3>2
  <2> QED
    BY <2>1, <2>2, <2>3, <2>4, <2>5, <2>6, <2>7, CertSteps, Zenon
<1>3. PairInv => BrokenPairNeedsCause
  BY Zenon DEF PairInv, WholeAtRest, BrokenPairNeedsCause, Pair!BrokenPairNeedsCause
<1> QED
  BY <1>1, <1>2, <1>3, CertsTypedInit, CertsTypedStep, PTL DEF Pair!Spec

(* A node that serves goes on serving: only a reload of the node or a stop  *)
(* of the program takes away the pair its loader has cached, whatever a     *)
(* renewal does to the files (dynamic_cert.go's GetCertificate).            *)
THEOREM ServingIsKept == ASSUME CertsAssumption PROVE Pair!Spec => RenewalKeepsServing
<1>1. CertsTyped /\ [Pair!Next]_<<mode, Pair!vars>> =>
        [\A n \in Sharers : cached[n] # 0 => cached'[n] # 0 \/ Pair!ReloadNode(n) \/ Pair!Stop]_(Pair!vars)
  <2> SUFFICES ASSUME CertsTyped, [Pair!Next]_<<mode, Pair!vars>>, ~Pair!Stop, ~UNCHANGED Pair!vars,
                      NEW n \in Sharers, cached[n] # 0, ~Pair!ReloadNode(n)
               PROVE  cached'[n] # 0
    BY Zenon
  <2>0. \E k \in Nat : cached \in [Sharers -> 0..k] /\ reading \in [Sharers -> 0..k]
    BY DEF CertsTyped, CertsAssumption, Pair!TypeOK
  <2>1. ASSUME NEW m \in Sharers, Pair!ReloadNode(m) PROVE cached'[n] # 0
    <3>1. m # n /\ cached' = [cached EXCEPT ![m] = 0]
      BY <2>1, Zenon DEF Pair!ReloadNode
    <3> QED
      BY <2>0, <3>1
  <2>2. ASSUME NEW m \in Sharers, Pair!Reload(m) PROVE cached'[n] # 0
    BY <2>0, <2>2 DEF Pair!Reload, Pair!GetCertificate, Pair!Loaded
  <2>3. ASSUME NEW m \in Sharers,
               \/ Pair!Start(m) \/ Pair!RenewCertTask(m) \/ Pair!NewLegoUser(m) \/ Pair!SaveUser(m)
               \/ Pair!RenewCert(m) \/ Pair!Issue(m) \/ Pair!Write(m) \/ Pair!ReadCert(m) \/ Pair!Age
        PROVE  cached'[n] # 0
    <3>1. UNCHANGED cached
      BY <2>3, Zenon DEF Pair!Start, Pair!RenewCertTask, Pair!NewLegoUser, Pair!SaveUser, Pair!RenewCert, Pair!Issue,
                  Pair!Write, Pair!ReadCert, Pair!Age
    <3> QED
      BY <3>1
  <2> QED
    BY <2>1, <2>2, <2>3, CertSteps, Zenon
<1> QED
  BY <1>1, CertsTypedInit, CertsTypedStep, PTL DEF Pair!Spec, RenewalKeepsServing, Pair!RenewalKeepsServing
=============================================================================
