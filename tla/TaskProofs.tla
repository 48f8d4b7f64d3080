----------------------------- MODULE TaskProofs -----------------------------
(***************************************************************************)
(* Proofs about the periodic task, for every number of Starts and with or  *)
(* without failing Executes: the type invariant, and the safety invariants *)
(* of Task.tla, all from the inductive invariant IInv.                     *)
(***************************************************************************)
EXTENDS Task, TLAPS

\* A new task satisfies the inductive invariant.
LEMMA InitIInv == Init => IInv
<1> SUFFICES ASSUME Init PROVE IInv
  OBVIOUS
<1> USE TaskAssumption DEF Init, Loops, LoopStates
<1>1. TypeOK
  <2>1. running \in BOOLEAN /\ panicked \in BOOLEAN /\ overlapped \in BOOLEAN
    BY Zenon
  <2>2. /\ stop \in 0..MaxStarts
        /\ closed \subseteq Loops
        /\ pc \in [Loops -> LoopStates]
        /\ ch \in [Loops -> 0..MaxStarts]
    OBVIOUS
  <2> QED
    BY <2>1, <2>2 DEF TypeOK
<1>2. RunningMatchesChannel /\ RunningIsDriven
  BY DEF RunningMatchesChannel, RunningIsDriven
<1>3. LoopOrder
  BY DEF LoopOrder
<1>4. DriverIsLast
  BY DEF DriverIsLast, Driving, Busy
<1> QED
  BY <1>1, <1>2, <1>3, <1>4 DEF IInv

\* Every step of Start, Close or a loop preserves the inductive invariant.
LEMMA NextIInv == IInv /\ [Next]_vars => IInv'
<1> SUFFICES ASSUME IInv, [Next]_vars PROVE IInv'
  OBVIOUS
<1> USE TaskAssumption DEF IInv, TypeOK, Loops, LoopStates
<1>1. ASSUME NEW first \in BOOLEAN, Start(first) PROVE IInv'
  <2> USE <1>1 DEF Start
  <2>1. TypeOK'
    OBVIOUS
  <2>2. RunningMatchesChannel'
    BY DEF RunningMatchesChannel, LoopOrder
  <2>3. RunningIsDriven'
    BY DEF RunningIsDriven, Driving, Busy
  <2>4. LoopOrder'
    BY DEF LoopOrder
  <2>5. DriverIsLast'
    BY DEF DriverIsLast, Driving, Busy, RunningMatchesChannel, LoopOrder
  <2> QED
    BY <2>1, <2>2, <2>3, <2>4, <2>5
<1>2. CASE Close
  <2> USE <1>2 DEF Close
  <2>1. TypeOK'
    <3>1. (running \in BOOLEAN /\ panicked \in BOOLEAN /\ overlapped \in BOOLEAN)'
      BY Zenon
    <3>2. (/\ stop \in 0..MaxStarts
           /\ closed \subseteq Loops
           /\ pc \in [Loops -> LoopStates]
           /\ ch \in [Loops -> 0..MaxStarts])'
      BY DEF RunningMatchesChannel
    <3> QED
      BY <3>1, <3>2
  <2>2. RunningMatchesChannel'
    BY DEF RunningMatchesChannel
  <2>3. RunningIsDriven'
    BY DEF RunningIsDriven
  <2>4. LoopOrder'
    BY DEF LoopOrder, RunningMatchesChannel
  <2>5. DriverIsLast'
    <3> SUFFICES ASSUME ~overlapped', NEW i \in Loops, Driving(i)' PROVE FALSE
      BY DEF DriverIsLast
    <3>1. ~overlapped /\ ~Busy(i)
      OBVIOUS
    <3>2. pc[i] = "wait" /\ ch[i] \notin closed \cup {stop}
      BY <3>1 DEF Driving, Busy
    <3>3. i = stop /\ ch[i] = stop
      BY <3>1, <3>2 DEF DriverIsLast, Driving, LoopOrder
    <3> QED
      BY <3>2, <3>3
  <2> QED
    BY <2>1, <2>2, <2>3, <2>4, <2>5
<1>3. ASSUME NEW i \in Loops, LoopStep(i) PROVE IInv'
  <2> USE DEF RunningMatchesChannel, RunningIsDriven, LoopOrder, DriverIsLast,
              Driving, Busy
  <2>1. CASE EnterSelect(i)
    BY <2>1 DEF EnterSelect
  <2>2. CASE TimerFires(i)
    BY <2>2 DEF TimerFires
  <2>3. CASE StopSeen(i)
    BY <2>3 DEF StopSeen
  <2>4. CASE ExecuteOk(i)
    BY <2>4 DEF ExecuteOk
  <2>5. CASE ExecuteFails(i)
    <3> USE <2>5 DEF ExecuteFails
    <3>1. TypeOK'
      <4> HIDE DEF Busy, Driving
      <4>1. running' \in BOOLEAN /\ overlapped' \in BOOLEAN
        <5>1. running' = FALSE
          OBVIOUS
        <5>2. overlapped' = (overlapped \/ \E j \in Loops \ {i} : Busy(j))
          OBVIOUS
        <5> QED
          BY <5>1, <5>2, Zenon
      <4>3. panicked' \in BOOLEAN
        <5>1. CASE stop \in closed
          <6>1. panicked' = TRUE
            BY <5>1
          <6> QED
            BY <6>1, Zenon
        <5>2. CASE stop \notin closed
          <6>1. panicked' = FALSE
            BY <5>2
          <6> QED
            BY <6>1, Zenon
        <5> QED
          BY <5>1, <5>2, Zenon
      <4>2. (/\ stop \in 0..MaxStarts
             /\ closed \subseteq Loops
             /\ pc \in [Loops -> LoopStates]
             /\ ch \in [Loops -> 0..MaxStarts])'
        OBVIOUS
      <4> QED
        BY <4>1, <4>2, <4>3
    <3>2. RunningMatchesChannel' /\ RunningIsDriven'
      OBVIOUS
    <3>3. LoopOrder'
      OBVIOUS
    <3>4. DriverIsLast'
      OBVIOUS
    <3> QED
      BY <3>1, <3>2, <3>3, <3>4
  <2> QED
    BY <1>3, <2>1, <2>2, <2>3, <2>4, <2>5 DEF LoopStep
<1>4. CASE UNCHANGED vars
  BY <1>4 DEF vars, RunningMatchesChannel, RunningIsDriven, LoopOrder,
              DriverIsLast, Driving, Busy
<1> QED
  BY <1>1, <1>2, <1>3, <1>4 DEF Next

\* The inductive invariant holds in every reachable state.
THEOREM TaskInvariant == Spec => []IInv
BY InitIInv, NextIInv, PTL DEF Spec

\* The variables keep their types.
THEOREM TaskTypeOK == Spec => []TypeOK
<1>1. IInv => TypeOK
  BY DEF IInv
<1> QED
  BY <1>1, TaskInvariant, PTL

\* The running flag says exactly whether the current channel is open, and all
\* older channels are closed, whichever loop took the error path.
THEOREM TaskRunningMatchesChannel == Spec => []RunningMatchesChannel
<1>1. IInv => RunningMatchesChannel
  BY DEF IInv
<1> QED
  BY <1>1, TaskInvariant, PTL

\* A task that says it is running is driven by the loop of its last Start.
THEOREM TaskRunningIsDriven == Spec => []RunningIsDriven
<1>1. IInv => RunningIsDriven
  BY DEF IInv
<1> QED
  BY <1>1, TaskInvariant, PTL

\* Every blocked loop waits on a closed channel or on the one that the next
\* Close will close, so no goroutine of the task leaks.
THEOREM TaskWaitersStoppable == Spec => []WaitersStoppable
<1>1. IInv => WaitersStoppable
  <2> SUFFICES ASSUME IInv, NEW i \in Loops, pc[i] = "wait"
               PROVE  ch[i] \in closed \/ ch[i] = stop
    BY DEF WaitersStoppable
  <2>1. ch[i] \in Loops /\ ch[i] <= stop
    BY TaskAssumption DEF IInv, TypeOK, LoopOrder, Loops
  <2> QED
    BY <2>1, TaskAssumption DEF IInv, TypeOK, RunningMatchesChannel, Loops
<1> QED
  BY <1>1, TaskInvariant, PTL

\* Two loops run Execute side by side only after a channel was closed under a
\* busy loop.
THEOREM TaskOneDriver == Spec => []OneDriverUnlessOverlapped
<1>1. IInv => OneDriverUnlessOverlapped
  BY DEF IInv, DriverIsLast, OneDriverUnlessOverlapped
<1> QED
  BY <1>1, TaskInvariant, PTL

\* The double close that kills the process happens only when the task had
\* already been stopped under the failing Execute.
THEOREM TaskPanicOnlyWhenStopped == Spec => PanicOnlyWhenStopped
<1>1. IInv /\ [Next]_vars => [~panicked /\ panicked' => ~running]_vars
  <2> SUFFICES ASSUME IInv, Next, ~panicked, panicked' PROVE ~running
    BY DEF vars
  <2>1. PICK i \in Loops : ExecuteFails(i)
    BY DEF Next, Start, Close, LoopStep, EnterSelect, TimerFires, StopSeen,
           ExecuteOk
  <2>2. stop \in closed
    BY <2>1 DEF ExecuteFails
  <2> QED
    BY <2>2 DEF IInv, RunningMatchesChannel
<1> QED
  BY <1>1, TaskInvariant, PTL DEF Spec, PanicOnlyWhenStopped
=============================================================================
