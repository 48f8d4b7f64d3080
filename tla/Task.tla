-------------------------------- MODULE Task --------------------------------
(***************************************************************************)
(* The periodic task of common/task/task.go.  A Task runs Execute every    *)
(* Interval in a goroutine ("loop") created by Start, until Close closes   *)
(* the stop channel.                                                       *)
(*                                                                         *)
(* The n-th effective Start creates the n-th channel and the n-th loop, so *)
(* loops and channels are both numbered by 1..MaxStarts.  What the code    *)
(* leaves implicit and the model makes explicit: a loop reads the field    *)
(* t.stop, without the lock, each time it enters its select; Close does    *)
(* not wait for an Execute in progress; the error path closes whatever     *)
(* channel t.stop is at that moment.                                       *)
(***************************************************************************)
EXTENDS Naturals, FiniteSets

CONSTANTS
    MaxStarts,      \* bound: effective calls of Start
    MayFail         \* TRUE iff Execute may return an error

ASSUME TaskAssumption == MaxStarts \in Nat /\ MayFail \in BOOLEAN

VARIABLES
    running,        \* Task.running
    stop,           \* Task.stop: the number of the current channel, 0 for nil
    closed,         \* the channels that have been closed
    pc,             \* per loop: what its goroutine is doing
    ch,             \* per loop: the channel its select waits on
    panicked,       \* a close of a closed channel has ended the process
    overlapped      \* history: a channel was closed while a loop was busy

vars == <<running, stop, closed, pc, ch, panicked, overlapped>>

Loops == 1..MaxStarts

\* "exec": inside t.Execute();  "select": about to evaluate the select;
\* "wait": blocked in the select on channel ch[i].
LoopStates == {"none", "exec", "select", "wait", "done"}

Live(i) == pc[i] \in {"exec", "select", "wait"}

\* Loop i is alive and not blocked: it will read t.stop (again) before it waits.
Busy(i) == pc[i] \in {"exec", "select"}

\* Loop i will run Execute again unless its channel is closed in time.
Driving(i) == Busy(i) \/ (pc[i] = "wait" /\ ch[i] \notin closed)

Init ==
    /\ running = FALSE
    /\ stop = 0
    /\ closed = {}
    /\ pc = [i \in Loops |-> "none"]
    /\ ch = [i \in Loops |-> 0]
    /\ panicked = FALSE
    /\ overlapped = FALSE

-----------------------------------------------------------------------------

\* Mutant: Start without the test of running.
StartUnguarded(first) ==
    /\ ~panicked
    /\ stop < MaxStarts
    /\ running' = TRUE
    /\ stop' = stop + 1
    /\ pc' = [pc EXCEPT ![stop + 1] = IF first THEN "exec" ELSE "select"]
    /\ UNCHANGED <<closed, ch, panicked, overlapped>>

\* A Start that is a no-op (the task is running) is a stuttering step.
Start(first) ==
    /\ ~panicked
    /\ ~running
    /\ stop < MaxStarts
    /\ running' = TRUE
    /\ stop' = stop + 1
    /\ pc' = [pc EXCEPT ![stop + 1] = IF first THEN "exec" ELSE "select"]
    /\ UNCHANGED <<closed, ch, panicked, overlapped>>

\* The loop evaluates the operands of its select: t.stop is read now.
EnterSelect(i) ==
    /\ ~panicked
    /\ pc[i] = "select"
    /\ pc' = [pc EXCEPT ![i] = "wait"]
    /\ ch' = [ch EXCEPT ![i] = stop]
    /\ UNCHANGED <<running, stop, closed, panicked, overlapped>>

\* time.After(t.Interval) fires while the channel is still open.
TimerFires(i) ==
    /\ ~panicked
    /\ pc[i] = "wait"
    /\ ch[i] \notin closed
    /\ pc' = [pc EXCEPT ![i] = "exec"]
    /\ UNCHANGED <<running, stop, closed, ch, panicked, overlapped>>

\* The receive from the closed channel fires: the goroutine returns.
StopSeen(i) ==
    /\ ~panicked
    /\ pc[i] = "wait"
    /\ ch[i] \in closed
    /\ pc' = [pc EXCEPT ![i] = "done"]
    /\ UNCHANGED <<running, stop, closed, ch, panicked, overlapped>>

ExecuteOk(i) ==
    /\ ~panicked
    /\ pc[i] = "exec"
    /\ pc' = [pc EXCEPT ![i] = "select"]
    /\ UNCHANGED <<running, stop, closed, ch, panicked, overlapped>>

\* Mutant: a failing loop ends but leaves the flag and the channel.
ExecuteFailsSilently(i) ==
    /\ MayFail
    /\ ~panicked
    /\ pc[i] = "exec"
    /\ pc' = [pc EXCEPT ![i] = "done"]
    /\ UNCHANGED <<running, stop, closed, ch, panicked, overlapped>>

\* Execute returned an error: running is cleared and t.stop closed, with no
\* look at running first; closing a closed channel panics.
ExecuteFails(i) ==
    /\ MayFail
    /\ ~panicked
    /\ pc[i] = "exec"
    /\ running' = FALSE
    /\ closed' = closed \cup {stop}
    /\ panicked' = (stop \in closed)
    /\ pc' = [pc EXCEPT ![i] = "done"]
    /\ overlapped' = (overlapped \/ \E j \in Loops \ {i} : Busy(j))
    /\ UNCHANGED <<stop, ch>>

\* Mutant: Close clears the flag and forgets the channel.
CloseFlagOnly ==
    /\ ~panicked
    /\ running
    /\ running' = FALSE
    /\ overlapped' = (overlapped \/ \E j \in Loops : Busy(j))
    /\ UNCHANGED <<stop, closed, pc, ch, panicked>>

\* A Close of a task that is not running is a stuttering step.
Close ==
    /\ ~panicked
    /\ running
    /\ running' = FALSE
    /\ closed' = closed \cup {stop}
    /\ overlapped' = (overlapped \/ \E j \in Loops : Busy(j))
    /\ UNCHANGED <<stop, pc, ch, panicked>>

LoopStep(i) ==
    \/ EnterSelect(i)
    \/ TimerFires(i)
    \/ StopSeen(i)
    \/ ExecuteOk(i)
    \/ ExecuteFails(i)

Next ==
    \/ \E first \in BOOLEAN : Start(first)
    \/ Close
    \/ \E i \in Loops : LoopStep(i)

\* A goroutine is scheduled, Execute returns, and a ready select case fires.
\* Nothing obliges anyone to call Start or Close.
Fairness == \A i \in Loops : WF_vars(LoopStep(i))

Spec == Init /\ [][Next]_vars /\ Fairness
-----------------------------------------------------------------------------

TypeOK ==
    /\ running \in BOOLEAN
    /\ stop \in 0..MaxStarts
    /\ closed \subseteq Loops
    /\ pc \in [Loops -> LoopStates]
    /\ ch \in [Loops -> 0..MaxStarts]
    /\ panicked \in BOOLEAN
    /\ overlapped \in BOOLEAN

\* The flag and the channel agree: a task is running exactly when its current
\* channel exists and is open, and every earlier channel has been closed.
\* Both Close and the error path of a loop, possibly a loop of an earlier
\* Start, must keep this.
RunningMatchesChannel ==
    /\ running <=> (stop > 0 /\ stop \notin closed)
    /\ \A c \in Loops : c < stop => c \in closed

\* A running task is driven by the loop of its last Start, so Execute really
\* is called again; no other loop's exit or error takes that loop away while
\* the flag still says running.
RunningIsDriven == running => Driving(stop)

\* No loop blocks on a channel nobody will close: it waits either on a closed
\* channel or on the one the next Close will close.
WaitersStoppable ==
    \A i \in Loops : pc[i] = "wait" => ch[i] \in closed \/ ch[i] = stop

\* Execute is not run by two loops at once as long as no channel was closed
\* under a busy loop.  (It is when one was: the busy loop adopts the channel
\* of the next Start, which is what nodeInfoMonitor's restart of its own
\* task does.)
OneDriverUnlessOverlapped ==
    ~overlapped => \A i, j \in Loops : Driving(i) /\ Driving(j) => i = j

\* The process dies of a double close only if the task had been stopped while
\* the failing Execute was running.
PanicOnlyWhenStopped == [][~panicked /\ panicked' => ~running]_vars

\* Loops are numbered in the order of their Starts, and a loop waits on a
\* channel at least as new as its own; only channels that exist are closed.
LoopOrder ==
    /\ \A i \in Loops :
         /\ (pc[i] = "none") <=> (i > stop)
         /\ ch[i] <= stop
         /\ pc[i] = "wait" => ch[i] >= i
    /\ \A c \in closed : c <= stop

\* Unless a close overlapped a busy loop, only the loop of the last Start of a
\* running task is driving.
DriverIsLast ==
    ~overlapped => \A i \in Loops : Driving(i) => running /\ i = stop

\* The inductive invariant behind the safety properties above.
IInv ==
    /\ TypeOK
    /\ RunningMatchesChannel
    /\ RunningIsDriven
    /\ LoopOrder
    /\ DriverIsLast

\* Close is effective without waiting: once the task is not running, either it
\* is started again or every loop, the busy ones included, comes to an end.
CloseEndsLoops ==
    ~running ~> (running \/ panicked \/ \A i \in Loops : ~Live(i))
=============================================================================
