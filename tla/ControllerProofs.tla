-------------------------- MODULE ControllerProofs --------------------------
(***************************************************************************)
(* What is proved of the node controller, for any panels, user lists and   *)
(* intervals, any number of failures and any number of loops of its two    *)
(* tasks.                                                                  *)
(***************************************************************************)
EXTENDS Controller, TLAPS

\* The theorems about the periodic task, for the monitor task and the report task.
MonTask == INSTANCE TaskProofs WITH
    running <- mRunning, stop <- mStop, closed <- mClosed, pc <- mPc, ch <- mCh,
    panicked <- mPanicked, overlapped <- mOverlapped, MayFail <- FALSE

RepTask == INSTANCE TaskProofs WITH
    running <- rRunning, stop <- rStop, closed <- rClosed, pc <- rPc, ch <- rCh,
    panicked <- rPanicked, overlapped <- rOverlapped, MayFail <- FALSE

-----------------------------------------------------------------------------
(***************************************************************************)
(* Who polls.  A loop is inside nodeInfoMonitor exactly while its task     *)
(* executes, no loop exists before the end of Start, and unless a channel  *)
(* was closed under a poll, there is one poll at a time and none after     *)
(* Close has closed the monitor.                                           *)
(***************************************************************************)

StepMatches == \A i \in Loops : mPc[i] = "exec" <=> step[i] # "idle"

Starting == {"getNode", "getUsers", "limiter", "cert", "addNode", "addUsers", "tasks", "failed"}

MonitorClosed == {"closeRep", "closeDel", "closed", "closeFailed"}

NotStarted == main \in Starting => mStop = 0

RestartOverlaps == \A i \in Loops : step[i] = "monStart" => mOverlapped

ClosedIsOff == main \in MonitorClosed => mOverlapped \/ ~mRunning

PollInv == MonTask!IInv /\ StepMatches /\ NotStarted /\ RestartOverlaps /\ ClosedIsOff

-----------------------------------------------------------------------------
(* Types. *)

\* The variables start with their types.
LEMMA InitTypeOK == Init => TypeOK
<1> SUFFICES ASSUME Init PROVE TypeOK
  OBVIOUS
<1> USE ControllerAssumption DEF Init
<1>1. registered \in BOOLEAN /\ quietClose \in BOOLEAN /\ lostNode \in BOOLEAN
  BY Zenon
<1>2. Mon!TypeOK /\ Rep!TypeOK
  <2>1. mRunning \in BOOLEAN /\ mPanicked \in BOOLEAN /\ mOverlapped \in BOOLEAN
    BY Zenon DEF Mon!Init
  <2>2. rRunning \in BOOLEAN /\ rPanicked \in BOOLEAN /\ rOverlapped \in BOOLEAN
    BY Zenon DEF Rep!Init
  <2>3. /\ mStop \in 0..MaxStarts /\ mClosed \subseteq Mon!Loops
        /\ mPc \in [Mon!Loops -> Mon!LoopStates] /\ mCh \in [Mon!Loops -> 0..MaxStarts]
    BY DEF Mon!Init, Mon!Loops, Mon!LoopStates
  <2>4. /\ rStop \in 0..MaxStarts /\ rClosed \subseteq Rep!Loops
        /\ rPc \in [Rep!Loops -> Rep!LoopStates] /\ rCh \in [Rep!Loops -> 0..MaxStarts]
    BY DEF Rep!Init, Rep!Loops, Rep!LoopStates
  <2> QED  BY <2>1, <2>2, <2>3, <2>4 DEF Mon!TypeOK, Rep!TypeOK
<1>3. panelNode \in NodeConfigs /\ panelUsers \in UserLists
  BY DEF NodeConfigs, UserLists
<1>4. /\ step \in [Loops -> StepNames] /\ newN \in [Loops -> NodeConfigs \cup {None}]
      /\ newU \in [Loops -> UserLists \cup {NoList}]
      /\ deleted \in [Loops -> SUBSET Users] /\ added \in [Loops -> SUBSET Users]
  BY DEF StepNames
<1> QED  BY <1>1, <1>2, <1>3, <1>4 DEF TypeOK, MainNames

-----------------------------------------------------------------------------
(* The controller drives its tasks through their own actions. *)

\* A step of a poll keeps the monitor task, returns to its loop, or closes or starts the task.
LEMMA PollDrivesMonitor ==
    ASSUME NEW i \in Loops, Monitor(i)
    PROVE  UNCHANGED monVars \/ Mon!ExecuteOk(i) \/ Mon!Close \/ Mon!Start(FALSE)
<1> USE DEF Goto, Return, Crash
<1>1. CASE MonGetNode(i) \/ MonGetUsers(i) \/ MonDelNode(i) \/ MonLimiter(i) \/ MonBadRule(i)
  BY <1>1 DEF MonGetNode, MonGetUsers, MonDelNode, MonLimiter, MonBadRule
<1>2. CASE MonCert(i) \/ MonAddNode(i) \/ MonAddUsers(i)
  BY <1>2 DEF MonCert, MonAddNode, MonAddUsers
<1>3. CASE MonInterval(i) \/ MonRestart(i) \/ RepInterval(i) \/ RepRestart(i)
  BY <1>3 DEF MonInterval, MonRestart, RepInterval, RepRestart, MonClose, MonStart
<1>4. CASE MonCompare(i) \/ MonDelUsers(i) \/ MonAddMore(i) \/ MonUpdate(i)
  BY <1>4 DEF MonCompare, MonDelUsers, MonAddMore, MonUpdate
<1> QED  BY <1>1, <1>2, <1>3, <1>4 DEF Monitor

\* A step of a poll keeps the report task, or closes or starts it.
LEMMA PollDrivesReport ==
    ASSUME NEW i \in Loops, Monitor(i)
    PROVE  UNCHANGED repVars \/ Rep!Close \/ Rep!Start(FALSE)
<1> USE DEF Crash
<1>1. CASE MonGetNode(i) \/ MonGetUsers(i) \/ MonDelNode(i) \/ MonLimiter(i) \/ MonBadRule(i)
  BY <1>1 DEF MonGetNode, MonGetUsers, MonDelNode, MonLimiter, MonBadRule
<1>2. CASE MonCert(i) \/ MonAddNode(i) \/ MonAddUsers(i)
  BY <1>2 DEF MonCert, MonAddNode, MonAddUsers
<1>3. CASE MonInterval(i) \/ MonRestart(i) \/ RepInterval(i) \/ RepRestart(i)
  BY <1>3 DEF MonInterval, MonRestart, RepInterval, RepRestart, RepClose, RepStart
<1>4. CASE MonCompare(i) \/ MonDelUsers(i) \/ MonAddMore(i) \/ MonUpdate(i)
  BY <1>4 DEF MonCompare, MonDelUsers, MonAddMore, MonUpdate
<1> QED  BY <1>1, <1>2, <1>3, <1>4 DEF Monitor

\* Start begins the tasks together, at its end.
LEMMA StartDrivesTasks ==
    StartController =>
        \/ UNCHANGED <<monVars, repVars>>
        \/ StartAt("tasks") /\ main' = "up" /\ Mon!Start(FALSE) /\ Rep!Start(FALSE)
<1> SUFFICES ASSUME StartController
             PROVE  \/ UNCHANGED <<monVars, repVars>>
                    \/ StartAt("tasks") /\ main' = "up" /\ Mon!Start(FALSE) /\ Rep!Start(FALSE)
  OBVIOUS
<1>1. CASE StartTasks
  BY <1>1 DEF StartTasks
<1>2. CASE ~StartTasks
  BY <1>2 DEF StartController, StartGetNode, StartGetUsers, StartLimiter, StartBadRule, StartCert,
              StartAddNode, StartAddUsers, Crash
<1> QED  BY <1>1, <1>2

\* What the controller does to its monitor task is a step of the task.
LEMMA MonitorTaskSteps == [Next]_vars => [MonTask!Next]_(MonTask!vars)
<1> SUFFICES ASSUME [Next]_vars PROVE [MonTask!Next]_(MonTask!vars)
  OBVIOUS
<1>1. \/ UNCHANGED monVars \/ Mon!Close \/ Mon!Start(FALSE)
      \/ \E i \in Loops : Mon!LoopStep(i)
  <2>1. CASE PanelChanges
    BY <2>1 DEF PanelChanges
  <2>2. CASE StartController
    BY <2>2, StartDrivesTasks
  <2>3. CASE CloseController
    BY <2>3 DEF CloseController, CloseLimiter, CloseMon, CloseRep, CloseDelNode, MonClose
  <2>4. ASSUME NEW i \in Loops, MonStep(i)
        PROVE  UNCHANGED monVars \/ Mon!Close \/ Mon!Start(FALSE) \/ Mon!LoopStep(i)
    <3>1. CASE MonWaits(i) \/ MonFires(i)
      BY <3>1 DEF MonWaits, MonFires, Mon!LoopStep
    <3>2. CASE Monitor(i)
      BY <3>2, PollDrivesMonitor DEF Mon!LoopStep
    <3> QED  BY <2>4, <3>1, <3>2 DEF MonStep
  <2>5. ASSUME NEW i \in Loops, RepStep(i) PROVE UNCHANGED monVars
    BY <2>5 DEF RepStep
  <2>6. CASE UNCHANGED vars
    BY <2>6 DEF vars
  <2> QED  BY <2>1, <2>2, <2>3, <2>4, <2>5, <2>6 DEF Next
<1>2. CASE UNCHANGED monVars
  BY <1>2 DEF monVars, MonTask!vars
<1>3. CASE Mon!Close
  <2>1. MonTask!Close
    BY <1>3 DEF Mon!Close, MonTask!Close, Mon!Busy, MonTask!Busy, Mon!Loops, MonTask!Loops
  <2> QED  BY <2>1 DEF MonTask!Next
<1>4. CASE Mon!Start(FALSE)
  <2>1. MonTask!Start(FALSE)
    BY <1>4 DEF Mon!Start, MonTask!Start
  <2> QED  BY <2>1 DEF MonTask!Next
<1>5. ASSUME NEW i \in Loops, Mon!LoopStep(i) PROVE MonTask!Next
  <2>1. MonTask!LoopStep(i)
    BY <1>5 DEF Mon!LoopStep, MonTask!LoopStep, Mon!EnterSelect, MonTask!EnterSelect,
        Mon!TimerFires, MonTask!TimerFires, Mon!StopSeen, MonTask!StopSeen, Mon!ExecuteOk,
        MonTask!ExecuteOk, Mon!ExecuteFails, MonTask!ExecuteFails
  <2>2. i \in MonTask!Loops
    BY DEF Loops, MonTask!Loops
  <2> QED  BY <2>1, <2>2 DEF MonTask!Next
<1> QED  BY <1>1, <1>2, <1>3, <1>4, <1>5

\* And likewise for the report task.
LEMMA ReportTaskSteps == [Next]_vars => [RepTask!Next]_(RepTask!vars)
<1> SUFFICES ASSUME [Next]_vars PROVE [RepTask!Next]_(RepTask!vars)
  OBVIOUS
<1>1. \/ UNCHANGED repVars \/ Rep!Close \/ Rep!Start(FALSE)
      \/ \E i \in Loops : Rep!LoopStep(i)
  <2>1. CASE PanelChanges
    BY <2>1 DEF PanelChanges
  <2>2. CASE StartController
    BY <2>2, StartDrivesTasks
  <2>3. CASE CloseController
    BY <2>3 DEF CloseController, CloseLimiter, CloseMon, CloseRep, CloseDelNode, RepClose
  <2>4. ASSUME NEW i \in Loops, MonStep(i) PROVE UNCHANGED repVars \/ Rep!Close \/ Rep!Start(FALSE)
    <3>1. CASE MonWaits(i) \/ MonFires(i)
      BY <3>1 DEF MonWaits, MonFires
    <3>2. CASE Monitor(i)
      BY <3>2, PollDrivesReport
    <3> QED  BY <2>4, <3>1, <3>2 DEF MonStep
  <2>5. ASSUME NEW i \in Loops, RepStep(i) PROVE Rep!LoopStep(i)
    BY <2>5 DEF RepStep
  <2>6. CASE UNCHANGED vars
    BY <2>6 DEF vars
  <2> QED  BY <2>1, <2>2, <2>3, <2>4, <2>5, <2>6 DEF Next
<1>2. CASE UNCHANGED repVars
  BY <1>2 DEF repVars, RepTask!vars
<1>3. CASE Rep!Close
  <2>1. RepTask!Close
    BY <1>3 DEF Rep!Close, RepTask!Close, Rep!Busy, RepTask!Busy, Rep!Loops, RepTask!Loops
  <2> QED  BY <2>1 DEF RepTask!Next
<1>4. CASE Rep!Start(FALSE)
  <2>1. RepTask!Start(FALSE)
    BY <1>4 DEF Rep!Start, RepTask!Start
  <2> QED  BY <2>1 DEF RepTask!Next
<1>5. ASSUME NEW i \in Loops, Rep!LoopStep(i) PROVE RepTask!Next
  <2>1. RepTask!LoopStep(i)
    BY <1>5 DEF Rep!LoopStep, RepTask!LoopStep, Rep!EnterSelect, RepTask!EnterSelect,
        Rep!TimerFires, RepTask!TimerFires, Rep!StopSeen, RepTask!StopSeen, Rep!ExecuteOk,
        RepTask!ExecuteOk, Rep!ExecuteFails, RepTask!ExecuteFails
  <2>2. i \in RepTask!Loops
    BY DEF Loops, RepTask!Loops
  <2> QED  BY <2>1, <2>2 DEF RepTask!Next
<1> QED  BY <1>1, <1>2, <1>3, <1>4, <1>5

\* The tasks keep the inductive invariant of Task.
LEMMA TasksInvariant == Spec => [](MonTask!IInv /\ RepTask!IInv)
<1>1. MaxStarts \in Nat /\ FALSE \in BOOLEAN
  BY ControllerAssumption
<1>2. Init => MonTask!IInv /\ RepTask!IInv
  <2>1. Init => MonTask!Init /\ RepTask!Init
    BY DEF Init, Mon!Init, MonTask!Init, Rep!Init, RepTask!Init, Mon!Loops, MonTask!Loops, Rep!Loops,
           RepTask!Loops
  <2> QED  BY <1>1, <2>1, MonTask!InitIInv, RepTask!InitIInv
<1>3. MonTask!IInv /\ RepTask!IInv /\ [Next]_vars => (MonTask!IInv /\ RepTask!IInv)'
  BY <1>1, MonitorTaskSteps, ReportTaskSteps, MonTask!NextIInv, RepTask!NextIInv, PTL
<1> QED  BY <1>2, <1>3, PTL DEF Spec

-----------------------------------------------------------------------------
(* The locals of Start and of a poll.                                       *)

Reloads == {"delNode", "limiter", "cert", "addNode", "addUsers", "interval", "monStart",
            "repInterval", "repStart"}

Compares == {"delUsers", "addMore", "update"}

LocalsInv ==
    /\ main \in {"getUsers", "limiter", "cert", "addNode", "addUsers", "tasks"} => nodeHash \in NodeConfigs
    /\ \A i \in Loops :
        /\ step[i] \in {"idle", "getNode"} => newN[i] = None
        /\ step[i] \in Reloads => newN[i] \in NodeConfigs
        /\ step[i] \in Compares \cup {"compare"} => newN[i] = None
        /\ step[i] \in Compares => newU[i] \in UserLists

BasicInv == TypeOK /\ MonTask!IInv /\ RepTask!IInv /\ PollInv /\ LocalsInv

LEMMA FailuresBounded ==
    ASSUME TypeOK, UNCHANGED failures \/ Fails PROVE failures' \in 0..MaxFailures
<1>1. MaxFailures \in Nat
  BY ControllerAssumption
<1>2. failures \in 0..MaxFailures
  BY DEF TypeOK
<1> QED  BY <1>1, <1>2 DEF Fails

\* A step of a poll counts its failures and has no other causes of a crash than the three.
LEMMA PollKeepsCounts ==
    ASSUME TypeOK, NEW i \in Loops, Monitor(i)
    PROVE  /\ failures' \in 0..MaxFailures
           /\ crashed' \in {"no", "Delete node failed", "Add node failed", "bad rule"}
<1>1. UNCHANGED failures \/ Fails
  BY DEF Monitor, NodeFetched, NodeUnchanged, NodeFetchFails, UsersFetched, UsersFetchFails,
         CoreAddUsersFails, CoreDelUsersFails, MonGetNode, MonGetUsers, MonDelNode, MonLimiter, MonBadRule, MonCert, MonAddNode, MonAddUsers,
         MonInterval, MonRestart, RepInterval, RepRestart, MonCompare, MonDelUsers, MonAddMore, MonUpdate
<1>2. failures' \in 0..MaxFailures
  BY <1>1, FailuresBounded
<1>3. UNCHANGED crashed \/ crashed' \in {"Delete node failed", "Add node failed", "bad rule"}
  BY DEF Monitor, Crash, MonGetNode, MonGetUsers, MonDelNode, MonLimiter, MonBadRule, MonCert, MonAddNode, MonAddUsers,
         MonInterval, MonRestart, RepInterval, RepRestart, MonCompare, MonDelUsers, MonAddMore, MonUpdate
<1> QED  BY <1>2, <1>3 DEF TypeOK

\* Only the two requests of a poll change the client.
LEMMA PollKeepsClient ==
    ASSUME TypeOK, NEW i \in Loops, Monitor(i)
    PROVE  /\ nodeHash' \in NodeConfigs \cup {None, ErrorBody}
           /\ nodeEtag' \in NodeConfigs \cup {None}
           /\ userEtag' \in UserLists \cup {None}
<1> USE DEF TypeOK, Etag
<1>1. CASE MonGetNode(i)
  <2>1. UNCHANGED userEtag
    BY <1>1 DEF MonGetNode, NodeFetched, NodeUnchanged, NodeFetchFails, clientVars
  <2>2. \/ UNCHANGED <<nodeHash, nodeEtag>>
        \/ nodeHash' = panelNode /\ nodeEtag' = Etag(panelNode)
        \/ nodeHash' = ErrorBody /\ nodeEtag' = None
    BY <1>1 DEF MonGetNode, NodeFetched, NodeUnchanged, NodeFetchFails, clientVars
  <2> QED  BY <2>1, <2>2
<1>2. CASE MonGetUsers(i)
  BY <1>2 DEF MonGetUsers, UsersFetched, UsersFetchFails, clientVars
<1>3. CASE ~MonGetNode(i) /\ ~MonGetUsers(i)
  BY <1>3 DEF Monitor, Crash, clientVars, MonGetNode, MonGetUsers, MonDelNode, MonLimiter, MonBadRule, MonCert, MonAddNode, MonAddUsers,
         MonInterval, MonRestart, RepInterval, RepRestart, MonCompare, MonDelUsers, MonAddMore, MonUpdate
<1> QED  BY <1>1, <1>2, <1>3

\* What a poll puts into the controller and the core has the right type.
LEMMA PollKeepsServed ==
    ASSUME TypeOK, LocalsInv, NEW i \in Loops, Monitor(i)
    PROVE  /\ info' \in NodeConfigs \cup {None} /\ userList' \in UserLists \cup {{}}
           /\ limiter' \subseteq Users
           /\ coreNode' \in NodeConfigs \cup {None} /\ coreUsers' \subseteq Uuids
           /\ torn' \subseteq Uuids
<1> USE DEF TypeOK, Goto, Return, Crash
<1>0. Uuid(userList) \subseteq Uuids /\ \A us \in SUBSET Users : Uuid(us) \subseteq Uuids
  BY DEF Uuid, Uuids, Users
<1>1. CASE MonGetNode(i) \/ MonGetUsers(i) \/ MonBadRule(i) \/ MonInterval(i) \/ MonRestart(i)
           \/ RepInterval(i) \/ RepRestart(i) \/ MonCompare(i)
  <2>1. UNCHANGED <<info, userList, limiter, coreNode, coreUsers, torn>>
    BY <1>1 DEF MonGetNode, MonGetUsers, MonBadRule, MonInterval, MonRestart, RepInterval, RepRestart,
                MonCompare, limiterVars, coreVars, lostVars
  <2> QED  BY <2>1
<1>3. CASE MonDelNode(i)
  <2>1. UNCHANGED <<limiter, torn>> /\ (UNCHANGED coreVars \/ CoreDelNode)
    BY <1>3 DEF MonDelNode, limiterVars, lostVars
  <2> QED  BY <1>3, <2>1 DEF MonDelNode, CoreDelNode, coreVars
<1>4. CASE MonLimiter(i)
  <2>1. userList \subseteq Users
    BY DEF Users
  <2> QED  BY <1>4, <2>1 DEF MonLimiter, limiterVars, coreVars, lostVars
<1>5. CASE MonCert(i)
  BY <1>5 DEF MonCert, limiterVars, coreVars
<1>6. CASE MonAddNode(i)
  <2>1. UNCHANGED <<info, userList, limiter, torn>> /\ (UNCHANGED coreVars \/ CoreAddNode(newN[i]))
    BY <1>6 DEF MonAddNode, limiterVars, lostVars
  <2> QED  BY <2>1 DEF CoreAddNode, coreVars
<1>7. CASE MonAddUsers(i)
  BY <1>0, <1>7 DEF MonAddUsers, CoreAddUsers, CoreAddUsersFails, Torn, limiterVars, coreVars
<1>8. CASE MonDelUsers(i)
  <2>1. Uuid(deleted[i] \cup added[i]) \subseteq Uuids
    BY <1>0
  <2>2. UNCHANGED <<info, userList, limiter, coreNode>> /\ coreUsers' \subseteq coreUsers
    BY <1>8 DEF MonDelUsers, CoreDelUsers, CoreDelUsersFails, limiterVars, coreVars
  <2>3. UNCHANGED torn \/ Torn(deleted[i] \cup added[i])
    BY <1>8 DEF MonDelUsers
  <2> QED  BY <2>1, <2>2, <2>3 DEF Torn
<1>9. CASE MonAddMore(i)
  <2>1. Uuid(deleted[i] \cup added[i]) \subseteq Uuids /\ Uuid(added[i]) \subseteq Uuids
    BY <1>0
  <2>2. UNCHANGED <<info, userList, limiter, coreNode>> /\ coreUsers' \subseteq coreUsers \cup Uuid(added[i])
    BY <1>9 DEF MonAddMore, CoreAddUsers, CoreAddUsersFails, limiterVars, coreVars
  <2>3. UNCHANGED torn \/ Torn(deleted[i] \cup added[i])
    BY <1>9 DEF MonAddMore
  <2> QED  BY <2>1, <2>2, <2>3 DEF Torn
<1>10. CASE MonUpdate(i)
  <2>1. newU[i] \in UserLists
    BY <1>10 DEF MonUpdate, LocalsInv, Compares, At
  <2> QED  BY <1>10, <2>1 DEF MonUpdate, UpdateUser, coreVars
<1> QED  BY <1>1, <1>3, <1>4, <1>5, <1>6, <1>7, <1>8, <1>9, <1>10 DEF Monitor

\* The intervals come from the configuration of the new node.
LEMMA PollKeepsIntervals ==
    ASSUME TypeOK, LocalsInv, NEW i \in Loops, Monitor(i)
    PROVE  monInterval' \in Nat /\ repInterval' \in Nat
<1>1. ASSUME step[i] \in Reloads PROVE PullInterval[newN[i]] \in Nat
  BY <1>1, ControllerAssumption DEF LocalsInv
<1>2. CASE MonInterval(i)
  BY <1>1, <1>2 DEF MonInterval, TypeOK, Reloads, At
<1>3. CASE RepInterval(i)
  BY <1>1, <1>3 DEF RepInterval, TypeOK, Reloads, At
<1>4. CASE ~MonInterval(i) /\ ~RepInterval(i)
  <2>1. UNCHANGED intervals
    BY <1>4 DEF Monitor, Crash, MonGetNode, MonGetUsers, MonDelNode, MonLimiter, MonBadRule, MonCert, MonAddNode, MonAddUsers,
         MonInterval, MonRestart, RepInterval, RepRestart, MonCompare, MonDelUsers, MonAddMore, MonUpdate
  <2> QED  BY <2>1 DEF TypeOK, intervals
<1> QED  BY <1>2, <1>3, <1>4

\* A poll keeps its locals: what they are, and when it has a node or a list to work on.
LEMMA PollKeepsLocals ==
    ASSUME TypeOK, LocalsInv, NEW i \in Loops, Monitor(i)
    PROVE  /\ step' \in [Loops -> StepNames] /\ newN' \in [Loops -> NodeConfigs \cup {None}]
           /\ newU' \in [Loops -> UserLists \cup {NoList}]
           /\ deleted' \in [Loops -> SUBSET Users] /\ added' \in [Loops -> SUBSET Users]
           /\ step'[i] \in {"idle", "getNode"} => newN'[i] = None
           /\ step'[i] \in Reloads => newN'[i] \in NodeConfigs
           /\ step'[i] \in Compares \cup {"compare"} => newN'[i] = None
           /\ step'[i] \in Compares => newU'[i] \in UserLists
           /\ \A j \in Loops \ {i} : step'[j] = step[j] /\ newN'[j] = newN[j] /\ newU'[j] = newU[j]
                                     /\ deleted'[j] = deleted[j] /\ added'[j] = added[j]
<1> USE DEF TypeOK, StepNames, Reloads, Compares, Goto, localVars
<1>1. CASE Return(i)
  BY <1>1 DEF Return
<1>2. CASE UNCHANGED <<step, localVars>>
  <2>1. UNCHANGED <<step, newN, newU, deleted, added>>
    BY <1>2
  <2> QED  BY <2>1 DEF LocalsInv
<1>3. CASE MonGetNode(i)
  <2>1. \/ /\ \E n \in NodeConfigs : newN' = [newN EXCEPT ![i] = n]
           /\ step' = [step EXCEPT ![i] = "getUsers"] /\ UNCHANGED <<newU, deleted, added>>
        \/ step' = [step EXCEPT ![i] = "getUsers"] /\ UNCHANGED <<newN, newU, deleted, added>>
        \/ Return(i)
    BY <1>3 DEF MonGetNode
  <2> QED  BY <1>1, <2>1
<1>4. CASE MonGetUsers(i)
  <2>1. \/ /\ \E us \in UserLists \cup {NoList} : newU' = [newU EXCEPT ![i] = us]
           /\ step' = [step EXCEPT ![i] = IF newN[i] # None THEN "delNode" ELSE "compare"]
           /\ UNCHANGED <<newN, deleted, added>>
        \/ Return(i)
    BY <1>4 DEF MonGetUsers
  <2> QED  BY <1>1, <2>1
<1>5. CASE MonCompare(i)
  <2>1. Deleted(userList, newU[i]) \subseteq Users
    BY DEF Deleted, Users
  <2>2. newU[i] # NoList => Added(userList, newU[i]) \subseteq Users
    BY DEF Added, Users
  <2>3. step[i] = "compare" /\ newN[i] = None
    BY <1>5 DEF MonCompare, LocalsInv, At
  <2>4. \/ /\ newU[i] # NoList
           /\ deleted' = [deleted EXCEPT ![i] = Deleted(userList, newU[i])]
           /\ added' = [added EXCEPT ![i] = Added(userList, newU[i])]
           /\ \E q \in Compares : step' = [step EXCEPT ![i] = q]
           /\ UNCHANGED <<newN, newU>>
        \/ Return(i)
    BY <1>5 DEF MonCompare
  <2>5. ASSUME newU[i] # NoList, NEW d \in SUBSET Users, NEW a \in SUBSET Users, NEW q \in Compares,
               deleted' = [deleted EXCEPT ![i] = d], added' = [added EXCEPT ![i] = a],
               step' = [step EXCEPT ![i] = q], UNCHANGED <<newN, newU>>
        PROVE  /\ step' \in [Loops -> StepNames] /\ newN' \in [Loops -> NodeConfigs \cup {None}]
               /\ newU' \in [Loops -> UserLists \cup {NoList}]
               /\ deleted' \in [Loops -> SUBSET Users] /\ added' \in [Loops -> SUBSET Users]
               /\ step'[i] \notin Reloads /\ newN'[i] = None /\ newU'[i] \in UserLists
               /\ \A j \in Loops \ {i} : step'[j] = step[j] /\ newN'[j] = newN[j] /\ newU'[j] = newU[j]
                                         /\ deleted'[j] = deleted[j] /\ added'[j] = added[j]
    BY <2>3, <2>5
  <2>6. CASE Return(i)
    BY <1>1, <2>6
  <2>7. CASE ~Return(i)
    <3>1. PICK q \in Compares : step' = [step EXCEPT ![i] = q]
      BY <2>4, <2>7
    <3> QED  BY <2>1, <2>2, <2>4, <2>5, <2>7, <3>1
  <2> QED  BY <2>6, <2>7
<1>6. CASE /\ ~MonGetNode(i) /\ ~MonGetUsers(i) /\ ~MonCompare(i)
           /\ ~Return(i) /\ ~UNCHANGED <<step, localVars>>
  <2>1. /\ UNCHANGED localVars
        /\ \/ step[i] \in Reloads /\ \E q \in Reloads : step' = [step EXCEPT ![i] = q]
           \/ step[i] \in Compares /\ \E q \in Compares : step' = [step EXCEPT ![i] = q]
    BY <1>6 DEF Monitor, At, Crash, MonDelNode, MonLimiter, MonBadRule, MonCert, MonAddNode, MonAddUsers,
                MonInterval, MonRestart, RepInterval, RepRestart, MonDelUsers, MonAddMore, MonUpdate
  <2>2. UNCHANGED <<newN, newU, deleted, added>>
    BY <2>1
  <2> QED  BY <2>1, <2>2 DEF LocalsInv
<1> QED  BY <1>1, <1>2, <1>3, <1>4, <1>5, <1>6

ValuesOK ==
    /\ panelNode \in NodeConfigs /\ panelUsers \in UserLists
    /\ nodeHash \in NodeConfigs \cup {None, ErrorBody}
    /\ nodeEtag \in NodeConfigs \cup {None}
    /\ userEtag \in UserLists \cup {None}
    /\ info \in NodeConfigs \cup {None} /\ userList \in UserLists \cup {{}}
    /\ limiter \subseteq Users
    /\ coreNode \in NodeConfigs \cup {None} /\ coreUsers \subseteq Uuids
    /\ monInterval \in Nat /\ repInterval \in Nat
    /\ main \in MainNames
    /\ step \in [Loops -> StepNames]
    /\ newN \in [Loops -> NodeConfigs \cup {None}]
    /\ newU \in [Loops -> UserLists \cup {NoList}]
    /\ deleted \in [Loops -> SUBSET Users] /\ added \in [Loops -> SUBSET Users]
    /\ crashed \in {"no", "Delete node failed", "Add node failed", "bad rule"}
    /\ changes \in Nat /\ failures \in 0..MaxFailures
    /\ torn \subseteq Uuids

\* Start works on a node once it has fetched one.
LEMMA StartKeepsValues ==
    ASSUME TypeOK, LocalsInv, StartController
    PROVE  ValuesOK'
<1> USE DEF TypeOK, StartAt, Crash
<1>0. Uuid(userList) \subseteq Uuids /\ userList \subseteq Users
  BY DEF Uuid, Uuids, Users
<1>1. /\ UNCHANGED <<panelNode, panelUsers, changes, step, newN, newU, deleted, added, torn>>
      /\ main' \in MainNames
  BY DEF StartController, StartGetNode, StartGetUsers, StartLimiter, StartBadRule, StartCert,
         StartAddNode, StartAddUsers, StartTasks, MainNames, panelVars, localVars, lostVars
<1>2. failures' \in 0..MaxFailures
  <2>1. UNCHANGED failures \/ Fails
    BY DEF StartController, StartGetNode, StartGetUsers, StartLimiter, StartBadRule, StartCert,
           StartAddNode, StartAddUsers, StartTasks, NodeFetched, NodeFetchFails, UsersFetched,
           UsersFetchFails, CoreAddUsersFails
  <2> QED  BY <2>1, FailuresBounded
<1>3. /\ nodeHash' \in NodeConfigs \cup {None, ErrorBody}
      /\ nodeEtag' \in NodeConfigs \cup {None}
      /\ userEtag' \in UserLists \cup {None}
  <2>1. CASE StartGetNode
    <3>1. UNCHANGED userEtag
      BY <2>1 DEF StartGetNode, NodeFetched, NodeFetchFails
    <3>2. \/ nodeHash' = panelNode /\ nodeEtag' = Etag(panelNode)
          \/ nodeHash' = ErrorBody /\ nodeEtag' = None
      BY <2>1 DEF StartGetNode, NodeFetched, NodeFetchFails
    <3> QED  BY <3>1, <3>2 DEF Etag
  <2>2. CASE StartGetUsers
    BY <2>2 DEF StartGetUsers, UsersFetched, UsersFetchFails, clientVars, Etag
  <2>3. CASE ~StartGetNode /\ ~StartGetUsers
    BY <2>3 DEF StartController, StartLimiter, StartBadRule, StartCert, StartAddNode, StartAddUsers,
                StartTasks, clientVars
  <2> QED  BY <2>1, <2>2, <2>3
<1>4. /\ userList' \in UserLists \cup {{}} /\ limiter' \subseteq Users
      /\ coreNode' \in NodeConfigs \cup {None} /\ coreUsers' \subseteq Uuids
      /\ crashed' \in {"no", "Delete node failed", "Add node failed", "bad rule"}
  <2>1. CASE StartGetUsers
    BY <2>1 DEF StartGetUsers, limiterVars, coreVars
  <2>2. CASE StartLimiter \/ StartBadRule
    BY <1>0, <2>2 DEF StartLimiter, StartBadRule, limiterVars, coreVars
  <2>3. CASE StartAddNode
    <3>1. StartNode \in NodeConfigs
      BY <2>3 DEF StartAddNode, StartNode, LocalsInv
    <3> QED  BY <2>3, <3>1 DEF StartAddNode, CoreAddNode, limiterVars, coreVars
  <2>4. CASE StartAddUsers
    BY <1>0, <2>4 DEF StartAddUsers, CoreAddUsers, CoreAddUsersFails, limiterVars, coreVars
  <2>5. CASE StartGetNode \/ StartCert \/ StartTasks
    BY <2>5 DEF StartGetNode, StartCert, StartTasks, limiterVars, coreVars
  <2> QED  BY <2>1, <2>2, <2>3, <2>4, <2>5 DEF StartController
<1>5. info' \in NodeConfigs \cup {None} /\ monInterval' \in Nat /\ repInterval' \in Nat
  <2>1. CASE StartTasks
    <3>1. StartNode \in NodeConfigs
      BY <2>1 DEF StartTasks, StartNode, LocalsInv
    <3>2. PullInterval[StartNode] \in Nat /\ PushInterval[StartNode] \in Nat
      BY <3>1, ControllerAssumption
    <3> QED  BY <2>1, <3>1, <3>2 DEF StartTasks
  <2>2. CASE ~StartTasks
    BY <2>2 DEF StartController, StartGetNode, StartGetUsers, StartLimiter, StartBadRule, StartCert,
                StartAddNode, StartAddUsers, intervals
  <2> QED  BY <2>1, <2>2
<1> QED  BY <1>1, <1>2, <1>3, <1>4, <1>5 DEF ValuesOK

\* Close only removes.
LEMMA CloseKeepsValues ==
    ASSUME TypeOK, CloseController
    PROVE  ValuesOK'
<1> USE DEF TypeOK, StartAt
<1>1. /\ UNCHANGED <<panelVars, clientVars, info, userList, limiter, intervals, step, localVars, crashed,
                      torn>>
      /\ main' \in MainNames
      /\ UNCHANGED coreVars \/ CoreDelNode
      /\ UNCHANGED failures \/ Fails
  BY DEF CloseController, CloseLimiter, CloseMon, CloseRep, CloseDelNode, MainNames, lostVars
<1>2. failures' \in 0..MaxFailures
  BY <1>1, FailuresBounded
<1>3. coreNode' \in NodeConfigs \cup {None} /\ coreUsers' \subseteq Uuids
  BY <1>1 DEF coreVars, CoreDelNode
<1> QED  BY <1>1, <1>2, <1>3 DEF ValuesOK, panelVars, clientVars, intervals, localVars

\* Every step keeps the types, given that the tasks keep theirs.
LEMMA NextTypeOK == BasicInv /\ [Next]_vars /\ (MonTask!IInv /\ RepTask!IInv)' => TypeOK'
<1> SUFFICES ASSUME BasicInv, [Next]_vars, (MonTask!IInv /\ RepTask!IInv)' PROVE TypeOK'
  OBVIOUS
<1>1. (Mon!TypeOK /\ Rep!TypeOK)'
  BY DEF MonTask!IInv, RepTask!IInv, Mon!TypeOK, MonTask!TypeOK, Rep!TypeOK, RepTask!TypeOK, Mon!Loops,
         MonTask!Loops, Rep!Loops, RepTask!Loops, Mon!LoopStates, MonTask!LoopStates, Rep!LoopStates,
         RepTask!LoopStates
<1>2. (registered \in BOOLEAN /\ quietClose \in BOOLEAN /\ lostNode \in BOOLEAN)'
  <2>0. registered \in BOOLEAN /\ quietClose \in BOOLEAN /\ lostNode \in BOOLEAN
    BY Zenon DEF BasicInv, TypeOK
  <2>1. registered' \in {registered, TRUE, FALSE}
    <3>1. ASSUME NEW i \in Loops, Monitor(i) PROVE registered' \in {registered, TRUE, FALSE}
      BY <3>1 DEF Monitor, Crash, limiterVars, MonGetNode, MonGetUsers, MonDelNode, MonLimiter, MonBadRule,
         MonCert, MonAddNode, MonAddUsers, MonInterval, MonRestart, RepInterval, RepRestart, MonCompare,
         MonDelUsers, MonAddMore, MonUpdate
    <3>2. CASE StartController
      BY <3>2 DEF StartController, StartGetNode, StartGetUsers, StartLimiter, StartBadRule, StartCert,
         StartAddNode, StartAddUsers, StartTasks, Crash, limiterVars
    <3>3. CASE CloseController
      BY <3>3 DEF CloseController, CloseLimiter, CloseMon, CloseRep, CloseDelNode
    <3>4. CASE ~StartController /\ ~CloseController /\ ~\E i \in Loops : Monitor(i)
      BY <3>4 DEF Next, PanelChanges, MonStep, MonWaits, MonFires, RepStep, vars, limiterVars
    <3> QED  BY <3>1, <3>2, <3>3, <3>4
  <2>2. UNCHANGED quietClose \/ quietClose' = (\A i \in Loops : step[i] = "idle")
    BY DEF Next, PanelChanges, StartController, CloseController, CloseLimiter, CloseMon, CloseRep,
           CloseDelNode, MonStep, RepStep, vars, mainVars
  <2>3. \/ UNCHANGED lostNode \/ lostNode' = TRUE \/ lostNode' = FALSE
        \/ \E b \in BOOLEAN : lostNode' = (lostNode \/ b)
        \/ \E i \in Loops : lostNode' = (lostNode \/ newN[i] # None)
    <3>1. ASSUME NEW i \in Loops, Monitor(i)
          PROVE  \/ UNCHANGED lostNode \/ lostNode' = TRUE \/ lostNode' = FALSE
                 \/ \E b \in BOOLEAN : lostNode' = (lostNode \/ b)
                 \/ lostNode' = (lostNode \/ newN[i] # None)
      BY <3>1 DEF Monitor, Crash, lostVars, MonGetNode, MonGetUsers, MonDelNode, MonLimiter, MonBadRule,
         MonCert, MonAddNode, MonAddUsers, MonInterval, MonRestart, RepInterval, RepRestart, MonCompare,
         MonDelUsers, MonAddMore, MonUpdate
    <3>2. CASE ~\E i \in Loops : Monitor(i)
      BY <3>2 DEF Next, PanelChanges, StartController, CloseController, MonStep, MonWaits, MonFires, RepStep,
         vars, lostVars
    <3> QED  BY <3>1, <3>2
  <2>4. registered' \in BOOLEAN
    BY <2>0, <2>1, Zenon
  <2>5. quietClose' \in BOOLEAN
    BY <2>0, <2>2, Zenon
  <2>6. lostNode' \in BOOLEAN
    BY <2>0, <2>3, Zenon
  <2> QED  BY <2>4, <2>5, <2>6
<1>3. ValuesOK'
  <2>0. TypeOK /\ LocalsInv
    BY DEF BasicInv
  <2>1. CASE PanelChanges
    <3>1. (panelNode \in NodeConfigs /\ panelUsers \in UserLists)'
      BY <2>0, <2>1 DEF PanelChanges, TypeOK, NodeConfigs, UserLists
    <3>2. changes' \in Nat
      BY <2>0, <2>1 DEF PanelChanges, TypeOK
    <3>3. UNCHANGED <<clientVars, info, userList, limiterVars, coreVars, intervals, mainVars, step, localVars,
                      crashed, failures, lostVars>>
      BY <2>1 DEF PanelChanges
    <3> QED  BY <2>0, <3>1, <3>2, <3>3 DEF ValuesOK, TypeOK, clientVars, limiterVars, coreVars, intervals,
                mainVars, localVars, lostVars
  <2>2. CASE StartController
    BY <2>0, <2>2, StartKeepsValues
  <2>3. CASE CloseController
    BY <2>0, <2>3, CloseKeepsValues
  <2>4. ASSUME NEW i \in Loops, MonStep(i) PROVE ValuesOK'
    <3>1. CASE Monitor(i)
      <4>1. UNCHANGED <<panelNode, panelUsers, changes, main>>
        BY <2>4 DEF MonStep, panelVars, mainVars
      <4> QED  BY <2>0, <3>1, <4>1, PollKeepsCounts, PollKeepsClient, PollKeepsServed, PollKeepsIntervals,
                  PollKeepsLocals DEF ValuesOK, TypeOK
    <3>2. CASE MonWaits(i) \/ MonFires(i)
      <4>1. UNCHANGED <<panelVars, clientVars, info, userList, limiterVars, coreVars, intervals, mainVars,
                        localVars, crashed, failures, lostVars>>
        BY <2>4, <3>2 DEF MonStep, MonWaits, MonFires
      <4>2. step' \in [Loops -> StepNames]
        BY <2>0, <3>2 DEF MonWaits, MonFires, TypeOK, StepNames
      <4> QED  BY <2>0, <4>1, <4>2 DEF ValuesOK, TypeOK, panelVars, clientVars, limiterVars, coreVars,
                  intervals, mainVars, localVars, lostVars
    <3> QED  BY <2>4, <3>1, <3>2 DEF MonStep
  <2>5. CASE (\E i \in Loops : RepStep(i)) \/ UNCHANGED vars
    <3>1. UNCHANGED <<panelVars, clientVars, info, userList, limiterVars, coreVars, intervals, mainVars, step,
                      localVars, crashed, failures, lostVars>>
      BY <2>5 DEF RepStep, vars
    <3> QED  BY <2>0, <3>1 DEF ValuesOK, TypeOK, panelVars, clientVars, limiterVars, coreVars, intervals,
                mainVars, localVars, lostVars
  <2> QED  BY <2>1, <2>2, <2>3, <2>4, <2>5 DEF Next
<1> QED  BY <1>1, <1>2, <1>3 DEF ValuesOK, TypeOK

\* No loop exists before the end of Start.
LEMMA NoPollYet ==
    ASSUME BasicInv, main \in Starting, NEW i \in Loops PROVE step[i] = "idle" /\ mPc[i] = "none"
<1>1. mStop = 0
  BY DEF BasicInv, PollInv, NotStarted
<1>2. mPc[i] = "none"
  BY <1>1, ControllerAssumption DEF BasicInv, MonTask!IInv, MonTask!LoopOrder, MonTask!Loops, Loops
<1>3. step[i] = "idle"
  BY <1>2 DEF BasicInv, PollInv, StepMatches
<1> QED  BY <1>2, <1>3

\* A step of a poll returns, moves on, or closes or starts the monitor task.
LEMMA PollForms ==
    ASSUME NEW i \in Loops, Monitor(i)
    PROVE  /\ step[i] # "idle" /\ crashed = "no"
           /\ \/ Return(i)
              \/ UNCHANGED <<step, monVars>>
              \/ UNCHANGED monVars /\ \E q \in StepNames \ {"idle", "monStart"} : step' = [step EXCEPT ![i] = q]
              \/ MonClose /\ step[i] = "interval" /\ step' = [step EXCEPT ![i] = "monStart"]
              \/ MonStart /\ step[i] = "monStart" /\ step' = [step EXCEPT ![i] = "repInterval"]
<1> USE DEF Goto, Crash, At, StepNames
<1>1. CASE MonGetNode(i) \/ MonGetUsers(i) \/ MonDelNode(i) \/ MonLimiter(i) \/ MonBadRule(i)
  BY <1>1 DEF MonGetNode, MonGetUsers, MonDelNode, MonLimiter, MonBadRule
<1>2. CASE MonCert(i) \/ MonAddNode(i) \/ MonAddUsers(i)
  BY <1>2 DEF MonCert, MonAddNode, MonAddUsers
<1>3. CASE MonInterval(i) \/ MonRestart(i) \/ RepInterval(i) \/ RepRestart(i)
  BY <1>3 DEF MonInterval, MonRestart, RepInterval, RepRestart
<1>4. CASE MonCompare(i) \/ MonDelUsers(i) \/ MonAddMore(i) \/ MonUpdate(i)
  BY <1>4 DEF MonCompare, MonDelUsers, MonAddMore, MonUpdate
<1> QED  BY <1>1, <1>2, <1>3, <1>4 DEF Monitor

\* mOverlapped is never reset.
LEMMA OverlapStays == [Next]_vars /\ mOverlapped => mOverlapped'
<1> SUFFICES ASSUME [Next]_vars, mOverlapped PROVE mOverlapped'
  OBVIOUS
<1>1. MonTask!Next \/ UNCHANGED MonTask!vars
  BY MonitorTaskSteps
<1>2. CASE UNCHANGED MonTask!vars
  BY <1>2 DEF MonTask!vars
<1>3. CASE MonTask!Next
  BY <1>3 DEF MonTask!Next, MonTask!Start, MonTask!Close, MonTask!LoopStep, MonTask!EnterSelect,
     MonTask!TimerFires, MonTask!StopSeen, MonTask!ExecuteOk, MonTask!ExecuteFails
<1> QED  BY <1>1, <1>2, <1>3

\* A poll keeps what is known about who polls.
LEMMA PollKeepsPollInv ==
    ASSUME BasicInv, NEW i \in Loops, MonStep(i), [Next]_vars
    PROVE  (StepMatches /\ NotStarted /\ RestartOverlaps /\ ClosedIsOff)'
<1>0. /\ main \notin Starting
      /\ UNCHANGED main
      /\ step \in [Loops -> StepNames] /\ mPc \in [Loops -> Mon!LoopStates] /\ mStop \in Nat
      /\ \A j \in Loops : mPc[j] = "none" <=> j > mStop
      /\ StepMatches /\ RestartOverlaps /\ ClosedIsOff
  <2>1. main \notin Starting
    <3>1. step[i] # "idle" \/ mPc[i] # "none"
      <4>1. CASE Monitor(i)
        BY <4>1, PollForms
      <4>2. CASE MonWaits(i) \/ MonFires(i)
        BY <4>2 DEF MonWaits, MonFires, Mon!EnterSelect, Mon!StopSeen, Mon!TimerFires
      <4> QED  BY <4>1, <4>2 DEF MonStep
    <3> QED  BY <3>1, NoPollYet
  <2>2. UNCHANGED main
    BY DEF MonStep, mainVars
  <2>3. \A j \in Loops : mPc[j] = "none" <=> j > mStop
    BY DEF BasicInv, MonTask!IInv, MonTask!LoopOrder, MonTask!Loops, Loops
  <2>4. step \in [Loops -> StepNames] /\ mPc \in [Loops -> Mon!LoopStates] /\ mStop \in 0..MaxStarts
    BY DEF BasicInv, TypeOK, Mon!TypeOK, Mon!Loops, Loops
  <2>5. mStop \in Nat
    BY <2>4, ControllerAssumption
  <2> QED  BY <2>1, <2>2, <2>3, <2>4, <2>5 DEF BasicInv, PollInv
<1>1. NotStarted'
  BY <1>0 DEF NotStarted
<1>2. CASE Return(i)
  <2>1. UNCHANGED <<mRunning, mOverlapped>>
    BY <1>2 DEF Return, Mon!ExecuteOk
  <2> QED  BY <1>0, <1>1, <1>2, <2>1 DEF Return, Mon!ExecuteOk, StepMatches, RestartOverlaps, ClosedIsOff
<1>3. CASE UNCHANGED <<step, monVars>>
  BY <1>0, <1>1, <1>3 DEF monVars, StepMatches, RestartOverlaps, ClosedIsOff
<1>4. CASE step[i] # "idle" /\ UNCHANGED monVars
           /\ \E q \in StepNames \ {"idle", "monStart"} : step' = [step EXCEPT ![i] = q]
  BY <1>0, <1>1, <1>4 DEF monVars, StepMatches, RestartOverlaps, ClosedIsOff
<1>5. CASE MonClose /\ step[i] = "interval" /\ step' = [step EXCEPT ![i] = "monStart"]
  <2>1. UNCHANGED mPc /\ ~mRunning'
    BY <1>5 DEF MonClose, Mon!Close, monVars
  <2>2. mPc[i] = "exec"
    BY <1>0, <1>5 DEF StepMatches
  <2>3. mOverlapped'
    <3>1. CASE Mon!Close
      BY <2>2, <3>1 DEF Mon!Close, Mon!Busy, Mon!Loops, Loops
    <3>2. CASE ~mRunning /\ UNCHANGED monVars
      <4>1. mOverlapped
        BY <2>2, <3>2 DEF BasicInv, MonTask!IInv, MonTask!DriverIsLast, MonTask!Driving, MonTask!Busy,
                          MonTask!Loops, Loops
      <4> QED  BY <3>2, <4>1 DEF monVars
    <3> QED  BY <1>5, <3>1, <3>2 DEF MonClose
  <2> QED  BY <1>0, <1>1, <1>5, <2>1, <2>3 DEF StepMatches, RestartOverlaps, ClosedIsOff
<1>6. CASE MonStart /\ step[i] = "monStart" /\ step' = [step EXCEPT ![i] = "repInterval"]
  <2>1. mOverlapped'
    BY <1>0, <1>6, OverlapStays DEF RestartOverlaps
  <2>2. StepMatches'
    <3>1. CASE UNCHANGED monVars
      BY <1>0, <1>6, <3>1 DEF monVars, StepMatches
    <3>2. CASE Mon!Start(FALSE)
      <4>1. mPc' = [mPc EXCEPT ![mStop + 1] = "select"] /\ mStop + 1 \in Loops /\ mPc[mStop + 1] = "none"
        BY <1>0, <3>2, ControllerAssumption DEF Mon!Start, Loops
      <4> QED  BY <1>0, <1>6, <4>1 DEF StepMatches
    <3> QED  BY <1>6, <3>1, <3>2 DEF MonStart
  <2> QED  BY <1>1, <2>1, <2>2 DEF RestartOverlaps, ClosedIsOff
<1>7. CASE MonWaits(i)
  <2>1. UNCHANGED <<step, mRunning, mOverlapped>>
    BY <1>7 DEF MonWaits, Mon!EnterSelect, Mon!StopSeen
  <2>2. StepMatches'
    BY <1>0, <1>7, <2>1 DEF MonWaits, Mon!EnterSelect, Mon!StopSeen, StepMatches
  <2> QED  BY <1>0, <1>1, <2>1, <2>2 DEF RestartOverlaps, ClosedIsOff
<1>8. CASE MonFires(i)
  BY <1>0, <1>1, <1>8 DEF MonFires, Mon!TimerFires, StepMatches, RestartOverlaps, ClosedIsOff
<1> QED  BY <1>2, <1>3, <1>4, <1>5, <1>6, <1>7, <1>8, PollForms DEF MonStep

\* Every step keeps what is known about who polls and what the locals hold.
LEMMA NextPollInv == BasicInv /\ [Next]_vars => (StepMatches /\ NotStarted /\ RestartOverlaps /\ ClosedIsOff)'
<1> SUFFICES ASSUME BasicInv, [Next]_vars PROVE (StepMatches /\ NotStarted /\ RestartOverlaps /\ ClosedIsOff)'
  OBVIOUS
<1>0. StepMatches /\ NotStarted /\ RestartOverlaps /\ ClosedIsOff /\ main \in MainNames
  BY DEF BasicInv, PollInv, TypeOK
<1>1. CASE UNCHANGED <<main, step, monVars>>
  BY <1>0, <1>1 DEF monVars, StepMatches, NotStarted, RestartOverlaps, ClosedIsOff
<1>2. CASE StartController
  <2>1. main \in Starting /\ main' \in Starting \cup {"up"} /\ UNCHANGED step
    BY <1>2 DEF StartController, StartGetNode, StartGetUsers, StartLimiter, StartBadRule, StartCert,
                StartAddNode, StartAddUsers, StartTasks, StartAt, Crash, Starting
  <2>2. CASE UNCHANGED <<monVars, repVars>>
    BY <1>0, <2>1, <2>2 DEF monVars, StepMatches, NotStarted, RestartOverlaps, ClosedIsOff, Starting,
       MonitorClosed
  <2>3. CASE main' = "up" /\ Mon!Start(FALSE)
    <3>1. \A i \in Loops : step[i] = "idle" /\ mPc[i] = "none"
      BY <2>1, NoPollYet
    <3>2. \A i \in Loops : mPc'[i] \in {"none", "select"}
      BY <2>3, <3>1 DEF Mon!Start, BasicInv, TypeOK, Mon!TypeOK, Mon!Loops, Loops
    <3> QED  BY <2>1, <2>3, <3>1, <3>2 DEF StepMatches, NotStarted, RestartOverlaps, ClosedIsOff, Starting,
                MonitorClosed
  <2> QED  BY <1>2, <2>2, <2>3, StartDrivesTasks
<1>3. CASE CloseController
  <2>1. UNCHANGED <<step, mPc>> /\ main' \notin Starting
    BY <1>3 DEF CloseController, CloseLimiter, CloseMon, CloseRep, CloseDelNode, MonClose, Mon!Close, monVars,
                Starting
  <2>3. mOverlapped => mOverlapped'
    BY OverlapStays
  <2>2. ClosedIsOff'
    BY <1>0, <1>3 DEF CloseController, CloseLimiter, CloseMon, CloseRep, CloseDelNode, MonClose, Mon!Close,
                monVars, StartAt, ClosedIsOff, MonitorClosed
  <2> QED  BY <1>0, <2>1, <2>2, <2>3 DEF StepMatches, NotStarted, RestartOverlaps
<1>4. ASSUME NEW i \in Loops, MonStep(i)
      PROVE  (StepMatches /\ NotStarted /\ RestartOverlaps /\ ClosedIsOff)'
  BY <1>4, PollKeepsPollInv
<1>5. CASE PanelChanges \/ (\E i \in Loops : RepStep(i)) \/ UNCHANGED vars
  BY <1>1, <1>5 DEF PanelChanges, RepStep, vars, mainVars
<1> QED  BY <1>2, <1>3, <1>4, <1>5 DEF Next

\* A loop that waits is not in a poll, and enters one at its first request.
LEMMA IdleForms ==
    ASSUME BasicInv, NEW i \in Loops, MonWaits(i) \/ MonFires(i)
    PROVE  step[i] = "idle" /\ (UNCHANGED step \/ step' = [step EXCEPT ![i] = "getNode"])
<1>1. mPc[i] # "exec"
  BY DEF MonWaits, MonFires, Mon!EnterSelect, Mon!StopSeen, Mon!TimerFires
<1> QED  BY <1>1 DEF MonWaits, MonFires, BasicInv, PollInv, StepMatches

LEMMA NextLocalsInv == BasicInv /\ [Next]_vars => LocalsInv'
<1> SUFFICES ASSUME BasicInv, [Next]_vars PROVE LocalsInv'
  OBVIOUS
<1>0. TypeOK /\ LocalsInv
  BY DEF BasicInv
<1>1. CASE UNCHANGED <<main, nodeHash, step, localVars>> \/ CloseController
  <2>1. UNCHANGED <<nodeHash, step, newN, newU>>
    BY <1>1 DEF CloseController, clientVars, localVars
  <2>2. main' = main \/ main' \in {"closeMon", "closeRep", "closeDel", "closed", "closeFailed"}
    BY <1>1 DEF CloseController, CloseLimiter, CloseMon, CloseRep, CloseDelNode
  <2> QED  BY <1>0, <2>1, <2>2 DEF LocalsInv
<1>2. CASE StartController
  <2>1. UNCHANGED <<step, newN, newU>>
    BY <1>2 DEF StartController, localVars
  <2>2. CASE StartGetNode
    BY <1>0, <2>1, <2>2 DEF StartGetNode, NodeFetched, LocalsInv
  <2>3. CASE ~StartGetNode
    <3>1. UNCHANGED nodeHash
      BY <1>2, <2>3 DEF StartController, StartGetUsers, StartLimiter, StartBadRule, StartCert, StartAddNode,
         StartAddUsers, StartTasks, UsersFetched, UsersFetchFails, Crash, clientVars
    <3>2. \/ main \in {"getUsers", "limiter", "cert", "addNode", "addUsers", "tasks"}
          \/ UNCHANGED main
      BY <1>2, <2>3 DEF StartController, StartGetUsers, StartLimiter, StartBadRule, StartCert, StartAddNode,
         StartAddUsers, StartTasks, StartAt, Crash
    <3> QED  BY <1>0, <2>1, <3>1, <3>2 DEF LocalsInv
  <2> QED  BY <2>2, <2>3
<1>3. ASSUME NEW i \in Loops, MonStep(i) PROVE LocalsInv'
  <2>1. main' = main /\ main \notin Starting
    <3>1. step[i] # "idle" \/ mPc[i] # "none"
      <4>1. CASE Monitor(i)
        BY <4>1, PollForms
      <4>2. CASE MonWaits(i) \/ MonFires(i)
        BY <4>2 DEF MonWaits, MonFires, Mon!EnterSelect, Mon!StopSeen, Mon!TimerFires
      <4> QED  BY <1>3, <4>1, <4>2 DEF MonStep
    <3> QED  BY <1>3, <3>1, NoPollYet DEF MonStep, mainVars
  <2>2. CASE Monitor(i)
    BY <1>0, <2>1, <2>2, PollKeepsLocals DEF LocalsInv, Starting
  <2>3. CASE MonWaits(i) \/ MonFires(i)
    <3>1. UNCHANGED <<newN, newU>>
      BY <2>3 DEF MonWaits, MonFires, localVars
    <3>2. step[i] = "idle" /\ (UNCHANGED step \/ step' = [step EXCEPT ![i] = "getNode"])
      BY <2>3, IdleForms
    <3> QED  BY <1>0, <2>1, <3>1, <3>2 DEF LocalsInv, Starting, Reloads, Compares, TypeOK
  <2> QED  BY <1>3, <2>2, <2>3 DEF MonStep
<1>4. CASE PanelChanges \/ (\E i \in Loops : RepStep(i)) \/ UNCHANGED vars
  BY <1>1, <1>4 DEF PanelChanges, RepStep, vars, mainVars, clientVars
<1> QED  BY <1>1, <1>2, <1>3, <1>4 DEF Next

\* The part of the inductive invariant that all the theorems share.
LEMMA ControllerInvariant == Spec => []BasicInv
<1>1. Init /\ MonTask!IInv /\ RepTask!IInv => BasicInv
  <2> SUFFICES ASSUME Init, MonTask!IInv, RepTask!IInv PROVE BasicInv
    OBVIOUS
  <2>1. TypeOK
    BY InitTypeOK
  <2>2. StepMatches /\ NotStarted /\ RestartOverlaps /\ ClosedIsOff
    BY DEF Init, Mon!Init, Mon!Loops, Loops, StepMatches, NotStarted, RestartOverlaps, ClosedIsOff,
           MonitorClosed
  <2>3. LocalsInv
    BY DEF Init, LocalsInv, Reloads, Compares
  <2> QED  BY <2>1, <2>2, <2>3 DEF BasicInv, PollInv
<1>2. BasicInv /\ [Next]_vars /\ (MonTask!IInv /\ RepTask!IInv)' => BasicInv'
  <2>1. BasicInv /\ [Next]_vars /\ (MonTask!IInv /\ RepTask!IInv)' =>
            (TypeOK /\ StepMatches /\ NotStarted /\ RestartOverlaps /\ ClosedIsOff /\ LocalsInv)'
    BY NextTypeOK, NextPollInv, NextLocalsInv
  <2> QED  BY <2>1 DEF BasicInv, PollInv
<1> QED  BY <1>1, <1>2, TasksInvariant, PTL DEF Spec

\* The variables keep their types: in particular no poll works on a node or a list it has not fetched.
THEOREM ControllerTypeOK == Spec => []TypeOK
<1>1. BasicInv => TypeOK
  BY DEF BasicInv
<1> QED  BY <1>1, ControllerInvariant, PTL

\* Unless the channel of the monitor was closed under a poll, one loop at a time is inside a poll, and
\* the task is running meanwhile.
LEMMA OnePoll ==
    ASSUME BasicInv, ~mOverlapped, NEW i \in Loops, step[i] # "idle"
    PROVE  /\ mRunning /\ mPc[i] = "exec" /\ main \notin Starting \cup MonitorClosed /\ step[i] # "monStart"
           /\ \A j \in Loops \ {i} : step[j] = "idle"
<1>1. \A j \in Loops : step[j] # "idle" => mPc[j] = "exec"
  BY DEF BasicInv, PollInv, StepMatches
<1>2. \A j \in Loops : mPc[j] = "exec" => mRunning /\ j = mStop
  BY DEF BasicInv, MonTask!IInv, MonTask!DriverIsLast, MonTask!Driving, MonTask!Busy, MonTask!Loops, Loops
<1>3. main \notin Starting \cup MonitorClosed
  BY <1>1, <1>2, NoPollYet DEF BasicInv, PollInv, ClosedIsOff
<1> QED  BY <1>1, <1>2, <1>3 DEF BasicInv, PollInv, RestartOverlaps

-----------------------------------------------------------------------------
\* The task that is being restarted has a loop that is about to start it.
Restarting ==
    main = "up" =>
        /\ mRunning \/ \E i \in Loops : step[i] = "monStart"
        /\ rRunning \/ \E i \in Loops : step[i] = "repStart"

\* Closing while no poll is in progress: no poll begins any more.
QuietInv ==
    quietClose =>
        /\ main \in MonitorClosed /\ ~mRunning
        /\ \A i \in Loops : step[i] = "idle"
        /\ main # "closeRep" => ~rRunning
        /\ main = "closed" => coreNode = None

\* A poll restarts the tasks in order: the monitor, then the report.
LEMMA PollRestarts ==
    ASSUME NEW i \in Loops, Monitor(i)
    PROVE  /\ step[i] = "monStart" => mRunning'
           /\ step[i] = "repStart" => rRunning'
           /\ \/ mRunning' = mRunning
              \/ mRunning'
              \/ step' = [step EXCEPT ![i] = "monStart"]
           /\ \/ rRunning' = rRunning
              \/ rRunning'
              \/ step' = [step EXCEPT ![i] = "repStart"]
<1> USE DEF Goto, Return, Crash, At, monVars, repVars, Mon!ExecuteOk
<1>1. CASE MonGetNode(i) \/ MonGetUsers(i) \/ MonDelNode(i) \/ MonLimiter(i) \/ MonBadRule(i)
  BY <1>1 DEF MonGetNode, MonGetUsers, MonDelNode, MonLimiter, MonBadRule
<1>2. CASE MonCert(i) \/ MonAddNode(i) \/ MonAddUsers(i)
  BY <1>2 DEF MonCert, MonAddNode, MonAddUsers
<1>3. CASE MonInterval(i)
  BY <1>3 DEF MonInterval
<1>4. CASE MonRestart(i)
  BY <1>4 DEF MonRestart, MonStart, Mon!Start
<1>5. CASE RepInterval(i)
  BY <1>5 DEF RepInterval
<1>6. CASE RepRestart(i)
  BY <1>6 DEF RepRestart, RepStart, Rep!Start
<1>7. CASE MonCompare(i) \/ MonDelUsers(i) \/ MonAddMore(i) \/ MonUpdate(i)
  BY <1>7 DEF MonCompare, MonDelUsers, MonAddMore, MonUpdate
<1> QED  BY <1>1, <1>2, <1>3, <1>4, <1>5, <1>6, <1>7 DEF Monitor

LEMMA NextRestarting == BasicInv /\ Restarting /\ [Next]_vars => Restarting'
<1> SUFFICES ASSUME BasicInv, Restarting, [Next]_vars, main' = "up"
             PROVE  /\ mRunning' \/ \E i \in Loops : step'[i] = "monStart"
                    /\ rRunning' \/ \E i \in Loops : step'[i] = "repStart"
  BY DEF Restarting
<1>0. step \in [Loops -> StepNames]
  BY DEF BasicInv, TypeOK
<1>1. CASE StartController
  <2>1. main # "up"
    BY <1>1 DEF StartController, StartGetNode, StartGetUsers, StartLimiter, StartBadRule, StartCert,
       StartAddNode, StartAddUsers, StartTasks, StartAt
  <2>2. StartTasks
    BY <1>1, <2>1 DEF StartController, StartGetNode, StartGetUsers, StartLimiter, StartBadRule, StartCert,
       StartAddNode, StartAddUsers, Crash
  <2> QED  BY <2>2 DEF StartTasks, Mon!Start, Rep!Start
<1>2. CASE CloseController
  BY <1>2 DEF CloseController, CloseLimiter, CloseMon, CloseRep, CloseDelNode
<1>3. ASSUME NEW i \in Loops, Monitor(i), UNCHANGED main
      PROVE  /\ mRunning' \/ \E j \in Loops : step'[j] = "monStart"
             /\ rRunning' \/ \E j \in Loops : step'[j] = "repStart"
  <2>1. \A j \in Loops \ {i} : step'[j] = step[j]
    BY <1>0, <1>3, PollForms DEF Return
  <2>2. mRunning' \/ \E j \in Loops : step'[j] = "monStart"
    BY <1>0, <1>3, <2>1, PollRestarts DEF Restarting
  <2>3. rRunning' \/ \E j \in Loops : step'[j] = "repStart"
    BY <1>0, <1>3, <2>1, PollRestarts DEF Restarting
  <2> QED  BY <2>2, <2>3
<1>4. ASSUME NEW i \in Loops, MonWaits(i) \/ MonFires(i), UNCHANGED main
      PROVE  /\ mRunning' \/ \E j \in Loops : step'[j] = "monStart"
             /\ rRunning' \/ \E j \in Loops : step'[j] = "repStart"
  <2>1. UNCHANGED <<mRunning, rRunning>>
    BY <1>4 DEF MonWaits, MonFires, Mon!EnterSelect, Mon!StopSeen, Mon!TimerFires, repVars
  <2>2. step[i] = "idle" /\ (UNCHANGED step \/ step' = [step EXCEPT ![i] = "getNode"])
    BY <1>4, IdleForms
  <2> QED  BY <1>0, <1>4, <2>1, <2>2 DEF Restarting
<1>5. ASSUME NEW i \in Loops, RepStep(i)
      PROVE  UNCHANGED <<main, mRunning, rRunning, step>>
  BY <1>5 DEF RepStep, mainVars, monVars, Rep!LoopStep, Rep!EnterSelect, Rep!TimerFires, Rep!StopSeen,
     Rep!ExecuteOk, Rep!ExecuteFails
<1>6. CASE PanelChanges \/ UNCHANGED vars
  BY <1>6 DEF PanelChanges, vars, mainVars, monVars, repVars, Restarting
<1> QED  BY <1>1, <1>2, <1>3, <1>4, <1>5, <1>6 DEF Next, MonStep, mainVars, Restarting

\* Between polls of a controller that is up both of its tasks are running: whichever restart for a
\* new interval was cut into by other steps, none leaves it without a monitor or a report.
THEOREM ControllerUpIsMonitored == Spec => []UpIsMonitored
<1>1. Init => Restarting
  BY DEF Init, Restarting
<1>2. Restarting => UpIsMonitored
  BY DEF Restarting, UpIsMonitored, Resting
<1> QED  BY <1>1, <1>2, NextRestarting, ControllerInvariant, PTL DEF Spec

\* A monitor that is closed and not polling polls no more.
LEMMA OffStaysOff ==
    ASSUME BasicInv, ~mRunning, NEW i \in Loops PROVE ~MonFires(i)
<1> SUFFICES ASSUME MonFires(i) PROVE FALSE
  OBVIOUS
<1>1. mPc[i] = "wait" /\ mCh[i] \notin mClosed
  BY DEF MonFires, Mon!TimerFires
<1>2. i \in MonTask!Loops /\ mCh[i] \in 0..MaxStarts /\ mStop \in 0..MaxStarts /\ MaxStarts \in Nat
  BY ControllerAssumption DEF Loops, MonTask!Loops, BasicInv, MonTask!IInv, MonTask!TypeOK
<1>3. mCh[i] <= mStop /\ mCh[i] >= i
  BY <1>1, <1>2 DEF BasicInv, MonTask!IInv, MonTask!LoopOrder
<1>4. mCh[i] \in MonTask!Loops
  BY <1>2, <1>3 DEF MonTask!Loops
<1>5. mStop > 0 /\ mStop \in mClosed
  BY <1>2, <1>3 DEF BasicInv, MonTask!IInv, MonTask!RunningMatchesChannel, MonTask!Loops
<1> QED  BY <1>1, <1>2, <1>3, <1>4, <1>5 DEF BasicInv, MonTask!IInv, MonTask!RunningMatchesChannel

LEMMA NextQuietInv == BasicInv /\ QuietInv /\ [Next]_vars => QuietInv'
<1> SUFFICES ASSUME BasicInv, QuietInv, [Next]_vars, quietClose' PROVE QuietInv'
  BY DEF QuietInv
<1>1. CASE CloseMon /\ CloseController
  <2>1. main' = "closeRep" /\ ~mRunning'
    BY <1>1 DEF CloseMon, MonClose, Mon!Close, monVars
  <2>3. \A i \in Loops : step[i] = "idle"
    <3>1. quietClose' = (\A i \in Loops : step[i] = "idle")
      BY <1>1 DEF CloseMon
    <3> QED  BY <3>1, Zenon
  <2>2. UNCHANGED step
    BY <1>1 DEF CloseController
  <2> QED  BY <2>1, <2>2, <2>3 DEF QuietInv, MonitorClosed
<1>2. ASSUME UNCHANGED quietClose
      PROVE  QuietInv'
  <2>0. /\ main \in MonitorClosed /\ ~mRunning /\ \A i \in Loops : step[i] = "idle"
        /\ main # "closeRep" => ~rRunning
        /\ main = "closed" => coreNode = None
    BY <1>2 DEF QuietInv
  <2>1. CASE StartController
    BY <2>0, <2>1 DEF StartController, StartGetNode, StartGetUsers, StartLimiter, StartBadRule, StartCert,
       StartAddNode, StartAddUsers, StartTasks, StartAt, MonitorClosed
  <2>2. CASE CloseController
    <3>1. CASE CloseRep
      BY <2>0, <2>2, <3>1 DEF CloseController, CloseRep, RepClose, Rep!Close, repVars, monVars, StartAt,
         MonitorClosed, QuietInv
    <3>2. CASE CloseDelNode
      BY <2>0, <2>2, <3>2 DEF CloseController, CloseDelNode, CoreDelNode, repVars, monVars, StartAt,
         MonitorClosed, QuietInv
    <3> QED  BY <2>0, <2>2, <3>1, <3>2 DEF CloseController, CloseLimiter, CloseMon, StartAt, MonitorClosed
  <2>3. ASSUME NEW i \in Loops, MonStep(i) PROVE QuietInv'
    <3>1. ~Monitor(i) /\ ~MonFires(i)
      BY <2>0, OffStaysOff, PollForms
    <3>2. MonWaits(i) /\ UNCHANGED mainVars
      BY <2>3, <3>1 DEF MonStep
    <3> QED  BY <2>0, <3>2 DEF MonWaits, Mon!EnterSelect, Mon!StopSeen, QuietInv, mainVars, repVars, coreVars
  <2>4. ASSUME NEW i \in Loops, RepStep(i) PROVE QuietInv'
    BY <2>0, <2>4 DEF RepStep, mainVars, monVars, coreVars, Rep!LoopStep, Rep!EnterSelect, Rep!TimerFires,
       Rep!StopSeen, Rep!ExecuteOk, Rep!ExecuteFails, QuietInv
  <2>5. CASE PanelChanges \/ UNCHANGED vars
    BY <2>0, <2>5 DEF PanelChanges, vars, mainVars, monVars, repVars, coreVars, QuietInv
  <2> QED  BY <2>1, <2>2, <2>3, <2>4, <2>5 DEF Next
<1>3. CASE ~UNCHANGED quietClose /\ ~(CloseMon /\ CloseController)
  BY <1>3 DEF Next, PanelChanges, StartController, CloseController, CloseLimiter, CloseRep, CloseDelNode,
     MonStep, RepStep, vars, mainVars
<1> QED  BY <1>1, <1>2, <1>3

\* A controller that was closed while no poll was in progress stays closed: no loop polls again, not
\* even one that was about to wait for its timer, and no node is left in the core.
THEOREM ControllerClosedStaysClosed == Spec => []ClosedStaysClosed
<1>1. Init => QuietInv
  BY DEF Init, QuietInv
<1>2. QuietInv => ClosedStaysClosed
  BY DEF QuietInv, ClosedStaysClosed
<1> QED  BY <1>1, <1>2, NextQuietInv, ControllerInvariant, PTL DEF Spec

-----------------------------------------------------------------------------
\* Where a poll has removed the node and has not added the new one.
Between == {"limiter", "cert", "addNode"}

NodeInv ==
    failures = 0 /\ ~ClosedDuringPoll =>
        /\ crashed # "no" => TwoPolls
        /\ main \in {"getNode", "getUsers", "limiter", "cert", "addNode"} => coreNode = None
        /\ main \in {"addUsers", "tasks"} => coreNode # None
        /\ crashed = "no" /\ main \in {"up", "closeMon"} =>
             /\ coreNode = None <=> \E i \in Loops : step[i] \in Between
             /\ \A i, j \in Loops : step[i] \in Between /\ step[j] \in Between => i = j

\* Failures are counted: a step that leaves the count at zero is not one.
LEMMA NoFailure ==
    ASSUME BasicInv, [Next]_vars, failures' = 0 PROVE failures = 0 /\ ~Fails
<1>1. failures \in Nat
  <2>1. failures \in 0..MaxFailures
    BY DEF BasicInv, TypeOK
  <2> QED  BY <2>1
<1>2. UNCHANGED failures \/ Fails
  <2>1. ASSUME NEW i \in Loops, Monitor(i) PROVE UNCHANGED failures \/ Fails
    BY <2>1 DEF Monitor, NodeFetched, NodeUnchanged, NodeFetchFails, UsersFetched, UsersFetchFails,
       CoreAddUsersFails, CoreDelUsersFails, MonGetNode, MonGetUsers, MonDelNode, MonLimiter, MonBadRule,
       MonCert, MonAddNode, MonAddUsers, MonInterval, MonRestart, RepInterval, RepRestart, MonCompare,
       MonDelUsers, MonAddMore, MonUpdate
  <2>2. CASE StartController
    BY <2>2 DEF StartController, StartGetNode, StartGetUsers, StartLimiter, StartBadRule, StartCert,
       StartAddNode, StartAddUsers, StartTasks, NodeFetched, NodeFetchFails, UsersFetched, UsersFetchFails,
       CoreAddUsersFails
  <2>3. CASE CloseController
    BY <2>3 DEF CloseController, CloseLimiter, CloseMon, CloseRep, CloseDelNode
  <2>4. CASE ~StartController /\ ~CloseController /\ ~\E i \in Loops : Monitor(i)
    BY <2>4 DEF Next, PanelChanges, MonStep, MonWaits, MonFires, RepStep, vars
  <2> QED  BY <2>1, <2>2, <2>3, <2>4
<1> QED  BY <1>1, <1>2 DEF Fails

\* A step of a poll that meets no failure either leaves the node alone, or takes it down, or puts it up
\* again, or finds that it is down already.
LEMMA PollKeepsNode ==
    ASSUME TypeOK, LocalsInv, NEW i \in Loops, Monitor(i), ~Fails, step[i] \in Between => coreNode = None
    PROVE  \/ crashed' = "no" /\ coreNode' = coreNode /\ (step'[i] \in Between <=> step[i] \in Between)
           \/ crashed' = "no" /\ coreNode # None /\ coreNode' = None /\ step'[i] \in Between
           \/ crashed' = "no" /\ step[i] \in Between /\ coreNode' # None /\ step'[i] \notin Between
           \/ crashed' # "no" /\ UNCHANGED step /\ coreNode = None /\ step[i] = "delNode"
<1>0. step \in [Loops -> StepNames]
  BY DEF TypeOK
<1> USE DEF Between, At, Goto, Return, coreVars
<1>1. CASE MonGetNode(i)
  BY <1>0, <1>1 DEF MonGetNode, NodeFetchFails
<1>2. CASE MonGetUsers(i)
  BY <1>0, <1>2 DEF MonGetUsers, UsersFetchFails
<1>3. CASE MonDelNode(i)
  BY <1>0, <1>3 DEF MonDelNode, CoreDelNode, Crash
<1>4. CASE MonLimiter(i) \/ MonBadRule(i) \/ MonCert(i)
  BY <1>0, <1>4 DEF MonLimiter, MonBadRule, MonCert
<1>5. CASE MonAddNode(i)
  <2>1. newN[i] # None
    BY <1>5, ControllerAssumption DEF MonAddNode, LocalsInv, Reloads
  <2> QED  BY <1>0, <1>5, <2>1 DEF MonAddNode, CoreAddNode
<1>6. CASE MonAddUsers(i)
  BY <1>0, <1>6 DEF MonAddUsers, CoreAddUsers, CoreAddUsersFails
<1>7. CASE MonInterval(i) \/ MonRestart(i)
  BY <1>0, <1>7 DEF MonInterval, MonRestart
<1>8. CASE RepInterval(i) \/ RepRestart(i)
  BY <1>0, <1>8 DEF RepInterval, RepRestart
<1>9. CASE MonCompare(i)
  BY <1>0, <1>9 DEF MonCompare
<1>10. CASE MonDelUsers(i)
  BY <1>0, <1>10 DEF MonDelUsers, CoreDelUsers, CoreDelUsersFails
<1>11. CASE MonAddMore(i)
  BY <1>0, <1>11 DEF MonAddMore, CoreAddUsers, CoreAddUsersFails
<1>12. CASE MonUpdate(i)
  BY <1>0, <1>12 DEF MonUpdate
<1> QED  BY <1>1, <1>2, <1>3, <1>4, <1>5, <1>6, <1>7, <1>8, <1>9, <1>10, <1>11, <1>12 DEF Monitor

\* A Close that met a poll stays one.
LEMMA CloseStays == [Next]_vars /\ ClosedDuringPoll => ClosedDuringPoll'
<1> SUFFICES ASSUME [Next]_vars, ClosedDuringPoll PROVE ClosedDuringPoll'
  OBVIOUS
<1>1. CASE StartController
  BY <1>1 DEF StartController, StartGetNode, StartGetUsers, StartLimiter, StartBadRule, StartCert, StartAddNode,
     StartAddUsers, StartTasks, StartAt, ClosedDuringPoll
<1>2. CASE CloseController
  <2>1. ~CloseMon /\ ~CloseLimiter
    BY DEF CloseMon, CloseLimiter, StartAt, ClosedDuringPoll
  <2> QED  BY <1>2, <2>1 DEF CloseController, CloseRep, CloseDelNode, StartAt, ClosedDuringPoll
<1>3. CASE UNCHANGED mainVars
  BY <1>3 DEF mainVars, ClosedDuringPoll
<1> QED  BY <1>1, <1>2, <1>3 DEF Next, PanelChanges, MonStep, RepStep, vars, mainVars

LEMMA NextNodeInv == BasicInv /\ QuietInv /\ NodeInv /\ [Next]_vars => NodeInv'
<1> SUFFICES ASSUME BasicInv, QuietInv, NodeInv, [Next]_vars, failures' = 0, ~ClosedDuringPoll'
             PROVE  NodeInv'
  BY DEF NodeInv
<1>0. failures = 0 /\ ~Fails /\ ~ClosedDuringPoll
  BY NoFailure, CloseStays
<1>1. /\ crashed # "no" => TwoPolls
      /\ main \in {"getNode", "getUsers", "limiter", "cert", "addNode"} => coreNode = None
      /\ main \in {"addUsers", "tasks"} => coreNode # None
      /\ crashed = "no" /\ main \in {"up", "closeMon"} =>
           /\ coreNode = None <=> \E i \in Loops : step[i] \in Between
           /\ \A i, j \in Loops : step[i] \in Between /\ step[j] \in Between => i = j
  BY <1>0 DEF NodeInv
<1>2. CASE StartController
  <2>1. main \in Starting /\ UNCHANGED step /\ crashed = "no"
    BY <1>2 DEF StartController, StartGetNode, StartGetUsers, StartLimiter, StartBadRule, StartCert,
                StartAddNode, StartAddUsers, StartTasks, StartAt, Starting
  <2>2. \A i \in Loops : step'[i] \notin Between
    BY <2>1, NoPollYet DEF Between
  <2>3. CASE StartAddNode
    <3>1. StartNode # None
      BY <2>3, ControllerAssumption DEF StartAddNode, StartNode, StartAt, BasicInv, LocalsInv
    <3> QED  BY <1>0, <1>1, <2>1, <2>3, <3>1 DEF StartAddNode, CoreAddNode, NodeInv
  <2>4. CASE StartAddUsers
    BY <1>0, <1>1, <2>1, <2>4 DEF StartAddUsers, StartAt, CoreAddUsers, CoreAddUsersFails, NodeInv, coreVars
  <2>5. CASE StartTasks
    <3>1. main' = "up" /\ crashed' = "no" /\ coreNode' # None
      BY <1>1, <2>1, <2>5 DEF StartTasks, StartAt, coreVars
    <3> QED  BY <2>2, <3>1 DEF NodeInv
  <2>6. CASE StartGetNode \/ StartGetUsers \/ StartLimiter \/ StartBadRule \/ StartCert
    BY <1>0, <1>1, <2>1, <2>6 DEF StartGetNode, StartGetUsers, StartLimiter, StartBadRule, StartCert, StartAt,
       NodeInv, coreVars
  <2> QED  BY <1>2, <2>3, <2>4, <2>5, <2>6 DEF StartController
<1>3. CASE CloseController
  <2>1. crashed = "no" /\ UNCHANGED <<crashed, step>>
    BY <1>3 DEF CloseController, CloseLimiter, CloseMon, CloseRep, CloseDelNode, StartAt
  <2> QED  BY <1>0, <1>1, <1>3, <2>1 DEF CloseController, CloseLimiter, CloseMon, CloseRep, CloseDelNode, StartAt,
     NodeInv, coreVars
<1>4. ASSUME NEW i \in Loops, Monitor(i), UNCHANGED main PROVE NodeInv'
  <2>1. step[i] # "idle" /\ crashed = "no" /\ \A j \in Loops \ {i} : step'[j] = step[j]
    BY <1>4, PollForms, PollKeepsLocals DEF BasicInv
  <2>2. main \in {"up", "closeMon"}
    <3>1. main \notin Starting
      BY <2>1, NoPollYet
    <3>2. main \notin MonitorClosed
      BY <1>0, <2>1 DEF ClosedDuringPoll, MonitorClosed, QuietInv
    <3> QED  BY <3>1, <3>2 DEF BasicInv, TypeOK, MainNames, Starting, MonitorClosed
  <2>3. step[i] \in Between => coreNode = None
    BY <1>1, <2>1, <2>2
  <2>4. CASE crashed' = "no" /\ coreNode' = coreNode /\ (step'[i] \in Between <=> step[i] \in Between)
    <3>1. \A j \in Loops : step'[j] \in Between <=> step[j] \in Between
      BY <2>1, <2>4
    <3> QED  BY <1>1, <1>4, <2>1, <2>2, <2>4, <3>1 DEF NodeInv
  <2>5. CASE crashed' = "no" /\ coreNode # None /\ coreNode' = None /\ step'[i] \in Between
    <3>1. \A j \in Loops \ {i} : step'[j] \notin Between
      BY <1>1, <2>1, <2>2, <2>5
    <3> QED  BY <1>4, <2>2, <2>5, <3>1 DEF NodeInv
  <2>6. CASE crashed' = "no" /\ step[i] \in Between /\ coreNode' # None /\ step'[i] \notin Between
    <3>1. \A j \in Loops : step'[j] \notin Between
      BY <1>1, <2>1, <2>2, <2>6
    <3> QED  BY <1>4, <2>2, <2>6, <3>1 DEF NodeInv
  <2>7. CASE UNCHANGED step /\ coreNode = None /\ step[i] = "delNode" /\ crashed' # "no"
    <3>1. PICK j \in Loops : step[j] \in Between
      BY <1>1, <2>1, <2>2, <2>7
    <3>2. i # j /\ step'[i] # "idle" /\ step'[j] # "idle"
      BY <2>7, <3>1 DEF Between
    <3> QED  BY <1>4, <2>2, <2>7, <3>2 DEF NodeInv, TwoPolls
  <2> QED  BY <1>0, <1>4, <2>3, <2>4, <2>5, <2>6, <2>7, PollKeepsNode DEF BasicInv
<1>5. ASSUME NEW i \in Loops, MonWaits(i) \/ MonFires(i), UNCHANGED main PROVE NodeInv'
  <2>1. UNCHANGED <<coreNode, crashed>>
    BY <1>5 DEF MonWaits, MonFires, coreVars
  <2>2. step[i] = "idle" /\ (UNCHANGED step \/ step' = [step EXCEPT ![i] = "getNode"])
    BY <1>5, IdleForms
  <2>3. \A j \in Loops : step'[j] \in Between <=> step[j] \in Between
    BY <2>2 DEF BasicInv, TypeOK, Between
  <2>4. crashed = "no"
    BY <1>5 DEF MonWaits, MonFires
  <2> QED  BY <1>1, <1>5, <2>1, <2>3, <2>4 DEF NodeInv
<1>6. CASE PanelChanges \/ (\E i \in Loops : RepStep(i)) \/ UNCHANGED vars
  <2>1. UNCHANGED <<coreNode, crashed, main, step>>
    BY <1>6 DEF PanelChanges, RepStep, vars, mainVars, coreVars
  <2> QED  BY <1>1, <2>1 DEF NodeInv, TwoPolls
<1> QED  BY <1>2, <1>3, <1>4, <1>5, <1>6 DEF Next, MonStep, mainVars

\* The panics of a reload ("Delete node failed", "Add node failed") need an earlier failing call, a second
\* poll under way, or a Close that met a poll: nothing that happens at the panel ends the process by itself.
THEOREM ControllerCrashNeedsCause == Spec => []CrashNeedsCause
<1>1. Init => NodeInv /\ QuietInv
  BY DEF Init, NodeInv, QuietInv
<1>2. BasicInv /\ NodeInv => CrashNeedsCause
  <2> SUFFICES ASSUME BasicInv, NodeInv, crashed # "no" PROVE failures > 0 \/ TwoPolls \/ ClosedDuringPoll
    BY DEF CrashNeedsCause
  <2>1. failures \in 0..MaxFailures
    BY DEF BasicInv, TypeOK
  <2>2. failures # 0 \/ TwoPolls \/ ClosedDuringPoll
    BY DEF NodeInv
  <2> QED  BY <2>1, <2>2
<1> QED  BY <1>1, <1>2, NextNodeInv, NextQuietInv, ControllerInvariant, PTL DEF Spec

-----------------------------------------------------------------------------
CompareInv ==
    ~mOverlapped =>
        \A i \in Loops : step[i] \in Compares =>
            deleted[i] = Deleted(userList, newU[i]) /\ added[i] = Added(userList, newU[i])

LimiterInv ==
    ~mOverlapped /\ ~Named /\ main \in {"cert", "addNode", "addUsers", "tasks", "up"} =>
        crashed # "no" \/ Keys(limiter) = Keys(userList) \/ \E i \in Loops : step[i] = "limiter"

\* compareUserList and limiter.UpdateUser together turn the old list into the new one, as far as uuid
\* and speed limit go, when each list names a user once.
LEMMA UpdateFollows ==
    ASSUME NEW old, NEW new, NEW l, Keys(l) = Keys(old),
           \A u, v \in old : u.uuid = v.uuid => u = v,
           \A u, v \in new : u.uuid = v.uuid => u = v
    PROVE  Keys(UpdateUser(l, Added(old, new), Deleted(old, new))) = Keys(new)
<1> DEFINE r == UpdateUser(l, Added(old, new), Deleted(old, new))
<1>0. \A u, v : Key(u) = Key(v) => u.uuid = v.uuid
  BY DEF Key
<1>1. ASSUME NEW u \in r PROVE Key(u) \in Keys(new)
  <2>1. CASE u \in Added(old, new)
    BY <2>1 DEF Added, Keys
  <2>2. CASE u \notin Added(old, new)
    <3>1. u \in l /\ u.uuid \notin Uuid(Deleted(old, new))
      BY <2>2 DEF UpdateUser
    <3>2. PICK v \in old : Key(v) = Key(u)
      BY <3>1 DEF Keys
    <3>3. v \notin Deleted(old, new)
      BY <1>0, <3>1, <3>2 DEF Uuid
    <3> QED  BY <3>2, <3>3 DEF Deleted
  <2> QED  BY <2>1, <2>2
<1>2. ASSUME NEW w \in new PROVE \E u \in r : Key(u) = Key(w)
  <2>1. CASE w \in Added(old, new)
    BY <2>1 DEF UpdateUser
  <2>2. CASE w \notin Added(old, new)
    <3>1. Key(w) \in Keys(old)
      BY <2>2 DEF Added
    <3>2. PICK v \in old : Key(v) = Key(w)
      BY <3>1 DEF Keys
    <3>3. PICK u \in l : Key(u) = Key(w)
      BY <3>1 DEF Keys
    <3>4. u.uuid = w.uuid /\ v.uuid = w.uuid
      BY <1>0, <3>2, <3>3
    <3>5. u.uuid \notin Uuid(Deleted(old, new))
      <4> SUFFICES ASSUME NEW d \in Deleted(old, new), d.uuid = u.uuid PROVE FALSE
        BY DEF Uuid
      <4>1. d = v
        BY <3>4 DEF Deleted
      <4> QED  BY <3>2, <4>1 DEF Deleted, Keys
    <3>6. u.uuid \notin Uuid(Added(old, new))
      <4> SUFFICES ASSUME NEW a \in Added(old, new), a.uuid = u.uuid PROVE FALSE
        BY DEF Uuid
      <4>1. a = w
        BY <3>4 DEF Added
      <4> QED  BY <2>2, <4>1
    <3>7. u \in r
      BY <3>5, <3>6 DEF UpdateUser
    <3> QED  BY <3>3, <3>7
  <2> QED  BY <2>1, <2>2
<1> HIDE DEF r
<1>3. Keys(r) = Keys(new)
  BY <1>1, <1>2 DEF Keys
<1> QED  BY <1>3 DEF r

\* Every step but a compare keeps the user list under a compared pair, or ends the poll.
LEMMA NextCompareInv == BasicInv /\ CompareInv /\ [Next]_vars => CompareInv'
<1> SUFFICES ASSUME BasicInv, CompareInv, [Next]_vars, ~mOverlapped', NEW i \in Loops, step'[i] \in Compares
             PROVE  /\ deleted'[i] = Deleted(userList', newU'[i])
                    /\ added'[i] = Added(userList', newU'[i])
  BY DEF CompareInv
<1>0. /\ ~mOverlapped /\ step \in [Loops -> StepNames]
      /\ step[i] \in Compares =>
             deleted[i] = Deleted(userList, newU[i]) /\ added[i] = Added(userList, newU[i])
  BY OverlapStays DEF CompareInv, BasicInv, TypeOK
<1>1. CASE UNCHANGED <<step, userList, localVars>>
  BY <1>0, <1>1 DEF localVars
<1>2. CASE StartController
  <2>1. main \in Starting /\ UNCHANGED step
    BY <1>2 DEF StartController, StartGetNode, StartGetUsers, StartLimiter, StartBadRule, StartCert,
                StartAddNode, StartAddUsers, StartTasks, StartAt, Starting
  <2> QED  BY <2>1, NoPollYet DEF Compares
<1>3. ASSUME NEW j \in Loops, MonWaits(j) \/ MonFires(j)
      PROVE  UNCHANGED <<userList, localVars>> /\ step[i] \in Compares
  <2>1. UNCHANGED <<userList, localVars>>
    BY <1>3 DEF MonWaits, MonFires
  <2>2. UNCHANGED step \/ step' = [step EXCEPT ![j] = "getNode"]
    BY <1>3, IdleForms
  <2> QED  BY <1>0, <2>1, <2>2 DEF Compares
<1>4. ASSUME NEW j \in Loops, Monitor(j)
      PROVE  /\ deleted'[i] = Deleted(userList', newU'[i])
             /\ added'[i] = Added(userList', newU'[i])
  <2>1. \A k \in Loops \ {j} : step[k] = "idle" /\ step'[k] = step[k]
    BY <1>0, <1>4, OnePoll, PollForms, PollKeepsLocals DEF BasicInv
  <2>2. i = j
    BY <2>1 DEF Compares
  <2>3. CASE MonCompare(i)
    <3>1. \/ step'[i] = "idle"
          \/ /\ deleted' = [deleted EXCEPT ![i] = Deleted(userList, newU[i])]
             /\ added' = [added EXCEPT ![i] = Added(userList, newU[i])]
             /\ UNCHANGED <<newU, userList>>
      BY <1>0, <2>3 DEF MonCompare, Return
    <3> QED  BY <3>1 DEF Compares, BasicInv, TypeOK
  <2>4. CASE MonDelUsers(i) \/ MonAddMore(i)
    <3>1. step[i] \in Compares /\ UNCHANGED userList
      BY <2>4 DEF MonDelUsers, MonAddMore, At, Compares
    <3>2. Return(i) \/ UNCHANGED localVars
      BY <2>4 DEF MonDelUsers, MonAddMore
    <3>3. ~Return(i)
      BY <1>0 DEF Return, Compares
    <3> QED  BY <1>0, <3>1, <3>2, <3>3 DEF localVars
  <2>5. CASE ~MonCompare(i) /\ ~MonDelUsers(i) /\ ~MonAddMore(i)
    <3>1. step'[i] \notin Compares
      <4>1. CASE MonGetNode(i) \/ MonGetUsers(i) \/ MonDelNode(i) \/ MonLimiter(i) \/ MonBadRule(i)
        BY <1>0, <4>1 DEF MonGetNode, MonGetUsers, MonDelNode, MonLimiter, MonBadRule, At, Goto, Return, Crash,
           Compares
      <4>2. CASE MonCert(i) \/ MonAddNode(i) \/ MonAddUsers(i)
        BY <1>0, <4>2 DEF MonCert, MonAddNode, MonAddUsers, At, Goto, Return, Crash, Compares
      <4>3. CASE MonInterval(i) \/ MonRestart(i) \/ RepInterval(i) \/ RepRestart(i) \/ MonUpdate(i)
        BY <1>0, <4>3 DEF MonInterval, MonRestart, RepInterval, RepRestart, MonUpdate, Goto, Return, Compares
      <4> QED  BY <1>4, <2>2, <2>5, <4>1, <4>2, <4>3 DEF Monitor
    <3> QED  BY <3>1
  <2> QED  BY <2>3, <2>4, <2>5
<1>5. CASE PanelChanges \/ CloseController \/ (\E j \in Loops : RepStep(j)) \/ UNCHANGED vars
  BY <1>1, <1>5 DEF PanelChanges, CloseController, RepStep, vars
<1> QED  BY <1>0, <1>2, <1>3, <1>4, <1>5 DEF Next, MonStep, localVars

\* The limiter is behind the user list only while a reload is about to rebuild it.
LEMMA NextLimiterInv == BasicInv /\ CompareInv /\ LimiterInv /\ [Next]_vars => LimiterInv'
<1> SUFFICES ASSUME BasicInv, CompareInv, LimiterInv, [Next]_vars, ~mOverlapped', ~Named,
                    main' \in {"cert", "addNode", "addUsers", "tasks", "up"}, crashed' = "no"
             PROVE  Keys(limiter') = Keys(userList') \/ \E i \in Loops : step'[i] = "limiter"
  BY DEF LimiterInv
<1>0. ~mOverlapped /\ step \in [Loops -> StepNames]
  BY OverlapStays DEF BasicInv, TypeOK
<1>1. ASSUME UNCHANGED <<main, crashed>>
      PROVE  Keys(limiter) = Keys(userList) \/ \E i \in Loops : step[i] = "limiter"
  BY <1>0, <1>1 DEF LimiterInv
<1>2. CASE StartController
  <2>1. main \in Starting /\ UNCHANGED step /\ crashed = "no"
    BY <1>2 DEF StartController, StartGetNode, StartGetUsers, StartLimiter, StartBadRule, StartCert,
                StartAddNode, StartAddUsers, StartTasks, StartAt, Starting
  <2>2. CASE StartLimiter
    BY <2>2 DEF StartLimiter
  <2>3. CASE ~StartLimiter
    <3>1. UNCHANGED <<limiter, userList>> /\ main \in {"cert", "addNode", "addUsers", "tasks"}
      BY <1>2, <2>3 DEF StartController, StartGetNode, StartGetUsers, StartBadRule, StartCert, StartAddNode,
         StartAddUsers, StartTasks, StartAt, Crash, limiterVars
    <3>2. \A i \in Loops : step[i] # "limiter"
      BY <2>1, NoPollYet
    <3> QED  BY <1>0, <2>1, <3>1, <3>2 DEF LimiterInv
  <2> QED  BY <2>2, <2>3
<1>3. CASE CloseController
  BY <1>3 DEF CloseController, CloseLimiter, CloseMon, CloseRep, CloseDelNode
<1>4. ASSUME NEW i \in Loops, MonWaits(i) \/ MonFires(i), UNCHANGED main
      PROVE  Keys(limiter') = Keys(userList') \/ \E j \in Loops : step'[j] = "limiter"
  <2>1. UNCHANGED <<limiter, userList, crashed>>
    BY <1>4 DEF MonWaits, MonFires, limiterVars
  <2>2. step[i] = "idle" /\ (UNCHANGED step \/ step' = [step EXCEPT ![i] = "getNode"])
    BY <1>4, IdleForms
  <2> QED  BY <1>0, <1>1, <1>4, <2>1, <2>2
<1>5. ASSUME NEW i \in Loops, Monitor(i), UNCHANGED main
      PROVE  Keys(limiter') = Keys(userList') \/ \E j \in Loops : step'[j] = "limiter"
  <2>1. crashed = "no" /\ step[i] # "idle"
    BY <1>5, PollForms
  <2>2. \A j \in Loops \ {i} : step[j] # "limiter"
    BY <1>0, <2>1, OnePoll
  <2>3. step[i] # "limiter" => Keys(limiter) = Keys(userList)
    BY <1>1, <1>5, <2>1, <2>2
  <2>4. CASE MonDelNode(i)
    <3>1. step' = [step EXCEPT ![i] = "limiter"]
      BY <2>4 DEF MonDelNode, Goto, Crash
    <3> QED  BY <1>0, <3>1
  <2>5. CASE MonLimiter(i)
    BY <2>5 DEF MonLimiter
  <2>6. CASE MonUpdate(i)
    <3>1. step[i] = "update" /\ newU[i] \in UserLists
      BY <2>6 DEF MonUpdate, At, BasicInv, LocalsInv, Compares
    <3>2. deleted[i] = Deleted(userList, newU[i]) /\ added[i] = Added(userList, newU[i])
      BY <1>0, <3>1 DEF CompareInv, Compares
    <3>3. /\ \A u, v \in userList : u.uuid = v.uuid => u = v
          /\ \A u, v \in newU[i] : u.uuid = v.uuid => u = v
      BY <3>1, UserListsAssumption DEF BasicInv, TypeOK
    <3>4. Keys(UpdateUser(limiter, added[i], deleted[i])) = Keys(newU[i])
      BY <2>3, <3>1, <3>2, <3>3, UpdateFollows
    <3> QED  BY <2>6, <3>4 DEF MonUpdate
  <2>7. CASE ~MonDelNode(i) /\ ~MonLimiter(i) /\ ~MonUpdate(i)
    <3>1. UNCHANGED <<limiter, userList>> /\ step[i] # "limiter"
      BY <1>5, <2>7 DEF Monitor, Crash, At, limiterVars, MonGetNode, MonGetUsers, MonBadRule, MonCert, MonAddNode,
         MonAddUsers, MonInterval, MonRestart, RepInterval, RepRestart, MonCompare, MonDelUsers, MonAddMore
    <3> QED  BY <2>3, <3>1
  <2> QED  BY <2>4, <2>5, <2>6, <2>7
<1>6. CASE PanelChanges \/ (\E i \in Loops : RepStep(i)) \/ UNCHANGED vars
  <2>1. UNCHANGED <<limiter, userList, crashed, main, step>>
    BY <1>6 DEF PanelChanges, RepStep, vars, mainVars, limiterVars
  <2> QED  BY <1>1, <2>1
<1> QED  BY <1>2, <1>3, <1>4, <1>5, <1>6 DEF Next, MonStep, mainVars

\* Between polls of an unnamed node the limiter knows the users of the user list with their speed limits,
\* whatever failed on the way: compareUserList, UpdateUser and the rebuilding of the limiter agree.
THEOREM ControllerLimiterFollows ==
    ASSUME ~Named PROVE Spec => []LimiterFollowsUserList
<1>1. Init => CompareInv /\ LimiterInv
  BY DEF Init, CompareInv, LimiterInv, Compares
<1>2. LimiterInv => LimiterFollowsUserList
  BY DEF LimiterInv, LimiterFollowsUserList, Resting
<1> QED  BY <1>1, <1>2, NextCompareInv, NextLimiterInv, ControllerInvariant, PTL DEF Spec

-----------------------------------------------------------------------------
(***************************************************************************)
(* What the panel was told and what the core serves.                       *)
(***************************************************************************)

\* The node of the hash is served.
NodeServed == nodeHash \in NodeConfigs /\ ~lostNode => info = nodeHash /\ coreNode = nodeHash

\* The users of the acknowledged list, and those of the core, are those of the user list.
ListKnown == userEtag \notin {None, {}} => Uuid(userEtag) \ torn = Uuid(userList) \ torn

ListServed == coreNode # None => coreUsers \ torn = Uuid(userList) \ torn

\* How far a poll has come, while no other loop polls: with the node,
Restored == {"interval", "monStart", "repInterval", "repStart"}

AckNode(i) ==
    /\ step[i] = "getUsers" => newN[i] \in {None, nodeHash} /\ (newN[i] = None => NodeServed)
    /\ step[i] \in {"idle", "getNode", "compare"} \cup Compares => NodeServed
    /\ step[i] \in Reloads => newN[i] = nodeHash
    /\ step[i] \in Between => info = nodeHash /\ coreNode = None
    /\ step[i] \in {"addUsers"} \cup Restored => info = nodeHash /\ coreNode = nodeHash

\* with the user list,
AckList(i) ==
    /\ step[i] \in {"idle", "getNode", "getUsers"} \cup Restored => ListKnown
    /\ step[i] \in {"delNode", "compare", "addUsers"} \cup Between =>
        \/ newU[i] = NoList /\ ListKnown
        \/ newU[i] # NoList /\ userEtag \in {None, newU[i]}
    /\ step[i] \in {"addUsers"} \cup Between => newU[i] \in {NoList, {}, userList}
    /\ step[i] \in Compares => userEtag \in {None, newU[i]}

\* and with the users of the core.
AckCore(i) ==
    LET delta == Uuid(deleted[i] \cup added[i]) IN
    /\ step[i] \in {"idle", "getNode", "getUsers", "delNode", "compare"} \cup Restored => ListServed
    /\ step[i] = "addUsers" => coreUsers = {}
    /\ step[i] \in Compares /\ coreNode # None =>
        /\ coreUsers \ (torn \cup delta) = Uuid(userList) \ (torn \cup delta)
        /\ step[i] = "addMore" => coreUsers \cap Uuid(deleted[i]) = {}
        /\ step[i] = "update" => /\ Uuid(added[i]) \subseteq coreUsers
                                 /\ coreUsers \cap Uuid(deleted[i]) \subseteq Uuid(added[i])

Alone(i) == \A j \in Loops \ {i} : step[j] = "idle"

AckInv ==
    crashed = "no" /\ ~mOverlapped =>
        /\ main \in Starting => ~lostNode /\ torn = {}
        /\ main \in {"limiter", "cert", "addNode", "addUsers", "tasks"} => userEtag \in {None, userList}
        /\ main \in {"addUsers", "tasks"} => coreNode = nodeHash
        /\ main = "addUsers" => coreUsers = {}
        /\ main = "tasks" => ListServed
        /\ main = "up" => \A i \in Loops : Alone(i) => AckNode(i) /\ AckList(i) /\ AckCore(i)

\* A poll keeps the node it acknowledges and the node that is served together.
LEMMA PollKeepsAckNode ==
    ASSUME TypeOK, LocalsInv, NEW i \in Loops, Monitor(i), AckNode(i), crashed' = "no"
    PROVE  AckNode(i)'
<1>0. /\ step \in [Loops -> StepNames] /\ newN \in [Loops -> NodeConfigs \cup {None}]
      /\ None \notin NodeConfigs /\ ErrorBody \notin NodeConfigs
  BY ControllerAssumption DEF TypeOK
<1>N. ASSUME UNCHANGED <<nodeHash, lostNode, info, coreNode>>
      PROVE  NodeServed' <=> NodeServed
  BY <1>N DEF NodeServed
<1> USE DEF At, Goto, Return, coreVars, clientVars, localVars, lostVars, Between, Reloads, Compares, Restored
<1>1. CASE MonGetNode(i)
  <2>1. step[i] = "getNode" /\ newN[i] = None /\ NodeServed
    BY <1>1 DEF MonGetNode, LocalsInv, AckNode
  <2>2. ASSUME NEW n \in NodeConfigs, NodeFetched(n), newN' = [newN EXCEPT ![i] = n], Goto(i, "getUsers")
        PROVE  AckNode(i)'
    BY <1>0, <2>2 DEF NodeFetched, AckNode
  <2>3. CASE NodeUnchanged /\ Goto(i, "getUsers") /\ UNCHANGED <<localVars, lostVars, info, coreVars>>
    <3>1. UNCHANGED <<nodeHash, lostNode, info, coreNode, newN>>
      BY <2>3 DEF NodeUnchanged
    <3>2. step'[i] = "getUsers"
      BY <1>0, <2>3
    <3> QED  BY <1>N, <2>1, <3>1, <3>2 DEF AckNode
  <2>4. ASSUME NEW lost \in BOOLEAN, NodeFetchFails(lost), lostNode' = (lostNode \/ lost), Return(i)
        PROVE  AckNode(i)'
    <3>1. nodeHash' = ErrorBody \/ lost
      BY <2>4 DEF NodeFetchFails
    <3>2. NodeServed'
      BY <1>0, <2>4, <3>1 DEF NodeServed
    <3>3. step'[i] = "idle"
      BY <1>0, <2>4
    <3> QED  BY <3>2, <3>3 DEF AckNode
  <2> QED  BY <1>1, <2>2, <2>3, <2>4 DEF MonGetNode
<1>2. CASE MonGetUsers(i)
  <2>1. UNCHANGED <<nodeHash, info, coreNode>> /\ step[i] = "getUsers"
    BY <1>2 DEF MonGetUsers, UsersFetched, UsersFetchFails
  <2>2. newN[i] \in {None, nodeHash} /\ (newN[i] = None => NodeServed)
    BY <2>1 DEF AckNode
  <2>3. CASE UNCHANGED <<newN, lostNode>> /\ step' = [step EXCEPT ![i] = IF newN[i] # None THEN "delNode" ELSE "compare"]
    BY <1>0, <1>N, <2>1, <2>2, <2>3 DEF AckNode
  <2>4. CASE lostNode' = (lostNode \/ newN[i] # None) /\ Return(i)
    <3>1. step'[i] = "idle"
      BY <1>0, <2>4
    <3>2. NodeServed'
      <4>1. CASE newN[i] # None
        <5>1. lostNode'
          BY <2>4, <4>1
        <5> QED  BY <5>1 DEF NodeServed
      <4>2. CASE newN[i] = None
        BY <2>1, <2>2, <2>4, <4>2 DEF NodeServed
      <4> QED  BY <4>1, <4>2
    <3> QED  BY <3>1, <3>2 DEF AckNode
  <2> QED  BY <1>2, <2>3, <2>4 DEF MonGetUsers
<1>3. CASE MonDelNode(i)
  <2>1. newN[i] = nodeHash /\ info' = newN[i] /\ CoreDelNode /\ Goto(i, "limiter")
        /\ UNCHANGED <<nodeHash, newN>>
    BY <1>3 DEF MonDelNode, Crash, AckNode
  <2> QED  BY <1>0, <2>1 DEF CoreDelNode, AckNode
<1>4. CASE MonLimiter(i)
  BY <1>0, <1>4 DEF MonLimiter, AckNode
<1>5. CASE MonBadRule(i)
  BY <1>5 DEF MonBadRule, Crash
<1>6. CASE MonCert(i)
  <2>1. CASE Goto(i, "addNode")
    BY <1>0, <1>6, <2>1 DEF MonCert, AckNode
  <2>2. CASE lostNode' = TRUE /\ Return(i)
    BY <1>0, <2>2 DEF AckNode, NodeServed
  <2> QED  BY <1>6, <2>1, <2>2 DEF MonCert
<1>7. CASE MonAddNode(i)
  <2>1. newN[i] = nodeHash /\ info = nodeHash /\ CoreAddNode(newN[i]) /\ Goto(i, "addUsers")
        /\ UNCHANGED <<nodeHash, newN, info>>
    BY <1>7 DEF MonAddNode, Crash, AckNode
  <2> QED  BY <1>0, <2>1 DEF CoreAddNode, AckNode
<1>8. CASE MonAddUsers(i)
  <2>1. newN[i] = nodeHash /\ info = nodeHash /\ coreNode = nodeHash
        /\ UNCHANGED <<nodeHash, info, coreNode>>
    BY <1>8 DEF MonAddUsers, CoreAddUsers, CoreAddUsersFails, AckNode
  <2>2. NodeServed'
    BY <2>1 DEF NodeServed
  <2> QED  BY <1>0, <1>8, <2>1, <2>2 DEF MonAddUsers, AckNode
<1>9. CASE MonInterval(i) \/ MonRestart(i) \/ RepInterval(i) \/ RepRestart(i)
  <2>1. newN[i] = nodeHash /\ info = nodeHash /\ coreNode = nodeHash
        /\ UNCHANGED <<nodeHash, info, coreNode>>
    BY <1>9 DEF MonInterval, MonRestart, RepInterval, RepRestart, AckNode
  <2>2. NodeServed'
    BY <2>1 DEF NodeServed
  <2>3. Return(i) \/ (UNCHANGED newN /\ \E q \in Restored : step' = [step EXCEPT ![i] = q])
    BY <1>9 DEF MonInterval, MonRestart, RepInterval, RepRestart
  <2> QED  BY <1>0, <2>1, <2>2, <2>3 DEF AckNode
<1>10. CASE MonCompare(i) \/ MonDelUsers(i) \/ MonAddMore(i) \/ MonUpdate(i)
  <2>1. NodeServed /\ UNCHANGED <<nodeHash, info, lostNode, coreNode>>
    BY <1>10 DEF MonCompare, MonDelUsers, MonAddMore, MonUpdate, CoreDelUsers, CoreDelUsersFails,
       CoreAddUsers, CoreAddUsersFails, AckNode
  <2>2. step'[i] \in {"idle"} \cup Compares
    BY <1>0, <1>10 DEF MonCompare, MonDelUsers, MonAddMore, MonUpdate
  <2> QED  BY <1>N, <2>1, <2>2 DEF AckNode
<1> QED  BY <1>1, <1>2, <1>3, <1>4, <1>5, <1>6, <1>7, <1>8, <1>9, <1>10 DEF Monitor

\* What compareUserList finds is all that tells two lists apart.
LEMMA DeltaCovers ==
    ASSUME NEW old, NEW new,
           \A u, v \in old : u.uuid = v.uuid => u = v
    PROVE  /\ Uuid(old) \ Uuid(Deleted(old, new) \cup Added(old, new)) =
                  Uuid(new) \ Uuid(Deleted(old, new) \cup Added(old, new))
           /\ Uuid(Added(old, new)) \subseteq Uuid(new)
           /\ Uuid(Deleted(old, new)) \cap Uuid(new) \subseteq Uuid(Added(old, new))
<1>0. \A u, v : Key(u) = Key(v) => u.uuid = v.uuid
  BY DEF Key
<1>1. ASSUME NEW u \in old, u \notin Deleted(old, new) PROVE u.uuid \in Uuid(new)
  <2>1. PICK v \in new : Key(u) = Key(v)
    BY <1>1 DEF Deleted, Keys
  <2> QED  BY <1>0, <2>1 DEF Uuid
<1>2. ASSUME NEW u \in new, u \notin Added(old, new)
      PROVE  \E v \in old \ Deleted(old, new) : v.uuid = u.uuid
  <2>1. PICK v \in old : Key(u) = Key(v)
    BY <1>2 DEF Added, Keys
  <2>2. v \notin Deleted(old, new)
    BY <2>1 DEF Deleted, Keys
  <2> QED  BY <1>0, <2>1, <2>2
<1>3. Uuid(Added(old, new)) \subseteq Uuid(new)
  BY DEF Uuid, Added
<1>4. Uuid(Deleted(old, new)) \cap Uuid(new) \subseteq Uuid(Added(old, new))
  <2> SUFFICES ASSUME NEW d \in Deleted(old, new), NEW u \in new, u.uuid = d.uuid, u \notin Added(old, new)
               PROVE  FALSE
    BY DEF Uuid
  <2>1. PICK v \in old \ Deleted(old, new) : v.uuid = u.uuid
    BY <1>2
  <2>2. d = v
    BY <2>1 DEF Deleted
  <2> QED  BY <2>1, <2>2
<1>5. ASSUME NEW x, x \notin Uuid(Deleted(old, new) \cup Added(old, new))
      PROVE  x \in Uuid(old) <=> x \in Uuid(new)
  <2>1. ASSUME x \in Uuid(old) PROVE x \in Uuid(new)
    <3>1. PICK u \in old : x = u.uuid
      BY <2>1 DEF Uuid
    <3>2. u \notin Deleted(old, new)
      BY <1>5, <3>1 DEF Uuid
    <3> QED  BY <1>1, <3>1, <3>2
  <2>2. ASSUME x \in Uuid(new) PROVE x \in Uuid(old)
    <3>1. PICK u \in new : x = u.uuid
      BY <2>2 DEF Uuid
    <3>2. u \notin Added(old, new)
      BY <1>5, <3>1 DEF Uuid
    <3> QED  BY <1>2, <3>1, <3>2 DEF Uuid
  <2> QED  BY <2>1, <2>2
<1> QED  BY <1>3, <1>4, <1>5

\* A poll keeps the list it acknowledges and the user list together, but for the torn users.
LEMMA PollKeepsAckList ==
    ASSUME TypeOK, LocalsInv, NEW i \in Loops, Monitor(i), AckList(i), crashed' = "no",
           step[i] \in Compares =>
               deleted[i] = Deleted(userList, newU[i]) /\ added[i] = Added(userList, newU[i])
    PROVE  AckList(i)'
<1>0. /\ step \in [Loops -> StepNames] /\ newU \in [Loops -> UserLists \cup {NoList}]
      /\ NoList \notin UserLists /\ None # NoList /\ panelUsers \in UserLists
  BY ControllerAssumption DEF TypeOK
<1>N. ASSUME UNCHANGED <<userEtag, userList, torn>>
      PROVE  ListKnown' <=> ListKnown
  BY <1>N DEF ListKnown
<1> USE DEF At, Goto, Return, clientVars, localVars, lostVars, Between, Compares, Restored
<1>1. CASE MonGetNode(i)
  <2>1. step[i] = "getNode" /\ UNCHANGED <<userEtag, userList, torn>>
    BY <1>1 DEF MonGetNode, NodeFetched, NodeUnchanged, NodeFetchFails
  <2>2. step'[i] \in {"getUsers", "idle"}
    BY <1>0, <1>1 DEF MonGetNode
  <2> QED  BY <1>N, <2>1, <2>2 DEF AckList
<1>2. CASE MonGetUsers(i)
  <2>1. ListKnown /\ UNCHANGED <<userList, torn>>
    BY <1>2 DEF MonGetUsers, AckList
  <2>2. ASSUME NEW us \in UserLists \cup {NoList}, UsersFetched(us), newU' = [newU EXCEPT ![i] = us],
               step'[i] \in {"delNode", "compare"}
        PROVE  AckList(i)'
    <3>1. newU'[i] = us
      BY <1>0, <2>2
    <3>2. \/ us = NoList /\ UNCHANGED userEtag
          \/ us = panelUsers /\ userEtag' \in {None, us}
      BY <2>2 DEF UsersFetched, Etag
    <3>3. CASE us = NoList /\ UNCHANGED userEtag
      BY <1>N, <2>1, <2>2, <3>1, <3>3 DEF AckList
    <3>4. CASE us = panelUsers /\ userEtag' \in {None, us}
      BY <1>0, <2>2, <3>1, <3>4 DEF AckList
    <3> QED  BY <3>2, <3>3, <3>4
  <2>3. CASE UsersFetchFails /\ Return(i)
    BY <1>0, <1>N, <2>1, <2>3 DEF UsersFetchFails, AckList
  <2>4. Goto(i, IF newN[i] # None THEN "delNode" ELSE "compare") => step'[i] \in {"delNode", "compare"}
    BY <1>0
  <2> QED  BY <1>2, <2>2, <2>3, <2>4 DEF MonGetUsers
<1>3. CASE MonDelNode(i)
  <2>1. /\ step'[i] = "limiter" /\ UNCHANGED <<userEtag, torn, newU>>
        /\ \/ newU[i] \in {NoList, {}} /\ UNCHANGED userList
           \/ newU[i] # NoList /\ userList' = newU[i]
    BY <1>0, <1>3 DEF MonDelNode, Crash
  <2>2. \/ newU[i] = NoList /\ ListKnown
        \/ newU[i] # NoList /\ userEtag \in {None, newU[i]}
    BY <1>3 DEF MonDelNode, AckList
  <2>3. CASE newU[i] = NoList
    BY <1>N, <2>1, <2>2, <2>3 DEF AckList
  <2>4. CASE newU[i] # NoList
    BY <2>1, <2>2, <2>4 DEF AckList
  <2> QED  BY <2>3, <2>4
<1>4. CASE MonLimiter(i) \/ MonBadRule(i) \/ MonCert(i) \/ MonAddNode(i)
  <2>1. UNCHANGED <<userEtag, torn, userList>> /\ step[i] \in Between
    BY <1>4 DEF MonLimiter, MonBadRule, MonCert, MonAddNode, Crash
  <2>2. step'[i] = "idle" \/ (UNCHANGED newU /\ step'[i] \in {"addUsers"} \cup Between)
    BY <1>0, <1>4 DEF MonLimiter, MonBadRule, MonCert, MonAddNode, Crash
  <2>3. ListKnown
    BY <2>1 DEF AckList, ListKnown
  <2> QED  BY <1>N, <2>1, <2>2, <2>3 DEF AckList
<1>5. CASE MonAddUsers(i)
  <2>1. /\ UNCHANGED <<userEtag, userList>>
        /\ step'[i] \in {"idle"} \cup Restored
        /\ newU[i] \in {NoList, {}, userList}
        /\ \/ newU[i] = NoList /\ ListKnown
           \/ newU[i] # NoList /\ userEtag \in {None, newU[i]}
    BY <1>0, <1>5 DEF MonAddUsers, AckList
  <2>2. ListKnown
    BY <2>1 DEF ListKnown
  <2>3. ListKnown'
    <3>1. CASE torn \subseteq torn'
      BY <2>1, <2>2, <3>1 DEF ListKnown
    <3>2. CASE newU[i] # NoList
      BY <2>1, <3>2 DEF ListKnown
    <3> QED  BY <1>5, <3>1, <3>2 DEF MonAddUsers, Torn
  <2> QED  BY <2>1, <2>3 DEF AckList
<1>6. CASE MonInterval(i) \/ MonRestart(i) \/ RepInterval(i) \/ RepRestart(i)
  <2>1. ListKnown /\ UNCHANGED <<userEtag, torn, userList>>
    BY <1>6 DEF MonInterval, MonRestart, RepInterval, RepRestart, AckList
  <2>2. step'[i] \in {"idle"} \cup Restored
    BY <1>0, <1>6 DEF MonInterval, MonRestart, RepInterval, RepRestart
  <2> QED  BY <1>N, <2>1, <2>2 DEF AckList
<1>7. CASE MonCompare(i)
  <2>1. /\ UNCHANGED <<userEtag, torn, userList>>
        /\ \/ newU[i] = NoList /\ ListKnown
           \/ newU[i] # NoList /\ userEtag \in {None, newU[i]}
    BY <1>7 DEF MonCompare, AckList
  <2>2. CASE newU[i] \in {NoList, {}} /\ Return(i)
    <3>1. ListKnown
      BY <2>1, <2>2 DEF ListKnown
    <3>2. step'[i] = "idle"
      BY <1>0, <2>2
    <3> QED  BY <1>N, <2>1, <3>1, <3>2 DEF AckList
  <2>3. CASE newU[i] # NoList /\ step'[i] \in Compares /\ UNCHANGED newU
    BY <2>1, <2>3 DEF AckList
  <2> QED  BY <1>0, <1>7, <2>2, <2>3 DEF MonCompare
<1>8. CASE MonDelUsers(i) \/ MonAddMore(i)
  <2>1. UNCHANGED <<userEtag, userList>> /\ userEtag \in {None, newU[i]} /\ step[i] \in Compares
    BY <1>8 DEF MonDelUsers, MonAddMore, AckList
  <2>2. CASE UNCHANGED newU /\ step'[i] \in Compares
    BY <2>1, <2>2 DEF AckList
  <2>3. CASE Torn(deleted[i] \cup added[i]) /\ Return(i)
    <3>1. \A u, v \in userList : u.uuid = v.uuid => u = v
      BY UserListsAssumption DEF TypeOK
    <3>2. Uuid(userList) \ Uuid(deleted[i] \cup added[i]) = Uuid(newU[i]) \ Uuid(deleted[i] \cup added[i])
      BY <2>1, <3>1, DeltaCovers
    <3>3. ListKnown'
      BY <2>1, <2>3, <3>2 DEF ListKnown, Torn
    <3>4. step'[i] = "idle"
      BY <1>0, <2>3
    <3> QED  BY <3>3, <3>4 DEF AckList
  <2> QED  BY <1>0, <1>8, <2>2, <2>3 DEF MonDelUsers, MonAddMore
<1>9. CASE MonUpdate(i)
  <2>1. UNCHANGED userEtag /\ userEtag \in {None, newU[i]} /\ userList' = newU[i]
    BY <1>9 DEF MonUpdate, AckList
  <2>2. ListKnown'
    BY <2>1 DEF ListKnown
  <2>3. step'[i] = "idle"
    BY <1>0, <1>9 DEF MonUpdate
  <2> QED  BY <2>2, <2>3 DEF AckList
<1> QED  BY <1>1, <1>2, <1>3, <1>4, <1>5, <1>6, <1>7, <1>8, <1>9 DEF Monitor

\* A poll keeps the users of the core and those of the user list together, but for the torn users.
LEMMA PollKeepsAckCore ==
    ASSUME TypeOK, NEW i \in Loops, Monitor(i), AckNode(i), AckCore(i), crashed' = "no",
           step[i] \in Compares =>
               deleted[i] = Deleted(userList, newU[i]) /\ added[i] = Added(userList, newU[i])
    PROVE  AckCore(i)'
<1>0. step \in [Loops -> StepNames] /\ deleted \in [Loops -> SUBSET Users] /\ added \in [Loops -> SUBSET Users]
  BY DEF TypeOK
<1>N. ASSUME UNCHANGED <<coreVars, userList, torn>>
      PROVE  ListServed' <=> ListServed
  BY <1>N DEF ListServed, coreVars
<1> USE DEF At, Goto, Return, clientVars, localVars, lostVars, Between, Compares, Restored
<1>1. CASE MonGetNode(i) \/ MonGetUsers(i)
  <2>1. ListServed /\ UNCHANGED <<coreVars, userList, torn>>
    BY <1>1 DEF MonGetNode, MonGetUsers, AckCore
  <2>2. step'[i] \in {"idle", "getUsers", "delNode", "compare"}
    BY <1>0, <1>1 DEF MonGetNode, MonGetUsers
  <2> QED  BY <1>N, <2>1, <2>2 DEF AckCore
<1>2. CASE MonDelNode(i) \/ MonLimiter(i) \/ MonBadRule(i)
  <2>1. step'[i] \in {"limiter", "cert"}
    BY <1>0, <1>2 DEF MonDelNode, MonLimiter, MonBadRule, Crash
  <2> QED  BY <2>1 DEF AckCore
<1>3. CASE MonCert(i)
  <2>1. coreNode' = None
    BY <1>3 DEF MonCert, AckNode, coreVars
  <2>2. step'[i] \in {"idle", "addNode"}
    BY <1>0, <1>3 DEF MonCert
  <2> QED  BY <2>1, <2>2 DEF AckCore, ListServed
<1>4. CASE MonAddNode(i)
  <2>1. step'[i] = "addUsers" /\ coreUsers' = {}
    BY <1>0, <1>4 DEF MonAddNode, CoreAddNode, Crash
  <2> QED  BY <2>1 DEF AckCore
<1>5. CASE MonAddUsers(i)
  <2>1. coreUsers = {} /\ UNCHANGED <<userList, coreNode>>
    BY <1>5 DEF MonAddUsers, CoreAddUsers, CoreAddUsersFails, AckCore, coreVars
  <2>2. step'[i] \in {"idle"} \cup Restored
    BY <1>0, <1>5 DEF MonAddUsers
  <2>3. ListServed'
    <3>1. CASE coreUsers' = coreUsers \cup Uuid(userList)
      BY <2>1, <3>1 DEF ListServed
    <3>2. CASE Torn(userList) /\ coreUsers' \subseteq Uuid(userList)
      BY <2>1, <3>2 DEF ListServed, Torn
    <3>3. CASE coreNode = None
      BY <2>1, <3>3 DEF ListServed
    <3> QED  BY <1>5, <2>1, <3>1, <3>2, <3>3 DEF MonAddUsers, CoreAddUsers, CoreAddUsersFails
  <2> QED  BY <2>2, <2>3 DEF AckCore
<1>6. CASE MonInterval(i) \/ MonRestart(i) \/ RepInterval(i) \/ RepRestart(i)
  <2>1. ListServed /\ UNCHANGED <<coreVars, torn, userList>>
    BY <1>6 DEF MonInterval, MonRestart, RepInterval, RepRestart, AckCore
  <2>2. step'[i] \in {"idle"} \cup Restored
    BY <1>0, <1>6 DEF MonInterval, MonRestart, RepInterval, RepRestart
  <2> QED  BY <1>N, <2>1, <2>2 DEF AckCore
<1>7. CASE MonCompare(i)
  <2>1. ListServed /\ UNCHANGED <<coreVars, torn, userList>> /\ UNCHANGED <<coreNode, coreUsers>>
    BY <1>7 DEF MonCompare, AckCore, coreVars
  <2>2. CASE Return(i)
    <3>1. step'[i] = "idle"
      BY <1>0, <2>2
    <3> QED  BY <1>N, <2>1, <3>1 DEF AckCore
  <2>3. CASE ~Return(i)
    <3>1. /\ step'[i] \in Compares
          /\ step'[i] \in {"addMore", "update"} => deleted'[i] = {}
          /\ step'[i] = "update" => added'[i] = {}
      BY <1>0, <1>7, <2>3 DEF MonCompare
    <3>2. Uuid({}) = {}
      BY DEF Uuid
    <3>3. coreNode' # None => coreUsers' \ torn' = Uuid(userList') \ torn'
      BY <2>1 DEF ListServed
    <3> QED  BY <3>1, <3>2, <3>3 DEF AckCore
  <2> QED  BY <2>2, <2>3
<1> DEFINE delta == Uuid(deleted[i] \cup added[i])
<1>D. Uuid(deleted[i]) \subseteq delta /\ Uuid(added[i]) \subseteq delta
  BY DEF Uuid
<1>8. CASE MonDelUsers(i)
  <2>1. UNCHANGED <<userList, coreNode>> /\ step[i] = "delUsers"
    BY <1>8 DEF MonDelUsers, CoreDelUsers, CoreDelUsersFails, coreVars
  <2>2. coreNode # None => coreUsers \ (torn \cup delta) = Uuid(userList) \ (torn \cup delta)
    BY <2>1 DEF AckCore
  <2> HIDE DEF delta
  <2>3. CASE CoreDelUsers(deleted[i]) /\ Goto(i, IF added[i] # {} THEN "addMore" ELSE "update")
             /\ UNCHANGED <<localVars, torn>>
    <3>1. UNCHANGED <<deleted, added>> /\ coreUsers' = coreUsers \ Uuid(deleted[i])
      BY <2>3 DEF CoreDelUsers
    <3>2. step'[i] = (IF added[i] # {} THEN "addMore" ELSE "update")
      BY <1>0, <2>3
    <3>3. added[i] = {} => Uuid(added[i]) = {}
      BY DEF Uuid
    <3>4. coreUsers' \cap Uuid(deleted[i]) = {}
      BY <3>1
    <3>5. coreNode' # None => coreUsers' \ (torn \cup delta) = Uuid(userList) \ (torn \cup delta)
      BY <1>D, <2>1, <2>2, <3>1
    <3> QED  BY <2>1, <2>3, <3>1, <3>2, <3>3, <3>4, <3>5 DEF AckCore, delta
  <2>4. CASE CoreDelUsersFails(deleted[i]) /\ Torn(deleted[i] \cup added[i]) /\ Return(i)
    <3>1. coreNode # None => \E part \in SUBSET Uuid(deleted[i]) : coreUsers' = coreUsers \ part
      BY <2>4 DEF CoreDelUsersFails
    <3>2. torn' = torn \cup delta
      BY <2>4 DEF Torn, delta
    <3>3. ListServed'
      BY <1>D, <2>1, <2>2, <3>1, <3>2 DEF ListServed
    <3>4. step'[i] = "idle"
      BY <1>0, <2>4
    <3> QED  BY <3>3, <3>4 DEF AckCore
  <2> QED  BY <1>8, <2>3, <2>4 DEF MonDelUsers
<1>9. CASE MonAddMore(i)
  <2>1. UNCHANGED <<userList, coreNode>> /\ step[i] = "addMore"
    BY <1>9 DEF MonAddMore, CoreAddUsers, CoreAddUsersFails, coreVars
  <2>2. coreNode # None => /\ coreUsers \ (torn \cup delta) = Uuid(userList) \ (torn \cup delta)
                           /\ coreUsers \cap Uuid(deleted[i]) = {}
    BY <2>1 DEF AckCore
  <2> HIDE DEF delta
  <2>3. CASE CoreAddUsers(added[i]) /\ Goto(i, "update") /\ UNCHANGED <<localVars, torn>>
    <3>1. UNCHANGED <<deleted, added>> /\ coreUsers' = coreUsers \cup Uuid(added[i])
      BY <2>3 DEF CoreAddUsers
    <3>2. step'[i] = "update"
      BY <1>0, <2>3
    <3>3. coreNode' # None => /\ coreUsers' \ (torn \cup delta) = Uuid(userList) \ (torn \cup delta)
                              /\ Uuid(added[i]) \subseteq coreUsers'
                              /\ coreUsers' \cap Uuid(deleted[i]) \subseteq Uuid(added[i])
      BY <1>D, <2>1, <2>2, <3>1
    <3> QED  BY <2>1, <2>3, <3>1, <3>2, <3>3 DEF AckCore, delta
  <2>4. CASE CoreAddUsersFails(added[i]) /\ Torn(deleted[i] \cup added[i]) /\ Return(i)
    <3>1. coreNode # None => \E part \in SUBSET Uuid(added[i]) : coreUsers' = coreUsers \cup part
      BY <2>4 DEF CoreAddUsersFails
    <3>2. torn' = torn \cup delta
      BY <2>4 DEF Torn, delta
    <3>3. ListServed'
      BY <1>D, <2>1, <2>2, <3>1, <3>2 DEF ListServed
    <3>4. step'[i] = "idle"
      BY <1>0, <2>4
    <3> QED  BY <3>3, <3>4 DEF AckCore
  <2> QED  BY <1>9, <2>3, <2>4 DEF MonAddMore
<1>10. CASE MonUpdate(i)
  <2>1. /\ UNCHANGED <<coreNode, coreUsers>> /\ userList' = newU[i] /\ step[i] = "update"
        /\ torn' = torn \ delta
    BY <1>10 DEF MonUpdate, coreVars
  <2>2. coreNode # None => /\ coreUsers \ (torn \cup delta) = Uuid(userList) \ (torn \cup delta)
                           /\ Uuid(added[i]) \subseteq coreUsers
                           /\ coreUsers \cap Uuid(deleted[i]) \subseteq Uuid(added[i])
    BY <2>1 DEF AckCore
  <2>3. /\ Uuid(userList) \ delta = Uuid(newU[i]) \ delta
        /\ Uuid(added[i]) \subseteq Uuid(newU[i])
        /\ Uuid(deleted[i]) \cap Uuid(newU[i]) \subseteq Uuid(added[i])
    <3>1. \A u, v \in userList : u.uuid = v.uuid => u = v
      BY UserListsAssumption DEF TypeOK
    <3> QED  BY <2>1, <3>1, DeltaCovers
  <2>4. delta = Uuid(deleted[i]) \cup Uuid(added[i])
    BY DEF Uuid
  <2> HIDE DEF delta
  <2>5. ListServed'
    BY <2>1, <2>2, <2>3, <2>4 DEF ListServed
  <2>6. step'[i] = "idle"
    BY <1>0, <1>10 DEF MonUpdate
  <2> QED  BY <2>5, <2>6 DEF AckCore
<1> QED  BY <1>1, <1>2, <1>3, <1>4, <1>5, <1>6, <1>7, <1>8, <1>9, <1>10 DEF Monitor

\* A timer fires in the last loop, unless a channel was closed under a poll.
LEMMA FiresAlone ==
    ASSUME BasicInv, ~mOverlapped, NEW i \in Loops, MonFires(i) PROVE Alone(i)
<1>1. mPc[i] = "wait" /\ mCh[i] \notin mClosed
  BY DEF MonFires, Mon!TimerFires
<1>2. i = mStop
  BY <1>1 DEF BasicInv, MonTask!IInv, MonTask!DriverIsLast, MonTask!Driving, MonTask!Loops, Loops
<1>3. \A j \in Loops : step[j] # "idle" => j = mStop
  BY DEF BasicInv, PollInv, StepMatches, MonTask!IInv, MonTask!DriverIsLast, MonTask!Driving, MonTask!Busy,
         MonTask!Loops, Loops
<1> QED  BY <1>2, <1>3 DEF Alone

\* Start leaves the node and the users of the core as it told the panel.
LEMMA StartKeepsAckInv ==
    ASSUME BasicInv, AckInv, StartController, crashed' = "no", ~mOverlapped, UNCHANGED mOverlapped PROVE AckInv'
<1>0. main \in Starting /\ crashed = "no" /\ UNCHANGED <<step, newN, newU, deleted, added, lostNode, torn>>
  BY DEF StartController, StartGetNode, StartGetUsers, StartLimiter, StartBadRule, StartCert, StartAddNode,
         StartAddUsers, StartTasks, StartAt, Starting, localVars, lostVars
<1>1. /\ ~lostNode /\ torn = {}
      /\ main \in {"limiter", "cert", "addNode", "addUsers", "tasks"} => userEtag \in {None, userList}
      /\ main \in {"addUsers", "tasks"} => coreNode = nodeHash
      /\ main = "addUsers" => coreUsers = {}
      /\ main = "tasks" => ListServed
  BY <1>0 DEF AckInv
<1>2. ~lostNode' /\ torn' = {}
  BY <1>0, <1>1
<1> USE DEF StartAt, clientVars, coreVars
<1>3. CASE StartGetNode
  BY <1>2, <1>3 DEF StartGetNode, AckInv
<1>4. CASE StartGetUsers
  <2>1. main' \in {"limiter", "failed"} /\ (main' = "limiter" => userEtag' \in {None, userList'})
    <3>1. NoList \notin UserLists
      BY ControllerAssumption
    <3> QED  BY <1>4, <3>1 DEF StartGetUsers, UsersFetched, Etag
  <2> QED  BY <1>2, <2>1 DEF AckInv
<1>5. CASE StartLimiter \/ StartCert
  <2>1. main \in {"limiter", "cert"} /\ main' \in {"cert", "addNode", "failed"}
        /\ UNCHANGED <<userEtag, userList>>
    BY <1>5 DEF StartLimiter, StartCert
  <2> QED  BY <1>1, <1>2, <2>1 DEF AckInv
<1>6. CASE StartBadRule
  BY <1>6 DEF StartBadRule, Crash
<1>7. CASE StartAddNode
  <2>1. /\ main = "addNode" /\ main' \in {"addUsers", "failed"} /\ UNCHANGED <<userEtag, userList>>
        /\ main' = "addUsers" => coreNode' = nodeHash' /\ coreUsers' = {}
    BY <1>7 DEF StartAddNode, CoreAddNode, StartNode
  <2> QED  BY <1>1, <1>2, <2>1 DEF AckInv
<1>8. CASE StartAddUsers
  <2>1. /\ main = "addUsers" /\ main' \in {"tasks", "failed"} /\ UNCHANGED <<userEtag, userList, nodeHash>>
        /\ main' = "tasks" => UNCHANGED coreNode /\ coreUsers' = coreUsers \cup Uuid(userList)
    BY <1>8 DEF StartAddUsers, CoreAddUsers
  <2>2. main' = "tasks" => ListServed'
    BY <1>1, <2>1 DEF ListServed
  <2> QED  BY <1>1, <1>2, <2>1, <2>2 DEF AckInv
<1>9. CASE StartTasks
  <2>1. /\ main' = "up" /\ info' = nodeHash /\ coreNode = nodeHash /\ userEtag \in {None, userList}
        /\ UNCHANGED <<nodeHash, userEtag, userList, coreNode, coreUsers>> /\ ListServed
    BY <1>1, <1>9 DEF StartTasks, StartNode
  <2>2. NodeServed' /\ ListKnown' /\ ListServed'
    BY <1>0, <2>1 DEF NodeServed, ListKnown, ListServed
  <2>3. \A i \in Loops : step'[i] = "idle"
    BY <1>0, NoPollYet
  <2>4. \A i \in Loops : (AckNode(i) /\ AckList(i) /\ AckCore(i))'
    BY <2>2, <2>3 DEF AckNode, AckList, AckCore, Between, Reloads, Compares, Restored
  <2> QED  BY <2>1, <2>4 DEF AckInv, Starting
<1> QED  BY <1>3, <1>4, <1>5, <1>6, <1>7, <1>8, <1>9 DEF StartController

LEMMA NextAckInv == BasicInv /\ CompareInv /\ AckInv /\ [Next]_vars => AckInv'
<1> SUFFICES ASSUME BasicInv, CompareInv, AckInv, [Next]_vars, crashed' = "no", ~mOverlapped' PROVE AckInv'
  BY DEF AckInv
<1>0. ~mOverlapped
  BY OverlapStays
<1>1. CASE UNCHANGED <<clientVars, info, userList, coreVars, main, step, localVars, crashed, lostVars>>
  BY <1>0, <1>1 DEF AckInv, AckNode, AckList, AckCore, Alone, NodeServed, ListKnown, ListServed, clientVars,
     coreVars, localVars, lostVars
<1>2. CASE StartController
  <2>1. UNCHANGED mOverlapped
    BY <1>2, StartDrivesTasks DEF monVars, Mon!Start
  <2> QED  BY <1>0, <1>2, <2>1, StartKeepsAckInv
<1>3. CASE CloseController
  <2>1. main' \in {"closeMon", "closeRep", "closeDel", "closed", "closeFailed"}
    BY <1>3 DEF CloseController, CloseLimiter, CloseMon, CloseRep, CloseDelNode
  <2> QED  BY <2>1 DEF AckInv, Starting
<1>4. ASSUME NEW i \in Loops, MonStep(i), ~UNCHANGED step \/ Monitor(i)
      PROVE  AckInv'
  <2>1. /\ crashed = "no" /\ UNCHANGED main
        /\ step \in [Loops -> StepNames] /\ main \notin Starting /\ Alone(i)
    <3>1. CASE Monitor(i)
      <4>1. main \notin Starting /\ Alone(i) /\ crashed = "no"
        BY <1>0, <3>1, PollForms, OnePoll DEF Alone
      <4> QED  BY <1>4, <4>1 DEF MonStep, mainVars, BasicInv, TypeOK
    <3>2. CASE MonFires(i)
      <4>1. mPc[i] # "none" /\ crashed = "no"
        BY <3>2 DEF MonFires, Mon!TimerFires
      <4> QED  BY <1>0, <1>4, <3>2, <4>1, FiresAlone, NoPollYet DEF MonStep, mainVars, BasicInv, TypeOK
    <3> QED  BY <1>4, <3>1, <3>2 DEF MonStep, MonWaits
  <2>2. CASE main # "up"
    BY <2>1, <2>2 DEF AckInv, Starting
  <2>3. CASE main = "up"
    <3>1. AckNode(i) /\ AckList(i) /\ AckCore(i)
      BY <1>0, <2>1, <2>3 DEF AckInv
    <3>2. (AckNode(i) /\ AckList(i) /\ AckCore(i))'
      <4>1. CASE Monitor(i)
        <5>1. step[i] \in Compares =>
                  deleted[i] = Deleted(userList, newU[i]) /\ added[i] = Added(userList, newU[i])
          BY <1>0 DEF CompareInv
        <5>2. TypeOK /\ LocalsInv
          BY DEF BasicInv
        <5> QED  BY <3>1, <4>1, <5>1, <5>2, PollKeepsAckNode, PollKeepsAckList, PollKeepsAckCore
      <4>2. CASE ~Monitor(i)
        <5>1. MonFires(i) /\ step[i] = "idle" /\ step'[i] = "getNode"
          BY <1>4, <2>1, <4>2, IdleForms DEF MonStep, MonWaits, MonFires
        <5>2. UNCHANGED <<clientVars, info, userList, coreVars, localVars, lostVars>>
          BY <5>1 DEF MonFires
        <5>3. NodeServed' /\ ListKnown' /\ ListServed'
          BY <3>1, <5>1, <5>2 DEF AckNode, AckList, AckCore, NodeServed, ListKnown, ListServed, clientVars,
             coreVars, lostVars
        <5> QED  BY <5>1, <5>3 DEF AckNode, AckList, AckCore, Between, Reloads, Compares, Restored
      <4> QED  BY <4>1, <4>2
    <3>3. ASSUME NEW j \in Loops \ {i}, Alone(j)' PROVE (AckNode(j) /\ AckList(j) /\ AckCore(j))'
      <4>1. step'[i] = "idle"
        BY <3>3 DEF Alone
      <4>2. step'[j] = "idle"
        <5>1. step'[j] = step[j]
          <6>1. CASE Monitor(i)
            BY <6>1, PollKeepsLocals DEF BasicInv
          <6>2. CASE ~Monitor(i)
            BY <1>4, <2>1, <6>2 DEF MonStep, MonFires, MonWaits
          <6> QED  BY <6>1, <6>2
        <5> QED  BY <2>1, <5>1 DEF Alone
      <4>3. NodeServed' /\ ListKnown' /\ ListServed'
        BY <3>2, <4>1 DEF AckNode, AckList, AckCore
      <4> QED  BY <4>2, <4>3 DEF AckNode, AckList, AckCore, Between, Reloads, Compares, Restored
    <3>4. \A j \in Loops : Alone(j)' => (AckNode(j) /\ AckList(j) /\ AckCore(j))'
      BY <3>2, <3>3
    <3> QED  BY <2>1, <2>3, <3>4 DEF AckInv, Starting
  <2> QED  BY <2>2, <2>3
<1>5. ASSUME NEW i \in Loops, MonStep(i), UNCHANGED step, ~Monitor(i) PROVE AckInv'
  BY <1>1, <1>5 DEF MonStep, MonWaits, MonFires, mainVars
<1>6. CASE PanelChanges \/ (\E i \in Loops : RepStep(i)) \/ UNCHANGED vars
  BY <1>1, <1>6 DEF PanelChanges, RepStep, vars, mainVars
<1> QED  BY <1>2, <1>3, <1>4, <1>5, <1>6 DEF Next

\* Between polls, what the client has told the panel it knows is what the core serves: the node unless one
\* was acknowledged and lost, the users but for those of a change that failed half-way.
THEOREM ControllerAcknowledgedIsServed == Spec => []AcknowledgedIsServed
<1>1. Init => CompareInv /\ AckInv
  <2> SUFFICES ASSUME Init PROVE CompareInv /\ AckInv
    OBVIOUS
  <2> QED  BY DEF Init, CompareInv, AckInv, Compares
<1>2. AckInv => AcknowledgedIsServed
  <2> SUFFICES ASSUME AckInv, Resting, ~mOverlapped
               PROVE  /\ nodeHash \in NodeConfigs /\ ~lostNode => info = nodeHash /\ coreNode = nodeHash
                      /\ userEtag \notin {None, {}} /\ coreNode # None =>
                             coreUsers \ torn = Uuid(userEtag) \ torn
    BY DEF AcknowledgedIsServed
  <2>1. 1 \in Loops
    BY ControllerAssumption DEF Loops
  <2>2. step[1] = "idle" /\ Alone(1)
    BY <2>1 DEF Resting, Alone
  <2>3. AckNode(1) /\ AckList(1) /\ AckCore(1)
    BY <2>1, <2>2 DEF AckInv, Resting
  <2>4. NodeServed /\ ListKnown /\ ListServed
    BY <2>2, <2>3 DEF AckNode, AckList, AckCore
  <2> QED  BY <2>4 DEF NodeServed, ListKnown, ListServed
<1> QED  BY <1>1, <1>2, NextCompareInv, NextAckInv, ControllerInvariant, PTL DEF Spec

=============================================================================
