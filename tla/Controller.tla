----------------------------- MODULE Controller -----------------------------
(***************************************************************************)
(* One node controller (node/controller.go, node/task.go) keeping a core   *)
(* and a limiter in step with the panel, through the caching panel client  *)
(* (api/panel).  Processes: the panel's administrator, the caller of       *)
(* Controller.Start and Controller.Close, and the loops of the two         *)
(* periodic tasks, nodeInfoMonitorPeriodic and userReportPeriodic, which   *)
(* are instances of Task.  Every remote call and every call into the core  *)
(* is a step of its own, so anything may happen between two of them.       *)
(*                                                                         *)
(* Abstracted: a node configuration and a user list are values; alive      *)
(* counts, rules and traffic are left to other modules; the tasks that     *)
(* renew certificates and check speeds touch none of this state.           *)
(***************************************************************************)
EXTENDS Naturals, FiniteSets

CONSTANTS
    Panels,         \* panels to serve, each with its node configurations, its user
                    \* lists, and a bound on the changes made: [nodes, lists, changes]
    TlsConfigs,     \* those with Security = Tls, which need a certificate
    PullInterval,   \* PullInterval[n], PushInterval[n]: intervals of n
    PushInterval,
    Named,          \* TRUE iff the option Name is set, so the tag is fixed
    SendsEtag,      \* TRUE iff the panel answers with an ETag
    MaxFailures,    \* bound: failing requests and core calls
    MaxStarts,      \* bound: Starts of each periodic task
    None, ErrorBody, NoList     \* distinct values outside those sets

NodeConfigs == UNION {P.nodes : P \in Panels}
UserLists == UNION {P.lists : P \in Panels}     \* sets of user records
Users == UNION UserLists
Uuid(us) == {u.uuid : u \in us}
Uuids == Uuid(Users)

ASSUME ControllerAssumption ==
    /\ None \notin NodeConfigs /\ ErrorBody \notin NodeConfigs
    /\ None # ErrorBody
    /\ NoList \notin UserLists /\ None \notin UserLists /\ None # NoList
    /\ TlsConfigs \subseteq NodeConfigs
    /\ PullInterval \in [NodeConfigs -> Nat]
    /\ PushInterval \in [NodeConfigs -> Nat]
    /\ Named \in BOOLEAN /\ SendsEtag \in BOOLEAN
    /\ \A P, Q \in Panels : P.changes \in Nat /\ (P # Q => P.nodes \cap Q.nodes = {})
    /\ MaxFailures \in Nat /\ MaxStarts \in Nat \ {0}

\* A list names a user once: the maps of the limiter and of the cores have the uuid as key.
ASSUME UserListsAssumption == \A us \in UserLists : \A u, v \in us : u.uuid = v.uuid => u = v

VARIABLES
    panelNode, panelUsers,          \* what the panel holds
    nodeHash, nodeEtag, userEtag,   \* panel.Client
    info, userList,                 \* Controller.info, Controller.userList
    limiter,                        \* users in Controller.limiter
    registered,                     \* the limiter is in the registry
    coreNode, coreUsers,            \* the core: configuration served, uuids
    monInterval, repInterval,       \* Interval of the two tasks
    main,                           \* position of Start or Close
    quietClose,     \* history: Close found no poll in progress
    step, newN, newU, deleted, added,   \* per loop: locals of nodeInfoMonitor
    crashed,                        \* what ended the process, if anything
    changes, failures,              \* counters for the bounds
    lostNode,       \* history: a node was acknowledged and not applied
    torn,           \* history: uuids of a user change that failed half-way
    mRunning, mStop, mClosed, mPc, mCh, mPanicked, mOverlapped,
    rRunning, rStop, rClosed, rPc, rCh, rPanicked, rOverlapped

panelVars   == <<panelNode, panelUsers, changes>>
clientVars  == <<nodeHash, nodeEtag, userEtag>>
limiterVars == <<limiter, registered>>
coreVars    == <<coreNode, coreUsers>>
intervals   == <<monInterval, repInterval>>
localVars   == <<newN, newU, deleted, added>>
mainVars    == <<main, quietClose>>
lostVars    == <<lostNode, torn>>
monVars     == <<mRunning, mStop, mClosed, mPc, mCh, mPanicked, mOverlapped>>
repVars     == <<rRunning, rStop, rClosed, rPc, rCh, rPanicked, rOverlapped>>
vars == <<panelVars, clientVars, info, userList, limiterVars, coreVars,
          intervals, mainVars, step, localVars, crashed, failures, lostVars,
          monVars, repVars>>

Mon == INSTANCE Task WITH
    running <- mRunning, stop <- mStop, closed <- mClosed, pc <- mPc, ch <- mCh,
    panicked <- mPanicked, overlapped <- mOverlapped, MayFail <- FALSE

Rep == INSTANCE Task WITH
    running <- rRunning, stop <- rStop, closed <- rClosed, pc <- rPc, ch <- rCh,
    panicked <- rPanicked, overlapped <- rOverlapped, MayFail <- FALSE

Loops == 1..MaxStarts

\* compareUserList: users are told apart by uuid and speed limit only.
Key(u) == <<u.uuid, u.speed>>
Keys(us) == {Key(u) : u \in us}
Deleted(old, new) == {u \in old : Key(u) \notin Keys(new)}

\* Mutant: a user whose speed limit changed is not added again.
AddedByUuid(old, new) == {u \in new : u.uuid \notin Uuid(old)}

Added(old, new) == {u \in new : Key(u) \notin Keys(old)}

Init ==
    /\ \E P \in Panels : panelNode \in P.nodes /\ panelUsers \in P.lists
    /\ nodeHash = None /\ nodeEtag = None /\ userEtag = None
    /\ info = None /\ userList = {}
    /\ limiter = {} /\ registered = FALSE
    /\ coreNode = None /\ coreUsers = {}
    /\ monInterval = 0 /\ repInterval = 0
    /\ main = "getNode" /\ quietClose = FALSE
    /\ step = [i \in Loops |-> "idle"]
    /\ newN = [i \in Loops |-> None] /\ newU = [i \in Loops |-> NoList]
    /\ deleted = [i \in Loops |-> {}] /\ added = [i \in Loops |-> {}]
    /\ crashed = "no"
    /\ changes = 0 /\ failures = 0
    /\ lostNode = FALSE /\ torn = {}
    /\ Mon!Init /\ Rep!Init

-----------------------------------------------------------------------------
(* The panel, an external service. *)

PanelChanges ==
    /\ crashed = "no"
    /\ changes' = changes + 1
    /\ \E P \in Panels :
         /\ panelNode \in P.nodes /\ changes < P.changes
         /\ \/ panelNode' \in P.nodes \ {panelNode} /\ UNCHANGED panelUsers
            \/ panelUsers' \in P.lists \ {panelUsers} /\ UNCHANGED panelNode
    /\ UNCHANGED <<clientVars, info, userList, limiterVars, coreVars, intervals,
                   mainVars, step, localVars, crashed, failures, lostVars, monVars,
                   repVars>>

Fails == failures < MaxFailures /\ failures' = failures + 1

Etag(v) == IF SendsEtag THEN v ELSE None

(***************************************************************************)
(* The panel client.  Each operator describes one request: the result and  *)
(* the fields of the client it changes.                                    *)
(***************************************************************************)

\* GetNodeInfo returned a node: the body is new.  The hash and the ETag are
\* stored before the response is checked or decoded.
NodeFetched(n) ==
    /\ n = panelNode /\ nodeEtag # n /\ nodeHash # n
    /\ nodeHash' = n /\ nodeEtag' = Etag(n)
    /\ UNCHANGED <<userEtag, failures>>

\* GetNodeInfo returned nil, nil: status 304, or the same body as last time.
\* Two error responses in a row are the same body as well.
NodeUnchanged ==
    \/ /\ nodeEtag = panelNode \/ nodeHash = panelNode
       /\ UNCHANGED <<clientVars, failures>>
    \/ Fails /\ nodeHash = ErrorBody /\ UNCHANGED clientVars

\* GetNodeInfo returned an error: an error response with a new body, or a
\* response it cannot decode, whose hash it has stored all the same.
NodeFetchFails(lost) ==
    /\ Fails
    /\ \/ /\ nodeHash # ErrorBody /\ lost = FALSE
          /\ nodeHash' = ErrorBody /\ nodeEtag' = None
       \/ /\ nodeEtag # panelNode /\ nodeHash # panelNode /\ lost = TRUE
          /\ nodeHash' = panelNode /\ nodeEtag' = Etag(panelNode)
    /\ UNCHANGED userEtag

\* GetUserList: 304 gives NoList; the ETag is stored with the decoded list.
UsersFetched(us) ==
    /\ IF userEtag = panelUsers
       THEN us = NoList /\ UNCHANGED userEtag
       ELSE us = panelUsers /\ userEtag' = Etag(panelUsers)
    /\ UNCHANGED <<nodeHash, nodeEtag, failures>>

UsersFetchFails == Fails /\ UNCHANGED clientVars

(***************************************************************************)
(* The core behind core/selector.go, as the controller sees it: the node   *)
(* of this tag and the users it accepts.  A failing AddUsers or DelUsers   *)
(* has already handled some of the users.                                  *)
(***************************************************************************)

CoreAddNode(n) ==
    coreNode = None /\ coreNode' = n /\ coreUsers' = {}

CoreDelNode ==
    coreNode # None /\ coreNode' = None /\ coreUsers' = {}

CoreAddUsers(us) ==
    /\ coreNode # None
    /\ coreUsers' = coreUsers \cup Uuid(us)
    /\ UNCHANGED coreNode

CoreDelUsers(us) ==
    /\ coreNode # None
    /\ coreUsers' = coreUsers \ Uuid(us)
    /\ UNCHANGED coreNode

\* Either the tag has no node ("the node is not have") or the core fails.
CoreAddUsersFails(us) ==
    \/ coreNode = None /\ UNCHANGED <<coreVars, failures>>
    \/ /\ coreNode # None /\ Fails
       /\ \E part \in SUBSET Uuid(us) : coreUsers' = coreUsers \cup part
       /\ UNCHANGED coreNode

CoreDelUsersFails(us) ==
    \/ coreNode = None /\ UNCHANGED <<coreVars, failures>>
    \/ /\ coreNode # None /\ Fails
       /\ \E part \in SUBSET Uuid(us) : coreUsers' = coreUsers \ part
       /\ UNCHANGED coreNode

\* log.Panic, or a panic of regexp.MustCompile, in a goroutine of its own.
Crash(why) ==
    /\ crashed' = why
    /\ UNCHANGED <<clientVars, limiterVars, coreVars, intervals, main, step,
                   localVars, lostVars, monVars, repVars>>

-----------------------------------------------------------------------------
(* Calls of Task.Close and Task.Start, no-ops included. *)

MonClose == Mon!Close \/ (~mRunning /\ UNCHANGED monVars)
MonStart == Mon!Start(FALSE) \/ (mRunning /\ UNCHANGED monVars)
RepClose == Rep!Close \/ (~rRunning /\ UNCHANGED repVars)
RepStart == Rep!Start(FALSE) \/ (rRunning /\ UNCHANGED repVars)

-----------------------------------------------------------------------------
(* Controller.Start *)

StartAt(p) == crashed = "no" /\ main = p

\* The local variable node of Start: nothing else uses the client meanwhile.
StartNode == nodeHash

StartGetNode ==
    /\ StartAt("getNode")
    /\ \/ \E n \in NodeConfigs : NodeFetched(n) /\ main' = "getUsers"
       \/ \E lost \in BOOLEAN : NodeFetchFails(lost) /\ main' = "failed"
    /\ UNCHANGED <<info, userList, limiterVars, coreVars, intervals, crashed,
                   monVars, repVars>>

StartGetUsers ==
    /\ StartAt("getUsers")
    /\ \/ \E us \in UserLists :
            /\ UsersFetched(us)
            /\ userList' = us
            /\ main' = IF us = {} THEN "failed" ELSE "limiter"
       \/ UsersFetchFails /\ main' = "failed" /\ UNCHANGED userList
    /\ UNCHANGED <<info, limiterVars, coreVars, intervals, crashed, monVars,
                   repVars>>

StartLimiter ==
    /\ StartAt("limiter")
    /\ limiter' = userList /\ registered' = TRUE
    /\ main' = "cert"
    /\ UNCHANGED <<clientVars, info, userList, coreVars, intervals, crashed,
                   failures, monVars, repVars>>

StartBadRule ==
    /\ StartAt("limiter")
    /\ Fails /\ Crash("bad rule") /\ UNCHANGED <<info, userList>>

StartCert ==
    /\ StartAt("cert")
    /\ \/ main' = "addNode" /\ UNCHANGED failures
       \/ StartNode \in TlsConfigs /\ Fails /\ main' = "failed"
    /\ UNCHANGED <<clientVars, info, userList, limiterVars, coreVars,
                   intervals, crashed, monVars, repVars>>

StartAddNode ==
    /\ StartAt("addNode")
    /\ \/ CoreAddNode(StartNode) /\ main' = "addUsers" /\ UNCHANGED failures
       \/ Fails /\ main' = "failed" /\ UNCHANGED coreVars
    /\ UNCHANGED <<clientVars, info, userList, limiterVars, intervals, crashed,
                   monVars, repVars>>

StartAddUsers ==
    /\ StartAt("addUsers")
    /\ \/ CoreAddUsers(userList) /\ main' = "tasks" /\ UNCHANGED failures
       \/ CoreAddUsersFails(userList) /\ main' = "failed"
    /\ UNCHANGED <<clientVars, info, userList, limiterVars, intervals, crashed,
                   monVars, repVars>>

StartTasks ==
    /\ StartAt("tasks")
    /\ info' = StartNode
    /\ monInterval' = PullInterval[StartNode]
    /\ repInterval' = PushInterval[StartNode]
    /\ Mon!Start(FALSE) /\ Rep!Start(FALSE)
    /\ main' = "up"
    /\ UNCHANGED <<clientVars, userList, limiterVars, coreVars, crashed,
                   failures>>

StartController ==
    /\ \/ StartGetNode \/ StartGetUsers \/ StartLimiter \/ StartBadRule
       \/ StartCert \/ StartAddNode \/ StartAddUsers \/ StartTasks
    /\ UNCHANGED <<panelVars, step, localVars, lostVars, quietClose>>

-----------------------------------------------------------------------------
(* Controller.Close, called by the reload of the configuration. *)

CloseLimiter ==
    /\ StartAt("up")
    /\ registered' = FALSE
    /\ main' = "closeMon"
    /\ UNCHANGED <<coreVars, failures, quietClose, monVars, repVars>>

\* Mutant: Close forgets the monitor task.
CloseMonForgotten ==
    /\ StartAt("closeMon")
    /\ quietClose' = (\A i \in Loops : step[i] = "idle")
    /\ main' = "closeRep"
    /\ UNCHANGED <<registered, coreVars, failures, monVars, repVars>>

CloseMon ==
    /\ StartAt("closeMon")
    /\ MonClose
    /\ quietClose' = (\A i \in Loops : step[i] = "idle")
    /\ main' = "closeRep"
    /\ UNCHANGED <<registered, coreVars, failures, repVars>>

CloseRep ==
    /\ StartAt("closeRep")
    /\ RepClose
    /\ main' = "closeDel"
    /\ UNCHANGED <<registered, coreVars, failures, quietClose, monVars>>

CloseDelNode ==
    /\ StartAt("closeDel")
    /\ \/ CoreDelNode /\ main' = "closed" /\ UNCHANGED failures
       \/ /\ coreNode = None /\ main' = "closeFailed"
          /\ UNCHANGED <<coreVars, failures>>
       \/ Fails /\ main' = "closeFailed" /\ UNCHANGED coreVars
    /\ UNCHANGED <<registered, quietClose, monVars, repVars>>

CloseController ==
    /\ CloseLimiter \/ CloseMon \/ CloseRep \/ CloseDelNode
    /\ UNCHANGED <<panelVars, clientVars, info, userList, limiter, intervals,
                   step, localVars, crashed, lostVars>>

-----------------------------------------------------------------------------
(* The loops of the monitor task, and nodeInfoMonitor inside them. *)

At(i, p) == crashed = "no" /\ step[i] = p

Goto(i, p) == step' = [step EXCEPT ![i] = p] /\ UNCHANGED monVars

\* nodeInfoMonitor returns nil, whatever happened.
Return(i) ==
    /\ step' = [step EXCEPT ![i] = "idle"]
    /\ newN' = [newN EXCEPT ![i] = None]
    /\ newU' = [newU EXCEPT ![i] = NoList]
    /\ deleted' = [deleted EXCEPT ![i] = {}]
    /\ added' = [added EXCEPT ![i] = {}]
    /\ Mon!ExecuteOk(i)

MonWaits(i) ==
    /\ crashed = "no"
    /\ Mon!EnterSelect(i) \/ Mon!StopSeen(i)
    /\ UNCHANGED <<clientVars, info, userList, limiterVars, coreVars,
                   intervals, step, localVars, crashed, failures, lostVars,
                   repVars>>

MonFires(i) ==
    /\ crashed = "no"
    /\ Mon!TimerFires(i)
    /\ step' = [step EXCEPT ![i] = "getNode"]
    /\ UNCHANGED <<clientVars, info, userList, limiterVars, coreVars,
                   intervals, localVars, crashed, failures, lostVars, repVars>>

MonGetNode(i) ==
    /\ At(i, "getNode")
    /\ \/ /\ \E n \in NodeConfigs :
               NodeFetched(n) /\ newN' = [newN EXCEPT ![i] = n]
          /\ Goto(i, "getUsers") /\ UNCHANGED <<newU, deleted, added,
                                                lostVars>>
       \/ NodeUnchanged /\ Goto(i, "getUsers") /\ UNCHANGED <<localVars,
                                                              lostVars>>
       \/ /\ \E lost \in BOOLEAN :
               NodeFetchFails(lost) /\ lostNode' = (lostNode \/ lost)
          /\ Return(i) /\ UNCHANGED torn
    /\ UNCHANGED <<info, userList, limiterVars, coreVars, intervals, crashed,
                   repVars>>

\* GetUserList, then GetUserAlive, which never fails.
MonGetUsers(i) ==
    /\ At(i, "getUsers")
    /\ \/ /\ \E us \in UserLists \cup {NoList} :
               UsersFetched(us) /\ newU' = [newU EXCEPT ![i] = us]
          /\ Goto(i, IF newN[i] # None THEN "delNode" ELSE "compare")
          /\ UNCHANGED <<newN, deleted, added, lostVars>>
       \/ /\ UsersFetchFails
          /\ lostNode' = (lostNode \/ newN[i] # None)
          /\ Return(i) /\ UNCHANGED torn
    /\ UNCHANGED <<info, userList, limiterVars, coreVars, intervals, crashed,
                   repVars>>

\* Mutant: the user list that came with the new node is ignored.
MonDelNodeKeepsUsers(i) ==
    /\ At(i, "delNode")
    /\ info' = newN[i]
    /\ CoreDelNode /\ Goto(i, "limiter")
    /\ UNCHANGED <<clientVars, userList, limiterVars, intervals, localVars,
                   crashed, failures, lostVars, repVars>>

\* Mutant: the old node is not removed.
MonDelNodeSkipped(i) ==
    /\ At(i, "delNode")
    /\ info' = newN[i]
    /\ userList' = IF newU[i] = NoList THEN userList ELSE newU[i]
    /\ Goto(i, "limiter")
    /\ UNCHANGED <<clientVars, limiterVars, coreVars, intervals, localVars,
                   crashed, failures, lostVars, repVars>>

\* The node changed: info and userList are replaced and the node removed.  An
\* empty user list is nil or not, depending on how the panel encodes it.
MonDelNode(i) ==
    /\ At(i, "delNode")
    /\ info' = newN[i]
    /\ \/ newU[i] \in {NoList, {}} /\ UNCHANGED userList
       \/ newU[i] # NoList /\ userList' = newU[i]
    /\ \/ /\ CoreDelNode /\ Goto(i, "limiter")
          /\ UNCHANGED <<clientVars, limiterVars, intervals, localVars,
                         crashed, failures, lostVars, repVars>>
       \/ coreNode = None /\ Crash("Delete node failed") /\ UNCHANGED failures
       \/ Fails /\ Crash("Delete node failed")

\* DeleteLimiter, AddLimiter and the assignment of c.limiter, for an unnamed
\* node only, then UpdateRule.
MonLimiter(i) ==
    /\ At(i, "limiter")
    /\ IF Named
       THEN UNCHANGED limiterVars
       ELSE limiter' = userList /\ registered' = TRUE
    /\ Goto(i, "cert")
    /\ UNCHANGED <<clientVars, info, userList, coreVars, intervals, localVars,
                   crashed, failures, lostVars, repVars>>

MonBadRule(i) ==
    /\ At(i, "limiter")
    /\ Fails /\ Crash("bad rule") /\ UNCHANGED <<info, userList>>

MonCert(i) ==
    /\ At(i, "cert")
    /\ \/ Goto(i, "addNode") /\ UNCHANGED <<localVars, failures, lostNode>>
       \/ newN[i] \in TlsConfigs /\ Fails /\ lostNode' = TRUE /\ Return(i)
    /\ UNCHANGED <<clientVars, info, userList, limiterVars, coreVars,
                   intervals, crashed, torn, repVars>>

MonAddNode(i) ==
    /\ At(i, "addNode")
    /\ UNCHANGED <<info, userList>>
    /\ \/ /\ CoreAddNode(newN[i]) /\ Goto(i, "addUsers")
          /\ UNCHANGED <<clientVars, limiterVars, intervals, localVars,
                         crashed, failures, lostVars, repVars>>
       \/ coreNode # None /\ Crash("Add node failed") /\ UNCHANGED failures
       \/ Fails /\ Crash("Add node failed")

\* A change of these users was cut short: the panel counts it as delivered.
Torn(us) == torn' = torn \cup Uuid(us)

MonAddUsers(i) ==
    /\ At(i, "addUsers")
    /\ lostNode' = FALSE
    /\ \/ /\ CoreAddUsers(userList)
          /\ torn' = IF newU[i] = NoList THEN torn ELSE {}
          /\ Goto(i, "interval") /\ UNCHANGED <<localVars, failures>>
       \/ CoreAddUsersFails(userList) /\ Torn(userList) /\ Return(i)
    /\ UNCHANGED <<clientVars, info, userList, limiterVars, intervals, crashed,
                   repVars>>

\* The monitor task is restarted from inside its own Execute.
MonInterval(i) ==
    /\ At(i, "interval")
    /\ LET pull == PullInterval[newN[i]] IN
       IF monInterval # pull /\ pull # 0
       THEN /\ monInterval' = pull
            /\ MonClose
            /\ step' = [step EXCEPT ![i] = "monStart"]
       ELSE Goto(i, "repInterval") /\ UNCHANGED monInterval
    /\ UNCHANGED <<clientVars, info, userList, limiterVars, coreVars,
                   repInterval, localVars, crashed, failures, lostVars,
                   repVars>>

\* Mutant: the task is closed for its new interval and not started again.
MonRestartForgotten(i) ==
    /\ At(i, "monStart")
    /\ Goto(i, "repInterval")
    /\ UNCHANGED <<clientVars, info, userList, limiterVars, coreVars,
                   intervals, localVars, crashed, failures, lostVars, repVars>>

MonRestart(i) ==
    /\ At(i, "monStart")
    /\ MonStart
    /\ step' = [step EXCEPT ![i] = "repInterval"]
    /\ UNCHANGED <<clientVars, info, userList, limiterVars, coreVars,
                   intervals, localVars, crashed, failures, lostVars, repVars>>

\* The report task is given the pull interval.
RepInterval(i) ==
    /\ At(i, "repInterval")
    /\ LET push == PushInterval[newN[i]] IN
       IF repInterval # push /\ push # 0
       THEN /\ repInterval' = PullInterval[newN[i]]
            /\ RepClose
            /\ Goto(i, "repStart") /\ UNCHANGED localVars
       ELSE Return(i) /\ UNCHANGED <<repInterval, repVars>>
    /\ UNCHANGED <<clientVars, info, userList, limiterVars, coreVars,
                   monInterval, crashed, failures, lostVars>>

RepRestart(i) ==
    /\ At(i, "repStart")
    /\ RepStart
    /\ Return(i)
    /\ UNCHANGED <<clientVars, info, userList, limiterVars, coreVars,
                   intervals, crashed, failures, lostVars>>

\* The node did not change: compare the user lists.
MonCompare(i) ==
    /\ At(i, "compare")
    /\ \/ newU[i] \in {NoList, {}} /\ Return(i)
       \/ /\ newU[i] \notin {NoList, {}}
          /\ LET d == Deleted(userList, newU[i])
                 a == Added(userList, newU[i])
             IN  /\ deleted' = [deleted EXCEPT ![i] = d]
                 /\ added' = [added EXCEPT ![i] = a]
                 /\ Goto(i, IF d # {} THEN "delUsers"
                            ELSE IF a # {} THEN "addMore" ELSE "update")
          /\ UNCHANGED <<newN, newU>>
    /\ UNCHANGED <<clientVars, info, userList, limiterVars, coreVars,
                   intervals, crashed, failures, lostVars, repVars>>

MonDelUsers(i) ==
    /\ At(i, "delUsers")
    /\ \/ /\ CoreDelUsers(deleted[i])
          /\ Goto(i, IF added[i] # {} THEN "addMore" ELSE "update")
          /\ UNCHANGED <<localVars, failures, torn>>
       \/ CoreDelUsersFails(deleted[i]) /\ Torn(deleted[i] \cup added[i]) /\ Return(i)
    /\ UNCHANGED <<clientVars, info, userList, limiterVars, intervals, crashed,
                   lostNode, repVars>>

MonAddMore(i) ==
    /\ At(i, "addMore")
    /\ \/ /\ CoreAddUsers(added[i])
          /\ Goto(i, "update") /\ UNCHANGED <<localVars, failures, torn>>
       \/ CoreAddUsersFails(added[i]) /\ Torn(deleted[i] \cup added[i]) /\ Return(i)
    /\ UNCHANGED <<clientVars, info, userList, limiterVars, intervals, crashed,
                   lostNode, repVars>>

\* Mutant: the added users are stored first, then the deleted ones removed.
UpdateUserAddsFirst(l, add, del) ==
    {u \in l : u.uuid \notin Uuid(add) \cup Uuid(del)}
        \cup {u \in add : u.uuid \notin Uuid(del)}

\* limiter.UpdateUser: the deleted users go first, then the added ones come.
UpdateUser(l, add, del) ==
    {u \in l : u.uuid \notin Uuid(del) \cup Uuid(add)} \cup add

MonUpdate(i) ==
    /\ At(i, "update")
    /\ limiter' = UpdateUser(limiter, added[i], deleted[i])
    /\ userList' = newU[i]
    /\ torn' = torn \ Uuid(deleted[i] \cup added[i])
    /\ Return(i)
    /\ UNCHANGED <<clientVars, info, registered, coreVars, intervals, crashed,
                   failures, lostNode, repVars>>

\* One step of nodeInfoMonitor.
Monitor(i) ==
    \/ MonGetNode(i) \/ MonGetUsers(i) \/ MonDelNode(i) \/ MonLimiter(i)
    \/ MonBadRule(i) \/ MonCert(i) \/ MonAddNode(i) \/ MonAddUsers(i)
    \/ MonInterval(i) \/ MonRestart(i) \/ RepInterval(i) \/ RepRestart(i)
    \/ MonCompare(i) \/ MonDelUsers(i) \/ MonAddMore(i) \/ MonUpdate(i)

\* The loops of the report task; what they report is another module's matter.
RepStep(i) ==
    /\ crashed = "no"
    /\ Rep!LoopStep(i)
    /\ UNCHANGED <<panelVars, clientVars, info, userList, limiterVars, coreVars,
                   intervals, mainVars, step, localVars, crashed, failures, lostVars,
                   monVars>>

MonStep(i) ==
    /\ MonWaits(i) \/ MonFires(i) \/ Monitor(i)
    /\ UNCHANGED <<panelVars, mainVars>>

Next ==
    \/ PanelChanges
    \/ StartController
    \/ CloseController
    \/ \E i \in Loops : MonStep(i)
    \/ \E i \in Loops : RepStep(i)

\* Goroutines are scheduled, requests and core calls return and timers fire.
\* Nothing obliges the panel to change or anyone to close the controller.
Fairness ==
    /\ WF_vars(StartController)
    /\ WF_vars(main # "up" /\ CloseController)
    /\ \A i \in Loops : WF_vars(MonStep(i)) /\ WF_vars(RepStep(i))

Spec == Init /\ [][Next]_vars /\ Fairness

-----------------------------------------------------------------------------

StepNames == {"idle", "getNode", "getUsers", "delNode", "limiter", "cert",
              "addNode", "addUsers", "interval", "monStart", "repInterval",
              "repStart", "compare", "delUsers", "addMore", "update"}

MainNames == {"getNode", "getUsers", "limiter", "cert", "addNode", "addUsers",
              "tasks", "up", "failed", "closeMon", "closeRep", "closeDel",
              "closed", "closeFailed"}

TypeOK ==
    /\ panelNode \in NodeConfigs /\ panelUsers \in UserLists
    /\ nodeHash \in NodeConfigs \cup {None, ErrorBody}
    /\ nodeEtag \in NodeConfigs \cup {None}
    /\ userEtag \in UserLists \cup {None}
    /\ info \in NodeConfigs \cup {None} /\ userList \in UserLists \cup {{}}
    /\ limiter \subseteq Users /\ registered \in BOOLEAN
    /\ coreNode \in NodeConfigs \cup {None} /\ coreUsers \subseteq Uuids
    /\ monInterval \in Nat /\ repInterval \in Nat
    /\ main \in MainNames /\ quietClose \in BOOLEAN
    /\ step \in [Loops -> StepNames]
    /\ newN \in [Loops -> NodeConfigs \cup {None}]
    /\ newU \in [Loops -> UserLists \cup {NoList}]
    /\ deleted \in [Loops -> SUBSET Users] /\ added \in [Loops -> SUBSET Users]
    /\ crashed \in {"no", "Delete node failed", "Add node failed", "bad rule"}
    /\ changes \in Nat /\ failures \in 0..MaxFailures
    /\ lostNode \in BOOLEAN /\ torn \subseteq Uuids
    /\ Mon!TypeOK /\ Rep!TypeOK

\* The controller is started, not being closed, and no poll is in progress.
Resting == crashed = "no" /\ main = "up" /\ \A i \in Loops : step[i] = "idle"

\* What the client has told the panel it knows, by hash and ETag, is what the
\* core serves: the node, and the users unless the list was empty.  The
\* exceptions are exactly the early returns of nodeInfoMonitor behind a stored
\* hash or ETag: lostNode records them until the next complete reload, and
\* torn holds the users of a failed user change until a later change, or a
\* reload with a new list, has handled the same users.
AcknowledgedIsServed ==
    Resting /\ ~mOverlapped =>
        /\ nodeHash \in NodeConfigs /\ ~lostNode =>
              info = nodeHash /\ coreNode = nodeHash
        /\ userEtag \notin {None, {}} /\ coreNode # None =>
              coreUsers \ torn = Uuid(userEtag) \ torn

\* Between polls the limiter of the controller knows the users of its user
\* list, with their speed limits, whatever failed on the way.
LimiterFollowsUserList ==
    Resting /\ ~mOverlapped => Keys(limiter) = Keys(userList)

\* Two loops of the monitor are inside nodeInfoMonitor at once: a poll that restarts its own task
\* leaves the old loop and the new one running.
TwoPolls == \E i, j \in Loops : i # j /\ step[i] # "idle" /\ step[j] # "idle"

\* Close reached the monitor task while a poll was in progress, and does not wait for it.
ClosedDuringPoll == main \in {"closeRep", "closeDel", "closed", "closeFailed"} /\ ~quietClose

\* The panics of a reload ("Delete node failed", "Add node failed") have three
\* causes: an earlier failing call; a second poll that is under way in the very
\* state of the panic; or a Close that met a poll, whose DelNode and the poll's
\* hit the same node with one loop and no failure at all.  Panel changes alone,
\* even with a Close between two polls, do not end the process.
CrashNeedsCause ==
    crashed # "no" => failures > 0 \/ TwoPolls \/ ClosedDuringPoll

\* Between polls of a controller that is up both of its tasks are running: no
\* restart for a new interval leaves it without a monitor.
UpIsMonitored == Resting => mRunning /\ rRunning

\* A controller that was closed while no poll was in progress stays closed: no
\* loop polls again, and no node is left in the core.
ClosedStaysClosed ==
    main = "closed" /\ quietClose =>
        /\ coreNode = None /\ ~mRunning /\ ~rRunning
        /\ \A i \in Loops : step[i] = "idle"

\* The report task runs at the push interval of the node.
ReportIntervalIsPush ==
    Resting => repInterval = PushInterval[info]

Served ==
    /\ coreNode = panelNode
    /\ panelUsers # {} => coreUsers = Uuid(panelUsers)

\* With no failure, the core ends up serving what the panel holds, however the
\* changes at the panel fell between the two requests of a poll and the restarts
\* for a new interval between the changes.  The exception is two polls at once,
\* which a changed pull interval makes possible: the slower one may put an older
\* list in place of the newer one, and the panel counts both as delivered.
EventuallyServed ==
    <>TwoPolls \/ <>[](Served \/ main # "up")
=============================================================================
