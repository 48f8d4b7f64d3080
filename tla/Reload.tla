------------------------------- MODULE Reload -------------------------------
(***************************************************************************)
(* The program around the nodes: the start in cmd/server.go, the watcher   *)
(* of the configuration and DNS files (conf/watch.go), the reloads it runs *)
(* in goroutines of their own, and the list of controllers (node/node.go). *)
(* A reload closes the controllers and the core and builds both again from *)
(* the configuration, one step per call because a second reload may        *)
(* overlap it.  A node of the xray core whose panel sends DNS servers      *)
(* rewrites the watched DNS file while it is added (core/xray/dns.go).     *)
(* Between reloads a poll of a node may take it out of the core and fail   *)
(* to bring it back (node/task.go); what the poll itself does wrong, its   *)
(* own panics included, is the subject of Controller.                      *)
(***************************************************************************)
EXTENDS Naturals, Sequences

CONSTANTS
    Reloads,   \* bound: reload goroutines at the same time
    Kinds,     \* contents of the configuration file: "good", "unparsable", "badCore"
    NodeCount, \* nodes of a good configuration
    Panels,    \* what the panel may send as DNS servers: [1..NodeCount -> set of the texts
               \*   they are rendered as], empty if it sends none
    NoDns,     \* the content of the DNS file at the start
    MaxEdits,  \* bound, by what the panel sends: changes of the configuration file
    MaxPolls,  \* bound: polls that find their node changed
    Failures   \* TRUE: cores and controllers may fail to start and to close

ASSUME ConstantsAssumption ==
    /\ NodeCount \in Nat \ {0} /\ MaxEdits \in [Panels -> Nat] /\ MaxPolls \in Nat
    /\ Failures \in BOOLEAN /\ "good" \in Kinds

VARIABLES
    Dns,         \* the renderings of the DNS servers the panel sends, a member of Panels
    polls,       \* polls so far that found their node changed
    file,        \* the configuration file: version and kind
    dns,         \* the DNS file
    events,      \* fsnotify events not yet read
    recent,      \* pre: an event was accepted less than ten seconds ago
    conf,        \* *p: version, number of cores and of nodes
    pc,          \* per reload goroutine
    todo,        \* per reload: the indices that nodes.Start has yet to visit
    shaken,      \* reloads whose core another reload may have closed
    vc,          \* the core: "nil", "new", "bad", "started" or "closed"
    controllers, \* n.controllers
    crashed,     \* what made the program panic, or "no"
    failure,     \* history: "last" reload failed, an earlier one ("past"), or "none"
    overlapped,  \* history: two reloads ran at the same time
    dropped      \* history: the debounce dropped an event after the last reading

vars == <<Dns, polls, file, dns, events, recent, conf, pc, todo, shaken, vc, controllers, crashed, failure,
          overlapped, dropped>>

history == <<failure, overlapped, dropped>>

panel == <<Dns, polls>>

Running(r) == pc[r] \notin {"off", "sleep"}

Idle == \A r \in Reloads : pc[r] = "off"

\* New and LoadFromPath: an error is only logged, and what was decoded before it stays set.
LoadFromPath(f) ==
    IF f.kind = "unparsable"
    THEN [ver: {f.ver}, kind: {f.kind}, cores: {0, 1}, nodes: 0..NodeCount]
    ELSE {[ver |-> f.ver, kind |-> f.kind, cores |-> 1, nodes |-> NodeCount]}

\* serverHandle ran through: the file was good, core and nodes are up and the watch is on.
Init ==
    /\ Dns \in Panels /\ polls = 0
    /\ file = [ver |-> 0, kind |-> "good"]
    /\ \E written \in {NoDns} \cup UNION {Dns[i] : i \in 1..NodeCount} : dns = written
    /\ events = {} /\ recent = FALSE
    /\ conf \in LoadFromPath(file)
    /\ pc = [r \in Reloads |-> "off"] /\ todo = [r \in Reloads |-> <<>>] /\ shaken = {}
    /\ vc = "started"
    /\ controllers = [i \in 1..NodeCount |-> "up"]
    /\ crashed = "no" /\ failure = "none" /\ overlapped = FALSE /\ dropped = FALSE

----------------------------------------------------------------------------
(* The watcher.                                                            *)

Edit ==
    /\ crashed = "no" /\ file.ver < MaxEdits[Dns]
    /\ \E k \in Kinds : file' = [ver |-> file.ver + 1, kind |-> k]
    /\ events' = events \cup {"config"}
    /\ UNCHANGED <<panel, dns, recent, conf, pc, todo, shaken, vc, controllers, crashed, history>>

\* A goroutine that sleeps five seconds is started for the event.
Accept ==
    /\ crashed = "no" /\ ~recent
    /\ \E e \in events, r \in Reloads :
        /\ pc[r] = "off"
        /\ events' = events \ {e}
        /\ pc' = [pc EXCEPT ![r] = "sleep"]
    /\ recent' = TRUE
    /\ UNCHANGED <<panel, file, dns, conf, todo, shaken, vc, controllers, crashed, history>>

\* A dropped event does no harm while a reload has yet to read the file.
Drop ==
    /\ crashed = "no" /\ recent
    /\ \E e \in events : events' = events \ {e}
    /\ dropped' = (dropped \/ \A r \in Reloads : pc[r] # "sleep")
    /\ UNCHANGED <<panel, file, dns, recent, conf, pc, todo, shaken, vc, controllers, crashed, failure, overlapped>>

\* Ten seconds after the event; its goroutine has slept five of them.
Elapse ==
    /\ crashed = "no" /\ recent /\ \A r \in Reloads : pc[r] # "sleep"
    /\ recent' = FALSE
    /\ UNCHANGED <<panel, file, dns, events, conf, pc, todo, shaken, vc, controllers, crashed, history>>

\* Mutant: the file is read when the event arrives, before the five seconds.
LoadEarly(r) ==
    /\ crashed = "no" /\ pc[r] = "sleep"
    /\ \E v \in {file.ver, IF file.ver = 0 THEN 0 ELSE file.ver - 1} :
        conf' \in LoadFromPath([file EXCEPT !.ver = v])
    /\ pc' = [pc EXCEPT ![r] = "closeNodes"]
    /\ overlapped' = (overlapped \/ \E s \in Reloads : Running(s))
    /\ dropped' = FALSE
    /\ UNCHANGED <<panel, file, dns, events, recent, todo, shaken, vc, controllers, crashed, failure>>

Load(r) ==
    /\ crashed = "no" /\ pc[r] = "sleep"
    /\ conf' \in LoadFromPath(file)
    /\ pc' = [pc EXCEPT ![r] = "closeNodes"]
    /\ overlapped' = (overlapped \/ \E s \in Reloads : Running(s))
    /\ dropped' = FALSE
    /\ UNCHANGED <<panel, file, dns, events, recent, todo, shaken, vc, controllers, crashed, failure>>

----------------------------------------------------------------------------
(* The reload callback of serverHandle.                                    *)

Crash(why) ==
    /\ crashed' = why
    /\ UNCHANGED <<pc, todo, shaken, vc, controllers, failure>>

Return(r) ==
    /\ pc' = [pc EXCEPT ![r] = "off"]
    /\ failure' = "last"
    /\ UNCHANGED <<todo, shaken, controllers, crashed>>

\* nodes.Close: a nil entry is dereferenced, and the error of a controller is raised as a
\* panic: its node is not in the core, or the server of the node fails to close.  What a
\* controller does whose core was closed before it depends on the core: xray's managers are
\* nil by then.
CloseNodes(r) ==
    /\ pc[r] = "closeNodes"
    /\ \/ /\ \E i \in DOMAIN controllers : controllers[i] \notin {"up", "added"}
          /\ Crash("controller")
       \/ /\ Failures /\ \E i \in DOMAIN controllers : controllers[i] \in {"up", "added"}
          /\ Crash("serverClose")
       \/ /\ \A i \in DOMAIN controllers : controllers[i] \in {"up", "added", "orphan"}
          /\ controllers' = <<>>
          /\ pc' = [pc EXCEPT ![r] = "closeCore"]
          /\ UNCHANGED <<todo, shaken, vc, crashed, failure>>

\* Controllers that another reload has started meanwhile lose their core.
Orphaned(s) == IF s \in {"up", "added", "reloading"} THEN "orphan" ELSE s

CloseCore(r) ==
    /\ pc[r] = "closeCore"
    /\ \/ vc = "nil" /\ Crash("nilCore")
       \/ /\ vc # "nil"
          /\ vc' = "closed"
          /\ controllers' = [i \in DOMAIN controllers |-> Orphaned(controllers[i])]
          /\ shaken' = shaken \cup {s \in Reloads : pc[s] \in {"startNodes", "nextNode", "startNode"}}
          /\ \/ pc' = [pc EXCEPT ![r] = "newCore"] /\ UNCHANGED failure
             \/ Failures /\ pc' = [pc EXCEPT ![r] = "off"] /\ failure' = "last"
          /\ UNCHANGED <<todo, crashed>>

\* Mutant: the error of NewCore is not looked at.
NewCoreUnchecked(r) ==
    /\ pc[r] = "newCore"
    /\ vc' = IF conf.cores = 0 \/ conf.kind = "badCore" THEN "nil" ELSE "new"
    /\ pc' = [pc EXCEPT ![r] = "startCore"]
    /\ UNCHANGED <<todo, shaken, controllers, crashed, failure>>

\* getCore of xray panics where a part of its configuration (DNS, routes, inbounds,
\* outbounds) cannot be read, parsed or built.
getCore(r) ==
    \/ conf.kind = "badCore" /\ Crash("core")
    \/ /\ conf.kind # "badCore"
       /\ vc' = "new"
       /\ pc' = [pc EXCEPT ![r] = "startCore"]
       /\ UNCHANGED <<todo, shaken, controllers, crashed, failure>>

\* NewCore and NewSelector return a nil core with the error of an unknown or broken core.
NewCore(r) ==
    /\ pc[r] = "newCore"
    /\ \/ (conf.cores = 0 \/ conf.kind = "badCore") /\ vc' = "nil" /\ Return(r)
       \/ conf.cores > 0 /\ getCore(r)

StartCore(r) ==
    /\ pc[r] = "startCore"
    /\ \/ vc = "nil" /\ Crash("nilCore")
       \/ /\ vc # "nil"
          /\ vc' = "started"
          /\ pc' = [pc EXCEPT ![r] = "startNodes"]
          /\ UNCHANGED <<todo, shaken, controllers, crashed, failure>>
       \/ vc # "nil" /\ Failures /\ vc' = vc /\ Return(r)

----------------------------------------------------------------------------
(* nodes.Start: the list is made with nil entries and filled one by one.   *)

\* Mutant: the last node is left out.
StartNodesShort(r) ==
    /\ pc[r] = "startNodes"
    /\ controllers' = [i \in 1..conf.nodes |-> "nil"]
    /\ todo' = [todo EXCEPT ![r] = [i \in 1..(conf.nodes - 1) |-> i]]
    /\ pc' = [pc EXCEPT ![r] = "nextNode"]
    /\ UNCHANGED <<shaken, vc, crashed, failure>>

\* The core and the nodes are passed by value from here on; vc.Type() is logged before.
StartNodes(r) ==
    /\ pc[r] = "startNodes"
    /\ \/ vc = "nil" /\ Crash("nilCore")
       \/ /\ vc # "nil"
          /\ controllers' = [i \in 1..conf.nodes |-> "nil"]
          /\ todo' = [todo EXCEPT ![r] = [i \in 1..conf.nodes |-> i]]
          /\ pc' = [pc EXCEPT ![r] = "nextNode"]
          /\ shaken' = IF vc = "started" THEN shaken \ {r} ELSE shaken \cup {r}
          /\ UNCHANGED <<vc, crashed, failure>>

At(r) == Head(todo[r])

\* panel.New may fail; otherwise the controller is in the list before its Start ends.
NextNode(r) ==
    /\ pc[r] = "nextNode"
    /\ \/ /\ todo[r] = <<>>
          /\ pc' = [pc EXCEPT ![r] = "off"]
          /\ failure' = IF failure = "none" THEN "none" ELSE "past"
          /\ UNCHANGED <<todo, shaken, vc, controllers, crashed>>
       \/ todo[r] # <<>> /\ Failures /\ vc' = vc /\ Return(r)
       \/ todo[r] # <<>> /\ At(r) \notin DOMAIN controllers /\ Crash("index")
       \/ /\ todo[r] # <<>> /\ At(r) \in DOMAIN controllers
          /\ controllers' = [controllers EXCEPT ![At(r)] = "starting"]
          /\ pc' = [pc EXCEPT ![r] = "startNode"]
          /\ UNCHANGED <<todo, shaken, vc, crashed, failure>>

\* The controller's own pointer is used: the list may have changed meanwhile.
Entry(r, s) ==
    IF At(r) \in DOMAIN controllers THEN [controllers EXCEPT ![At(r)] = s] ELSE controllers

\* Mutant: the file is written whether it differs or not.
SaveAlways(d) == dns' = d /\ events' = events \cup {"dns"}

\* saveDnsConfig: the file is written only if the rendering differs from it.
saveDnsConfig(d) ==
    IF d = dns THEN UNCHANGED <<dns, events>>
    ELSE dns' = d /\ events' = events \cup {"dns"}

\* updateDNSConfig: the order of a map of servers is not fixed, so one of its renderings.
updateDNSConfig(i) ==
    \/ Dns[i] = {} /\ UNCHANGED <<dns, events>>
    \/ \E d \in Dns[i] : saveDnsConfig(d)

\* Controller.Start ends: up, or failed before or after its node was added to the core;
\* adding a node to a closed core panics in xray.
StartNode(r) ==
    /\ pc[r] = "startNode"
    /\ \/ /\ updateDNSConfig(At(r))
          /\ controllers' = Entry(r, IF r \in shaken THEN "orphan" ELSE "up")
          /\ todo' = [todo EXCEPT ![r] = Tail(@)]
          /\ pc' = [pc EXCEPT ![r] = "nextNode"]
          /\ UNCHANGED <<shaken, vc, crashed, failure>>
       \/ /\ Failures
          /\ \/ controllers' = Entry(r, "failed") /\ UNCHANGED <<dns, events>>
             \/ controllers' = Entry(r, "added") /\ updateDNSConfig(At(r))
          /\ pc' = [pc EXCEPT ![r] = "off"]
          /\ failure' = "last"
          /\ UNCHANGED <<todo, shaken, vc, crashed>>
       \/ r \in shaken /\ Crash("closedCore") /\ UNCHANGED <<dns, events>>

----------------------------------------------------------------------------
(* A poll of node i that finds it changed (nodeInfoMonitor).               *)

\* The node is removed from the core.
PollDelNode(i) ==
    /\ crashed = "no" /\ polls < MaxPolls
    /\ i \in DOMAIN controllers /\ controllers[i] = "up"
    /\ polls' = polls + 1
    /\ controllers' = [controllers EXCEPT ![i] = "reloading"]
    /\ UNCHANGED <<Dns, file, dns, events, recent, conf, pc, todo, shaken, vc, crashed, history>>

\* It is added again, which renders its DNS servers; or UpdateRule or requestCert fails and
\* the poll returns without it.
PollAddNode(i) ==
    /\ crashed = "no"
    /\ i \in DOMAIN controllers /\ controllers[i] = "reloading"
    /\ \/ controllers' = [controllers EXCEPT ![i] = "up"] /\ updateDNSConfig(i)
       \/ Failures /\ controllers' = [controllers EXCEPT ![i] = "lost"] /\ UNCHANGED <<dns, events>>
    /\ UNCHANGED <<panel, file, recent, conf, pc, todo, shaken, vc, crashed, history>>

Step(r) ==
    /\ crashed = "no"
    /\ \/ /\ CloseNodes(r) \/ CloseCore(r) \/ NewCore(r) \/ StartCore(r) \/ StartNodes(r) \/ NextNode(r)
          /\ UNCHANGED <<dns, events>>
       \/ StartNode(r)
    /\ UNCHANGED <<panel, file, recent, conf, overlapped, dropped>>

Next ==
    \/ Edit \/ Accept \/ Drop \/ Elapse
    \/ \E r \in Reloads : Load(r) \/ Step(r)
    \/ \E i \in 1..NodeCount : PollDelNode(i) \/ PollAddNode(i)

\* The watcher, time and every started goroutine go on.
Fairness ==
    /\ WF_vars(Accept \/ Drop) /\ WF_vars(Elapse)
    /\ \A r \in Reloads : WF_vars(Load(r) \/ Step(r))

Spec == Init /\ [][Next]_vars /\ Fairness

----------------------------------------------------------------------------
TypeOK ==
    /\ Dns \in Panels /\ polls \in 0..MaxPolls
    /\ file \in [ver: 0..MaxEdits[Dns], kind: Kinds]
    /\ events \subseteq {"config", "dns"} /\ recent \in BOOLEAN
    /\ pc \in [Reloads -> {"off", "sleep", "closeNodes", "closeCore", "newCore", "startCore",
                           "startNodes", "nextNode", "startNode"}]
    /\ todo \in [Reloads -> {[i \in 1..n |-> m + i] : n \in 0..NodeCount, m \in 0..NodeCount}]
    /\ shaken \subseteq Reloads
    /\ vc \in {"nil", "new", "started", "closed"}
    /\ controllers \in Seq({"nil", "starting", "failed", "added", "up", "reloading", "lost", "orphan"})
    /\ Len(controllers) <= NodeCount
    /\ crashed \in {"no", "controller", "serverClose", "nilCore", "core", "index", "closedCore"}
    /\ failure \in {"none", "past", "last"} /\ overlapped \in BOOLEAN /\ dropped \in BOOLEAN

\* A poll has taken the node of some controller out of the core and not brought it back.
NodeMissing == \E i \in DOMAIN controllers : controllers[i] \in {"reloading", "lost"}

(* Apart from a core whose configuration cannot be built and a server that    *)
(* fails to close, both raised as panics at once, the program goes down in a  *)
(* reload only after an earlier reload returned early, while two reloads      *)
(* overlap, or in nodes.Close because of a node that a poll has removed and   *)
(* not (yet, or after a failure ever) added again.  (The first of these is    *)
(* what a file that does not parse leads to: the core is nil until the next   *)
(* reload closes it.)                                                         *)
CrashNeedsCause ==
    crashed \notin {"no", "core", "serverClose"} =>
        failure # "none" \/ overlapped \/ (crashed = "controller" /\ NodeMissing)

(* When nothing is under way and the debounce has not swallowed an event    *)
(* after the last reading, the program has read the file as it is now.      *)
QuietIsCurrent ==
    crashed = "no" /\ Idle /\ events = {} /\ ~dropped => conf.ver = file.ver

(* After a reload that neither failed nor was overlapped the core runs and  *)
(* the controller of every configured node is up and polls its panel.       *)
ReloadedIsServed ==
    crashed = "no" /\ Idle /\ failure # "last" /\ ~overlapped =>
        /\ vc = "started" /\ DOMAIN controllers = 1..conf.nodes
        /\ \A i \in 1..conf.nodes : controllers[i] \in {"up", "reloading", "lost"}

\* The DNS servers of all nodes have one and the same rendering: no node's servers come as a
\* map of several, whose order Go draws anew every time, and no two nodes differ.
OneRendering ==
    \A i, j \in 1..NodeCount : \A d \in Dns[i], e \in Dns[j] : d = e

(* Once the file is left alone and the panel changes nothing the program    *)
(* stops reloading, if all nodes render the same DNS file: adding the nodes *)
(* again writes it only if its content changes, and the write is itself a   *)
(* watched event.  With two renderings every reload may write the file, and *)
(* the next one, if it takes longer than the debounce, may follow for ever. *)
Settles == OneRendering => <>[](crashed # "no" \/ (Idle /\ events = {}))
=============================================================================
