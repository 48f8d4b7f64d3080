# Verification of the V2bX node backend

TLA+ modules, TLC runs and TLAPS proofs for the program in `src/`: a Go daemon
that runs proxy nodes. It polls a panel for the node configuration and the user
list, keeps a proxy core (xray, sing-box or hysteria2) in step with it, limits
users, counts their traffic and reports it back.

## Inventory

| component | source | state | operations | interacts with |
|---|---|---|---|---|
| periodic task | `common/task` | running flag, stop channel, goroutines | Start, Close | every periodic job of a controller |
| panel client | `api/panel` | ETags, hash of the last node body | GetNodeInfo, GetUserList, GetUserAlive, ReportUserTraffic, ReportNodeOnlineUsers | HTTP panel; called by the controller |
| controller | `node/controller.go`, `node/task.go`, `node/user.go` | tag, node info, user list, limiter, tasks | Start, Close, nodeInfoMonitor, reportUserTrafficTask, SpeedChecker, renewCertTask | panel client, core, limiter registry, tasks |
| node list, reload | `node/node.go`, `cmd/server.go`, `conf/watch.go` | controllers, core, configuration | Start, Close, reload on a file event | controllers, core |
| limiter | `limiter` | registry by tag; per user limits, online IPs, buckets | AddLimiter, DeleteLimiter, UpdateUser, UpdateDynamicSpeedLimit, CheckLimit, GetOnlineDevice, UpdateRule | called by the controller and by every connection |
| certificates | `node/cert.go`, `node/lego.go`, `core/hy2/dynamic_cert.go` | certificate, key and account files; the pair each loader has cached | requestCert, renewCertTask, GetCertificate | ACME issuer; nodes that share the files |
| core selector | `core/selector.go` | which core serves a tag | AddNode, DelNode, AddUsers, DelUsers, GetUserTrafficSlice | controllers, cores |
| xray core | `core/xray` | inbounds, users, uid map, counters, link managers | the core interface, the dispatcher | limiter, counters |
| request dispatch | `core/xray/app/dispatcher` | cache of what was sniffed, links | Dispatch, DispatchLink, sniffer, routedDispatch | limiter, counters, outbounds of xray |
| sing core | `core/sing` | inbounds, users, uid map, counters | the core interface, connection hooks | limiter, counters |
| hysteria2 core | `core/hy2` | servers, sockets, users, counters, per-user over-limit flag | the core interface, getHyConfig, Authenticate, LogTraffic, event logger | limiter, counters, hysteria library |
| stateless reset secret | `core/hy2/stateless_reset.go` | one file beside the configuration | loadStatelessResetKey | every node of the hysteria2 core |
| mimic | `core/hy2/mimic` | helper processes and their lock files | Start, Close, the wait goroutine | AddNode and DelNode of hysteria2 |
| traffic counters | `common/counter` | up and down counters per user | GetCounter, Rx, Tx, Reset, Delete | connections and reports |
| rate limited connections | `common/rate` | token bucket | Read, Write | limiter |
| configuration | `conf`, `common/json5` | parsed options | LoadFromPath, the comment stripper | reload |
| command line | `cmd` | none | server, install, x25519, synctime | |
| hysteria library | `third_party/hysteria-core-v2` | vendored | | hysteria2 core |

### What is hard, and what makes each component correct

- **Periodic task.** `Close` does not wait for a running `Execute`, and a loop
  reads `t.stop` anew each time it waits. Correct: the running flag and the stop
  channel agree, a running task is driven, no loop waits on a channel nobody
  closes, and `Close` ends every loop.
- **Controller and panel client.** The client remembers what it has seen before
  the controller has applied it; a poll has many early returns; the monitor
  restarts its own task from inside it; `Close` may run during a poll. Correct:
  what was acknowledged is served, the limiter follows the user list, the process
  ends only after a failing call, with two polls at once or on a `Close` that
  meets a poll, a controller closed between polls stays closed, and the core ends
  up with what the panel holds unless two polls ran at once.
- **Limiter.** Every connection runs `CheckLimit` against maps without a common
  lock while the report empties them and the monitor changes users. Correct: the
  reported devices are the accepted ones, an address is never booked on another
  user, a bucket has the rate in force, and no listed user is unknown.
- **Xray core, counters and report.** Links are registered, and counters created,
  by load-then-store; the report loads and then stores zero; `DelUsers` cuts
  links while others open. Correct: a deleted user is cut off, and no byte is charged
  twice or lost outside the windows the code leaves.
- **Reload.** A file event starts a goroutine that reloads five seconds later, so
  that reloads overlap; every step may return early; polls go on meanwhile; a node
  rewrites a file that is watched. Correct: a panic takes an earlier failure, an
  overlap, a node that a poll has taken out of the core, or a core or server that
  fails at that moment; a quiet program has read the file as it is, a reload that
  ran through serves every node, and reloading comes to an end if all nodes render
  one DNS file.
- **Sing and hysteria2 cores.** One uid map for all nodes, counter tables created
  by load-then-store, an over-limit flag per user, a limiter that is deleted
  before its node, servers whose handlers outlive them. Correct: nobody is charged
  for what was not sent unless two reports read a counter at once, traffic is
  lost only in the ways the code leaves open, the map follows the user lists, a
  connection is cut only for a rejection of its own user, and an event panics only
  if it meets a `Close` or was in flight when its server was closed.
- **Hysteria2 nodes.** A node takes a socket, a TCP port, a helper process and a
  share of a file, and AddNode has many early returns; its configuration is
  validated twice, by different code. Correct: what is deleted gives everything
  back, `Close` of the helper returns, a masquerade listener ends the program only
  for a port it cannot have, all nodes derive their keys from one secret, and the
  second validation rejects only what the first does not look at.
- **Certificates.** Two files written one after the other, shared by nodes that
  renew from goroutines of their own, read again for every handshake. Correct:
  only a write cut short or two writers at once break the pair, a serving node
  goes on serving, and a certificate that is due is renewed.
- **Inbounds.** Two cores build the same node in separate code. Correct: they
  build the same.
- **Dispatch.** Sniffing reads ahead of the outbound, with a deadline. Correct:
  nothing is lost, repeated or reordered, what is blocked stays out if no earlier
  sniffer takes it for something else, and every connection is decided, also that
  of a silent client.
- **Configuration reader.** A scanner that looks one character ahead. Correct:
  it blanks the comments and trailing commas, and nothing else.

`PROJECT.json` lists the hazards one by one, each at its line.

## Modules

| module | models | state and actions |
|---|---|---|
| `Task` | `common/task/task.go` | flag, channel number, closed channels, and per loop its position and the channel it waits on; `Start`, `Close`, and the loop's `EnterSelect`, `TimerFires`, `StopSeen`, `ExecuteOk`, `ExecuteFails` |
| `Controller` | `node/controller.go`, `node/task.go`, `compareUserList`, `GetNodeInfo`, `GetUserList`, `Selector` for one tag | the panel, the client's caches, `info`, `userList`, limiter, core, and two instances of `Task`; one action per request or call into another component |
| `Limiter` | `limiter/limiter.go`, `determineSpeedLimit` | the six maps; one action per map operation of `CheckLimit`, `GetOnlineDevice` (whose ranges visit entry by entry) and `UpdateUser` |
| `XrayUsers` | `core/xray/user.go`, the dispatcher's links, `common/counter/traffic.go`, the traffic half of `reportUserTrafficTask`, `ReportUserTraffic` | link managers, counters, links and the panel's account; one action per map operation, `mapLock` as a guard |
| `TrafficAccount` | what a core promises about traffic | the bytes sent by and charged to each user: a charge never exceeds what was sent, but for a user whose counter two reports read at once |
| `SharedUsers` | users, hooks, events and reports of the sing and the hysteria2 core | the uid map, counter tables, over-limit flags and connections, handlers in flight among them; the loops of the report task, which load, reset and send in steps of their own; the controller's user changes, reload and `Close` as far as they touch the core. Implements `TrafficAccount` |
| `Hy2Node` | `core/hy2/node.go`, the side effects of `getHyConfig`, `core/hy2/mimic` | sockets, masquerade listeners for http and https, Mimic instances, processes and lock files; `AddNode`, `DelNode`, `Start`, `waitReady`, `Close`, the wait goroutine, and what the operating system may do to a process |
| `Hy2Config` | `core/hy2/config.go`, `serverConfig.go`, `fill` of the server | one configuration through `Build` (`getHyConfig`) and `NewServer` |
| `ResetSecret` | `core/hy2/stateless_reset.go` | the file, and per node the step of its load, the secret drawn and the key in use; one action per file operation, failing calls and crashes; a node without a configuration path has no file |
| `Reload` | `conf/watch.go`, `cmd/server.go`, `node/node.go`, start and close of the cores, `core/xray/dns.go`, a poll's DelNode and AddNode | files, events, the debounce, the core, the controller list, the renderings of the DNS servers and the position of each reload goroutine; one action per call of the reload |
| `Certs` | `node/cert.go`, `node/lego.go`, `core/hy2/dynamic_cert.go` | the two files and the account file, per node the step of its request or renewal and what its loader has read; opening and filling a file are two actions |
| `Inbound` | `core/xray/inbound.go`, `core/sing/node.go` | a node and its options, and what each core makes of them |
| `Dispatch` | `core/xray/app/dispatcher/default.go`, `sniffer.go`, `countreader.go` | pieces of data in the pipe, the cache and the outbound, the sniffers still asked and the time left, what was found and the rules it is held against |
| `TrimNode` | `common/json5/json5.go` | the scanner as recursive operators, and a lexer as its reference |
| `Hysteria2`, `CertFiles` | | the parts of the hysteria2 core, and the certificates, with variables and constants named apart, for the runs and the proofs |
| `TaskProofs`, `ControllerProofs`, `LimiterProofs`, `XrayUsersProofs`, `SharedUsersProofs`, `ReloadProofs`, `InboundProofs`, `Hy2Proofs` | | inductive invariants and theorems |
| `MC...` | | values of the constants for TLC, symmetry, and the compositions below |

`Controller` composes two `Task`s with `INSTANCE`: the monitor's `Close` and
`Start` of its own task are the actions of `Task`, so what a restart during
`Execute` does is not modelled twice. `Limiter`, `XrayUsers` and `SharedUsers`
look into what `Controller` treats as one step (the update of the limiter, the
core's `AddUsers` and `DelUsers`, the body of the report task), `Hy2Node` and
`Inbound` into AddNode, `Certs` into requestCert and the renewal task; `Reload`
stands above the controllers and treats Start and Close of one as steps.

Three MC modules hold several specifications that do not share state, side by
side: `MCTask` has `Task` and `Certs`, `MCHy2Node` has `ResetSecret`, `Hy2Node`
and `Hy2Config`, `MCInbound` has `Dispatch`, `Inbound` and `TrimNode`. The
variable `part` says which one moves; the others are at rest, in a state in
which nothing that is fair is enabled. A property of one of them is checked in
all of its behaviours and holds in the state of rest.

Conventions. An object that a goroutine may hold after it was taken out of its
map has a name of its own: ip maps have numbers, and link managers, counters and
storages the name of the connection that created them. Locals that the code does
not read again are cleared. Where a module is used in several ways (serial or
overlapping calls, one core or the other, a mode of certificates), the way is a
variable that `Init` chooses and nothing changes: `use` in `Limiter`, `setting`
in `XrayUsers`, `core` in `SharedUsers`, `setup` in `Hy2Node`, `mode` in `Certs`,
`conn` in `Dispatch`, the panel in `Controller`. Variables marked "history" are
read by properties only. A definition introduced by "Mutant:" is a wrong version
of the one after it; it is used only to show that a property notices the
difference. `TypeOK` of `Task`, `Controller`, `Limiter`, `XrayUsers`, `Reload`,
`ResetSecret`, `Hy2Node` and `Certs` is proved, and of `SharedUsers` and `Dispatch`
the part that the proofs need; the `TypeOK` of the other modules holds in
the state spaces of the runs.

## Runs

All bounds are constants of the modules. Speeds, intervals and sizes are small
numbers, since only their order matters.

| run | instance | what it shows |
|---|---|---|
| `task` | 3 Starts, failing Executes; certificates of 2 nodes, 3 of them issued with ACME over 1 restart, 4 self-signed over 2 | a third Start meets two older loops, the most the invariants tell apart: `RunningIsDriven`, `OneDriverUnlessOverlapped`, `CloseEndsLoops`. Two writers of one pair, and one renewal after the first certificate: `BrokenPairNeedsCause`, `RenewalKeepsServing`, `DueIsRenewed` |
| `controller_failures` | 2 configurations, one with TLS, user lists that differ in a user, in a speed, in a device limit or are empty, 2 panel changes, 2 failures | two failures, so that one can follow what another left behind, and `Close` between and during polls: `AcknowledgedIsServed`, `LimiterFollowsUserList`, `CrashNeedsCause`, `ClosedStaysClosed` |
| `controller_live` | no failure, 2 Starts of each task; the same panel with 3 changes; configurations with different intervals; 2 user lists and 2 pull intervals with 3 changes of either | changes before, between and after the two requests of a poll, and with two monitor loops: `EventuallyServed`, whose exception is two polls at once. Without it TLC finds a core that stays with an older list for good. `UpIsMonitored`: the monitor restarts its own task |
| `controller_named` | option Name set | violated, see Findings |
| `controller_interval` | push interval differs from the pull interval | violated, see Findings |
| `limiter` | 2 users, 2 addresses of which one is shared; calls one after the other over 2 reports and 2 updates, with dynamic limits over 1; 1 or 2 checks overlapping with a report, an update or a new alive list | two periods, so that addresses of the last one matter: `OnlineIsAccepted`, `BucketMatchesLimit`. Every overlap of three calls: `DevicesAreTheUsersOwn`, `ListedIsKnown` |
| `xray_users` | 2 connections of either kind; 1 user, 2 report loops, 2 reports, 2 changes, 2 bytes; or 2 users, 1 report, a minimum of one byte | every race of two first connections, of a connection with `DelUsers`, and of two reports; several users in one `DelUsers` and its error return: `DeletedIsCutOff`, `ChargedWasSent`, `EveryByteCounted` |
| `shared_users` | 2 nodes that share a user, two devices of that user and one of another, 2 pieces of traffic, one report loop or two, 2 changes (sing) or 1 (hysteria2) | both loops read the counter of a user, or one sends several users in a slice the panel may refuse: `LostNeedsCause`, `MapFollowsLists`, `CutNeedsRejection`, `PanicNeedsCause`; `AccountSpec`, that both cores implement `TrafficAccount` |
| `hy2_node` | 2 nodes, 2 pids, one node added twice, with Mimic, or with masquerade ports that are shared, their own, refused from outside or named twice, and the administrator's own Mimic; 5500 configurations that each vary one part over its boundary values; 3 nodes and one without a configuration path, 2 secrets and 2 faults around one file | a second AddNode meets what the first left: `MimicHasANode`, `DeletedReleasesPort`, `FatalNeedsCause`, `CloseReturns`. The parts of the configuration are built independently: `RejectedOnlyForUnchecked`. A writer, a reader and a third node: `OneSecret`, `RandomNeedsCause` |
| `hy2_windows` | the configurations of `hy2_node` | violated, see Findings |
| `reload` | 2 reload goroutines, 2 edits, files that are good, do not parse or break the core, 2 nodes, a poll that finds its node changed, failing cores, controllers and servers | the second reload meets what the first or a poll left or is in the middle of: `CrashNeedsCause`, `QuietIsCurrent`, `ReloadedIsServed`. DNS servers of one node in one order, in either of two, and of two nodes that differ, the last two without edits: `Settles`, whose precondition is one rendering. If it is dropped TLC finds, for both of the others, reloads that follow each other for ever |
| `inbound` | every type of node with 7 networks, 5 kinds of settings, 5 certificate modes; every course of verdicts of 2 sniffers over 2 pieces, rules for either protocol, its domain or the address; every text of up to 6 characters of 8 kinds | `CoresAgree`; `InOrder`, `BlockedStaysOut`, `Decided`; six characters hold a comma, a comment of either kind and a bracket, or a string with an escape: `TrimsCommentsAndCommas` |

Deadlock is not checked: every run ends when its bounds are used up, and a
stopped task, a closed controller or a crashed program really stops.

**Fairness.** Goroutines are scheduled, timers fire, and requests and core calls
return (the HTTP client has a timeout); nothing obliges the panel to change, a
request to succeed, a file to be edited or anyone to call `Close`.
`Task` and `Controller`: weak fairness of the loops, and of `Start` and `Close`
once begun. `Reload`: of the watcher, of the ten seconds of the debounce, and of
every reload goroutine. `Certs`: weak fairness of what was begun, and strong
fairness of three steps that other things interrupt again and again: the daily
task, which a reload of the node disables for a while, and the registration and
the order that the issuer answers in the end. `Hy2Node`: of AddNode and DelNode
once begun, of `waitReady`, which has a deadline, of the wait goroutine, and of
the end of a signalled process, which `WaitDelay` kills otherwise. `Dispatch`: of
the dispatcher's goroutine and of time; the client need not send anything. The
other modules state no liveness.

**Overlap.** Several properties hold except under an overlap or failure that the
code does not exclude, and say so in their statement: `OnlineIsAccepted` and
`BucketMatchesLimit` are about calls that do not overlap; `DeletedIsCutOff`,
`ChargedWasSent`, `EveryByteCounted` and `LostNeedsCause` name the windows, and
the properties called `...NeedsCause` the kinds of step that must have happened
(`Controller` and `Reload` each have a `CrashNeedsCause`). `AccountSpec` excepts
the users with a counter that two reports had loaded at once, and
`EventuallyServed` behaviours in which two polls ran at once. Outside them nothing
goes wrong; inside, TLC finds the loss at once if the exception is dropped.

## Findings

Shown by a run:

- `controller_named`: when a node with the option `Name` changes, core and user
  list get the new users and the limiter keeps the old ones
  (`node/task.go:99`), so that new users are rejected as unknown.
- `controller_interval`: a changed push interval sets the report task to the pull
  interval (`node/task.go:162`), and every later node change restarts the task.
- `hy2_windows`: a configured `initStreamReceiveWindow` is assigned to the
  connection window (`core/hy2/config.go:141`), and the server runs with its
  default stream window.

In the models, where a property names them as the exception or the state shows
them, and noted here without a run of their own:

- A node that loads the reset secret between its creation and its writing uses a
  random key until its next reload (`core/hy2/stateless_reset.go:55`);
  `RandomNeedsCause` has the exception.
- A sniffer that needs more data is dropped like one that does not match
  (`core/xray/app/dispatcher/sniffer.go:69`), although `default.go:499` means to
  wait for it; see `Sniff` in `Dispatch`.
- A star inside a block comment makes the scanner pass over the next character
  (`common/json5/json5.go:33`): `/***/` is not closed.
  `TrimsCommentsAndCommas` excludes such texts.
- The masquerade listeners of a hysteria2 node are never closed, so that the first
  reload of the node ends the program, as any other error of a listener does
  (`core/hy2/config.go:513`); `FatalNeedsCause`.
- A `Close` of the controller during a poll that found its node changed ends the
  program with one loop and no failure: both delete the node, and the poll panics
  (`node/controller.go:118`, `node/task.go:94`); `CrashNeedsCause` of `Controller`.
- Two polls at once, after a changed pull interval (`node/task.go:157`), may leave
  the core with an older user list than the panel counts as delivered;
  `EventuallyServed`.
- An error of one controller's `Close` ends the program in a reload
  (`node/node.go:44`): the server of the node fails to close, or a poll has taken
  the node out of the core and failed to bring it back (`node/task.go:130`);
  `CrashNeedsCause` of `Reload`.
- A node whose DNS servers come as a map of several has them written in a random
  order (`core/xray/dns.go:32`), and two nodes with different servers overwrite
  each other's file: reloads that take longer than the debounce go on for ever;
  `Settles`.
- Two loops of the report task, after a changed interval, may both read a counter
  before either resets it, and the user is charged twice
  (`core/sing/user.go:147`, `core/hy2/user.go:76`); `AccountSpec`. A report that
  the panel does not take is dropped (`node/user.go:13`); `LostNeedsCause`.
- A request in flight while its hysteria2 node is reloaded may find no limiter and
  panic (`core/hy2/logger.go:72`); `PanicNeedsCause`.
- An AddNode of hysteria2 that fails after `ListenUDP` keeps the socket, and
  every later AddNode of the node fails (`core/hy2/config.go:445`);
  `DeletedReleasesPort`.
- A file that does not parse empties the configuration, leaves a nil core, and
  the next change of the file panics (`conf/watch.go:39`, `cmd/server.go:91`);
  `CrashNeedsCause`.

## Proofs

TLC checks the instances of the runs; what follows is proved for every value of
the constants that satisfies the named assumptions. Each proof names an inductive
invariant, proves that `Init` establishes it and that every action keeps it, one
step per action, and derives the property. Every safety property of the passing
runs is proved except one, named at the end.

| module | property proved, by theorem | inductive invariant |
|---|---|---|
| `TaskProofs` | `TypeOK` (`TaskTypeOK`); `RunningIsDriven` (`TaskRunningIsDriven`); `OneDriverUnlessOverlapped` (`TaskOneDriver`); the flag agrees with the channel, waiting loops can be stopped, a double close needs a task stopped under a failing Execute | `IInv` |
| `ControllerProofs` | `TypeOK` (`ControllerTypeOK`); `UpIsMonitored`, `ClosedStaysClosed`, `CrashNeedsCause`, `LimiterFollowsUserList`, `AcknowledgedIsServed` | `BasicInv`, and one for each |
| `LimiterProofs` | `TypeOK` (`LimiterTypeOK`); `ListedIsKnown`, `DevicesAreTheUsersOwn`, `OnlineIsAccepted`, `BucketMatchesLimit`; what the comment of `determineSpeedLimit` says, for all rates | `KnownInv`, `OwnInv`, `SeenInv`, `BucketInv` |
| `XrayUsersProofs` | `TypeOK` (`XrayTypeOK`); `ChargedWasSent`, `EveryByteCounted`, `DeletedIsCutOff` | `Holding`, `OwnInv`, `TrafficInv`, `ByteInv`, `CutInv` |
| `SharedUsersProofs` | `MapFollowsLists`, `CutNeedsRejection`, `PanicNeedsCause`, `LostNeedsCause`; `AccountSpec`, the refinement of `TrafficAccount` | `MapInv`, `FlagInv`, `LimiterInv`, `LostInv`, `AccountInv` |
| `ReloadProofs` | `TypeOK` (`ReloadTypeOK`); `QuietIsCurrent`, `CrashNeedsCause`, `ReloadedIsServed` | `Typed`, `WillRead`, `OrderInv` |
| `Hy2Proofs` | of `ResetSecret`: `TypeOK`, `OneSecret`, `RandomNeedsCause`; of `Hy2Node`: `TypeOK`, `MimicHasANode`, `DeletedReleasesPort`, `FatalNeedsCause`; of `Hy2Config`: `RejectedOnlyForUnchecked`; of `Certs`: `TypeOK`, `BrokenPairNeedsCause`, `RenewalKeepsServing` | see below |
| `InboundProofs` | `InOrder`, `BlockedStaysOut`; `CoresAgree` | `FlowInv`, `BlockInv`, `BuiltInv` |

**Task.** That a running task is driven depends on which loop adopted which
channel. `IInv` adds that loops and channels are numbered in the order of the
Starts (`LoopOrder`) and that, without an overlap, only the last loop drives
(`DriverIsLast`).

**Controller.** The module holds two instances of `Task`, so the proofs are
layered on `TaskProofs`: `MonTask` and `RepTask` are that module with the
monitor's and the report's variables, and every step of the controller is a step
of each task or leaves it alone. `BasicInv` joins the two `IInv`s with `PollInv`,
which ties a loop of the monitor to the step of its poll: a loop polls exactly
while it executes, a restart from inside a poll is an overlap, a closed
controller's task is off. From there, in this order:

- `Restarting`: a task that is not running is one that a poll is about to start
  (`UpIsMonitored`); `QuietInv`: a `Close` that met no poll leaves none that could
  begin (`ClosedStaysClosed`); `NodeInv`: without failures and a `Close` during a
  poll, the core of a controller that is up lacks the node exactly between a
  poll's DelNode and AddNode, and one poll at most is there, so that a panic takes
  a second one (`CrashNeedsCause`);
- `CompareInv` and `LimiterInv`: the locals of a comparison are those of the
  present user list, and updating the limiter by them turns the old list into the
  new one (`LimiterFollowsUserList`). The theorem assumes that the option `Name`
  is not set: with it the property is false, which `controller_named` shows;
- `AckInv`: how far the poll that runs has come, with the node, with the user list
  and with the users of the core, each as a conjunct of its own
  (`AcknowledgedIsServed`). `lostNode` and `torn` record the early returns after
  which the client remembers what was not applied.

**Limiter.** `ListedIsKnown` needs the order of `UpdateUser` (`UpdateOrder`) and
that a listed user it deletes is stored again (`DeletedComesBack`).
`DevicesAreTheUsersOwn` needs that an ip map which a check or the report holds, or
which is in the map of online users, is one user's only (`OneOwner`), although its
number is used again once nobody holds it; that a number is always free is a counting
argument (`FreeMapExists`). `OnlineIsAccepted` follows, with calls one after the
other, by saying at each step of a check whether its address is already in the
map (`OnlineIsSeen`) and what the count it has read was (`CountsOnline`);
`BucketMatchesLimit` by saying what rate the running check has computed
(`LimitIsCurrent`) and that a user `UpdateUser` is about to add has no bucket.

**Traffic, from above.** `ChargedWasSent` and `AccountSpec` say that charged,
counted and under way together do not exceed what was sent, also for storages that
a report holds and no table knows any more. They are proved without sums, by
assigning pieces to places. A user's
traffic is asked for by places: what was charged, each counter, each report and,
in `SharedUsers`, its slice. The pieces numbered `1..n` *cover* the demands `b` (`Covers`) if every unit `<<p, k>>`
of a demand, `k \in 1..b[p]`, has a piece of its own. Four lemmas suffice: nothing
covers nothing, a demand never exceeds the pieces (`CoversBound`), one more piece
covers one more unit (`CoversPut`), and the pieces of one place can go to another
(`CoversMove`), which is what a report does when it takes from a counter and the
panel when it charges. Who owns a storage that was replaced or deleted while a
report holds it is `OwnInv` in xray and a case of `Demands` in the other cores,
where `Alone` says that a counter that two reports hold is one of a user in
`doubled`: of all others each piece is asked for once.

For `AccountSpec` each step of `SharedUsers` is shown to be a `Send` of one user,
a `Charge`, or a step that marks a user as doubled in `TrafficAccount`, or to leave
the account as it is (`AccountRefines`).

**Traffic, to the byte.** `EveryByteCounted` and `LostNeedsCause` equate what was
sent with sums: over the reports in xray, over the slices of the reports and over
the nodes in the other cores. tlapm
has no induction over sets, and `MapThenSumSet` is a `CHOOSE` of a recursive
function on the subsets. So `NoneOf` proves induction over the numbers by the least
counterexample, which is well-foundedness and first-order; `AllSubsets` carries it
to the subsets of a finite set by their cardinality; from it follow that the
recursion has a solution (`SumExists`), so that the chosen function is one, and that
changing one summand changes the sum by as much (`SumChange`). A step then has to
show only that what leaves one place arrives at another.

- `ByteInv` of xray is what makes that so for a user without an excuse.
  `TableInv`: its connections hold the node's present table and the storage in it
  (one that was replaced gave everybody who used it an excuse), a storage is in one
  table, and what is left in other tables is zero. `Exact`: what a report has
  loaded is what the counter still holds, and is more than nothing, so that a
  counter replaced meanwhile excuses the user. `SliceInv`: a user joins a slice
  once. `KnownInv`: a user without a uid has lost its counter or is at that step of
  `DelUsers`, which no report overlaps, so that the storage a report drops is of a
  user with an excuse.
- `LostInv` of sing and hysteria2: a report whose storage left the table, or which
  shares it with another report, and a connection of sing whose storage is in no
  table, are of users that are marked already; and a storage that a report has loaded is not empty, so that a table
  that replaces it marks its user.

`DeletedIsCutOff` is by `CutInv`: a link that `DelUsers` did not miss is in the
link manager of its user, and that manager is in the map, or in the hands of
`DelUsers`, which has yet to close it.

**Sing and hysteria2.** `MapInv`: for a user that was never removed, the lists
and the map agree up to what a controller is about to do. `FlagInv`: only a
rejected event sets a flag. `LimiterInv`: a reload takes the node out of the core
before it touches its limiter, so that only a `Close` leaves a node of the core
without one; whoever else finds none is in flight from a server that was closed.

**Reload.** `WillRead`: an edit that was not read is an event, a sleeping
goroutine, or was dropped. `OrderInv`: as long as reloads do not overlap, the
point a reload is at fixes what the core and the list of controllers are
(`Finds`), and what one that has ended left behind (`Leaves`); a controller that
serves may at any time have its node taken out of the core by a poll.

**Hysteria2 nodes.**

- `ResetSecret`: `Exclusion`, that at most one node is past the creation of the
  file, and the file is invalid until it has written it; `Sequential`, that
  without faults and overlapping loads an invalid file is the one a load is
  writing, none is removed, and no node that has a path has a random key.
- `Hy2Node`, from `MachineAssumption`. `ProcessInv`: a process that runs is the
  instance of the node it was started for, an instance is given up only after its
  process has left, and only a node without one starts one. `GoneReleasesPort`:
  the socket is closed before `Close` waits for Mimic, so it is gone in the
  position `closing` too. `MasqInv`: a listener, whether it listens or has yet to,
  carries its node, the number of its AddNode and whether it is the plain one, and
  is not in both states, so that two of one port come from two nodes, two AddNodes
  or two equal ports.
- `Hy2Config`, from `ConfigAssumption`: whatever passes `getQUICConfig` or
  `getUDPForwardingRedundancyMultipliers`, or comes out of `getBandwidthConfig`,
  is accepted by `fill` (`QUICAccepted`, `MultipliersAccepted`,
  `BandwidthAccepted`).
- `Certs`, from `CertsAssumption`. `PairInv`: until a write is cut short or two
  overlap, there is one writer, it finds the certificate as it wrote it, and at
  rest the two files belong together. `ServingIsKept` is an action property.

**Dispatch and inbounds.** `FlowInv`: outbound, cache and pipe hold consecutive
numbers, each going on where the one before ends. `BlockInv`: a connection that a
sniffer tells from its first piece, and none before it mistakes, is on the way to
being told in every position before the routing, and what was found is blocked
when it gets there. `CoresAgree` unfolds both builds, case by case over the types
of node; `NotCut` is that ports and alter ids in range survive the conversion.

**Assumptions.** Those that say more than the type of a bound:

| assumption | why the code justifies it |
|---|---|
| `ControllerAssumption`, `UserListsAssumption` | the special values are no configurations or lists; a list of the panel names a uuid once, which `compareUserList` and every map of the program rely on |
| `SniffersAssumption`, `BoundsAssumption`, `ConnectionsAssumption` | the sniffers are a list of names; a connection has data to send and time to sniff, and is a record of verdicts, rules and options |
| `InfosAssumption` | the transport settings, and with them the header, are decoded for the types that have a transport; both cores ignore them for a shadowsocks node |
| `MachineAssumption` | the administrator's process and the marks for "none" are no process or node of the program |
| `ConfigAssumption` | the fields have their Go types; a rate is one whose product with a million is an int64 |
| `SecretsAssumption`, `ValuesAssumption` | absent, invalid and random are no valid contents of the file |
| `NodesAssumption` | the nodes without a configuration path are some of the nodes |
| `IsFiniteSet` in `ConstantsAssumption` and `XrayAssumption` | a configuration lists finitely many nodes, and a controller starts finitely many report loops; a sum over them is defined only then |
| the rest of `XrayAssumption` and `ConstantsAssumption`; `LimiterAssumption`, `TaskAssumption`, `CertsAssumption`, `FaultsAssumption` | bounds are numbers and "none" is not a value |

TLC evaluates those that are `ASSUME`s in the runs of their module.
`MachineAssumption` and `CertsAssumption` are hypotheses of their theorems, and
`MCHy2Node` and `MCTask` assume them of their instances, so that TLC evaluates
them too. `ConfigAssumption` is a hypothesis that TLC cannot evaluate, because the
bound on a rate exceeds its integers.

**Only model-checked.** Liveness (`CloseEndsLoops`, `EventuallyServed`,
`CloseReturns`, `Settles`, `DueIsRenewed`, `Decided`), which is out of the
prover's reach; and what the recursive operators of `TrimNode` compute
(`TrimsCommentsAndCommas`): tlapm has no SMT backend for modules with recursive
operators, and what they compute for every text would need induction over it.

## Not modelled

- Logging, the command line, and the checks that the xray and sing libraries make
  of a finished inbound.
- The regular expressions of the rules; that a bad one panics is an action of
  `Controller`. The sniffers of the protocols: their verdicts are any.
- The ACME exchange, which is an answer or an error, and the download of the geo
  files and the resolvers.
- The choice among several cores in `Selector`; includes of a node from a file or
  a URL; `SpeedChecker`, and `AddDynamicSpeedLimit`, which nothing calls.
- The filter of small online users in `node/user.go`, which looks at users in the
  traffic slice only, so that one without traffic is reported as online although
  the comment at line 28 means to leave it out.
- Unsynchronised Go maps and variables: the data race on `AliveList`, on the node
  map of the hysteria2 core and on the `err` that overlapping reloads share. The
  end of the program by such a race is an action of `XrayUsers` for the links.
- A watch that is lost when an editor replaces the file by renaming another.
- Nodes with the option Name in `SharedUsers`, and in it a `Close` that meets a
  reload of the same node, which `Controller` has; the lock of the user map is
  held there for one user of a report at a time, where the code holds it for the
  whole slice, so that more can happen than in the code; a renewal and a reload of the same
  controller at the same time in `Certs`; `CloseAll` on the links of
  `DispatchLink` in `Dispatch`, which `XrayUsers` has.
- Congestion control of the hysteria library: numeric and out of TLC's reach; its
  UDP sessions and defragmentation: upstream code.

## Plan

Done: `Task`, `Controller`, `Limiter`, `XrayUsers`; `SharedUsers` with
`TrafficAccount`; `Reload`, `Certs`, `Hy2Node`, `Hy2Config`, `ResetSecret`,
`Inbound`, `Dispatch`, `TrimNode`; the proofs above. Left, in this order:

1. `Selector`: which core a node gets, and that its calls reach that core.
2. The online half of `reportUserTrafficTask`.
3. `UDPSession` and `Defrag` of the hysteria library.
