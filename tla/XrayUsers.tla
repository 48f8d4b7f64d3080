------------------------------ MODULE XrayUsers ------------------------------
(***************************************************************************)
(* The users of one node in the xray core, from the dispatcher that opens  *)
(* their links (core/xray/app/dispatcher) to the report that charges their *)
(* traffic (core/xray/user.go, node/user.go, common/counter).              *)
(*                                                                         *)
(* Connections, the controller's AddUsers and DelUsers, and the report     *)
(* task run concurrently.  users.mapLock orders AddUsers, DelUsers and the *)
(* reading of the counters; the dispatcher does not take it, and its maps  *)
(* are loaded and stored in separate steps.                                *)
(*                                                                         *)
(* A connection creates at most one LinkManager, one TrafficCounter and    *)
(* one TrafficStorage, so each such object has the name of the connection  *)
(* that created it.  The up and the down counter of a storage are handled  *)
(* alike, one after the other; one number stands for both.                 *)
(***************************************************************************)
EXTENDS Naturals, FiniteSets, FiniteSetsExt

CONSTANTS
    Users,
    Conns,          \* connections, each used once
    Reporters,      \* loops of the report task
    Settings,       \* the settings considered, see Setting
    MaxBytes,       \* bound: bytes of a user
    None

\* The users and the loops there are, nodeReportMinTrafficBytes, and bounds on the reports and
\* on the calls of AddUsers and DelUsers.
Setting == [users : SUBSET Users, reporters : SUBSET Reporters, min : Nat, reports : Nat,
            changes : Nat]

ASSUME XrayAssumption ==
    /\ MaxBytes \in Nat /\ \A x \in Settings : x \in Setting
    /\ IsFiniteSet(Reporters)
    /\ None \notin Users /\ None \notin Conns

VARIABLES
    setting,
    manager,        \* users of the inbound's user manager
    uidMap,         \* users with a uid
    linkManagers,   \* LinkManagers: per user its LinkManager, or None
    links,          \* the links of each LinkManager
    counter,        \* Counter: the node's TrafficCounter, or None
    cells,          \* per TrafficCounter and user the storage, or None
    count,          \* the bytes in each storage
    conn,           \* per connection: position, kind and what it holds
    change,         \* AddUsers or DelUsers in progress
    report,         \* per reporter: position and the slice it builds
    reports, changes,
    sent,           \* history: bytes counted for each user
    charged,        \* the panel: bytes reported for each user
    crashed,        \* the runtime found a map iterated while it was written
    late, excused, overlapped
                    \* history: links that missed a DelUsers, users some of
                    \* whose bytes missed a report, two reports at once

linkVars == <<linkManagers, links>>
countVars == <<counter, cells, count>>
histVars == <<sent, late, excused, overlapped>>
vars == <<setting, manager, uidMap, linkVars, countVars, conn, change, report, reports,
          changes, charged, crashed, histVars>>

NoConn == [pc |-> "idle", kind |-> None, user |-> None, lm |-> None, tc |-> None,
           storage |-> None, cut |-> FALSE]
Closed == [NoConn EXCEPT !.pc = "closed"]
NoChange == [pc |-> "free", todo |-> {}, user |-> None, lm |-> None, left |-> {}]
NoReport == [pc |-> "free", tc |-> None, todo |-> {}, user |-> None, storage |-> None,
             seen |-> 0, slice |-> [u \in Users |-> 0]]

Init ==
    /\ setting \in Settings
    /\ manager \in SUBSET setting.users
    /\ uidMap = manager
    /\ linkManagers = [u \in Users |-> None]
    /\ links = [m \in Conns |-> {}]
    /\ counter = None
    /\ cells = [t \in Conns |-> [u \in Users |-> None]]
    /\ count = [s \in Conns |-> 0]
    /\ conn = [c \in Conns |-> NoConn]
    /\ change = NoChange
    /\ report = [r \in Reporters |-> NoReport]
    /\ reports = 0 /\ changes = 0
    /\ sent = [u \in Users |-> 0]
    /\ charged = [u \in Users |-> 0]
    /\ crashed = FALSE
    /\ late = {} /\ excused = {} /\ overlapped = FALSE

\* The bytes of a user that the next report will find.
Pending(u) ==
    IF counter = None \/ cells[counter][u] = None THEN 0
    ELSE count[cells[counter][u]]

-----------------------------------------------------------------------------
(* A connection of a user: Dispatch (getLink) and DispatchLink do the same *)
(* steps, the first adds the link before it takes the counter, the second  *)
(* after.                                                                  *)

Moves(c, p) == conn' = [conn EXCEPT ![c].pc = p]

AfterManager(c) == IF conn[c].kind = "Dispatch" THEN "addLink" ELSE "loadCounter"
AfterLink(c) == IF conn[c].kind = "Dispatch" THEN "loadCounter" ELSE "open"
AfterCounter(c) == IF conn[c].kind = "Dispatch" THEN "open" ELSE "addLink"

\* The inbound has authenticated the user.
Connect(c, u, kind) ==
    /\ conn[c].pc = "idle"
    /\ u \in manager
    /\ conn' = [conn EXCEPT ![c] = [NoConn EXCEPT !.pc = "limit", !.kind = kind,
                                                  !.user = u]]
    /\ UNCHANGED <<linkVars, countVars, histVars>>

\* GetLimiter fails or CheckLimit rejects, or neither.
CheckLimit(c) ==
    /\ conn[c].pc = "limit"
    /\ \/ conn' = [conn EXCEPT ![c] = Closed]
       \/ Moves(c, "loadManager")
    /\ UNCHANGED <<linkVars, countVars, histVars>>

\* LinkManagers.Load(user.Email)
LoadManager(c) ==
    LET m == linkManagers[conn[c].user] IN
    /\ conn[c].pc = "loadManager"
    /\ conn' = [conn EXCEPT ![c].lm = m,
                            ![c].pc = IF m = None THEN "storeManager" ELSE AfterManager(c)]
    /\ UNCHANGED <<linkVars, countVars, histVars>>

\* LinkManagers.Store(user.Email, lm) replaces a manager stored since the Load.
StoreManager(c) ==
    LET u == conn[c].user IN
    /\ conn[c].pc = "storeManager"
    /\ linkManagers' = [linkManagers EXCEPT ![u] = c]
    /\ conn' = [conn EXCEPT ![c].lm = c, ![c].pc = AfterManager(c)]
    /\ late' = late \cup {d \in Conns : conn[d].lm # None /\ conn[d].lm = linkManagers[u]}
    /\ UNCHANGED <<links, countVars, sent, excused, overlapped>>

\* Mutant: the link is not registered.
AddLinkForgotten(c) ==
    /\ conn[c].pc = "addLink"
    /\ Moves(c, AfterLink(c))
    /\ UNCHANGED <<linkVars, countVars, histVars>>

\* lm.AddLink(managedWriter, reader)
AddLink(c) ==
    /\ conn[c].pc = "addLink"
    /\ links' = [links EXCEPT ![conn[c].lm] = @ \cup {c}]
    /\ Moves(c, AfterLink(c))
    /\ UNCHANGED <<linkManagers, countVars, histVars>>

\* d.Counter.Load(tag)
LoadCounter(c) ==
    /\ conn[c].pc = "loadCounter"
    /\ conn' = [conn EXCEPT ![c].tc = counter,
                            ![c].pc = IF counter = None THEN "storeCounter" ELSE "getCounter"]
    /\ UNCHANGED <<linkVars, countVars, histVars>>

\* d.Counter.Store(tag, t) replaces a counter stored since the Load, and with
\* it the bytes of the connections that hold that one.
StoreCounter(c) ==
    /\ conn[c].pc = "storeCounter"
    /\ counter' = c
    /\ conn' = [conn EXCEPT ![c].tc = c, ![c].pc = "getCounter"]
    /\ excused' = excused \cup {conn[d].user : d \in {e \in Conns :
                                   conn[e].tc # None /\ conn[e].tc = counter}}
                       \cup {u \in Users : Pending(u) > 0}
    /\ UNCHANGED <<linkVars, cells, count, sent, late, overlapped>>

\* Mutant: every connection gets a storage of its own.
GetCounterStores(c) ==
    LET t == conn[c].tc  u == conn[c].user IN
    /\ conn[c].pc = "getCounter"
    /\ cells' = [cells EXCEPT ![t][u] = c]
    /\ conn' = [conn EXCEPT ![c].storage = c, ![c].pc = AfterCounter(c)]
    /\ UNCHANGED <<linkVars, counter, count, histVars>>

\* t.GetCounter(user.Email): Load or LoadOrStore.
GetCounter(c) ==
    LET t == conn[c].tc  u == conn[c].user IN
    /\ conn[c].pc = "getCounter"
    /\ cells' = [cells EXCEPT ![t][u] = IF @ = None THEN c ELSE @]
    /\ conn' = [conn EXCEPT ![c].storage = cells'[t][u], ![c].pc = AfterCounter(c)]
    /\ UNCHANGED <<linkVars, counter, count, histVars>>

\* Bytes pass: Counter.Add in SizeStatWriter or CounterReader.
Transfer(c) ==
    LET u == conn[c].user IN
    /\ conn[c].pc = "open" /\ ~conn[c].cut
    /\ sent[u] < MaxBytes
    /\ count' = [count EXCEPT ![conn[c].storage] = @ + 1]
    /\ sent' = [sent EXCEPT ![u] = @ + 1]
    /\ excused' = IF \E r \in Reporters : report[r].pc = "zero" /\ report[r].user = u
                  THEN excused \cup {u} ELSE excused
    /\ UNCHANGED <<linkVars, counter, cells, conn, late, overlapped>>

\* The connection ends: ManagedWriter.Close removes its link.
CloseLink(c) ==
    /\ conn[c].pc = "open"
    /\ links' = [links EXCEPT ![conn[c].lm] = @ \ {c}]
    /\ conn' = [conn EXCEPT ![c] = Closed]
    /\ UNCHANGED <<linkManagers, countVars, histVars>>

Connection(c) ==
    /\ \/ \E u \in Users, kind \in {"Dispatch", "DispatchLink"} : Connect(c, u, kind)
       \/ CheckLimit(c) \/ LoadManager(c) \/ StoreManager(c) \/ AddLink(c)
       \/ LoadCounter(c) \/ StoreCounter(c) \/ GetCounter(c)
       \/ Transfer(c) \/ CloseLink(c)
    /\ UNCHANGED <<manager, uidMap, change, report, reports, changes, charged, crashed>>

\* CloseAll ranges over the links without the manager's lock: a link that is
\* added or removed meanwhile may end the program ("concurrent map iteration
\* and map write").
ConcurrentMapWrite(c) ==
    /\ change.pc = "closeAll" /\ conn[c].lm = change.lm
    /\ conn[c].pc \in {"addLink", "open"}
    /\ crashed' = TRUE
    /\ UNCHANGED <<manager, uidMap, linkVars, countVars, conn, change, report,
                   reports, changes, charged, histVars>>

-----------------------------------------------------------------------------
(* AddUsers and DelUsers, under mapLock. *)

Reading(r) == report[r].pc \in {"range", "zero", "uid"}

\* mapLock.Lock()
MayChange ==
    /\ change.pc = "free" /\ \A r \in Reporters : ~Reading(r)
    /\ changes < setting.changes
    /\ changes' = changes + 1

\* All uids are set; AddUser may fail for a user, and the rest is not added.
AddUsers(us, added) ==
    /\ MayChange
    /\ us # {} /\ us \cap manager = {} /\ added \subseteq us
    /\ uidMap' = uidMap \cup us
    /\ manager' = manager \cup added
    /\ UNCHANGED <<linkVars, cells, conn, change, late, excused>>

DelBegins(us) ==
    /\ MayChange
    /\ us # {} /\ us \subseteq uidMap
    /\ change' = [NoChange EXCEPT !.pc = "loop", !.todo = us]
    /\ UNCHANGED <<manager, uidMap, linkVars, cells, conn, late, excused>>

\* userManager.RemoveUser, then delete(uidMap, user); DelUsers returns at the
\* first user that the manager does not have.
DelUser(u) ==
    /\ change.pc = "loop" /\ u \in change.todo
    /\ IF u \in manager
       THEN /\ manager' = manager \ {u}
            /\ uidMap' = uidMap \ {u}
            /\ change' = [change EXCEPT !.pc = "counter", !.user = u, !.todo = @ \ {u}]
            /\ late' = late \cup {c \in Conns : conn[c].user = u /\
                                    conn[c].pc \notin {"open", "closed"}}
       ELSE change' = NoChange /\ UNCHANGED <<manager, uidMap, late>>
    /\ UNCHANGED <<linkVars, cells, conn, changes, excused>>

\* tc.Delete(user): the bytes since the last report go with it.
DelCounter ==
    /\ change.pc = "counter"
    /\ change' = [change EXCEPT !.pc = "manager"]
    /\ cells' = IF counter = None THEN cells
                ELSE [cells EXCEPT ![counter][change.user] = None]
    /\ excused' = excused \cup {change.user}
    /\ UNCHANGED <<manager, uidMap, linkVars, conn, changes, late>>

\* LinkManagers.Load(user), and the links that CloseAll will visit.
DelManager ==
    LET m == linkManagers[change.user] IN
    /\ change.pc = "manager"
    /\ change' = IF m = None THEN [change EXCEPT !.pc = "loop", !.user = None]
                 ELSE [change EXCEPT !.pc = "closeAll", !.lm = m, !.left = links[m]]
    /\ UNCHANGED <<manager, uidMap, linkVars, cells, conn, changes, late, excused>>

\* One link of the range; one added meanwhile may be visited too.
CloseOne(w) ==
    /\ change.pc = "closeAll" /\ w \in change.left \cup links[change.lm]
    /\ change' = [change EXCEPT !.left = @ \ {w}]
    /\ IF w \in links[change.lm]
       THEN /\ links' = [links EXCEPT ![change.lm] = @ \ {w}]
            /\ conn' = [conn EXCEPT ![w].cut = TRUE]
       ELSE UNCHANGED <<links, conn>>
    /\ UNCHANGED <<manager, uidMap, linkManagers, cells, changes, late, excused>>

CloseAllEnds ==
    /\ change.pc = "closeAll" /\ change.left = {}
    /\ change' = [change EXCEPT !.pc = "delete", !.lm = None]
    /\ UNCHANGED <<manager, uidMap, linkVars, cells, conn, changes, late, excused>>

\* LinkManagers.Delete(user), whatever manager is there by now.
DelDelete ==
    /\ change.pc = "delete"
    /\ linkManagers' = [linkManagers EXCEPT ![change.user] = None]
    /\ change' = [change EXCEPT !.pc = "loop", !.user = None]
    /\ UNCHANGED <<manager, uidMap, links, cells, conn, changes, late, excused>>

DelEnds ==
    /\ change.pc = "loop" /\ change.todo = {}
    /\ change' = NoChange
    /\ UNCHANGED <<manager, uidMap, linkVars, cells, conn, changes, late, excused>>

UserChange ==
    /\ \/ \E us, added \in SUBSET setting.users : AddUsers(us, added)
       \/ \E us \in SUBSET Users : DelBegins(us)
       \/ \E u \in Users : DelUser(u)
       \/ \E w \in Conns : CloseOne(w)
       \/ DelCounter \/ DelManager \/ CloseAllEnds \/ DelDelete \/ DelEnds
    /\ UNCHANGED <<counter, count, report, reports, charged, crashed, sent, overlapped>>

-----------------------------------------------------------------------------
(* reportUserTrafficTask: GetUserTrafficSlice under mapLock.RLock, then    *)
(* the request.                                                            *)

ReportBegins(r) ==
    /\ report[r].pc = "free" /\ change.pc = "free"
    /\ reports < setting.reports
    /\ reports' = reports + 1
    /\ counter # None
    /\ report' = [report EXCEPT ![r] = [NoReport EXCEPT !.pc = "range", !.tc = counter,
                    !.todo = {u \in Users : cells[counter][u] # None}]]
    /\ overlapped' = (overlapped \/ \E q \in Reporters : Reading(q))
    /\ UNCHANGED <<cells, count, charged, excused>>

\* The counters of one user are loaded, and reported if they exceed the minimum.
LoadTraffic(r, u) ==
    LET s == cells[report[r].tc][u]
        next == [report[r] EXCEPT !.todo = @ \ {u}]
    IN
    /\ report[r].pc = "range" /\ u \in report[r].todo
    /\ report' = [report EXCEPT ![r] =
         IF s # None /\ count[s] > setting.min
         THEN [next EXCEPT !.user = u, !.storage = s, !.seen = count[s], !.pc = "zero"]
         ELSE next]
    /\ UNCHANGED <<reports, cells, count, charged, excused, overlapped>>

\* Mutant: what was reported is not taken off.
ResetTrafficForgotten(r) ==
    /\ report[r].pc = "zero"
    /\ report' = [report EXCEPT ![r].pc = "uid", ![r].storage = None]
    /\ UNCHANGED <<reports, cells, count, charged, excused, overlapped>>

\* Store(0), whatever was added since the Load.
ResetTraffic(r) ==
    /\ report[r].pc = "zero"
    /\ report' = [report EXCEPT ![r].pc = "uid", ![r].storage = None]
    /\ count' = [count EXCEPT ![report[r].storage] = 0]
    /\ UNCHANGED <<reports, cells, charged, excused, overlapped>>

\* A user without a uid loses its storage; another one joins the slice.
AppendTraffic(r) ==
    LET u == report[r].user
        next == [report[r] EXCEPT !.pc = "range", !.user = None, !.seen = 0]
    IN
    /\ report[r].pc = "uid"
    /\ IF u \in uidMap
       THEN /\ report' = [report EXCEPT ![r] = [next EXCEPT !.slice[u] = report[r].seen]]
            /\ UNCHANGED cells
       ELSE /\ report' = [report EXCEPT ![r] = next]
            /\ cells' = [cells EXCEPT ![report[r].tc][u] = None]
    /\ UNCHANGED <<reports, count, charged, excused, overlapped>>

ReportEnds(r) ==
    /\ report[r].pc = "range" /\ report[r].todo = {}
    /\ report' = IF \E u \in Users : report[r].slice[u] > 0
                 THEN [report EXCEPT ![r].pc = "post"]
                 ELSE [report EXCEPT ![r] = NoReport]
    /\ UNCHANGED <<reports, cells, count, charged, excused, overlapped>>

\* ReportUserTraffic: the panel charges the slice, or the request is lost; the
\* slice is dropped either way.
ReportUserTraffic(r) ==
    LET slice == report[r].slice IN
    /\ report[r].pc = "post"
    /\ report' = [report EXCEPT ![r] = NoReport]
    /\ \/ /\ charged' = [u \in Users |-> charged[u] + slice[u]]
          /\ UNCHANGED excused
       \/ /\ excused' = excused \cup {u \in Users : slice[u] > 0}
          /\ UNCHANGED charged
    /\ UNCHANGED <<reports, cells, count, overlapped>>

Report(r) ==
    /\ \/ ReportBegins(r) \/ (\E u \in Users : LoadTraffic(r, u)) \/ ResetTraffic(r)
       \/ AppendTraffic(r) \/ ReportEnds(r) \/ ReportUserTraffic(r)
    /\ UNCHANGED <<manager, uidMap, linkVars, counter, conn, change, changes, crashed,
                   sent, late>>

Next ==
    /\ ~crashed /\ UNCHANGED setting
    /\ \/ \E c \in Conns : Connection(c) \/ ConcurrentMapWrite(c)
       \/ UserChange
       \/ \E r \in setting.reporters : Report(r)

Spec == Init /\ [][Next]_vars

-----------------------------------------------------------------------------

TypeOK ==
    /\ manager \subseteq Users /\ uidMap \subseteq Users
    /\ linkManagers \in [Users -> Conns \cup {None}]
    /\ links \in [Conns -> SUBSET Conns]
    /\ counter \in Conns \cup {None}
    /\ cells \in [Conns -> [Users -> Conns \cup {None}]]
    /\ count \in [Conns -> Nat]
    /\ sent \in [Users -> Nat] /\ charged \in [Users -> Nat]

\* Once DelUsers has removed a user, no link of it still carries bytes, except
\* a link that was being opened while DelUsers ran, or whose LinkManager was
\* replaced by a second first connection of the user.
DeletedIsCutOff ==
    change.pc = "free" =>
        \A c \in Conns : /\ conn[c].pc = "open" /\ ~conn[c].cut
                         /\ conn[c].user \notin manager
                         => c \in late

\* The panel never charges a user for more bytes than passed, through deleted
\* and added users, replaced counters and lost requests, unless two loops of
\* the report task read the counters at once.
ChargedWasSent ==
    ~overlapped => \A u \in Users : charged[u] <= sent[u]

\* The bytes of a user that are on the way to the panel.
Carried(u) ==
    MapThenSumSet(LAMBDA r : report[r].slice[u]
                    + (IF report[r].pc = "uid" /\ report[r].user = u
                       THEN report[r].seen ELSE 0), Reporters)

\* No byte is lost, except those of a user that was deleted, whose request
\* failed, whose counters were added to between the report's Load and Store, or
\* whose counter was replaced by a second first connection of the node.
EveryByteCounted ==
    ~overlapped => \A u \in Users \ excused :
        sent[u] = charged[u] + Carried(u) + Pending(u)
=============================================================================
