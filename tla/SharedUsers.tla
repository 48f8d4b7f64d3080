---------------------------- MODULE SharedUsers -----------------------------
(***************************************************************************)
(* Users, connections and traffic in the sing core (core/sing/user.go,     *)
(* hook.go, common/counter) and in the hysteria2 core (core/hy2/user.go,   *)
(* hook.go, logger.go), which are built alike: one map from uuid to uid    *)
(* for all nodes of the core, a table of counters per node that its first  *)
(* connection creates, and a limiter looked up by the node's tag.  A       *)
(* connection of sing keeps the storage it was given; one of hysteria2     *)
(* looks it up for every piece of traffic.  Verdicts of the limiter are    *)
(* any (module Limiter), except that it rejects users it does not know.    *)
(* Up and down are one direction here, and traffic comes in pieces of one. *)
(* The read lock of a report is held for one user at a time, where the     *)
(* code holds it for the whole slice: more is allowed than can happen.     *)
(***************************************************************************)
EXTENDS Naturals, FiniteSets, FiniteSetsExt

CONSTANTS
    Tags, Users, Conns,
    Reporters, Of,  \* loops of the report tasks, and [Reporters -> Tags]: their nodes
    Listed,    \* [Tags -> SUBSET Users]: the user lists at the start
    Owner, On, \* [Conns -> Users], [Conns -> Tags]
    Settings   \* the settings considered, see Setting

\* Which of the two cores it is, the loops there are, and bounds: pieces of traffic per user, and
\* changes of a user list, closings and reloads of a node.
Setting == [core : {"sing", "hy2"}, loops : SUBSET Reporters, sent : [Users -> Nat], changes : Nat]

ASSUME ConstantsAssumption ==
    /\ IsFiniteSet(Tags) /\ IsFiniteSet(Reporters) /\ Of \in [Reporters -> Tags]
    /\ \A x \in Settings : x \in Setting
    /\ Listed \in [Tags -> SUBSET Users] /\ Owner \in [Conns -> Users] /\ On \in [Conns -> Tags]

VARIABLES
    setting,
    list,     \* per node: the users of the panel, which are those of the inbound and the limiter
    limited,  \* nodes that have a limiter
    up,       \* nodes in the core
    uidMap,   \* users with a uid in the core's map
    deleting, \* per node: users that DelUsers of hysteria2 has yet to take from the map
    stage,    \* per node: what its controller is doing
    tables,   \* nodes that have a table of counters
    count,    \* [Tags -> [Users -> Nat]]: the storages in the tables
    attached, \* connections of sing whose storage is the one in the table
    pc,       \* per connection; "stale": handlers of it are in flight, but its server is closed
    over,     \* OverLimit of each user of each node, as a set of pairs
    report,   \* per reporter: the user being read, what was loaded, and what of it is still in use:
              \* the "storage", only its "table", or neither ("gone"); or None
    slice,    \* per reporter: what it has read for each user and not sent to the panel yet
    crashed,
    sent, charged, changes,
    rejected, \* history: pairs of node and user that an event was rejected for
    removed,  \* history: users that were on a list and are not any more
    lost,     \* history: users some of whose traffic may have been lost
    doubled   \* history: users with a counter that two reports had loaded before either reset it

vars == <<setting, list, limited, up, uidMap, deleting, stage, tables, count, attached, pc, over, report, slice,
          crashed, sent, charged, changes, rejected, removed, lost, doubled>>

None == [user |-> {}, n |-> 0, at |-> "gone"]

NoSlice == [u \in Users |-> 0]

Lost(us) == lost' = lost \cup us

core == setting.core

Init ==
    /\ setting \in Settings
    /\ list = Listed
    /\ limited = Tags /\ up = Tags /\ uidMap = UNION {Listed[t] : t \in Tags}
    /\ deleting = [t \in Tags |-> {}] /\ stage = [t \in Tags |-> "idle"]
    /\ tables = {} /\ count = [t \in Tags |-> [u \in Users |-> 0]] /\ attached = {}
    /\ pc = [c \in Conns |-> "off"] /\ over = {}
    /\ report = [r \in Reporters |-> None] /\ slice = [r \in Reporters |-> NoSlice] /\ crashed = FALSE
    /\ sent = [u \in Users |-> 0] /\ charged = [u \in Users |-> 0] /\ changes = 0
    /\ rejected = {} /\ removed = {} /\ lost = {} /\ doubled = {}

\* A report holds the lock of the map.
Reporting == \E r \in Reporters : report[r] # None

account == <<sent, charged, slice, doubled>>

panel == <<list, limited, up, uidMap, deleting, stage, changes, removed>>

----------------------------------------------------------------------------
(* Counters.                                                               *)

\* Reports of a node find what they have loaded nowhere any more.
TableGone(t) == [r \in Reporters |-> IF Of[r] = t THEN [report[r] EXCEPT !.at = "gone"] ELSE report[r]]

\* A new table replaces the one another connection may have stored meanwhile.
NewTable(t, c, n) ==
    /\ tables' = tables \cup {t}
    /\ count' = [count EXCEPT ![t] = [u \in Users |-> IF u = Owner[c] THEN n ELSE 0]]
    /\ attached' = {d \in attached : On[d] # t} \cup {c}
    /\ Lost({u \in Users : count[t][u] > 0 \/ \E d \in attached : On[d] = t /\ Owner[d] = u})
    /\ report' = TableGone(t)

\* Rx, Tx.
Counted(t, u) == [count EXCEPT ![t][u] = @ + 1]

\* TrafficCounter.Delete: connections keep a storage that is in no table any more, and so do
\* reports that have loaded it.
DeleteCounter(t, u) ==
    /\ count' = [count EXCEPT ![t][u] = 0]
    /\ attached' = {d \in attached : On[d] # t \/ Owner[d] # u}

StorageGone(t, u) ==
    [r \in Reporters |-> IF Of[r] = t /\ u \in report[r].user /\ report[r].at = "storage"
                         THEN [report[r] EXCEPT !.at = "table"] ELSE report[r]]

----------------------------------------------------------------------------
(* The sing core.                                                          *)

\* The inbound of sing knows the users of its node; the map of hysteria2 is that of all nodes.
Authenticate(c) ==
    /\ pc[c] = "off"
    /\ IF core = "sing" THEN stage[On[c]] # "added" /\ Owner[c] \in list[On[c]] ELSE Owner[c] \in uidMap

\* RoutedConnection and RoutedPacketConnection, also for a connection that was accepted before
\* its node was deleted.
Routed(c) ==
    LET t == On[c] IN
    /\ core = "sing" /\ (pc[c] = "stale" \/ (t \in up /\ Authenticate(c)))
    /\ \/ /\ t \notin limited
          /\ pc' = [pc EXCEPT ![c] = "raw"] /\ Lost({Owner[c]}) /\ UNCHANGED attached
       \/ /\ t \in limited
          /\ pc' = [pc EXCEPT ![c] = "closed"] /\ UNCHANGED <<attached, lost>>
       \/ /\ t \in limited /\ t \in tables
          /\ attached' = attached \cup {c}
          /\ pc' = [pc EXCEPT ![c] = "open"] /\ UNCHANGED lost
       \/ /\ t \in limited /\ t \notin tables
          /\ pc' = [pc EXCEPT ![c] = "creating"] /\ UNCHANGED <<attached, lost>>
    /\ UNCHANGED <<panel, tables, count, over, report, crashed, account, rejected>>

StoreTable(c) ==
    /\ core = "sing" /\ pc[c] = "creating"
    /\ NewTable(On[c], c, 0)
    /\ pc' = [pc EXCEPT ![c] = "open"]
    /\ UNCHANGED <<panel, over, crashed, account, rejected>>

\* ReadBuffer, WriteBuffer, the packet methods and the count functions add to the storage.
Add(c) == count' = Counted(On[c], Owner[c]) /\ UNCHANGED lost

\* Read and Write store the size of the last call.
Store(c, n) ==
    /\ count' = [count EXCEPT ![On[c]][Owner[c]] = n]
    /\ IF count[On[c]][Owner[c]] > 0 THEN Lost({Owner[c]}) ELSE UNCHANGED lost

Transfer(c) ==
    /\ core = "sing" /\ pc[c] \in {"open", "raw"} /\ sent[Owner[c]] < setting.sent[Owner[c]]
    /\ sent' = [sent EXCEPT ![Owner[c]] = @ + 1]
    /\ IF c \in attached THEN Add(c) \/ Store(c, 1) ELSE UNCHANGED <<count, lost>>
    /\ UNCHANGED <<panel, tables, attached, pc, over, report, slice, crashed, charged, rejected, doubled>>

\* A Read at the end of the connection, or a Read or Write that fails, stores a zero.
TransferNothing(c) ==
    /\ core = "sing" /\ pc[c] = "open" /\ c \in attached
    /\ Store(c, 0)
    /\ UNCHANGED <<panel, tables, attached, pc, over, report, crashed, account, rejected>>

----------------------------------------------------------------------------
(* The hysteria2 core.                                                     *)

Flag(c) == <<On[c], Owner[c]>>

\* Mutant: the flag is kept by the node alone.
JudgeNode(c) ==
    \/ /\ rejected' = rejected \cup {Flag(c)}
       /\ over' = over \cup {<<On[c], u>> : u \in list[On[c]]}
    \/ /\ Owner[c] \in list[On[c]]
       /\ over' = over \ {Flag(c)} /\ UNCHANGED rejected

\* The verdict on an event of a connection; the flag belongs to the user, not to the connection.
Judge(c) ==
    \/ /\ rejected' = rejected \cup {Flag(c)}
       /\ over' = IF Owner[c] \in list[On[c]] THEN over \cup {Flag(c)} ELSE over
    \/ /\ Owner[c] \in list[On[c]]
       /\ over' = over \ {Flag(c)} /\ UNCHANGED rejected

\* Connect accepts the connection whatever the verdict; TCPRequest and UDPRequest judge it again.
\* The server's Close does not wait for the handlers it has in flight.
Event(c) ==
    /\ core = "hy2"
    /\ pc[c] = "stale" \/ (On[c] \in up /\ (pc[c] = "open" \/ Authenticate(c)))
    /\ IF On[c] \in limited
       THEN Judge(c) /\ pc' = [pc EXCEPT ![c] = IF @ = "stale" THEN @ ELSE "open"] /\ UNCHANGED crashed
       ELSE crashed' = TRUE /\ UNCHANGED <<pc, over, rejected>>
    /\ UNCHANGED <<panel, tables, count, attached, report, account, lost>>

\* LogTraffic: traffic that is refused is not forwarded, and the connection is closed.
LogTraffic(c) ==
    LET t == On[c] u == Owner[c] IN
    /\ core = "hy2" /\ pc[c] = "open" /\ sent[u] < setting.sent[u]
    /\ \/ t \notin limited /\ pc' = [pc EXCEPT ![c] = "closed"] /\ UNCHANGED <<count, sent>>
       \/ t \in limited /\ Flag(c) \in over /\ pc' = [pc EXCEPT ![c] = "cut"] /\ UNCHANGED <<count, sent>>
       \/ /\ t \in limited /\ Flag(c) \notin over /\ t \in tables
          /\ count' = Counted(t, u) /\ sent' = [sent EXCEPT ![u] = @ + 1] /\ UNCHANGED pc
       \/ /\ t \in limited /\ Flag(c) \notin over /\ t \notin tables
          /\ pc' = [pc EXCEPT ![c] = "creating"] /\ UNCHANGED <<count, sent>>
    /\ UNCHANGED <<panel, tables, attached, over, report, slice, crashed, charged, rejected, lost, doubled>>

\* A handler in flight counts in the table of the closed server, which no report reads.
LogLate(c) ==
    LET u == Owner[c] IN
    /\ core = "hy2" /\ pc[c] = "stale" /\ sent[u] < setting.sent[u]
    /\ \/ On[c] \in limited /\ Flag(c) \in over /\ pc' = [pc EXCEPT ![c] = "cut"] /\ UNCHANGED <<sent, lost>>
       \/ sent' = [sent EXCEPT ![u] = @ + 1] /\ Lost({u}) /\ UNCHANGED pc
    /\ UNCHANGED <<panel, tables, count, attached, over, report, slice, crashed, charged, rejected, doubled>>

\* The flag is cleared after it was read.
ClearFlag(c) ==
    /\ pc[c] = "cut" /\ pc' = [pc EXCEPT ![c] = "closed"]
    /\ over' = over \ {Flag(c)}
    /\ UNCHANGED <<panel, tables, count, attached, report, crashed, account, rejected, lost>>

StoreCounter(c) ==
    /\ core = "hy2" /\ pc[c] = "creating" /\ On[c] \in up
    /\ NewTable(On[c], c, 1)
    /\ sent' = [sent EXCEPT ![Owner[c]] = @ + 1]
    /\ pc' = [pc EXCEPT ![c] = "open"]
    /\ UNCHANGED <<panel, over, slice, crashed, charged, rejected, doubled>>

----------------------------------------------------------------------------
(* GetUserTrafficSlice, under a read lock of the map: each counter above   *)
(* the minimum is loaded, then set to zero.  Two loops of a node may do it *)
(* at once.  The slice is sent to the panel afterwards.                    *)

LoadCounter(r) ==
    LET t == Of[r] IN
    /\ r \in setting.loops /\ report[r] = None /\ t \in tables /\ (core = "hy2" => t \in up)
    /\ \E u \in Users :
        /\ count[t][u] > 0 /\ slice[r][u] = 0
        /\ report' = [report EXCEPT ![r] = [user |-> {u}, n |-> count[t][u], at |-> "storage"]]
        /\ doubled' = IF \E q \in Reporters : Of[q] = t /\ u \in report[q].user /\ report[q].at = "storage"
                      THEN doubled \cup {u} ELSE doubled
    /\ UNCHANGED <<panel, tables, count, attached, pc, over, slice, crashed, sent, charged, rejected, lost>>

Appends(r, u, n) == slice' = [slice EXCEPT ![r][u] = @ + n]

\* Mutant: the counter is not reset.
ReadAgain(r, u, n, at) == Appends(r, u, n) /\ UNCHANGED <<count, attached, lost>>

\* Mutant: the traffic of a user without a uid is reported and stays in the counter.
ReadUnknown(r, u, n, at) ==
    /\ Appends(r, u, n)
    /\ count' = IF u \in uidMap /\ at = "storage" THEN [count EXCEPT ![Of[r]][u] = 0] ELSE count
    /\ Lost({u}) /\ UNCHANGED attached

\* A user without a uid is dropped with its traffic, which is not reported.
Reset(r, u, n, at) ==
    LET t == Of[r] IN
    IF u \in uidMap
    THEN /\ Appends(r, u, n)
         /\ count' = IF at = "storage" THEN [count EXCEPT ![t][u] = 0] ELSE count
         /\ IF count[t][u] # n THEN Lost({u}) ELSE UNCHANGED lost
         /\ UNCHANGED attached
    ELSE /\ IF at = "gone" THEN UNCHANGED <<count, attached>> ELSE DeleteCounter(t, u)
         /\ Lost({u}) /\ UNCHANGED slice

ResetCounter(r) ==
    \E u \in report[r].user :
        /\ Reset(r, u, report[r].n, report[r].at)
        /\ report' = [(IF u \in uidMap \/ report[r].at = "gone" THEN report ELSE StorageGone(Of[r], u))
                      EXCEPT ![r] = None]
        /\ UNCHANGED <<panel, tables, pc, over, crashed, sent, charged, rejected, doubled>>

\* ReportUserTraffic: the panel charges the slice, or the call fails; it is dropped either way.
ReportUserTraffic(r) ==
    /\ report[r] = None /\ slice[r] # NoSlice
    /\ slice' = [slice EXCEPT ![r] = NoSlice]
    /\ \/ charged' = [u \in Users |-> charged[u] + slice[r][u]] /\ UNCHANGED lost
       \/ Lost({u \in Users : slice[r][u] > 0}) /\ UNCHANGED charged
    /\ UNCHANGED <<panel, tables, count, attached, pc, over, report, crashed, sent, rejected, doubled>>

----------------------------------------------------------------------------
(* The controller of a node.                                               *)

\* A controller does one thing at a time.
Begins(t) == stage[t] = "idle" /\ deleting[t] = {} /\ changes < setting.changes /\ changes' = changes + 1

Proceeds(t, from, to) == stage[t] = from /\ stage' = [stage EXCEPT ![t] = to] /\ UNCHANGED changes

\* AddUsers, then the limiter.
AddUser(t, u) ==
    /\ Begins(t) /\ ~Reporting /\ u \notin list[t]
    /\ uidMap' = uidMap \cup {u} /\ list' = [list EXCEPT ![t] = @ \cup {u}]
    /\ UNCHANGED <<limited, up, deleting, stage, tables, count, attached, pc, over, report, crashed, account,
                   rejected, removed, lost>>

\* DelUsers of sing holds the lock of the map; of hysteria2 it deletes the counter first.
DelUser(t, u) ==
    /\ Begins(t) /\ (core = "sing" => ~Reporting) /\ u \in list[t]
    /\ list' = [list EXCEPT ![t] = @ \ {u}]
    /\ IF core = "sing" THEN uidMap' = uidMap \ {u} /\ UNCHANGED deleting
                        ELSE deleting' = [deleting EXCEPT ![t] = @ \cup {u}] /\ UNCHANGED uidMap
    /\ DeleteCounter(t, u)
    /\ report' = StorageGone(t, u)
    /\ over' = over \ {<<t, u>>} /\ removed' = removed \cup {u} /\ Lost({u})
    /\ UNCHANGED <<limited, up, stage, tables, pc, crashed, account, rejected>>

DelFromMap(t, u) ==
    /\ u \in deleting[t] /\ ~Reporting
    /\ deleting' = [deleting EXCEPT ![t] = @ \ {u}]
    /\ uidMap' = uidMap \ {u}
    /\ UNCHANGED <<list, limited, up, stage, tables, count, attached, pc, over, report, crashed, account,
                   changes, rejected, removed, lost>>

\* A flag that was read is cleared in the limiter it was read from.
DropLimiter(t) ==
    /\ limited' = limited \ {t} /\ over' = {f \in over : f[1] # t}
    /\ pc' = [c \in Conns |-> IF On[c] = t /\ pc[c] = "cut" THEN "closed" ELSE pc[c]]

\* Controller.Close deletes the limiter before the node.
Close(t) ==
    /\ Begins(t) /\ stage' = [stage EXCEPT ![t] = "closing"]
    /\ DropLimiter(t)
    /\ UNCHANGED <<list, up, uidMap, deleting, tables, count, attached, report, crashed, account,
                   rejected, removed, lost>>

\* What may still be in flight when the node is deleted: connections that were let in and have
\* not been routed or announced yet, and of hysteria2 the handlers of those that were.
InFlight(t) ==
    {c \in Conns : On[c] = t /\ (Authenticate(c) \/ (core = "hy2" /\ pc[c] \in {"open", "creating"}))}

\* The counters of a hysteria2 node go with it, and its connections; those of sing stay.
NodeGone(t) ==
    /\ \E late \in SUBSET InFlight(t) :
         pc' = [c \in Conns |->
                 IF c \in late THEN "stale"
                 ELSE IF core = "hy2" /\ On[c] = t /\ pc[c] \in {"open", "creating"} THEN "closed"
                 ELSE pc[c]]
    /\ UNCHANGED attached
    /\ IF core = "sing" THEN UNCHANGED <<tables, count, report, lost>>
       ELSE /\ tables' = tables \ {t} /\ count' = [count EXCEPT ![t] = NoSlice]
            /\ Lost({u \in Users : count[t][u] > 0})
            /\ report' = TableGone(t)

DelNode(t) ==
    /\ up' = up \ {t} /\ NodeGone(t)
    /\ UNCHANGED <<uidMap, deleting, crashed, account, rejected>>

CloseNode(t) == DelNode(t) /\ Proceeds(t, "closing", "closed") /\ UNCHANGED <<list, limited, over, removed>>

\* nodeInfoMonitor of a node that changed (and has no name): delete the node, replace the
\* limiter, add the node, and its users.
ReloadNode(t) ==
    /\ Begins(t) /\ stage' = [stage EXCEPT ![t] = "deleted"]
    /\ \E us \in SUBSET Users : list' = [list EXCEPT ![t] = us] /\ removed' = removed \cup (list[t] \ us)
    /\ DelNode(t)
    /\ UNCHANGED <<limited, over>>

others == <<deleting, tables, count, attached, report, crashed, account, rejected, removed, lost>>

ReplaceLimiter(t) ==
    \/ Proceeds(t, "deleted", "bare") /\ DropLimiter(t) /\ UNCHANGED <<list, up, uidMap, others>>
    \/ /\ Proceeds(t, "bare", "limited") /\ limited' = limited \cup {t}
       /\ UNCHANGED <<list, up, over, uidMap, pc, others>>

\* Mutant: the node is added while the old limiter is still to be replaced.
AddNodeFirst(t) ==
    /\ Proceeds(t, "deleted", "deleted") /\ up' = up \cup {t}
    /\ UNCHANGED <<list, limited, over, uidMap, pc, others>>

AddNode(t) ==
    /\ Proceeds(t, "limited", "added") /\ up' = up \cup {t}
    /\ UNCHANGED <<list, limited, over, uidMap, pc, others>>

\* Mutant: the map is built anew from the list of the node.
AddUsersAnew(t) ==
    /\ Proceeds(t, "added", "idle") /\ ~Reporting
    /\ uidMap' = list[t]
    /\ UNCHANGED <<list, limited, up, over, pc, others>>

\* A user that is on the list no more stays in the map.
AddUsers(t) ==
    /\ Proceeds(t, "added", "idle") /\ ~Reporting
    /\ uidMap' = uidMap \cup list[t]
    /\ UNCHANGED <<list, limited, up, over, pc, others>>

Next ==
    /\ ~crashed /\ UNCHANGED setting
    /\ \/ \E c \in Conns : \/ Routed(c) \/ StoreTable(c) \/ Transfer(c) \/ TransferNothing(c)
                           \/ Event(c) \/ LogTraffic(c) \/ LogLate(c) \/ ClearFlag(c) \/ StoreCounter(c)
       \/ \E r \in Reporters : LoadCounter(r) \/ ResetCounter(r) \/ ReportUserTraffic(r)
       \/ \E t \in Tags : \/ Close(t) \/ CloseNode(t) \/ ReloadNode(t)
                         \/ ReplaceLimiter(t) \/ AddNode(t) \/ AddUsers(t)
       \/ \E t \in Tags, u \in Users : AddUser(t, u) \/ DelUser(t, u) \/ DelFromMap(t, u)

Spec == Init /\ [][Next]_vars

----------------------------------------------------------------------------
Account == INSTANCE TrafficAccount

(* Whatever is lost, nobody is charged for what was not sent, and for       *)
(* nothing twice, but a user with a counter that two loops of a node's      *)
(* report task read at once: both may load it before either sets it to      *)
(* zero.  The abstract account of TrafficAccount is implemented.            *)
AccountSpec == Account!Spec

(* Every byte is charged, in a slice or still in a counter, unless it was   *)
(* in a counter that two reports read at once, or may have been lost in one *)
(* of these ways, and no other: a report that reset a counter another       *)
(* connection had added to since it was loaded, a slice that the panel did  *)
(* not take, a table stored twice by the first connections of a node, Read  *)
(* or Write of sing that overwrote the count, a connection accepted without *)
(* a limiter, the deletion of the user or of a hysteria2 node, a handler of *)
(* that node still in flight, or a uid that the deletion of the user from   *)
(* another node took from the shared map.                                   *)
LostNeedsCause ==
    \A u \in Users :
        sent[u] # charged[u] + MapThenSumSet(LAMBDA r : slice[r][u], Reporters)
                             + MapThenSumSet(LAMBDA t : count[t][u], Tags)
        => u \in lost \cup doubled

(* The map is shared by the nodes.  A user on the list of a node is in it,  *)
(* unless the user was removed from another one, and one that is in it is   *)
(* on some list, unless a reload or the closing of a node dropped it.       *)
MapFollowsLists ==
    \A u \in Users :
        u \notin removed => \/ u \in uidMap <=> \E t \in Tags : u \in list[t]
                            \/ \E t \in Tags : u \in list[t] /\ stage[t] # "idle"

(* hysteria2 closes a connection for the device limit only after an event   *)
(* of the same user on the same node was rejected.                          *)
CutNeedsRejection == \A c \in Conns : pc[c] = "cut" => Flag(c) \in rejected

(* An event panics, finding no limiter, only on account of                 *)
(* Controller.Close, which deletes the limiter before the node, or while a  *)
(* reload replaces the limiter.  In the reload, and once Close has returned *)
(* from DelNode, it is an event that was in flight when the node was        *)
(* deleted: no event of the new server finds the limiter missing.           *)
PanicNeedsCause ==
    crashed => \E c \in Conns : \/ stage[On[c]] = "closing"
                                \/ stage[On[c]] \in {"closed", "bare"} /\ pc[c] = "stale"
=============================================================================
