------------------------------- MODULE Limiter -------------------------------
(***************************************************************************)
(* The limiter of one node (limiter/limiter.go, limiter/dynamic.go).  Its  *)
(* callers run concurrently: every new connection calls CheckLimit, the    *)
(* report task calls GetOnlineDevice, the monitor calls UpdateUser and     *)
(* replaces AliveList, and the speed checker sets dynamic limits.  The     *)
(* fields are maps without a common lock, so each map operation is a step. *)
(*                                                                         *)
(* An ip map (a value of UserOnlineIP) is an object that a connection or   *)
(* the report may hold after it was removed from UserOnlineIP, so ip maps  *)
(* have numbers.                                                           *)
(* A user is identified by its uuid, which stands for its uid as well.     *)
(***************************************************************************)
EXTENDS Naturals, FiniteSets

CONSTANTS
    Uuids,          \* users
    IPs,            \* addresses
    Addresses,      \* per user: the addresses it connects from
    Conns,          \* connections checked concurrently
    Speeds,         \* speed limits of users and of the node; 0 is unlimited
    NodeLimit,      \* Limiter.SpeedLimit
    Devices,        \* device limits of users; 0 is unlimited
    MaxAlive,       \* bound: alive counts
    Uses,           \* the ways the limiter is used, see Use
    None

\* serial: no two calls overlap.  dynamic: dynamic speed limits are set.  The limits users
\* may have, and bounds on the checks at the same time, on the reports, on the updates (calls of
\* UpdateUser, new alive lists, dynamic limits) and on the users changed by one UpdateUser.
Use == [serial : BOOLEAN, dynamic : BOOLEAN, speeds : SUBSET Speeds, devices : SUBSET Devices,
        checks : Nat, reports : Nat, updates : Nat, changed : Nat]

\* ExpireTime is zero, or not yet reached, or reached.
UserLimitInfo ==
    [speed : Speeds, device : Devices, dynamic : Speeds,
     expire : {"never", "later", "past"}]

ASSUME LimiterAssumption ==
    /\ Speeds \subseteq Nat /\ 0 \in Speeds /\ NodeLimit \in Speeds
    /\ Devices \subseteq Nat
    /\ MaxAlive \in Nat /\ \A w \in Uses : w \in Use
    /\ IsFiniteSet(Uuids) /\ IsFiniteSet(Conns) /\ None \notin Uuids
    /\ None \notin UserLimitInfo
    /\ Addresses \in [Uuids -> SUBSET IPs]

\* Enough ip maps for every entry, and for every connection and the report that still hold one.
MapIds == 1..(Cardinality(Uuids) + Cardinality(Conns) + 1)

VARIABLES
    use,            \* how the limiter is used
    info,           \* UserLimitInfo: per user a record, or None
    alive,          \* AliveList
    online,         \* UserOnlineIP: per user the number of its ip map, or 0
    ips,            \* the addresses in each ip map
    old,            \* OldUserOnline: per address the user, or None
    bucket,         \* SpeedLimiter: per user the rate of its bucket, or 0
    conn,           \* per connection: position in CheckLimit and its locals
    report,         \* position in GetOnlineDevice
    update,         \* position in UpdateUser and the users it has yet to do
    reports, updates,
    listed,         \* the users of the controller's user list
    accepted        \* history, if serial: per user, addresses accepted since
                    \* the last report

limiterVars == <<info, alive, online, ips, old, bucket>>
vars == <<use, limiterVars, conn, report, update, reports, updates, listed,
          accepted>>

\* The record AddLimiter and UpdateUser store for a user of the panel's list.
NewInfo(s, d) == [speed |-> s, device |-> d, dynamic |-> 0, expire |-> "never"]

\* The smaller of two limits, where zero means no limit.
determineSpeedLimit(l1, l2) ==
    IF l1 = 0 \/ l2 = 0
    THEN IF l1 > l2 THEN l1 ELSE l2
    ELSE IF l1 > l2 THEN l2 ELSE l1

NoCheck == [pc |-> "free", user |-> None, ip |-> None, track |-> FALSE,
            device |-> 0, alive |-> 0, limit |-> 0, map |-> 0]

NoReport == [pc |-> "free", todo |-> {}, user |-> None, map |-> 0, left |-> {}]

NoUpdate == [pc |-> "free", del |-> {}, add |-> {}, user |-> None, info |-> None]

Init ==
    /\ use \in Uses
    /\ \E s \in [Uuids -> use.speeds], d \in [Uuids -> use.devices] :
         info = [u \in Uuids |-> NewInfo(s[u], d[u])]
    /\ alive = [u \in Uuids |-> 0]
    /\ online = [u \in Uuids |-> 0]
    /\ ips = [m \in MapIds |-> {}]
    /\ old = [i \in IPs |-> None]
    /\ bucket = [u \in Uuids |-> 0]
    /\ conn = [c \in Conns |-> NoCheck]
    /\ report = NoReport
    /\ update = NoUpdate
    /\ reports = 0 /\ updates = 0
    /\ listed = Uuids
    /\ accepted = [u \in Uuids |-> {}]

\* The calls in progress.
Busy ==
    {c \in Conns : conn[c].pc # "free"}
        \cup (IF report.pc # "free" THEN {"report"} ELSE {})
        \cup (IF update.pc # "free" THEN {"update"} ELSE {})

\* A call may begin, in a run without overlapping calls, when none is going on.
MayBegin == use.serial => Busy = {}

FreeMap == CHOOSE m \in MapIds : /\ \A u \in Uuids : online[u] # m
                                 /\ \A c \in Conns : conn[c].map # m
                                 /\ report.map # m

\* The contents of the ip maps that something still refers to.
Collected(maps, on, cs, r) ==
    [m \in MapIds |-> IF \/ \E u \in Uuids : on[u] = m
                         \/ \E c \in Conns : cs[c].map = m
                         \/ r.map = m
                      THEN maps[m] ELSE {}]

-----------------------------------------------------------------------------
(* CheckLimit *)

Ends(c) == conn' = [conn EXCEPT ![c] = NoCheck]
Moves(c, p) == conn' = [conn EXCEPT ![c].pc = p]

\* The device check is over: its locals are dead.
Passes(c) ==
    /\ conn' = [conn EXCEPT ![c] = [@ EXCEPT !.pc = "bucket", !.device = 0,
                                            !.alive = 0, !.map = 0]]
    /\ ips' = Collected(ips, online, conn', report)

\* The connection is let through; an address counts as online when the check
\* tracks it (it is not a UDP packet of Shadowsocks).
Accept(c) ==
    accepted' = IF use.serial /\ conn[c].track
                THEN [accepted EXCEPT ![conn[c].user] = @ \cup {conn[c].ip}]
                ELSE accepted

\* Load UserLimitInfo.  An unknown user is rejected.  A dynamic limit that has
\* expired is cleared, or the whole entry deleted if the user has no limit.
CheckLoad(c, u, ip, track) ==
    /\ conn[c].pc = "free" /\ MayBegin
    /\ Cardinality(Busy \cap Conns) < use.checks
    /\ IF info[u] = None
       THEN UNCHANGED <<info, conn>>
       ELSE LET expired == info[u].expire = "past"
                limit == IF expired THEN info[u].speed
                         ELSE determineSpeedLimit(info[u].speed, info[u].dynamic)
            IN  /\ conn' = [conn EXCEPT ![c] =
                     [pc |-> IF track THEN "alive" ELSE "bucket", user |-> u,
                      ip |-> IF track THEN ip ELSE None, track |-> track,
                      device |-> IF track THEN info[u].device ELSE 0,
                      alive |-> 0, limit |-> limit, map |-> 0]]
                /\ info' = IF ~expired THEN info
                           ELSE IF info[u].speed # 0
                           THEN [info EXCEPT ![u].dynamic = 0, ![u].expire = "never"]
                           ELSE [info EXCEPT ![u] = None]
    /\ UNCHANGED <<alive, online, ips, old, bucket, accepted>>

\* aliveIp := l.AliveList[uid]
CheckAlive(c) ==
    /\ conn[c].pc = "alive"
    /\ conn' = [conn EXCEPT ![c].pc = "online", ![c].alive = alive[conn[c].user]]
    /\ UNCHANGED <<limiterVars, accepted>>

\* Mutant: one ip map for all users.
CheckOnlineShared(c) ==
    LET u == conn[c].user IN
    /\ conn[c].pc = "online"
    /\ online' = [online EXCEPT ![u] = 1]
    /\ ips' = [ips EXCEPT ![1] = @ \cup {conn[c].ip}]
    /\ Moves(c, "first")
    /\ UNCHANGED <<info, alive, old, bucket, accepted>>

\* UserOnlineIP.LoadOrStore(taguuid, newipMap)
CheckOnline(c) ==
    LET u == conn[c].user IN
    /\ conn[c].pc = "online"
    /\ IF online[u] # 0
       THEN /\ conn' = [conn EXCEPT ![c].pc = "ip", ![c].map = online[u]]
            /\ UNCHANGED <<online, ips>>
       ELSE /\ online' = [online EXCEPT ![u] = FreeMap]
            /\ ips' = [ips EXCEPT ![FreeMap] = {conn[c].ip}]
            /\ Moves(c, "first")
    /\ UNCHANGED <<info, alive, old, bucket, accepted>>

\* oldipMap.LoadOrStore(ip, uid)
CheckIp(c) ==
    LET m == conn[c].map IN
    /\ conn[c].pc = "ip"
    /\ IF conn[c].ip \in ips[m]
       THEN Passes(c)
       ELSE Moves(c, "new") /\ ips' = [ips EXCEPT ![m] = @ \cup {conn[c].ip}]
    /\ UNCHANGED <<info, alive, online, old, bucket, accepted>>

OverDeviceLimit(c) == conn[c].device > 0 /\ conn[c].device <= conn[c].alive

\* A new address: OldUserOnline.Load(ip), else the device limit.  An address
\* of the last period is let through, whichever user had it.
CheckOld(c) ==
    /\ conn[c].pc \in {"new", "first"}
    /\ \/ /\ old[conn[c].ip] = conn[c].user
          /\ Moves(c, "forget") /\ UNCHANGED ips
       \/ /\ old[conn[c].ip] \notin {conn[c].user, None}
          /\ Passes(c)
       \/ /\ old[conn[c].ip] = None /\ ~OverDeviceLimit(c)
          /\ Passes(c)
       \/ /\ old[conn[c].ip] = None /\ OverDeviceLimit(c)
          /\ Moves(c, IF conn[c].pc = "new" THEN "dropIp" ELSE "dropUser")
          /\ UNCHANGED ips
    /\ UNCHANGED <<info, alive, online, old, bucket, accepted>>

\* OldUserOnline.Delete(ip)
CheckForget(c) ==
    /\ conn[c].pc = "forget"
    /\ old' = [old EXCEPT ![conn[c].ip] = None]
    /\ Passes(c)
    /\ UNCHANGED <<info, alive, online, bucket, accepted>>

\* Mutant: the rejected address stays in the ip map.
CheckRejectKeepsIp(c) ==
    /\ conn[c].pc \in {"dropIp", "dropUser"}
    /\ Ends(c)
    /\ UNCHANGED <<limiterVars, accepted>>

\* Over the device limit: the address is taken out again, on the first address
\* of the user by deleting the user's entry of UserOnlineIP.
CheckReject(c) ==
    /\ Ends(c)
    /\ \/ /\ conn[c].pc = "dropIp"
          /\ ips' = Collected([ips EXCEPT ![conn[c].map] = @ \ {conn[c].ip}],
                              online, conn', report)
          /\ UNCHANGED online
       \/ /\ conn[c].pc = "dropUser"
          /\ online' = [online EXCEPT ![conn[c].user] = 0]
          /\ ips' = Collected(ips, online', conn', report)
    /\ UNCHANGED <<info, alive, old, bucket, accepted>>

\* The rate of the connection; SpeedLimiter.LoadOrStore keeps an older bucket.
CheckBucket(c) ==
    LET u == conn[c].user
        rate == determineSpeedLimit(NodeLimit, conn[c].limit)
    IN
    /\ conn[c].pc = "bucket"
    /\ IF rate > 0 /\ bucket[u] = 0
       THEN /\ bucket' = [bucket EXCEPT ![u] = rate]
            /\ Moves(c, "store") /\ UNCHANGED accepted
       ELSE Ends(c) /\ Accept(c) /\ UNCHANGED bucket
    /\ UNCHANGED <<info, alive, online, ips, old>>

\* A bucket that was not there is stored a second time.
CheckStore(c) ==
    /\ conn[c].pc = "store"
    /\ bucket' = [bucket EXCEPT ![conn[c].user] =
                    determineSpeedLimit(NodeLimit, conn[c].limit)]
    /\ Ends(c) /\ Accept(c)
    /\ UNCHANGED <<info, alive, online, ips, old>>

CheckStep(c) ==
    \/ \E u \in Uuids, track \in BOOLEAN :
         \E ip \in Addresses[u] : CheckLoad(c, u, ip, track)
    \/ CheckAlive(c) \/ CheckOnline(c) \/ CheckIp(c) \/ CheckOld(c)
    \/ CheckForget(c) \/ CheckReject(c) \/ CheckBucket(c) \/ CheckStore(c)

CheckLimit(c) ==
    /\ CheckStep(c)
    /\ UNCHANGED <<report, update, reports, updates, listed>>

-----------------------------------------------------------------------------
(* GetOnlineDevice: Range visits the users that were there when it began. *)

\* Between two users, with those to come.
Ranging(todo) == [pc |-> "range", todo |-> todo, user |-> None, map |-> 0, left |-> {}]

ReportBegins ==
    /\ report.pc = "free" /\ MayBegin
    /\ reports < use.reports
    /\ reports' = reports + 1
    /\ old' = [i \in IPs |-> None]
    /\ report' = Ranging({u \in Uuids : online[u] # 0})
    /\ UNCHANGED <<online, ips, accepted>>

\* The ip map of one user, unless the user is gone by now, ...
ReportUser(u) ==
    /\ report.pc = "range" /\ u \in report.todo
    /\ report' = IF online[u] = 0 THEN Ranging(report.todo \ {u})
                 ELSE [pc |-> "ips", todo |-> report.todo \ {u}, user |-> u, map |-> online[u], left |-> IPs]
    /\ UNCHANGED <<reports, old, online, ips, accepted>>

\* ... of which Range visits each address that is there when its turn comes: it is reported and
\* remembered.
ReportIp(i) ==
    /\ report.pc = "ips" /\ i \in report.left
    /\ report' = [report EXCEPT !.left = @ \ {i}]
    /\ old' = IF i \in ips[report.map] THEN [old EXCEPT ![i] = report.user] ELSE old
    /\ UNCHANGED <<reports, online, ips, accepted>>

\* UserOnlineIP.Delete(taguuid), whatever map is there by now.
ReportDelete ==
    /\ report.pc = "ips" /\ report.left = {}
    /\ report' = Ranging(report.todo)
    /\ online' = [online EXCEPT ![report.user] = 0]
    /\ ips' = Collected(ips, online', conn, report')
    /\ accepted' = [accepted EXCEPT ![report.user] = {}]
    /\ UNCHANGED <<reports, old>>

ReportEnds ==
    /\ report.pc = "range" /\ report.todo = {}
    /\ report' = NoReport
    /\ UNCHANGED <<reports, old, online, ips, accepted>>

GetOnlineDevice ==
    /\ ReportBegins \/ (\E u \in Uuids : ReportUser(u)) \/ (\E i \in IPs : ReportIp(i))
       \/ ReportDelete \/ ReportEnds
    /\ UNCHANGED <<info, alive, bucket, conn, update, updates, listed>>

-----------------------------------------------------------------------------
(* What the controller does to the limiter. *)

\* UpdateUser begins: the controller's list loses del and gains add.  A user
\* whose speed limit changed is deleted and added.
UpdateBegins(del, add, s, d) ==
    /\ update.pc = "free" /\ MayBegin
    /\ updates < use.updates
    /\ Cardinality(del \cup add) \in 1..use.changed
    /\ del \subseteq listed /\ add \cap listed \subseteq del
    /\ updates' = updates + 1
    /\ update' = [pc |-> "loop", del |-> del, add |-> add, user |-> None,
                  info |-> NewInfo(s, d)]
    /\ listed' = (listed \ del) \cup add
    /\ UNCHANGED <<limiterVars, accepted>>

\* One user of the first loop: UserLimitInfo.Delete, ...
UpdateForget(u) ==
    /\ update.pc = "loop" /\ u \in update.del
    /\ info' = [info EXCEPT ![u] = None]
    /\ update' = [update EXCEPT !.pc = "online", !.del = @ \ {u}, !.user = u]
    /\ UNCHANGED <<alive, online, ips, old, bucket, updates, listed, accepted>>

\* ... UserOnlineIP.Delete, ...
UpdateOnline ==
    /\ update.pc = "online"
    /\ online' = [online EXCEPT ![update.user] = 0]
    /\ ips' = Collected(ips, online', conn, report)
    /\ accepted' = [accepted EXCEPT ![update.user] = {}]
    /\ update' = [update EXCEPT !.pc = "bucket"]
    /\ UNCHANGED <<info, alive, old, bucket, updates, listed>>

\* Mutant: the bucket of a deleted user is kept.
UpdateKeepsBucket ==
    /\ update.pc = "bucket"
    /\ update' = [update EXCEPT !.pc = "alive"]
    /\ UNCHANGED <<limiterVars, updates, listed, accepted>>

\* ... SpeedLimiter.Delete ...
UpdateBucket ==
    /\ update.pc = "bucket"
    /\ bucket' = [bucket EXCEPT ![update.user] = 0]
    /\ update' = [update EXCEPT !.pc = "alive"]
    /\ UNCHANGED <<info, alive, online, ips, old, updates, listed, accepted>>

\* ... and delete(l.AliveList, id).
UpdateAlive ==
    /\ update.pc = "alive"
    /\ alive' = [alive EXCEPT ![update.user] = 0]
    /\ update' = [update EXCEPT !.pc = "loop"]
    /\ UNCHANGED <<info, online, ips, old, bucket, updates, listed, accepted>>

\* Mutant: a user without a speed limit is not stored.
UpdateAddsLimited(u) ==
    /\ update.pc = "loop" /\ update.del = {} /\ u \in update.add
    /\ info' = IF update.info.speed # 0
               THEN [info EXCEPT ![u] = update.info] ELSE info
    /\ update' = [update EXCEPT !.add = @ \ {u}]
    /\ UNCHANGED <<alive, online, ips, old, bucket, updates, listed, accepted>>

\* One user of the second loop, after the first.
UpdateAdds(u) ==
    /\ update.pc = "loop" /\ update.del = {} /\ u \in update.add
    /\ info' = [info EXCEPT ![u] = update.info]
    /\ update' = [update EXCEPT !.add = @ \ {u}]
    /\ UNCHANGED <<alive, online, ips, old, bucket, updates, listed, accepted>>

UpdateEnds ==
    /\ update.pc = "loop" /\ update.del = {} /\ update.add = {}
    /\ update' = NoUpdate
    /\ UNCHANGED <<limiterVars, updates, listed, accepted>>

UpdateUser ==
    /\ \/ \E del, add \in SUBSET Uuids, s \in use.speeds, d \in use.devices :
            UpdateBegins(del, add, s, d)
       \/ \E u \in Uuids : UpdateForget(u) \/ UpdateAdds(u)
       \/ UpdateOnline \/ UpdateBucket \/ UpdateAlive \/ UpdateEnds
    /\ UNCHANGED <<conn, report, reports>>

\* The monitor replaces AliveList.
SetAlive ==
    /\ MayBegin
    /\ updates < use.updates
    /\ updates' = updates + 1
    /\ alive' \in [Uuids -> 0..MaxAlive]
    /\ UNCHANGED <<info, online, ips, old, bucket, conn, report, update, reports,
                   listed, accepted>>

UpdateDynamicSpeedLimit(u, limit) ==
    /\ use.dynamic /\ MayBegin
    /\ updates < use.updates
    /\ updates' = updates + 1
    /\ info[u] # None
    /\ info' = [info EXCEPT ![u].dynamic = limit, ![u].expire = "later"]
    /\ UNCHANGED <<alive, online, ips, old, bucket, conn, report, update, reports,
                   listed, accepted>>

\* ExpireTime < time.Now() becomes true.
TimePasses(u) ==
    /\ info[u] # None /\ info[u].expire = "later"
    /\ info' = [info EXCEPT ![u].expire = "past"]
    /\ UNCHANGED <<alive, online, ips, old, bucket, conn, report, update, reports,
                   updates, listed, accepted>>

Next ==
    /\ UNCHANGED use
    /\ \/ \E c \in Conns : CheckLimit(c)
       \/ GetOnlineDevice
       \/ UpdateUser
       \/ SetAlive
       \/ \E u \in Uuids, limit \in Speeds \ {0} : UpdateDynamicSpeedLimit(u, limit)
       \/ \E u \in Uuids : TimePasses(u)

Spec == Init /\ [][Next]_vars

-----------------------------------------------------------------------------

UpdateTypeOK ==
    update \in [pc : {"free", "loop", "online", "bucket", "alive"},
                del : SUBSET Uuids, add : SUBSET Uuids,
                user : Uuids \cup {None}, info : UserLimitInfo \cup {None}]

TypeOK ==
    /\ info \in [Uuids -> UserLimitInfo \cup {None}]
    /\ alive \in [Uuids -> 0..MaxAlive]
    /\ online \in [Uuids -> {0} \cup MapIds]
    /\ ips \in [MapIds -> SUBSET IPs]
    /\ old \in [IPs -> Uuids \cup {None}]
    /\ bucket \in [Uuids -> Nat]
    /\ \A c \in Conns : conn[c].map \in {0} \cup MapIds
    /\ listed \subseteq Uuids
    /\ UpdateTypeOK

Online(u) == IF online[u] = 0 THEN {} ELSE ips[online[u]]

\* Without overlapping calls, the devices that the next report will name are exactly the
\* addresses from which connections were let through since the last one: no
\* rejected address is left behind and none is lost, over any sequence of
\* checks, reports, user changes and alive lists.
OnlineIsAccepted ==
    use.serial /\ Busy = {} => \A u \in Uuids : Online(u) = accepted[u]

\* Overlapping calls included, an address is never counted as a device of a
\* user that does not connect from it, neither in this period nor in the last.
DevicesAreTheUsersOwn ==
    \A u \in Uuids :
        /\ Online(u) \subseteq Addresses[u]
        /\ \A i \in IPs : old[i] = u => i \in Addresses[u]

\* Without overlapping calls and dynamic limits, a user's bucket has the rate of the
\* limits in force: a change of the speed limit does not leave the old bucket.
BucketMatchesLimit ==
    use.serial /\ Busy = {} /\ ~use.dynamic =>
        \A u \in Uuids : info[u] # None =>
            bucket[u] \in {0, determineSpeedLimit(NodeLimit, info[u].speed)}

\* Without dynamic limits, and with any overlap, a user of the user list is
\* known to the limiter, so that no check rejects it as unknown, except while
\* a running UpdateUser has yet to store it.
ListedIsKnown ==
    ~use.dynamic => \A u \in listed : info[u] = None => u \in update.add
=============================================================================
