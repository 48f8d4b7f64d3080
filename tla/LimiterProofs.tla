--------------------------- MODULE LimiterProofs ---------------------------
(***************************************************************************)
(* Facts about the limiter that hold for every value of its constants.     *)
(***************************************************************************)
EXTENDS Limiter, FiniteSetTheorems, TLAPS

\* determineSpeedLimit returns, as its comment says, the minimum non-zero rate:
\* one of its arguments, none only if neither is a limit, and never more than
\* an argument that is one.
THEOREM SpeedLimitIsMinimumNonZero ==
    ASSUME NEW l1 \in Nat, NEW l2 \in Nat
    PROVE  /\ determineSpeedLimit(l1, l2) \in {l1, l2}
           /\ determineSpeedLimit(l1, l2) = 0 <=> (l1 = 0 /\ l2 = 0)
           /\ l1 # 0 => determineSpeedLimit(l1, l2) <= l1
           /\ l2 # 0 => determineSpeedLimit(l1, l2) <= l2
BY DEF determineSpeedLimit

-----------------------------------------------------------------------------
(***************************************************************************)
(* ListedIsKnown is not inductive: UpdateUser must begin with nothing left *)
(* of the last call, may delete a listed user only if it will store it     *)
(* again, and must store records; and CheckLimit must find no expired      *)
(* limit, as nothing sets one.                                             *)
(***************************************************************************)

InfoType ==
    /\ info \in [Uuids -> UserLimitInfo \cup {None}]
    /\ listed \subseteq Uuids
    /\ use \in Uses

\* Without dynamic limits no record has an expire time.
NeverExpires ==
    ~use.dynamic => \A u \in Uuids : info[u] # None => info[u].expire = "never"

\* Between calls UpdateUser has nothing left to do, and in one it has a record.
UpdateOrder ==
    /\ update.pc = "free" => update.del = {} /\ update.add = {}
    /\ update.pc # "free" => /\ update.info \in UserLimitInfo
                             /\ update.info.expire = "never"

\* A listed user that is yet to be deleted will be stored again.
DeletedComesBack == update.del \cap listed \subseteq update.add

KnownInv ==
    InfoType /\ UpdateTypeOK /\ NeverExpires /\ UpdateOrder /\ DeletedComesBack
    /\ ListedIsKnown

knownVars == <<use, info, update, listed>>

\* What a panel user is stored as.
LEMMA NewInfoType ==
    ASSUME NEW s \in Speeds, NEW d \in Devices
    PROVE  NewInfo(s, d) \in UserLimitInfo /\ NewInfo(s, d).expire = "never"
BY LimiterAssumption DEF NewInfo, UserLimitInfo

LEMMA KnownInit == Init => KnownInv
<1> SUFFICES ASSUME Init PROVE KnownInv
  OBVIOUS
<1>1. PICK s \in [Uuids -> use.speeds], d \in [Uuids -> use.devices] :
        info = [u \in Uuids |-> NewInfo(s[u], d[u])]
  BY DEF Init
<1>0. s \in [Uuids -> Speeds] /\ d \in [Uuids -> Devices]
  BY <1>1, LimiterAssumption DEF Init, Use
<1>2. \A u \in Uuids : info[u] \in UserLimitInfo /\ info[u].expire = "never"
  BY <1>0, <1>1, NewInfoType
<1>3. InfoType
  BY <1>1, <1>2 DEF InfoType, Init
<1>4. UpdateTypeOK /\ UpdateOrder /\ DeletedComesBack
  BY DEF Init, NoUpdate, UpdateTypeOK, UpdateOrder, DeletedComesBack
<1>5. NeverExpires /\ ListedIsKnown
  BY <1>2, LimiterAssumption DEF NeverExpires, ListedIsKnown, Init
<1> QED  BY <1>3, <1>4, <1>5 DEF KnownInv

LEMMA KnownUnchanged == KnownInv /\ UNCHANGED knownVars => KnownInv'
BY DEF KnownInv, InfoType, UpdateTypeOK, NeverExpires, UpdateOrder,
       DeletedComesBack, ListedIsKnown, knownVars

\* CheckLimit changes a record only when it has expired.
LEMMA KnownCheck ==
    ASSUME KnownInv, NEW c \in Conns, CheckLimit(c), UNCHANGED use
    PROVE  KnownInv'
<1>1. ASSUME NEW u \in Uuids, NEW ip, NEW track, CheckLoad(c, u, ip, track)
      PROVE  KnownInv'
  <2>0. UNCHANGED <<use, update, listed>>
    BY DEF CheckLimit
  <2>1. CASE use.dynamic
    <3>1. InfoType'
      BY <1>1, <2>0, LimiterAssumption DEF CheckLoad, KnownInv, InfoType, UserLimitInfo
    <3> QED  BY <2>0, <2>1, <3>1 DEF KnownInv, UpdateTypeOK, NeverExpires, UpdateOrder,
                            DeletedComesBack, ListedIsKnown
  <2>2. CASE ~use.dynamic
    <3>1. info[u] # None => info[u].expire = "never"
      BY <2>2 DEF KnownInv, NeverExpires
    <3>2. info' = info
      BY <1>1, <3>1 DEF CheckLoad
    <3> QED  BY <2>0, <3>2, KnownUnchanged DEF knownVars
  <2> QED  BY <2>1, <2>2
<1>2. CASE \/ CheckAlive(c) \/ CheckOnline(c) \/ CheckIp(c) \/ CheckOld(c)
           \/ CheckForget(c) \/ CheckReject(c) \/ CheckBucket(c) \/ CheckStore(c)
  <2>1. UNCHANGED knownVars
    BY <1>2 DEF CheckLimit, CheckAlive, CheckOnline, CheckIp, CheckOld, CheckForget,
         CheckReject, CheckBucket, CheckStore, limiterVars, knownVars
  <2> QED  BY <2>1, KnownUnchanged
<1> QED  BY <1>1, <1>2 DEF CheckLimit, CheckStep

LEMMA KnownUpdate == KnownInv /\ UpdateUser /\ UNCHANGED use => KnownInv'
<1> SUFFICES ASSUME KnownInv, UpdateUser, UNCHANGED use PROVE KnownInv'
  OBVIOUS
<1>1. ASSUME NEW del \in SUBSET Uuids, NEW add \in SUBSET Uuids,
             NEW s \in use.speeds, NEW d \in use.devices, UpdateBegins(del, add, s, d)
      PROVE  KnownInv'
  <2>0. s \in Speeds /\ d \in Devices
    BY LimiterAssumption DEF KnownInv, InfoType, Use
  <2>1. info' = info
    BY <1>1 DEF UpdateBegins, limiterVars
  <2>2. InfoType' /\ UpdateTypeOK'
    BY <1>1, <2>0, <2>1, NewInfoType DEF UpdateBegins, KnownInv, InfoType, UpdateTypeOK
  <2>3. UpdateOrder' /\ DeletedComesBack'
    BY <1>1, <2>0, NewInfoType DEF UpdateBegins, UpdateOrder, DeletedComesBack
  <2>4. NeverExpires' /\ ListedIsKnown'
    BY <1>1, <2>1 DEF UpdateBegins, KnownInv, NeverExpires, ListedIsKnown, UpdateOrder
  <2> QED  BY <2>2, <2>3, <2>4 DEF KnownInv
<1>2. ASSUME NEW u \in Uuids, UpdateForget(u) PROVE KnownInv'
  <2>1. InfoType' /\ UpdateTypeOK'
    BY <1>2 DEF UpdateForget, KnownInv, InfoType, UpdateTypeOK
  <2>2. UpdateOrder' /\ DeletedComesBack'
    BY <1>2 DEF UpdateForget, KnownInv, UpdateOrder, DeletedComesBack, UpdateTypeOK
  <2>3. NeverExpires' /\ ListedIsKnown'
    BY <1>2 DEF UpdateForget, KnownInv, NeverExpires, ListedIsKnown, UpdateTypeOK,
                InfoType, DeletedComesBack
  <2> QED  BY <2>1, <2>2, <2>3 DEF KnownInv
<1>3. ASSUME NEW u \in Uuids, UpdateAdds(u) PROVE KnownInv'
  <2>0. update.info \in UserLimitInfo /\ update.info.expire = "never" /\ update.info # None
    BY <1>3, LimiterAssumption DEF UpdateAdds, KnownInv, UpdateOrder
  <2>1. InfoType' /\ UpdateTypeOK'
    BY <1>3, <2>0 DEF UpdateAdds, KnownInv, InfoType, UpdateTypeOK
  <2>2. UpdateOrder' /\ DeletedComesBack'
    BY <1>3 DEF UpdateAdds, KnownInv, UpdateOrder, DeletedComesBack, UpdateTypeOK
  <2>3. NeverExpires' /\ ListedIsKnown'
    BY <1>3, <2>0 DEF UpdateAdds, KnownInv, NeverExpires, ListedIsKnown, UpdateTypeOK,
                      InfoType
  <2> QED  BY <2>1, <2>2, <2>3 DEF KnownInv
<1>4. CASE UpdateOnline \/ UpdateBucket \/ UpdateAlive
  <2>1. UNCHANGED <<info, listed>>
    BY <1>4 DEF UpdateOnline, UpdateBucket, UpdateAlive
  <2>2. PICK p \in {"loop", "bucket", "alive"} : update' = [update EXCEPT !.pc = p]
    BY <1>4 DEF UpdateOnline, UpdateBucket, UpdateAlive
  <2>3. update.pc # "free"
    BY <1>4 DEF UpdateOnline, UpdateBucket, UpdateAlive
  <2> QED  BY <2>1, <2>2, <2>3 DEF KnownInv, InfoType, UpdateTypeOK, NeverExpires,
              UpdateOrder, DeletedComesBack, ListedIsKnown
<1>5. CASE UpdateEnds
  <2>1. UNCHANGED <<info, listed>> /\ update' = NoUpdate /\ update.add = {}
    BY <1>5 DEF UpdateEnds, limiterVars
  <2> QED  BY <2>1 DEF KnownInv, InfoType, UpdateTypeOK, NeverExpires, NoUpdate,
              UpdateOrder, DeletedComesBack, ListedIsKnown
<1> QED  BY <1>1, <1>2, <1>3, <1>4, <1>5 DEF UpdateUser

LEMMA KnownStep == KnownInv /\ [Next]_vars => KnownInv'
<1> SUFFICES ASSUME KnownInv, [Next]_vars PROVE KnownInv'
  OBVIOUS
<1>0. UNCHANGED use
  BY DEF Next, vars
<1>1. ASSUME NEW c \in Conns, CheckLimit(c) PROVE KnownInv'
  BY <1>0, <1>1, KnownCheck
<1>2. CASE GetOnlineDevice \/ SetAlive
  BY <1>0, <1>2, KnownUnchanged DEF GetOnlineDevice, SetAlive, knownVars
<1>3. CASE UpdateUser
  BY <1>0, <1>3, KnownUpdate
<1>4. ASSUME NEW u \in Uuids, NEW limit \in Speeds \ {0}, UpdateDynamicSpeedLimit(u, limit)
      PROVE  KnownInv'
  <2>1. InfoType'
    BY <1>0, <1>4 DEF UpdateDynamicSpeedLimit, KnownInv, InfoType, UserLimitInfo
  <2> QED  BY <1>0, <1>4, <2>1 DEF UpdateDynamicSpeedLimit, KnownInv, UpdateTypeOK,
              NeverExpires, UpdateOrder, DeletedComesBack, ListedIsKnown
<1>5. ASSUME NEW u \in Uuids, TimePasses(u) PROVE KnownInv'
  <2>1. use.dynamic
    BY <1>5, LimiterAssumption DEF TimePasses, KnownInv, NeverExpires
  <2>2. InfoType'
    BY <1>0, <1>5 DEF TimePasses, KnownInv, InfoType, UserLimitInfo
  <2> QED  BY <1>0, <1>5, <2>1, <2>2 DEF TimePasses, KnownInv, UpdateTypeOK,
              NeverExpires, UpdateOrder, DeletedComesBack, ListedIsKnown
<1>6. CASE UNCHANGED vars
  BY <1>6, KnownUnchanged DEF vars, limiterVars, knownVars
<1> QED  BY <1>1, <1>2, <1>3, <1>4, <1>5, <1>6 DEF Next

\* Without dynamic limits, whatever calls overlap, no check can reject a user
\* of the user list as unknown, except while UpdateUser has yet to store it.
THEOREM LimiterListedIsKnown == Spec => []ListedIsKnown
<1>1. KnownInv => ListedIsKnown
  BY DEF KnownInv
<1> QED  BY <1>1, KnownInit, KnownStep, PTL DEF Spec
-----------------------------------------------------------------------------
(***************************************************************************)
(* Types.  The one that is not local to an action is that of a new ip map: *)
(* there is always a number left for it.                                   *)
(***************************************************************************)

Check == [pc : {"free", "alive", "online", "ip", "new", "first", "forget", "dropIp",
                "dropUser", "bucket", "store"},
          user : Uuids \cup {None}, ip : IPs \cup {None}, track : BOOLEAN,
          device : Devices \cup {0}, alive : 0..MaxAlive, limit : Speeds,
          map : {0} \cup MapIds]

ConnType == conn \in [Conns -> Check]

ReportType ==
    /\ report \in [pc : {"free", "range", "ips"}, todo : SUBSET Uuids, user : Uuids \cup {None},
                   map : {0} \cup MapIds, left : SUBSET IPs]
    /\ report.pc = "ips" => report.user \in Uuids /\ report.map # 0

\* What InfoType and UpdateTypeOK leave of the types.
MapsType ==
    /\ alive \in [Uuids -> 0..MaxAlive]
    /\ online \in [Uuids -> {0} \cup MapIds]
    /\ ips \in [MapIds -> SUBSET IPs]
    /\ old \in [IPs -> Uuids \cup {None}]
    /\ bucket \in [Uuids -> Nat]
    /\ ConnType /\ ReportType

\* A check knows its user, and while it counts devices also a real address of
\* that user; it holds an ip map from the moment it has loaded one until the
\* count is over.
Counting == {"alive", "online", "ip", "new", "first", "forget", "dropIp", "dropUser"}

CheckOrder ==
    \A c \in Conns :
        /\ conn[c].pc # "free" => conn[c].user \in Uuids
        /\ conn[c].pc \in Counting =>
              conn[c].track /\ conn[c].ip \in IPs /\ conn[c].ip \in Addresses[conn[c].user]
        /\ conn[c].pc \in {"ip", "new", "dropIp"} => conn[c].map # 0
        /\ conn[c].map # 0 => conn[c].pc \in {"ip", "new", "dropIp", "forget"}

\* The values of a function lie in a set that is no larger than its domain.
LEMMA ImageSize ==
    ASSUME NEW S, IsFiniteSet(S), NEW T, NEW f \in [S -> T]
    PROVE  \E R : /\ IsFiniteSet(R) /\ Cardinality(R) <= Cardinality(S)
                  /\ \A x \in S : f[x] \in R
<1>1. f \in Surjection(S, {f[x] : x \in S})
  BY DEF Surjection
<1> QED  BY <1>1, FS_Surjection

\* A user without an ip map finds a number that nothing refers to.
LEMMA FreeMapExists ==
    ASSUME MapsType, NEW u \in Uuids, online[u] = 0
    PROVE  /\ FreeMap \in MapIds
           /\ \A v \in Uuids : online[v] # FreeMap
           /\ \A c \in Conns : conn[c].map # FreeMap
           /\ report.map # FreeMap
<1>1. PICK A : /\ IsFiniteSet(A) /\ Cardinality(A) <= Cardinality(Uuids) - 1
               /\ \A v \in Uuids \ {u} : online[v] \in A
  <2> DEFINE f == [v \in Uuids \ {u} |-> online[v]]
  <2>1. IsFiniteSet(Uuids \ {u}) /\ Cardinality(Uuids \ {u}) = Cardinality(Uuids) - 1
    BY FS_RemoveElement, LimiterAssumption
  <2>2. f \in [Uuids \ {u} -> {0} \cup MapIds] /\ \A v \in Uuids \ {u} : f[v] = online[v]
    BY DEF MapsType
  <2> HIDE DEF f
  <2>3. f \in [Uuids \ {u} -> {0} \cup MapIds] /\ IsFiniteSet(Uuids \ {u})
    BY <2>1, <2>2
  <2>4. \E R : /\ IsFiniteSet(R) /\ Cardinality(R) <= Cardinality(Uuids \ {u})
               /\ \A x \in Uuids \ {u} : f[x] \in R
    BY <2>3, ImageSize, Zenon
  <2> QED  BY <2>1, <2>2, <2>4
<1>2. PICK D : /\ IsFiniteSet(D) /\ Cardinality(D) <= Cardinality(Conns)
               /\ \A c \in Conns : conn[c].map \in D
  <2> DEFINE f == [c \in Conns |-> conn[c].map]
  <2>1. IsFiniteSet(Conns)
    BY LimiterAssumption
  <2>2. f \in [Conns -> {0} \cup MapIds] /\ \A c \in Conns : f[c] = conn[c].map
    BY DEF MapsType, ConnType, Check
  <2> HIDE DEF f
  <2>3. f \in [Conns -> {0} \cup MapIds] /\ IsFiniteSet(Conns)
    BY <2>1, <2>2
  <2>4. \E R : /\ IsFiniteSet(R) /\ Cardinality(R) <= Cardinality(Conns)
               /\ \A x \in Conns : f[x] \in R
    BY <2>3, ImageSize, Zenon
  <2> QED  BY <2>1, <2>2, <2>4
<1> DEFINE B == D \cup {report.map}
<1>b. IsFiniteSet(B) /\ Cardinality(B) <= Cardinality(Conns) + 1
  <2>1. IsFiniteSet(B) /\ (Cardinality(B) = Cardinality(D) \/ Cardinality(B) = Cardinality(D) + 1)
    BY <1>2, FS_AddElement
  <2>2. Cardinality(D) \in Nat /\ Cardinality(Conns) \in Nat
    BY <1>2, LimiterAssumption, FS_CardinalityType
  <2> QED  BY <1>2, <2>1, <2>2
<1>c. report.map \in B /\ \A c \in Conns : conn[c].map \in B
  BY <1>2
<1> HIDE DEF B
<1>3. /\ Cardinality(Uuids) \in Nat /\ Cardinality(Conns) \in Nat
      /\ Cardinality(A) \in Nat /\ Cardinality(B) \in Nat
  BY <1>1, <1>b, LimiterAssumption, FS_CardinalityType
<1>4. IsFiniteSet(MapIds) /\ Cardinality(MapIds) = Cardinality(Uuids) + Cardinality(Conns) + 1
  <2>1. ASSUME NEW k \in Nat PROVE IsFiniteSet(1..k) /\ Cardinality(1..k) = k
    <3>1. 1 \in Int /\ k \in Int
      OBVIOUS
    <3>2. IsFiniteSet(1..k) /\ Cardinality(1..k) = IF 1 > k THEN 0 ELSE k - 1 + 1
      BY <3>1, FS_Interval
    <3> QED  BY <3>2
  <2>2. Cardinality(Uuids) + Cardinality(Conns) + 1 \in Nat
    BY <1>3
  <2> QED  BY <2>1, <2>2 DEF MapIds
<1>5. ~(MapIds \subseteq A \cup B)
  <2> SUFFICES ASSUME MapIds \subseteq A \cup B PROVE FALSE
    OBVIOUS
  <2>1. IsFiniteSet(A \cup B) /\ Cardinality(A \cup B) = Cardinality(A) + Cardinality(B) - Cardinality(A \cap B)
    BY <1>1, <1>b, FS_Union
  <2>2. Cardinality(A \cap B) \in Nat
    <3>1. A \cap B \in SUBSET A
      OBVIOUS
    <3>2. IsFiniteSet(A \cap B)
      BY <1>1, <3>1, FS_Subset
    <3> QED  BY <3>2, FS_CardinalityType
  <2>3. Cardinality(MapIds) <= Cardinality(A \cup B)
    BY <2>1, FS_Subset
  <2> QED  BY <1>1, <1>b, <1>3, <1>4, <2>1, <2>2, <2>3
<1>6. 0 \notin MapIds
  BY <1>3 DEF MapIds
<1>7. \E m \in MapIds : /\ \A v \in Uuids : online[v] # m
                        /\ \A c \in Conns : conn[c].map # m
                        /\ report.map # m
  BY <1>1, <1>c, <1>5, <1>6
<1> QED  BY <1>7 DEF FreeMap

LEMMA SpeedOfTwo ==
    ASSUME NEW l1 \in Speeds, NEW l2 \in Speeds PROVE determineSpeedLimit(l1, l2) \in Speeds
BY LimiterAssumption DEF determineSpeedLimit

LEMMA CollectedType ==
    ASSUME NEW maps \in [MapIds -> SUBSET IPs], NEW on, NEW cs, NEW r
    PROVE  /\ Collected(maps, on, cs, r) \in [MapIds -> SUBSET IPs]
           /\ \A m \in MapIds : Collected(maps, on, cs, r)[m] \subseteq maps[m]
BY DEF Collected

LEMMA TypesInit == Init => MapsType /\ CheckOrder
<1> SUFFICES ASSUME Init PROVE MapsType /\ CheckOrder
  OBVIOUS
<1>1. conn \in [Conns -> Check]
  BY LimiterAssumption DEF Init, NoCheck, Check
<1>2. report = NoReport /\ ReportType
  BY DEF Init, NoReport, ReportType
<1>3. MapsType
  BY <1>1, <1>2, LimiterAssumption DEF Init, MapsType, ConnType
<1>4. CheckOrder
  BY DEF Init, NoCheck, CheckOrder, Counting
<1> QED  BY <1>3, <1>4

\* The check of c may take any step, as long as it is left with a proper record.
LEMMA OrderOfOne ==
    ASSUME MapsType, CheckOrder, NEW c \in Conns, NEW k \in Check, conn' = [conn EXCEPT ![c] = k],
           k.pc # "free" => k.user \in Uuids,
           k.pc \in Counting => k.track /\ k.ip \in IPs /\ k.ip \in Addresses[k.user],
           k.pc \in {"ip", "new", "dropIp"} => k.map # 0,
           k.map # 0 => k.pc \in {"ip", "new", "dropIp", "forget"}
    PROVE  ConnType' /\ CheckOrder'
<1>1. ConnType'
  BY DEF MapsType, ConnType
<1>2. \A d \in Conns : conn'[d] = IF d = c THEN k ELSE conn[d]
  BY DEF MapsType, ConnType
<1> QED  BY <1>1, <1>2 DEF CheckOrder

\* A check that moves on keeps its locals.
LEMMA TypesMove ==
    ASSUME MapsType, CheckOrder, NEW c \in Conns, NEW p \in {"alive", "online", "ip", "new", "first", "forget", "dropIp", "dropUser", "bucket", "store"},
           Moves(c, p), conn[c].pc # "free", p \in Counting => conn[c].pc \in Counting,
           p \in {"ip", "new", "dropIp"} => conn[c].map # 0,
           conn[c].map # 0 => p \in {"ip", "new", "dropIp", "forget"}
    PROVE  ConnType' /\ CheckOrder'
<1> DEFINE k == [conn[c] EXCEPT !.pc = p]
<1>1. conn[c] \in Check
  BY DEF MapsType, ConnType
<1>2. /\ k \in Check /\ k.pc = p /\ k.user = conn[c].user /\ k.track = conn[c].track
      /\ k.ip = conn[c].ip /\ k.map = conn[c].map
  BY <1>1 DEF Check
<1>3. conn' = [conn EXCEPT ![c] = k]
  BY DEF Moves
<1> HIDE DEF k
<1> QED  BY <1>2, <1>3, OrderOfOne DEF CheckOrder

\* The locals of a check are dead when it ends, ...
LEMMA TypesEnds ==
    ASSUME MapsType, CheckOrder, NEW c \in Conns, Ends(c)
    PROVE  ConnType' /\ CheckOrder'
<1>1. NoCheck \in Check /\ NoCheck.pc = "free" /\ NoCheck.map = 0
  BY LimiterAssumption DEF NoCheck, Check
<1> QED  BY <1>1, OrderOfOne DEF Ends, Counting

\* ... and some of them when it has counted the devices.
LEMMA TypesPasses ==
    ASSUME MapsType, CheckOrder, NEW c \in Conns, Passes(c), conn[c].pc # "free"
    PROVE  ConnType' /\ CheckOrder' /\ ips' \in [MapIds -> SUBSET IPs]
<1> DEFINE k == [conn[c] EXCEPT !.pc = "bucket", !.device = 0, !.alive = 0, !.map = 0]
<1>1. conn[c] \in Check
  BY DEF MapsType, ConnType
<1>2. k \in Check /\ k.pc = "bucket" /\ k.user = conn[c].user /\ k.map = 0
  <2>1. 0 \in 0..MaxAlive
    BY LimiterAssumption
  <2> QED  BY <1>1, <2>1 DEF Check
<1>3. conn' = [conn EXCEPT ![c] = k]
  BY DEF Passes
<1> HIDE DEF k
<1>4. ConnType' /\ CheckOrder'
  BY <1>2, <1>3, OrderOfOne DEF CheckOrder, Counting
<1>5. ips' \in [MapIds -> SUBSET IPs]
  BY CollectedType DEF Passes, MapsType
<1> QED  BY <1>4, <1>5

\* Each step of CheckLimit keeps the types and the order.
LEMMA TypesCheck ==
    ASSUME KnownInv, MapsType, CheckOrder, NEW c \in Conns, CheckLimit(c)
    PROVE  MapsType' /\ CheckOrder'
<1>0. UNCHANGED report /\ conn[c] \in Check /\ ReportType'
  BY DEF CheckLimit, MapsType, ConnType, ReportType
<1>1. ASSUME NEW u \in Uuids, NEW track \in BOOLEAN, NEW ip \in Addresses[u],
             CheckLoad(c, u, ip, track)
      PROVE  MapsType' /\ CheckOrder'
  <2>1. ip \in IPs
    BY LimiterAssumption
  <2>2. CASE info[u] = None
    BY <1>0, <1>1, <2>2 DEF CheckLoad, MapsType, ConnType, CheckOrder
  <2>3. CASE info[u] # None
    <3> DEFINE limit == IF info[u].expire = "past" THEN info[u].speed
                        ELSE determineSpeedLimit(info[u].speed, info[u].dynamic)
               k == [pc |-> IF track THEN "alive" ELSE "bucket", user |-> u,
                     ip |-> IF track THEN ip ELSE None, track |-> track,
                     device |-> IF track THEN info[u].device ELSE 0,
                     alive |-> 0, limit |-> limit, map |-> 0]
    <3>1. info[u] \in UserLimitInfo
      BY <2>3 DEF KnownInv, InfoType
    <3>2. limit \in Speeds /\ info[u].device \in Devices
      BY <3>1, SpeedOfTwo DEF UserLimitInfo
    <3>3. conn' = [conn EXCEPT ![c] = k]
      BY <1>1, <2>3 DEF CheckLoad
    <3> HIDE DEF limit
    <3>4. k \in Check
      BY <2>1, <3>2, LimiterAssumption DEF Check
    <3>5. /\ k.user = u /\ k.map = 0 /\ k.pc \in {"alive", "bucket"}
          /\ k.pc = "alive" => k.track /\ k.ip = ip
      OBVIOUS
    <3> HIDE DEF k
    <3>6. ConnType' /\ CheckOrder'
      BY <2>1, <3>3, <3>4, <3>5, OrderOfOne DEF Counting
    <3> QED  BY <1>0, <1>1, <3>6 DEF CheckLoad, MapsType
  <2> QED  BY <2>2, <2>3
<1>2. CASE CheckAlive(c)
  <2> DEFINE k == [conn[c] EXCEPT !.pc = "online", !.alive = alive[conn[c].user]]
  <2>1. conn[c].pc = "alive" /\ conn' = [conn EXCEPT ![c] = k]
    BY <1>2 DEF CheckAlive
  <2>2. alive[conn[c].user] \in 0..MaxAlive
    BY <2>1 DEF CheckOrder, MapsType
  <2>3. /\ k \in Check /\ k.pc = "online" /\ k.user = conn[c].user /\ k.track = conn[c].track
        /\ k.ip = conn[c].ip /\ k.map = conn[c].map
    BY <1>0, <2>2 DEF Check
  <2> HIDE DEF k
  <2>4. ConnType' /\ CheckOrder'
    BY <2>1, <2>3, OrderOfOne DEF CheckOrder, Counting
  <2> QED  BY <1>0, <1>2, <2>4 DEF CheckAlive, limiterVars, MapsType
<1>3. CASE CheckOnline(c)
  <2>1. conn[c].pc = "online" /\ conn[c].user \in Uuids /\ conn[c].ip \in IPs /\ conn[c].map = 0
    BY <1>3 DEF CheckOnline, CheckOrder, Counting
  <2>2. CASE online[conn[c].user] # 0
    <3> DEFINE k == [conn[c] EXCEPT !.pc = "ip", !.map = online[conn[c].user]]
    <3>1. conn' = [conn EXCEPT ![c] = k] /\ UNCHANGED <<online, ips>>
      BY <1>3, <2>2 DEF CheckOnline
    <3>2. online[conn[c].user] \in {0} \cup MapIds
      BY <2>1 DEF MapsType
    <3>3. /\ k \in Check /\ k.pc = "ip" /\ k.user = conn[c].user /\ k.track = conn[c].track
          /\ k.ip = conn[c].ip /\ k.map # 0
      BY <1>0, <2>2, <3>2 DEF Check
    <3> HIDE DEF k
    <3>4. ConnType' /\ CheckOrder'
      BY <2>1, <3>1, <3>3, OrderOfOne DEF CheckOrder, Counting
    <3> QED  BY <1>0, <1>3, <3>1, <3>4 DEF CheckOnline, MapsType
  <2>3. CASE online[conn[c].user] = 0
    <3>1. FreeMap \in MapIds
      BY <2>1, <2>3, FreeMapExists
    <3>2. /\ online' = [online EXCEPT ![conn[c].user] = FreeMap]
          /\ ips' = [ips EXCEPT ![FreeMap] = {conn[c].ip}]
          /\ Moves(c, "first")
      BY <1>3, <2>3 DEF CheckOnline
    <3>3. online' \in [Uuids -> {0} \cup MapIds] /\ ips' \in [MapIds -> SUBSET IPs]
      BY <2>1, <3>1, <3>2 DEF MapsType
    <3>4. ConnType' /\ CheckOrder'
      BY <2>1, <3>2, TypesMove DEF Counting
    <3> QED  BY <1>0, <1>3, <3>3, <3>4 DEF CheckOnline, MapsType
  <2> QED  BY <2>2, <2>3
<1>4. CASE CheckIp(c)
  <2>1. conn[c].pc = "ip" /\ conn[c].ip \in IPs /\ conn[c].map # 0 /\ conn[c].map \in MapIds
    BY <1>0, <1>4 DEF CheckIp, CheckOrder, Counting, Check
  <2>2. CASE Passes(c)
    BY <1>0, <1>4, <2>1, <2>2, TypesPasses DEF CheckIp, MapsType
  <2>3. CASE Moves(c, "new") /\ ips' = [ips EXCEPT ![conn[c].map] = @ \cup {conn[c].ip}]
    <3>1. ConnType' /\ CheckOrder'
      BY <2>1, <2>3, TypesMove DEF Counting
    <3>2. ips' \in [MapIds -> SUBSET IPs]
      BY <2>1, <2>3 DEF MapsType
    <3> QED  BY <1>0, <1>4, <3>1, <3>2 DEF CheckIp, MapsType
  <2> QED  BY <1>4, <2>2, <2>3 DEF CheckIp
<1>5. CASE CheckOld(c)
  <2>1. conn[c].pc \in {"new", "first"}
    BY <1>5 DEF CheckOld
  <2>2. CASE Passes(c)
    BY <1>0, <1>5, <2>1, <2>2, TypesPasses DEF CheckOld, MapsType
  <2>3. CASE Moves(c, "forget") /\ UNCHANGED ips
    <3>1. ConnType' /\ CheckOrder'
      BY <2>1, <2>3, TypesMove DEF Counting
    <3> QED  BY <1>0, <1>5, <2>3, <3>1 DEF CheckOld, MapsType
  <2>4. CASE Moves(c, IF conn[c].pc = "new" THEN "dropIp" ELSE "dropUser") /\ UNCHANGED ips
    <3> DEFINE p == IF conn[c].pc = "new" THEN "dropIp" ELSE "dropUser"
    <3>1. /\ p \in {"dropIp", "dropUser"} /\ (p = "dropIp" => conn[c].map # 0)
          /\ conn[c].map # 0 => p = "dropIp"
      BY <2>1 DEF CheckOrder
    <3> HIDE DEF p
    <3>2. Moves(c, p)
      BY <2>4 DEF p
    <3>3. ConnType' /\ CheckOrder'
      BY <2>1, <3>1, <3>2, TypesMove DEF Counting
    <3> QED  BY <1>0, <1>5, <2>4, <3>3 DEF CheckOld, MapsType
  <2> QED  BY <1>5, <2>2, <2>3, <2>4 DEF CheckOld
<1>6. CASE CheckForget(c)
  <2>1. conn[c].pc # "free" /\ Passes(c)
    BY <1>6 DEF CheckForget
  <2> QED  BY <1>0, <1>6, <2>1, TypesPasses DEF CheckForget, MapsType
<1>7. CASE CheckReject(c)
  <2>1. Ends(c)
    BY <1>7 DEF CheckReject
  <2>2. online' \in [Uuids -> {0} \cup MapIds]
    BY <1>7 DEF CheckReject, MapsType
  <2>3. ips' \in [MapIds -> SUBSET IPs]
    <3>1. [ips EXCEPT ![conn[c].map] = @ \ {conn[c].ip}] \in [MapIds -> SUBSET IPs]
      BY DEF MapsType
    <3>2. ips \in [MapIds -> SUBSET IPs]
      BY DEF MapsType
    <3>3. \/ ips' = Collected([ips EXCEPT ![conn[c].map] = @ \ {conn[c].ip}], online, conn', report)
          \/ ips' = Collected(ips, online', conn', report)
      BY <1>7 DEF CheckReject
    <3>4. Collected([ips EXCEPT ![conn[c].map] = @ \ {conn[c].ip}], online, conn', report)
             \in [MapIds -> SUBSET IPs]
      BY <3>1, CollectedType
    <3>5. Collected(ips, online', conn', report) \in [MapIds -> SUBSET IPs]
      BY <3>2, CollectedType
    <3> QED  BY <3>3, <3>4, <3>5
  <2> QED  BY <1>0, <1>7, <2>1, <2>2, <2>3, TypesEnds DEF CheckReject, MapsType
<1>8. CASE CheckBucket(c) \/ CheckStore(c)
  <2>1. determineSpeedLimit(NodeLimit, conn[c].limit) \in Nat
    BY <1>0, SpeedOfTwo, LimiterAssumption DEF Check
  <2>2. bucket' \in [Uuids -> Nat]
    BY <1>8, <2>1 DEF CheckBucket, CheckStore, MapsType
  <2>3. ConnType' /\ CheckOrder'
    <3>1. CASE Ends(c)
      BY <3>1, TypesEnds
    <3>2. CASE Moves(c, "store") /\ conn[c].pc = "bucket"
      <4>1. conn[c].map = 0
        BY <3>2 DEF CheckOrder
      <4> QED  BY <3>2, <4>1, TypesMove DEF Counting
    <3> QED  BY <1>8, <3>1, <3>2 DEF CheckBucket, CheckStore
  <2> QED  BY <1>0, <1>8, <2>2, <2>3 DEF CheckBucket, CheckStore, MapsType
<1> QED  BY <1>1, <1>2, <1>3, <1>4, <1>5, <1>6, <1>7, <1>8 DEF CheckLimit, CheckStep

LEMMA TypesStep == KnownInv /\ MapsType /\ CheckOrder /\ [Next]_vars => MapsType' /\ CheckOrder'
<1> SUFFICES ASSUME KnownInv, MapsType, CheckOrder, [Next]_vars PROVE MapsType' /\ CheckOrder'
  OBVIOUS
<1>1. ASSUME NEW c \in Conns, CheckLimit(c) PROVE MapsType' /\ CheckOrder'
  BY <1>1, TypesCheck
<1>2. CASE GetOnlineDevice
  <2>0. UNCHANGED <<alive, bucket, conn>>
    BY <1>2 DEF GetOnlineDevice
  <2>1. ReportType'
    <3>1. CASE ReportBegins \/ ReportDelete \/ ReportEnds
      BY <3>1 DEF ReportBegins, ReportDelete, ReportEnds, Ranging, NoReport, MapsType, ReportType
    <3>2. ASSUME NEW u \in Uuids, ReportUser(u) PROVE ReportType'
      BY <3>2 DEF ReportUser, Ranging, MapsType, ReportType
    <3>3. ASSUME NEW i \in IPs, ReportIp(i) PROVE ReportType'
      BY <3>3 DEF ReportIp, MapsType, ReportType
    <3> QED  BY <1>2, <3>1, <3>2, <3>3 DEF GetOnlineDevice
  <2>2. old' \in [IPs -> Uuids \cup {None}]
    <3>1. CASE ReportBegins \/ ReportDelete \/ ReportEnds \/ \E u \in Uuids : ReportUser(u)
      BY <3>1 DEF ReportBegins, ReportUser, ReportDelete, ReportEnds, MapsType
    <3>2. ASSUME NEW i \in IPs, ReportIp(i) PROVE old' \in [IPs -> Uuids \cup {None}]
      BY <3>2 DEF ReportIp, MapsType, ReportType
    <3> QED  BY <1>2, <3>1, <3>2 DEF GetOnlineDevice
  <2>3. online' \in [Uuids -> {0} \cup MapIds] /\ ips' \in [MapIds -> SUBSET IPs]
    BY <1>2, CollectedType
    DEF GetOnlineDevice, ReportBegins, Ranging, ReportUser, ReportIp, ReportDelete, ReportEnds, MapsType
  <2> QED  BY <2>0, <2>1, <2>2, <2>3 DEF MapsType, ConnType, CheckOrder
<1>3. CASE UpdateUser
  <2>0. UNCHANGED <<conn, report, old>>
    BY <1>3 DEF UpdateUser, UpdateBegins, UpdateForget, UpdateAdds, UpdateOnline, UpdateBucket,
                UpdateAlive, UpdateEnds, limiterVars
  <2>1. \/ UNCHANGED <<alive, online, ips, bucket>>
        \/ UpdateOnline /\ UNCHANGED <<alive, bucket>>
        \/ UpdateBucket /\ UNCHANGED <<alive, online, ips>>
        \/ UpdateAlive /\ UNCHANGED <<bucket, online, ips>>
    BY <1>3 DEF UpdateUser, UpdateBegins, UpdateForget, UpdateAdds, UpdateOnline, UpdateBucket,
                UpdateAlive, UpdateEnds, limiterVars
  <2>2. ASSUME UpdateOnline
        PROVE  online' \in [Uuids -> {0} \cup MapIds] /\ ips' \in [MapIds -> SUBSET IPs]
    BY <2>2, CollectedType DEF UpdateOnline, MapsType
  <2>3. ASSUME UpdateBucket PROVE bucket' \in [Uuids -> Nat]
    BY <2>3 DEF UpdateBucket, MapsType
  <2>4. ASSUME UpdateAlive PROVE alive' \in [Uuids -> 0..MaxAlive]
    <3>1. 0 \in 0..MaxAlive
      BY LimiterAssumption
    <3> QED  BY <2>4, <3>1 DEF UpdateAlive, MapsType
  <2>5. /\ alive' \in [Uuids -> 0..MaxAlive] /\ online' \in [Uuids -> {0} \cup MapIds]
        /\ ips' \in [MapIds -> SUBSET IPs] /\ bucket' \in [Uuids -> Nat]
    BY <2>1, <2>2, <2>3, <2>4 DEF MapsType
  <2> QED  BY <2>0, <2>5 DEF MapsType, ConnType, ReportType, CheckOrder
<1>4. CASE SetAlive
  BY <1>4 DEF SetAlive, MapsType, ConnType, ReportType, CheckOrder
<1>5. ASSUME NEW u \in Uuids, NEW limit \in Speeds \ {0},
             UpdateDynamicSpeedLimit(u, limit)
      PROVE  MapsType' /\ CheckOrder'
  BY <1>5 DEF UpdateDynamicSpeedLimit, MapsType, ConnType, ReportType, CheckOrder
<1>6. ASSUME NEW u \in Uuids, TimePasses(u) PROVE MapsType' /\ CheckOrder'
  BY <1>6 DEF TimePasses, MapsType, ConnType, ReportType, CheckOrder
<1>7. CASE UNCHANGED vars
  BY <1>7 DEF vars, limiterVars, MapsType, ConnType, ReportType, CheckOrder
<1> QED  BY <1>1, <1>2, <1>3, <1>4, <1>5, <1>6, <1>7 DEF Next

\* The fields of the limiter and the locals of its callers keep their types; in
\* particular a new ip map always finds a number that nothing refers to.
THEOREM LimiterTypeOK == Spec => []TypeOK
<1>1. KnownInv /\ MapsType => TypeOK
  BY DEF KnownInv, InfoType, MapsType, ConnType, Check, TypeOK
<1> QED  BY <1>1, KnownInit, KnownStep, TypesInit, TypesStep, PTL DEF Spec

-----------------------------------------------------------------------------
(***************************************************************************)
(* Devices.  DevicesAreTheUsersOwn is not inductive: a check may hold an   *)
(* ip map after it was taken out of UserOnlineIP, and writes through it.   *)
(* OwnInv says that whoever has a map, as its entry of UserOnlineIP or in  *)
(* a local of CheckLimit or GetOnlineDevice, has it for the same user.     *)
(***************************************************************************)

\* User u has ip map m, or a check or the report has it for u.
Holds(u, m) ==
    \/ online[u] = m
    \/ \E c \in Conns : conn[c].map = m /\ conn[c].user = u
    \/ report.map = m /\ report.user = u

OneOwner == \A m \in MapIds : \A u, v \in Uuids : Holds(u, m) /\ Holds(v, m) => u = v

MapsAreOwn == \A m \in MapIds : \A u \in Uuids : Holds(u, m) => ips[m] \subseteq Addresses[u]

OldIsOwn == \A i \in IPs : old[i] # None => i \in Addresses[old[i]]

OwnInv == MapsType /\ CheckOrder /\ OneOwner /\ MapsAreOwn /\ OldIsOwn

LEMMA OwnInit == Init => OneOwner /\ MapsAreOwn /\ OldIsOwn
<1> SUFFICES ASSUME Init PROVE OneOwner /\ MapsAreOwn /\ OldIsOwn
  OBVIOUS
<1>1. MapIds \subseteq Nat /\ 0 \notin MapIds
  BY DEF MapIds
<1>2. \A m \in MapIds : \A u \in Uuids : ~Holds(u, m)
  BY <1>1 DEF Init, NoCheck, NoReport, Holds
<1>3. OneOwner /\ MapsAreOwn
  BY <1>2 DEF OneOwner, MapsAreOwn
<1>4. OldIsOwn
  BY DEF Init, OldIsOwn
<1> QED  BY <1>3, <1>4

\* A step that gives no map to anybody and adds no address keeps the owners.
LEMMA OwnShrinks ==
    ASSUME OneOwner, MapsAreOwn, \A m \in MapIds : ips'[m] \subseteq ips[m],
           \A u \in Uuids : \A m \in MapIds : Holds(u, m)' => Holds(u, m)
    PROVE  OneOwner' /\ MapsAreOwn'
<1>1. OneOwner'
  BY DEF OneOwner
<1>2. MapsAreOwn'
  BY DEF MapsAreOwn
<1> QED  BY <1>1, <1>2

\* Such is a step that only takes entries out of UserOnlineIP and maps from checks.
LEMMA OwnDrops ==
    ASSUME OneOwner, MapsAreOwn, \A m \in MapIds : ips'[m] \subseteq ips[m],
           \A u \in Uuids : online'[u] \in {0, online[u]},
           \A c \in Conns : \/ conn'[c].map = 0
                            \/ conn'[c].map = conn[c].map /\ conn'[c].user = conn[c].user,
           report'.map = 0 \/ (report'.map = report.map /\ report'.user = report.user)
    PROVE  OneOwner' /\ MapsAreOwn'
<1>1. 0 \notin MapIds
  BY DEF MapIds
<1>2. \A u \in Uuids : \A m \in MapIds : Holds(u, m)' => Holds(u, m)
  BY <1>1 DEF Holds
<1> QED  BY <1>2, OwnShrinks

\* A step of a check that keeps or gives up its map and touches no other one.
LEMMA OwnCheckDrops ==
    ASSUME OwnInv, NEW c \in Conns, NEW k, conn' = [conn EXCEPT ![c] = k], UNCHANGED report,
           k.map = 0 \/ (k.map = conn[c].map /\ k.user = conn[c].user),
           \A m \in MapIds : ips'[m] \subseteq ips[m],
           \A u \in Uuids : online'[u] \in {0, online[u]}
    PROVE  OneOwner' /\ MapsAreOwn'
<1>1. \A d \in Conns : conn'[d] = IF d = c THEN k ELSE conn[d]
  BY DEF OwnInv, MapsType, ConnType
<1>2. \A d \in Conns : \/ conn'[d].map = 0
                       \/ conn'[d].map = conn[d].map /\ conn'[d].user = conn[d].user
  BY <1>1
<1> QED  BY <1>2, OwnDrops DEF OwnInv

LEMMA OwnMoves ==
    ASSUME OwnInv, NEW c \in Conns, NEW p, Moves(c, p), UNCHANGED <<online, ips, report>>
    PROVE  OneOwner' /\ MapsAreOwn'
<1> DEFINE k == [conn[c] EXCEPT !.pc = p]
<1>1. conn[c] \in Check
  BY DEF OwnInv, MapsType, ConnType
<1>2. k.map = conn[c].map /\ k.user = conn[c].user /\ conn' = [conn EXCEPT ![c] = k]
  BY <1>1 DEF Moves, Check
<1> HIDE DEF k
<1>3. (\A m \in MapIds : ips'[m] \subseteq ips[m]) /\ \A u \in Uuids : online'[u] \in {0, online[u]}
  OBVIOUS
<1> QED  BY <1>2, <1>3, OwnCheckDrops

LEMMA OwnPasses ==
    ASSUME OwnInv, NEW c \in Conns, Passes(c), UNCHANGED <<online, report>>
    PROVE  OneOwner' /\ MapsAreOwn'
<1> DEFINE k == [conn[c] EXCEPT !.pc = "bucket", !.device = 0, !.alive = 0, !.map = 0]
<1>1. conn[c] \in Check
  BY DEF OwnInv, MapsType, ConnType
<1>2. k.map = 0 /\ conn' = [conn EXCEPT ![c] = k]
  BY <1>1 DEF Passes, Check
<1> HIDE DEF k
<1>3. \A m \in MapIds : ips'[m] \subseteq ips[m]
  BY CollectedType DEF Passes, OwnInv, MapsType
<1>4. \A u \in Uuids : online'[u] \in {0, online[u]}
  OBVIOUS
<1> QED  BY <1>2, <1>3, <1>4, OwnCheckDrops

\* Each step of CheckLimit.
LEMMA OwnCheck ==
    ASSUME KnownInv, OwnInv, NEW c \in Conns, CheckLimit(c)
    PROVE  OneOwner' /\ MapsAreOwn'
<1>0. conn[c] \in Check /\ MapsType /\ CheckOrder /\ UNCHANGED report
  BY DEF OwnInv, MapsType, ConnType, CheckLimit
<1>1. ASSUME NEW u \in Uuids, NEW track \in BOOLEAN, NEW ip \in Addresses[u],
             CheckLoad(c, u, ip, track)
      PROVE  OneOwner' /\ MapsAreOwn'
  <2>1. UNCHANGED <<online, ips>>
    BY <1>1 DEF CheckLoad
  <2>2. CASE UNCHANGED conn
    BY <1>0, <2>1, <2>2, OwnDrops DEF OwnInv
  <2>3. CASE info[u] # None
    <3> DEFINE k == [pc |-> IF track THEN "alive" ELSE "bucket", user |-> u,
                     ip |-> IF track THEN ip ELSE None, track |-> track,
                     device |-> IF track THEN info[u].device ELSE 0, alive |-> 0,
                     limit |-> IF info[u].expire = "past" THEN info[u].speed
                               ELSE determineSpeedLimit(info[u].speed, info[u].dynamic),
                     map |-> 0]
    <3>1. conn' = [conn EXCEPT ![c] = k] /\ k.map = 0
      BY <1>1, <2>3 DEF CheckLoad
    <3> HIDE DEF k
    <3> QED  BY <1>0, <2>1, <3>1, OwnCheckDrops
  <2> QED  BY <1>1, <2>2, <2>3 DEF CheckLoad
<1>2. CASE CheckAlive(c)
  <2> DEFINE k == [conn[c] EXCEPT !.pc = "online", !.alive = alive[conn[c].user]]
  <2>1. conn' = [conn EXCEPT ![c] = k] /\ UNCHANGED <<online, ips>>
    BY <1>2 DEF CheckAlive, limiterVars
  <2>2. k.map = conn[c].map /\ k.user = conn[c].user
    BY <1>0 DEF Check
  <2> HIDE DEF k
  <2> QED  BY <1>0, <2>1, <2>2, OwnCheckDrops
<1>3. CASE CheckOnline(c)
  <2> DEFINE u == conn[c].user
  <2>1. conn[c].pc = "online" /\ u \in Uuids /\ conn[c].ip \in Addresses[u]
    BY <1>0, <1>3 DEF CheckOnline, CheckOrder, Counting
  <2>2. CASE online[u] # 0
    <3>1. /\ conn' = [conn EXCEPT ![c] = [conn[c] EXCEPT !.pc = "ip", !.map = online[u]]]
          /\ UNCHANGED <<online, ips>>
      BY <1>3, <2>2 DEF CheckOnline
    <3>2. \A d \in Conns : /\ conn'[d].map = IF d = c THEN online[u] ELSE conn[d].map
                           /\ conn'[d].user = conn[d].user
      BY <1>0, <3>1 DEF MapsType, ConnType, Check
    <3>3. \A v \in Uuids : \A m \in MapIds : Holds(v, m)' => Holds(v, m)
      BY <1>0, <3>1, <3>2 DEF Holds
    <3> QED  BY <3>1, <3>3, OwnShrinks DEF OwnInv
  <2>3. CASE online[u] = 0
    <3>1. PICK n \in MapIds : /\ n = FreeMap /\ \A v \in Uuids : online[v] # n
                              /\ (\A d \in Conns : conn[d].map # n) /\ report.map # n
      BY <1>0, <2>1, <2>3, FreeMapExists
    <3>2. /\ online' = [online EXCEPT ![u] = n]
          /\ ips' = [ips EXCEPT ![n] = {conn[c].ip}]
          /\ Moves(c, "first")
      BY <1>3, <2>3, <3>1 DEF CheckOnline
    <3>3. \A d \in Conns : conn'[d].map = conn[d].map /\ conn'[d].user = conn[d].user
      BY <1>0, <3>2 DEF Moves, MapsType, ConnType, Check
    <3>a. PICK w \in Uuids : w = u
      BY <2>1
    <3>4. \A v \in Uuids : online'[v] = IF v = w THEN n ELSE online[v]
      BY <2>1, <3>2, <3>a DEF OwnInv, MapsType
    <3>5. \A m \in MapIds : ips'[m] = IF m = n THEN {conn[c].ip} ELSE ips[m]
      BY <3>2 DEF OwnInv, MapsType
    <3>6. \A v \in Uuids : Holds(v, n)' => v = w
      BY <1>0, <3>1, <3>3, <3>4 DEF Holds
    <3>7. \A v \in Uuids : \A m \in MapIds \ {n} : Holds(v, m)' => Holds(v, m)
      BY <1>0, <3>3, <3>4 DEF Holds
    <3>8. OneOwner'
      BY <3>6, <3>7 DEF OwnInv, OneOwner
    <3>9. MapsAreOwn'
      BY <2>1, <3>5, <3>6, <3>7, <3>a DEF OwnInv, MapsAreOwn
    <3> QED  BY <3>8, <3>9
  <2> QED  BY <2>2, <2>3
<1>4. CASE CheckIp(c)
  <2> DEFINE u == conn[c].user
             n == conn[c].map
  <2>1. conn[c].pc = "ip" /\ u \in Uuids /\ conn[c].ip \in Addresses[u] /\ n \in MapIds /\ UNCHANGED online
    BY <1>0, <1>4 DEF CheckIp, CheckOrder, Counting, Check
  <2>2. CASE Passes(c)
    BY <1>0, <2>1, <2>2, OwnPasses
  <2>3. CASE Moves(c, "new") /\ ips' = [ips EXCEPT ![n] = @ \cup {conn[c].ip}]
    <3>1. \A d \in Conns : conn'[d].map = conn[d].map /\ conn'[d].user = conn[d].user
      BY <1>0, <2>3 DEF Moves, MapsType, ConnType, Check
    <3>2. \A v \in Uuids : \A m \in MapIds : Holds(v, m)' <=> Holds(v, m)
      BY <1>0, <2>1, <3>1 DEF Holds
    <3>3. Holds(u, n)
      BY DEF Holds
    <3>4. \A m \in MapIds : ips'[m] = IF m = n THEN ips[m] \cup {conn[c].ip} ELSE ips[m]
      BY <2>3 DEF OwnInv, MapsType
    <3>5. OneOwner'
      BY <3>2 DEF OwnInv, OneOwner
    <3>6. ASSUME NEW m \in MapIds, NEW v \in Uuids, Holds(v, m)' PROVE ips'[m] \subseteq Addresses[v]
      <4>1. Holds(v, m) /\ ips[m] \subseteq Addresses[v]
        BY <3>2, <3>6 DEF OwnInv, MapsAreOwn
      <4>2. m = n => v = u
        BY <2>1, <3>3, <4>1 DEF OwnInv, OneOwner
      <4> QED  BY <2>1, <3>4, <4>1, <4>2
    <3>7. MapsAreOwn'
      BY <3>6 DEF MapsAreOwn
    <3> QED  BY <3>5, <3>7
  <2> QED  BY <1>4, <2>2, <2>3 DEF CheckIp
<1>5. CASE CheckOld(c)
  <2>1. UNCHANGED online
    BY <1>5 DEF CheckOld
  <2>2. CASE Passes(c)
    BY <1>0, <2>1, <2>2, OwnPasses
  <2>3. CASE Moves(c, "forget") /\ UNCHANGED ips
    BY <1>0, <2>1, <2>3, OwnMoves
  <2>4. CASE Moves(c, IF conn[c].pc = "new" THEN "dropIp" ELSE "dropUser") /\ UNCHANGED ips
    BY <1>0, <2>1, <2>4, OwnMoves
  <2> QED  BY <1>5, <2>2, <2>3, <2>4 DEF CheckOld
<1>6. CASE CheckForget(c)
  BY <1>0, <1>6, OwnPasses DEF CheckForget
<1>7. CASE CheckReject(c)
  <2>1. conn' = [conn EXCEPT ![c] = NoCheck] /\ NoCheck.map = 0
    BY <1>7 DEF CheckReject, Ends, NoCheck
  <2>2. \A u \in Uuids : online'[u] \in {0, online[u]}
    BY <1>7 DEF CheckReject, OwnInv, MapsType
  <2>3. \A m \in MapIds : ips'[m] \subseteq ips[m]
    <3> DEFINE less == [ips EXCEPT ![conn[c].map] = @ \ {conn[c].ip}]
    <3>1. less \in [MapIds -> SUBSET IPs] /\ (\A m \in MapIds : less[m] \subseteq ips[m])
      BY DEF OwnInv, MapsType
    <3>2. ips \in [MapIds -> SUBSET IPs]
      BY DEF OwnInv, MapsType
    <3>3. ips' = Collected(less, online, conn', report) \/ ips' = Collected(ips, online', conn', report)
      BY <1>7 DEF CheckReject
    <3> HIDE DEF less
    <3>4. \A m \in MapIds : Collected(less, online, conn', report)[m] \subseteq less[m]
      BY <3>1, CollectedType
    <3>5. \A m \in MapIds : Collected(ips, online', conn', report)[m] \subseteq ips[m]
      BY <3>2, CollectedType
    <3> QED  BY <3>1, <3>3, <3>4, <3>5
  <2> QED  BY <1>0, <2>1, <2>2, <2>3, OwnCheckDrops
<1>8. CASE CheckBucket(c) \/ CheckStore(c)
  <2>1. UNCHANGED <<online, ips>> /\ (Ends(c) \/ Moves(c, "store"))
    BY <1>8 DEF CheckBucket, CheckStore
  <2>2. CASE Ends(c)
    BY <1>0, <2>1, <2>2, OwnCheckDrops DEF Ends, NoCheck
  <2> QED  BY <1>0, <2>1, <2>2, OwnMoves
<1> QED  BY <1>1, <1>2, <1>3, <1>4, <1>5, <1>6, <1>7, <1>8 DEF CheckLimit, CheckStep

\* The report and UpdateUser only take entries out of UserOnlineIP.
LEMMA OwnOthers ==
    ASSUME OwnInv, UNCHANGED conn,
           report'.map = 0 \/ (report'.map = report.map /\ report'.user = report.user),
           \/ UNCHANGED <<online, ips>>
           \/ \E u, r : online' = [online EXCEPT ![u] = 0] /\ ips' = Collected(ips, online', conn, r)
    PROVE  OneOwner' /\ MapsAreOwn'
<1>1. ips \in [MapIds -> SUBSET IPs] /\ online \in [Uuids -> {0} \cup MapIds]
  BY DEF OwnInv, MapsType
<1>2. \A r : \A m \in MapIds : Collected(ips, online', conn, r)[m] \subseteq ips[m]
  BY <1>1, CollectedType
<1>3. \A m \in MapIds : ips'[m] \subseteq ips[m]
  BY <1>2
<1>4. \A u \in Uuids : online'[u] \in {0, online[u]}
  BY <1>1
<1> QED  BY <1>3, <1>4, OwnDrops DEF OwnInv

\* What is remembered of the last period was in an ip map of the user.
LEMMA OldStep ==
    ASSUME OwnInv, [Next]_vars
    PROVE  OldIsOwn'
<1>0. old \in [IPs -> Uuids \cup {None}] /\ OldIsOwn
  BY DEF OwnInv, MapsType
<1>1. ASSUME NEW i \in IPs, ReportIp(i) PROVE OldIsOwn'
  <2>1. /\ report.map \in MapIds /\ report.user \in Uuids
        /\ ips[report.map] \subseteq Addresses[report.user]
    BY <1>1 DEF ReportIp, ReportType, OwnInv, MapsType, MapsAreOwn, Holds
  <2>2. old' = IF i \in ips[report.map] THEN [old EXCEPT ![i] = report.user] ELSE old
    BY <1>1 DEF ReportIp
  <2> QED  BY <1>0, <2>1, <2>2 DEF OldIsOwn
<1>2. CASE ReportBegins
  BY <1>2 DEF ReportBegins, OldIsOwn
<1>3. ASSUME NEW c \in Conns, CheckForget(c) PROVE OldIsOwn'
  BY <1>0, <1>3 DEF CheckForget, OldIsOwn
<1>4. CASE UNCHANGED old
  BY <1>0, <1>4 DEF OldIsOwn
<1>5. ASSUME NEW c \in Conns, CheckLimit(c) PROVE CheckForget(c) \/ UNCHANGED old
  BY <1>5 DEF CheckLimit, CheckStep, CheckLoad, CheckAlive, CheckOnline, CheckIp, CheckOld,
              CheckReject, CheckBucket, CheckStore, limiterVars
<1>6. ASSUME UpdateUser PROVE UNCHANGED old
  BY <1>6 DEF UpdateUser, UpdateBegins, UpdateForget, UpdateAdds, UpdateOnline, UpdateBucket,
              UpdateAlive, UpdateEnds, limiterVars
<1>7. ASSUME (\E u \in Uuids : ReportUser(u)) \/ ReportDelete \/ ReportEnds PROVE UNCHANGED old
  BY <1>7 DEF ReportUser, ReportDelete, ReportEnds
<1>8. ASSUME NEW u \in Uuids, NEW limit, UpdateDynamicSpeedLimit(u, limit) \/ TimePasses(u) \/ SetAlive
      PROVE  UNCHANGED old
  BY <1>8 DEF UpdateDynamicSpeedLimit, TimePasses, SetAlive
<1>9. ASSUME SetAlive \/ UNCHANGED vars PROVE UNCHANGED old
  BY <1>9 DEF SetAlive, vars, limiterVars
<1> QED
  BY <1>1, <1>2, <1>3, <1>4, <1>5, <1>6, <1>7, <1>8, <1>9 DEF Next, GetOnlineDevice

LEMMA OwnStep == KnownInv /\ OwnInv /\ [Next]_vars => OwnInv'
<1> SUFFICES ASSUME KnownInv, OwnInv, [Next]_vars PROVE OwnInv'
  OBVIOUS
<1>1. MapsType' /\ CheckOrder'
  BY TypesStep DEF OwnInv
<1>2. OldIsOwn'
  BY OldStep
<1>3. OneOwner' /\ MapsAreOwn'
  <2>1. ASSUME NEW c \in Conns, CheckLimit(c) PROVE OneOwner' /\ MapsAreOwn'
    BY <2>1, OwnCheck
  <2>2. CASE GetOnlineDevice
    <3>1. UNCHANGED conn
      BY <2>2 DEF GetOnlineDevice
    <3>2. CASE ReportBegins \/ ReportDelete \/ ReportEnds \/ \E i \in IPs : ReportIp(i)
      BY <3>1, <3>2, OwnOthers
      DEF ReportBegins, ReportIp, ReportDelete, ReportEnds, Ranging, NoReport, OwnInv, MapsType, ReportType
    <3>3. ASSUME NEW u \in Uuids, ReportUser(u) PROVE OneOwner' /\ MapsAreOwn'
      <4>1. UNCHANGED <<online, ips>>
        BY <3>3 DEF ReportUser
      <4>2. report'.map = 0 \/ (report'.map = online[u] /\ report'.user = u)
        BY <3>3 DEF ReportUser, Ranging
      <4>z. 0 \notin MapIds
        BY DEF MapIds
      <4>3. \A v \in Uuids : \A m \in MapIds : Holds(v, m)' => Holds(v, m)
        BY <3>1, <4>1, <4>2, <4>z DEF Holds
      <4> QED  BY <4>1, <4>3, OwnShrinks DEF OwnInv
    <3> QED  BY <2>2, <3>2, <3>3 DEF GetOnlineDevice
  <2>3. CASE UpdateUser
    BY <2>3, OwnOthers DEF UpdateUser, UpdateBegins, UpdateForget, UpdateAdds, UpdateOnline,
                           UpdateBucket, UpdateAlive, UpdateEnds, limiterVars
  <2>4. CASE SetAlive
    BY <2>4, OwnOthers DEF SetAlive
  <2>5. ASSUME NEW u \in Uuids, NEW limit \in Speeds \ {0}, UpdateDynamicSpeedLimit(u, limit)
        PROVE  OneOwner' /\ MapsAreOwn'
    BY <2>5, OwnOthers DEF UpdateDynamicSpeedLimit
  <2>6. ASSUME NEW u \in Uuids, TimePasses(u) PROVE OneOwner' /\ MapsAreOwn'
    BY <2>6, OwnOthers DEF TimePasses
  <2>7. CASE UNCHANGED vars
    BY <2>7, OwnOthers DEF vars, limiterVars
  <2> QED  BY <2>1, <2>2, <2>3, <2>4, <2>5, <2>6, <2>7 DEF Next
<1> QED  BY <1>1, <1>2, <1>3 DEF OwnInv

\* Whatever calls overlap, an address is never counted as a device of a user that
\* does not connect from it, neither in this period nor in the last.
THEOREM LimiterDevicesAreOwn == Spec => []DevicesAreTheUsersOwn
<1>1. ASSUME OwnInv PROVE DevicesAreTheUsersOwn
  <2>1. ASSUME NEW u \in Uuids PROVE Online(u) \subseteq Addresses[u]
    BY <1>1 DEF OwnInv, MapsType, MapsAreOwn, Holds, Online
  <2>2. ASSUME NEW u \in Uuids, NEW i \in IPs, old[i] = u PROVE i \in Addresses[u]
    BY <1>1, <2>2, LimiterAssumption DEF OwnInv, OldIsOwn
  <2> QED  BY <2>1, <2>2 DEF DevicesAreTheUsersOwn
<1>2. Init => OwnInv
  BY TypesInit, OwnInit DEF OwnInv
<1>3. OwnInv => DevicesAreTheUsersOwn
  BY <1>1
<1> QED  BY <1>2, <1>3, KnownInit, KnownStep, OwnStep, PTL DEF Spec

-----------------------------------------------------------------------------
(***************************************************************************)
(* Calls that do not overlap.  OneCall is what MayBegin keeps up: at most  *)
(* one call is in progress.  In the middle of a check UserOnlineIP is      *)
(* ahead of what was let through by the address that is being checked:     *)
(* OnlineIsSeen.  That a rejection takes out the address and nothing else  *)
(* needs CountsOnline: the check still has the map that is in              *)
(* UserOnlineIP, and the address was not there before.                     *)
(***************************************************************************)

OneCall ==
    use.serial =>
        /\ \A c, d \in Conns : conn[c].pc # "free" /\ conn[d].pc # "free" => c = d
        /\ \A c \in Conns : conn[c].pc # "free" => report.pc = "free" /\ update.pc = "free"
        /\ report.pc # "free" => update.pc = "free"

\* A check of u that has stored its address and has not been let through yet.
Waits(k, u) ==
    /\ k.user = u /\ k.track
    /\ k.pc \in {"new", "first", "forget", "dropIp", "dropUser", "bucket", "store"}

Pending(cs, u) == {cs[c].ip : c \in {d \in Conns : Waits(cs[d], u)}}

OnlineIsSeen == \A u \in Uuids : Online(u) = accepted[u] \cup Pending(conn, u)

CountsOnline ==
    \A c \in Conns :
        /\ conn[c].map # 0 => conn[c].map = online[conn[c].user]
        /\ conn[c].pc \in {"new", "dropIp"} => conn[c].ip \notin accepted[conn[c].user]
        /\ conn[c].pc \in {"first", "dropUser"} => accepted[conn[c].user] = {}

AcceptedType == accepted \in [Uuids -> SUBSET (IPs \cup {None})]

SeenInv == AcceptedType /\ OneCall /\ (use.serial => OnlineIsSeen /\ CountsOnline)

\* A step of a check changes no other check, and a check begins where MayBegin holds.
LEMMA OneCheckSteps ==
    ASSUME MapsType, NEW c \in Conns, CheckLimit(c)
    PROVE  /\ UNCHANGED <<report, update>>
           /\ \A d \in Conns \ {c} : conn'[d] = conn[d]
           /\ conn[c].pc = "free" => MayBegin
<1>0. conn \in [Conns -> Check]
  BY DEF MapsType, ConnType
<1>1. UNCHANGED <<report, update>>
  BY DEF CheckLimit
<1>2. ASSUME NEW u \in Uuids, NEW track \in BOOLEAN, NEW ip \in Addresses[u], CheckLoad(c, u, ip, track)
      PROVE  MayBegin /\ \A d \in Conns \ {c} : conn'[d] = conn[d]
  BY <1>0, <1>2 DEF CheckLoad
<1>3. CASE CheckAlive(c) \/ CheckOnline(c)
  BY <1>0, <1>1, <1>3 DEF CheckAlive, CheckOnline, Moves
<1>4. CASE CheckIp(c)
  BY <1>0, <1>1, <1>4 DEF CheckIp, Passes, Moves
<1>5. CASE CheckOld(c)
  BY <1>0, <1>1, <1>5 DEF CheckOld, Passes, Moves
<1>6. CASE CheckForget(c)
  BY <1>0, <1>1, <1>6 DEF CheckForget, Passes
<1>7. CASE CheckReject(c)
  BY <1>0, <1>1, <1>7 DEF CheckReject, Ends
<1>8. CASE CheckBucket(c) \/ CheckStore(c)
  BY <1>0, <1>1, <1>8 DEF CheckBucket, CheckStore, Ends, Moves
<1> QED  BY <1>1, <1>2, <1>3, <1>4, <1>5, <1>6, <1>7, <1>8 DEF CheckLimit, CheckStep

\* Where a call may begin, and calls do not overlap, none is in progress.
LEMMA NoneBusy ==
    ASSUME MayBegin, use.serial
    PROVE  /\ \A c \in Conns : conn[c].pc = "free"
           /\ report.pc = "free" /\ update.pc = "free"
<1>1. Busy = {}
  BY DEF MayBegin
<1>2. \A c \in Conns : conn[c].pc = "free"
  BY <1>1 DEF Busy
<1>3. report.pc = "free"
  BY <1>1 DEF Busy
<1>4. update.pc = "free"
  BY <1>1 DEF Busy
<1> QED  BY <1>2, <1>3, <1>4

LEMMA OneCallStep == MapsType /\ OneCall /\ [Next]_vars => OneCall'
<1> SUFFICES ASSUME MapsType, OneCall, [Next]_vars PROVE OneCall'
  OBVIOUS
<1>0. use' = use
  BY DEF Next, vars
<1> SUFFICES ASSUME use.serial PROVE OneCall'
  BY <1>0 DEF OneCall
<1>1. ASSUME NEW c \in Conns, CheckLimit(c) PROVE OneCall'
  <2>1. /\ UNCHANGED <<report, update>>
        /\ \A d \in Conns \ {c} : conn'[d] = conn[d]
        /\ conn[c].pc = "free" => MayBegin
    BY <1>1, OneCheckSteps
  <2>2. (\A d \in Conns \ {c} : conn[d].pc = "free") /\ report.pc = "free" /\ update.pc = "free"
    BY <2>1, NoneBusy DEF OneCall
  <2> QED  BY <2>1, <2>2 DEF OneCall
<1>2. CASE GetOnlineDevice
  <2>1. UNCHANGED <<conn, update>> /\ (report.pc = "free" => MayBegin)
    BY <1>2 DEF GetOnlineDevice, ReportBegins, Ranging, ReportUser, ReportIp, ReportDelete, ReportEnds
  <2>2. (\A c \in Conns : conn[c].pc = "free") /\ update.pc = "free"
    BY <2>1, NoneBusy DEF OneCall
  <2> QED  BY <2>1, <2>2 DEF OneCall
<1>3. CASE UpdateUser
  <2>1. UNCHANGED <<conn, report>> /\ (update.pc = "free" => MayBegin)
    BY <1>3 DEF UpdateUser, UpdateBegins, UpdateForget, UpdateAdds, UpdateOnline, UpdateBucket,
                UpdateAlive, UpdateEnds
  <2>2. (\A c \in Conns : conn[c].pc = "free") /\ report.pc = "free"
    BY <2>1, NoneBusy DEF OneCall
  <2> QED  BY <2>1, <2>2 DEF OneCall
<1>4. CASE SetAlive \/ UNCHANGED vars
  BY <1>4 DEF SetAlive, vars, OneCall
<1>5. ASSUME NEW u \in Uuids, NEW limit \in Speeds \ {0}, UpdateDynamicSpeedLimit(u, limit)
      PROVE  OneCall'
  BY <1>5 DEF UpdateDynamicSpeedLimit, OneCall
<1>6. ASSUME NEW u \in Uuids, TimePasses(u) PROVE OneCall'
  BY <1>6 DEF TimePasses, OneCall
<1> QED  BY <1>1, <1>2, <1>3, <1>4, <1>5, <1>6 DEF Next

\* If only the check of c is in progress, only its address can be waiting.
LEMMA PendingOfOne ==
    ASSUME NEW cs, NEW c \in Conns, \A d \in Conns \ {c} : cs[d].pc = "free", NEW u
    PROVE  Pending(cs, u) = IF Waits(cs[c], u) THEN {cs[c].ip} ELSE {}
<1>1. \A d \in Conns \ {c} : ~Waits(cs[d], u)
  BY DEF Waits
<1> QED  BY <1>1 DEF Pending

LEMMA NonePending ==
    ASSUME NEW cs, \A d \in Conns : cs[d].pc = "free", NEW u
    PROVE  Pending(cs, u) = {}
BY DEF Pending, Waits

\* What a map that is in UserOnlineIP holds is not collected.
LEMMA CollectedKeeps ==
    ASSUME NEW maps, NEW on, NEW cs, NEW r, NEW u \in Uuids, on[u] \in MapIds
    PROVE  Collected(maps, on, cs, r)[on[u]] = maps[on[u]]
BY DEF Collected

\* Where a step of the only check must leave the limiter.
LEMMA SeenClose ==
    ASSUME NEW c \in Conns, \A d \in Conns \ {c} : conn'[d].pc = "free" /\ conn'[d].map = 0,
           \A u \in Uuids : Online(u)' = accepted'[u] \cup (IF Waits(conn'[c], u) THEN {conn'[c].ip} ELSE {}),
           conn'[c].map # 0 => conn'[c].map = online'[conn'[c].user],
           conn'[c].pc \in {"new", "dropIp"} => conn'[c].ip \notin accepted'[conn'[c].user],
           conn'[c].pc \in {"first", "dropUser"} => accepted'[conn'[c].user] = {}
    PROVE  OnlineIsSeen' /\ CountsOnline'
<1>1. \A u : Pending(conn', u) = IF Waits(conn'[c], u) THEN {conn'[c].ip} ELSE {}
  BY PendingOfOne
<1>2. OnlineIsSeen'
  BY <1>1 DEF OnlineIsSeen
<1>3. CountsOnline'
  BY DEF CountsOnline
<1> QED  BY <1>2, <1>3

\* Each step of the only check.
LEMMA SeenCheck ==
    ASSUME KnownInv, OwnInv, AcceptedType, OneCall, use.serial, OnlineIsSeen, CountsOnline,
           NEW c \in Conns, CheckLimit(c)
    PROVE  OnlineIsSeen' /\ CountsOnline' /\ AcceptedType'
<1>k. PICK k, kk : k = conn[c] /\ kk = conn'[c]
  OBVIOUS
<1> DEFINE Left(w) == IF Waits(kk, w) THEN {kk.ip} ELSE {}
<1>a. /\ MapsType /\ CheckOrder /\ MapsAreOwn /\ k \in Check /\ conn \in [Conns -> Check]
      /\ online \in [Uuids -> {0} \cup MapIds] /\ ips \in [MapIds -> SUBSET IPs]
  BY <1>k DEF OwnInv, MapsType, ConnType
<1>z. 0 \notin MapIds
  BY DEF MapIds
<1>b. \A d \in Conns \ {c} : conn'[d].pc = "free" /\ conn'[d].map = 0 /\ conn[d].pc = "free"
  <2>1. (\A d \in Conns \ {c} : conn'[d] = conn[d]) /\ (k.pc = "free" => MayBegin)
    BY <1>k, <1>a, OneCheckSteps
  <2>2. \A d \in Conns \ {c} : conn[d].pc = "free"
    BY <1>k, <2>1, NoneBusy DEF OneCall
  <2> QED  BY <1>a, <2>1, <2>2 DEF CheckOrder
<1>c. \A u \in Uuids : Online(u) = accepted[u] \cup (IF Waits(k, u) THEN {k.ip} ELSE {})
  BY <1>k, <1>b, PendingOfOne DEF OnlineIsSeen
<1>d. k.pc # "free" => k.user \in Uuids
  BY <1>k, <1>a DEF CheckOrder
<1> HIDE DEF Left
<1> DEFINE Goal == /\ AcceptedType' /\ \A u \in Uuids : Online(u)' = accepted'[u] \cup Left(u)
                   /\ kk.map # 0 => kk.map = online'[kk.user]
                   /\ kk.pc \in {"new", "dropIp"} => kk.ip \notin accepted'[kk.user]
                   /\ kk.pc \in {"first", "dropUser"} => accepted'[kk.user] = {}
\* It is enough to look at the record of c.
<1>s. SUFFICES Goal
  BY <1>k, <1>b, SeenClose DEF Left
\* What a step does to the record of c.
<1>e. /\ \A p : Moves(c, p) => kk = [k EXCEPT !.pc = p]
      /\ Ends(c) => kk = NoCheck
      /\ Passes(c) => kk = [k EXCEPT !.pc = "bucket", !.device = 0, !.alive = 0, !.map = 0]
  BY <1>k, <1>a DEF Moves, Ends, Passes
\* A user whose map is as before is seen on the same addresses.
<1>f. ASSUME NEW u \in Uuids, online'[u] = online[u],
             ips' = ips \/ \E cs, r : ips' = Collected(ips, online', cs, r)
      PROVE  Online(u)' = Online(u)
  BY <1>a, <1>f, CollectedKeeps DEF Online
<1>g. ASSUME Passes(c), UNCHANGED <<online, accepted>>, k.pc \in Counting,
             Waits(k, k.user) \/ (k.pc = "ip" /\ k.ip \in Online(k.user))
      PROVE  Goal
  <2>1. kk.pc = "bucket" /\ kk.map = 0 /\ kk.user = k.user /\ kk.ip = k.ip /\ kk.track = k.track
    BY <1>a, <1>e, <1>g DEF Check
  <2>2. k.track /\ k.user \in Uuids
    BY <1>k, <1>a, <1>g DEF CheckOrder, Counting
  <2>3. \A u : Left(u) = IF u = k.user THEN {k.ip} ELSE {}
    BY <2>1, <2>2 DEF Left, Waits
  <2>4. \A u \in Uuids : Online(u)' = Online(u)
    BY <1>f, <1>g DEF Passes
  <2>5. \A u \in Uuids : Online(u) = accepted[u] \cup Left(u)
    <3>1. \A u \in Uuids \ {k.user} : Online(u) = accepted[u]
      BY <1>c DEF Waits
    <3>2. Online(k.user) = accepted[k.user] \cup {k.ip}
      BY <1>c, <1>g, <2>2
    <3> QED  BY <2>3, <3>1, <3>2
  <2> QED  BY <1>g, <2>1, <2>4, <2>5 DEF AcceptedType
<1>h. ASSUME NEW p \in {"new", "first", "forget", "dropIp", "dropUser", "bucket", "store"},
             Moves(c, p), UNCHANGED <<online, ips, accepted>>, Waits(k, k.user),
             p \in {"new", "dropIp"} => k.pc = "new", p \in {"first", "dropUser"} => k.pc = "first"
      PROVE  Goal
  <2>1. kk.pc = p /\ kk.map = k.map /\ kk.user = k.user /\ kk.ip = k.ip /\ kk.track = k.track
    BY <1>a, <1>e, <1>h DEF Check
  <2>2. \A u : Left(u) = IF Waits(k, u) THEN {k.ip} ELSE {}
    BY <1>h, <2>1 DEF Left, Waits
  <2>3. \A u \in Uuids : Online(u)' = Online(u)
    BY <1>f, <1>h
  <2>4. \A u \in Uuids : Online(u)' = accepted'[u] \cup Left(u)
    BY <1>c, <1>h, <2>2, <2>3
  <2> QED  BY <1>k, <1>h, <2>1, <2>4 DEF AcceptedType, CountsOnline
<1>i. ASSUME UNCHANGED <<online, ips>>, Ends(c), Accept(c), k.pc \in {"bucket", "store"}
      PROVE  Goal
  <2>1. kk = NoCheck
    BY <1>e, <1>i
  <2>2. k.user \in Uuids
    BY <1>d, <1>i
  <2>3. accepted' = IF k.track THEN [accepted EXCEPT ![k.user] = @ \cup {k.ip}] ELSE accepted
    BY <1>k, <1>i DEF Accept
  <2>4. \A u \in Uuids : accepted'[u] = accepted[u] \cup (IF Waits(k, u) THEN {k.ip} ELSE {})
    BY <1>i, <2>2, <2>3 DEF AcceptedType, Waits
  <2>5. \A u : Left(u) = {}
    BY <2>1 DEF Left, Waits, NoCheck
  <2>6. \A u \in Uuids : Online(u)' = accepted'[u] \cup Left(u)
    BY <1>c, <1>f, <1>i, <2>4, <2>5
  <2>7. AcceptedType'
    BY <1>a, <2>2, <2>3 DEF AcceptedType, Check
  <2> QED  BY <2>1, <2>6, <2>7 DEF NoCheck
<1>1. ASSUME NEW u \in Uuids, NEW track \in BOOLEAN, NEW ip \in Addresses[u],
             CheckLoad(c, u, ip, track)
      PROVE  Goal
  <2>1. k.pc = "free" /\ UNCHANGED <<online, ips, accepted>>
    BY <1>k, <1>1 DEF CheckLoad
  <2>2. \A v \in Uuids : Online(v)' = accepted'[v]
    BY <1>c, <1>f, <2>1 DEF Waits
  <2>3. CASE info[u] = None
    <3>1. kk = k
      BY <1>k, <1>1, <2>3 DEF CheckLoad
    <3>2. \A v : Left(v) = {}
      BY <2>1, <3>1 DEF Left, Waits
    <3>3. k.map = 0
      BY <1>k, <1>a, <2>1 DEF CheckOrder
    <3> QED  BY <2>1, <2>2, <3>1, <3>2, <3>3 DEF AcceptedType
  <2>4. CASE info[u] # None
    <3> DEFINE n == [pc |-> IF track THEN "alive" ELSE "bucket", user |-> u,
                     ip |-> IF track THEN ip ELSE None, track |-> track,
                     device |-> IF track THEN info[u].device ELSE 0, alive |-> 0,
                     limit |-> IF info[u].expire = "past" THEN info[u].speed
                               ELSE determineSpeedLimit(info[u].speed, info[u].dynamic),
                     map |-> 0]
    <3>1. conn' = [conn EXCEPT ![c] = n]
      BY <1>1, <2>4 DEF CheckLoad
    <3>2. kk = n
      BY <1>k, <1>a, <3>1
    <3>3. kk.map = 0 /\ kk.pc \in {"alive", "bucket"} /\ (kk.pc = "bucket" => ~kk.track)
      BY <3>2
    <3>4. \A v : Left(v) = {}
      BY <3>3 DEF Left, Waits
    <3> QED  BY <2>1, <2>2, <3>3, <3>4 DEF AcceptedType
  <2> QED  BY <2>3, <2>4
<1>2. CASE CheckAlive(c)
  <2>1. k.pc = "alive" /\ kk = [k EXCEPT !.pc = "online", !.alive = alive[k.user]]
    BY <1>k, <1>a, <1>2 DEF CheckAlive
  <2>2. UNCHANGED <<online, ips, accepted>>
    BY <1>2 DEF CheckAlive, limiterVars
  <2>3. kk.pc = "online" /\ kk.map = 0
    BY <1>k, <1>a, <2>1 DEF Check, CheckOrder
  <2>4. \A v : Left(v) = {}
    BY <2>3 DEF Left, Waits
  <2>5. \A v \in Uuids : Online(v)' = accepted'[v]
    BY <1>c, <1>f, <2>1, <2>2 DEF Waits
  <2> QED  BY <2>2, <2>3, <2>4, <2>5 DEF AcceptedType
<1>3. CASE CheckOnline(c)
  <2>1. k.pc = "online" /\ k.user \in Uuids /\ k.track /\ k.map = 0 /\ accepted' = accepted
    BY <1>k, <1>a, <1>3 DEF CheckOnline, CheckOrder, Counting
  <2>2. \A v \in Uuids : Online(v) = accepted[v]
    BY <1>c, <2>1 DEF Waits
  <2>3. CASE online[k.user] # 0
    <3>1. kk = [k EXCEPT !.pc = "ip", !.map = online[k.user]] /\ UNCHANGED <<online, ips>>
      BY <1>k, <1>a, <1>3, <2>3 DEF CheckOnline
    <3>2. kk.pc = "ip" /\ kk.map = online'[kk.user]
      BY <1>a, <3>1 DEF Check
    <3>3. \A v : Left(v) = {}
      BY <3>2 DEF Left, Waits
    <3>4. \A v \in Uuids : Online(v)' = accepted'[v]
      BY <1>f, <2>1, <2>2, <3>1
    <3> QED  BY <2>1, <3>2, <3>3, <3>4 DEF AcceptedType
  <2>4. CASE online[k.user] = 0
    <3>1. PICK n \in MapIds : n = FreeMap /\ \A v \in Uuids : online[v] # n
      BY <1>a, <2>1, <2>4, FreeMapExists
    <3>2. /\ online' = [online EXCEPT ![k.user] = n]
          /\ ips' = [ips EXCEPT ![n] = {k.ip}]
          /\ Moves(c, "first")
      BY <1>k, <1>3, <2>4, <3>1 DEF CheckOnline
    <3>3. kk.pc = "first" /\ kk.map = 0 /\ kk.user = k.user /\ kk.ip = k.ip /\ kk.track
      BY <1>a, <1>e, <2>1, <3>2 DEF Check
    <3>4. \A v : Left(v) = IF v = k.user THEN {k.ip} ELSE {}
      BY <3>3 DEF Left, Waits
    <3>5. accepted[k.user] = {}
      BY <2>1, <2>2, <2>4 DEF Online
    <3>6. Online(k.user)' = {k.ip}
      BY <1>a, <1>z, <2>1, <3>2 DEF Online
    <3>7. ASSUME NEW v \in Uuids \ {k.user} PROVE Online(v)' = accepted[v]
      <4>1. online'[v] = online[v] /\ online[v] # n
        BY <1>a, <3>1, <3>2
      <4>2. online[v] \in MapIds => ips'[online[v]] = ips[online[v]]
        BY <1>a, <3>2, <4>1
      <4>3. Online(v)' = Online(v)
        BY <1>a, <4>1, <4>2 DEF Online
      <4> QED  BY <2>2, <4>3
    <3> QED  BY <2>1, <3>3, <3>4, <3>5, <3>6, <3>7 DEF AcceptedType
  <2> QED  BY <2>3, <2>4
<1>4. CASE CheckIp(c)
  <2>1. k.pc = "ip" /\ k.user \in Uuids /\ k.track /\ UNCHANGED <<online, accepted>>
    BY <1>k, <1>a, <1>4 DEF CheckIp, CheckOrder, Counting
  <2>2. k.map = online[k.user] /\ k.map \in MapIds /\ k.map # 0
    <3>1. k.map # 0
      BY <1>k, <1>a, <2>1 DEF CheckOrder
    <3> QED  BY <1>k, <1>a, <3>1 DEF CountsOnline, Check
  <2>3. Online(k.user) = ips[k.map]
    BY <2>2 DEF Online
  <2>4. CASE k.ip \in ips[k.map]
    <3>1. Passes(c)
      BY <1>k, <1>4, <2>4 DEF CheckIp
    <3> QED  BY <1>g, <2>1, <2>3, <2>4, <3>1 DEF Counting
  <2>5. CASE k.ip \notin ips[k.map]
    <3>1. Moves(c, "new") /\ ips' = [ips EXCEPT ![k.map] = @ \cup {k.ip}]
      BY <1>k, <1>4, <2>5 DEF CheckIp
    <3>2. kk.pc = "new" /\ kk.map = k.map /\ kk.user = k.user /\ kk.ip = k.ip /\ kk.track
      BY <1>a, <1>e, <2>1, <3>1 DEF Check
    <3>3. \A v : Left(v) = IF v = k.user THEN {k.ip} ELSE {}
      BY <3>2 DEF Left, Waits
    <3>4. \A v \in Uuids : Online(v) = accepted[v]
      BY <1>c, <2>1 DEF Waits
    <3>5. Online(k.user)' = Online(k.user) \cup {k.ip}
      BY <1>a, <2>1, <2>2, <3>1 DEF Online
    <3>6. ASSUME NEW v \in Uuids \ {k.user} PROVE Online(v)' = Online(v)
      <4>1. Holds(k.user, k.map)
        BY <2>2 DEF Holds
      <4>2. online[v] # k.map
        BY <2>1, <2>2, <4>1 DEF OwnInv, OneOwner, Holds
      <4>3. online[v] \in MapIds => ips'[online[v]] = ips[online[v]]
        BY <1>a, <3>1, <4>2
      <4> QED  BY <1>a, <2>1, <4>3 DEF Online
    <3>7. \A v \in Uuids : Online(v)' = accepted'[v] \cup Left(v)
      BY <2>1, <3>3, <3>4, <3>5, <3>6
    <3>8. kk.map = online'[kk.user] /\ kk.ip \notin accepted'[kk.user]
      BY <2>1, <2>2, <2>3, <2>5, <3>2, <3>4
    <3> QED  BY <2>1, <3>2, <3>7, <3>8 DEF AcceptedType
  <2> QED  BY <2>4, <2>5
<1>5. CASE CheckOld(c)
  <2>1. k.pc \in {"new", "first"} /\ UNCHANGED <<online, accepted>>
    BY <1>k, <1>5 DEF CheckOld
  <2>2. Waits(k, k.user) /\ k.pc \in Counting
    BY <1>k, <1>a, <2>1 DEF Waits, CheckOrder, Counting
  <2>3. CASE Passes(c)
    BY <1>g, <2>1, <2>2, <2>3
  <2>4. CASE Moves(c, "forget") /\ UNCHANGED ips
    BY <1>h, <2>1, <2>2, <2>4
  <2>5. CASE Moves(c, IF conn[c].pc = "new" THEN "dropIp" ELSE "dropUser") /\ UNCHANGED ips
    <3> DEFINE p == IF k.pc = "new" THEN "dropIp" ELSE "dropUser"
    <3>1. /\ p \in {"dropIp", "dropUser"} /\ (p = "dropIp" => k.pc = "new")
          /\ p = "dropUser" => k.pc = "first"
      BY <2>1
    <3>2. Moves(c, p)
      BY <1>k, <2>5
    <3> HIDE DEF p
    <3> QED  BY <1>h, <2>1, <2>2, <2>5, <3>1, <3>2
  <2> QED  BY <1>5, <2>3, <2>4, <2>5 DEF CheckOld
<1>6. CASE CheckForget(c)
  <2>1. k.pc = "forget" /\ UNCHANGED <<online, accepted>> /\ Passes(c)
    BY <1>k, <1>6 DEF CheckForget
  <2>2. Waits(k, k.user) /\ k.pc \in Counting
    BY <1>k, <1>a, <2>1 DEF Waits, CheckOrder, Counting
  <2> QED  BY <1>g, <2>1, <2>2
<1>7. CASE CheckReject(c)
  <2>1. k.pc \in {"dropIp", "dropUser"} /\ kk = NoCheck /\ accepted' = accepted
    BY <1>k, <1>e, <1>7 DEF CheckReject
  <2>2. k.user \in Uuids /\ Waits(k, k.user)
    BY <1>k, <1>a, <2>1 DEF CheckOrder, Counting, Waits
  <2>3. \A v : Left(v) = {}
    BY <2>1 DEF Left, Waits, NoCheck
  <2>4. \A v \in Uuids : Online(v) = accepted[v] \cup (IF v = k.user THEN {k.ip} ELSE {})
    BY <1>c, <2>2 DEF Waits
  <2>5. CASE k.pc = "dropIp"
    <3> DEFINE less == [ips EXCEPT ![k.map] = @ \ {k.ip}]
    <3>1. online' = online /\ ips' = Collected(less, online, conn', report)
      BY <1>k, <1>7, <2>5 DEF CheckReject
    <3>2. k.map = online[k.user] /\ k.map \in MapIds
      <4>1. k.map # 0
        BY <1>k, <1>a, <2>5 DEF CheckOrder
      <4> QED  BY <1>k, <1>a, <4>1 DEF CountsOnline, Check
    <3>3. k.ip \notin accepted[k.user]
      BY <1>k, <2>5 DEF CountsOnline
    <3>4. \A v \in Uuids : online[v] \in MapIds => ips'[online[v]] = less[online[v]]
      <4> HIDE DEF less
      <4>1. \A v \in Uuids : online[v] \in MapIds =>
               Collected(less, online, conn', report)[online[v]] = less[online[v]]
        BY CollectedKeeps
      <4> QED  BY <3>1, <4>1
    <3>5. Online(k.user)' = Online(k.user) \ {k.ip}
      BY <1>a, <1>z, <2>2, <3>1, <3>2, <3>4 DEF Online
    <3>6. ASSUME NEW v \in Uuids \ {k.user} PROVE Online(v)' = Online(v)
      <4>1. Holds(k.user, k.map)
        BY <3>2 DEF Holds
      <4>2. online[v] # k.map
        BY <2>2, <3>2, <4>1 DEF OwnInv, OneOwner, Holds
      <4>3. online[v] \in MapIds => less[online[v]] = ips[online[v]]
        BY <1>a, <4>2
      <4> QED  BY <1>a, <3>1, <3>4, <4>3 DEF Online
    <3>7. \A v \in Uuids : Online(v)' = accepted[v]
      BY <2>2, <2>4, <3>3, <3>5, <3>6
    <3> QED  BY <2>1, <2>3, <3>7 DEF NoCheck, AcceptedType
  <2>6. CASE k.pc = "dropUser"
    <3>1. online' = [online EXCEPT ![k.user] = 0] /\ ips' = Collected(ips, online', conn', report)
      BY <1>k, <1>7, <2>6 DEF CheckReject
    <3>2. Online(k.user)' = {} /\ accepted[k.user] = {}
      BY <1>k, <1>a, <2>2, <2>6, <3>1 DEF Online, CountsOnline
    <3>3. ASSUME NEW v \in Uuids \ {k.user} PROVE Online(v)' = accepted[v]
      <4>1. online'[v] = online[v]
        BY <1>a, <3>1
      <4> QED  BY <1>f, <2>4, <3>1, <4>1
    <3>4. \A v \in Uuids : Online(v)' = accepted[v]
      BY <3>2, <3>3
    <3> QED  BY <2>1, <2>3, <3>4 DEF NoCheck, AcceptedType
  <2> QED  BY <2>1, <2>5, <2>6
<1>8. CASE CheckBucket(c)
  <2>1. k.pc = "bucket" /\ UNCHANGED <<online, ips>>
    BY <1>k, <1>8 DEF CheckBucket
  <2>2. CASE Ends(c) /\ Accept(c)
    BY <1>i, <2>1, <2>2
  <2>3. CASE Moves(c, "store") /\ UNCHANGED accepted
    <3>1. CASE k.track
      <4>1. Waits(k, k.user)
        BY <2>1, <3>1 DEF Waits
      <4> QED  BY <1>h, <2>1, <2>3, <4>1
    <3>2. CASE ~k.track
      <4>1. kk.pc = "store" /\ kk.map = k.map /\ ~kk.track
        BY <1>a, <1>e, <2>3, <3>2 DEF Check
      <4>2. k.map = 0
        BY <1>k, <1>a, <2>1 DEF CheckOrder
      <4>3. \A v : Left(v) = {}
        BY <4>1 DEF Left, Waits
      <4>4. \A v \in Uuids : Online(v)' = accepted'[v]
        BY <1>c, <1>f, <2>1, <2>3, <3>2 DEF Waits
      <4> QED  BY <2>3, <4>1, <4>2, <4>3, <4>4 DEF AcceptedType
    <3> QED  BY <3>1, <3>2
  <2> QED  BY <1>8, <2>2, <2>3 DEF CheckBucket
<1>9. CASE CheckStore(c)
  <2>1. k.pc = "store" /\ UNCHANGED <<online, ips>> /\ Ends(c) /\ Accept(c)
    BY <1>k, <1>9 DEF CheckStore
  <2> QED  BY <1>i, <2>1
<1> QED  BY <1>1, <1>2, <1>3, <1>4, <1>5, <1>6, <1>7, <1>8, <1>9 DEF CheckLimit, CheckStep

\* A step that empties the entry of a user forgets what was let through, too.
LEMMA SeenDrops ==
    ASSUME OwnInv, AcceptedType, OnlineIsSeen, UNCHANGED conn,
           \A c \in Conns : conn[c].pc = "free",
           \/ UNCHANGED <<online, ips, accepted>>
           \/ \E u, r : /\ online' = [online EXCEPT ![u] = 0] /\ ips' = Collected(ips, online', conn, r)
                        /\ accepted' = [accepted EXCEPT ![u] = {}]
    PROVE  OnlineIsSeen' /\ CountsOnline' /\ AcceptedType'
<1>1. AcceptedType'
  BY DEF AcceptedType
<1>2. \A c \in Conns : conn[c].map = 0
  BY DEF OwnInv, CheckOrder
<1>3. CountsOnline'
  BY <1>2 DEF CountsOnline
<1>4. \A v : Pending(conn, v) = {}
  BY NonePending
<1>5. \A v \in Uuids : Online(v) = accepted[v]
  BY <1>4 DEF OnlineIsSeen
<1>6. ASSUME NEW v \in Uuids PROVE Online(v)' = accepted'[v]
  <2>1. CASE UNCHANGED <<online, ips, accepted>>
    BY <1>5, <2>1 DEF Online
  <2>2. ASSUME NEW u, NEW r, online' = [online EXCEPT ![u] = 0], ips' = Collected(ips, online', conn, r),
               accepted' = [accepted EXCEPT ![u] = {}]
        PROVE  Online(v)' = accepted'[v]
    <3>1. online \in [Uuids -> {0} \cup MapIds] /\ accepted \in [Uuids -> SUBSET (IPs \cup {None})]
      BY DEF OwnInv, MapsType, AcceptedType
    <3>2. CASE v = u
      BY <2>2, <3>1, <3>2 DEF Online
    <3>3. CASE v # u
      <4>1. online'[v] = online[v] /\ accepted'[v] = accepted[v]
        BY <2>2, <3>1, <3>3
      <4>2. online[v] \in MapIds => ips'[online[v]] = ips[online[v]]
        <5>1. online'[v] \in MapIds => Collected(ips, online', conn, r)[online'[v]] = ips[online'[v]]
          BY CollectedKeeps
        <5> QED  BY <2>2, <4>1, <5>1
      <4> QED  BY <1>5, <3>1, <4>1, <4>2 DEF Online
    <3> QED  BY <3>2, <3>3
  <2> QED  BY <2>1, <2>2
<1>7. \A v : Pending(conn', v) = {}
  BY NonePending
<1>8. OnlineIsSeen'
  BY <1>6, <1>7 DEF OnlineIsSeen
<1> QED  BY <1>1, <1>3, <1>8

\* What no call is about leaves everything as it is.
LEMMA SeenUnchanged ==
    ASSUME OnlineIsSeen, CountsOnline, AcceptedType, UNCHANGED <<conn, online, ips, accepted>>
    PROVE  OnlineIsSeen' /\ CountsOnline' /\ AcceptedType'
BY DEF OnlineIsSeen, CountsOnline, AcceptedType, Online, Pending, Waits

LEMMA SeenStep == KnownInv /\ OwnInv /\ SeenInv /\ [Next]_vars => SeenInv'
<1> SUFFICES ASSUME KnownInv, OwnInv, SeenInv, [Next]_vars PROVE SeenInv'
  OBVIOUS
<1>1. UNCHANGED use /\ OneCall /\ AcceptedType /\ MapsType
  BY DEF Next, vars, SeenInv, OwnInv
<1>2. OneCall'
  BY <1>1, OneCallStep
<1>3. AcceptedType'
  <2>1. ASSUME NEW c \in Conns, CheckLimit(c) PROVE AcceptedType'
    <3>1. accepted' = accepted \/ Accept(c)
      BY <2>1 DEF CheckLimit, CheckStep, CheckLoad, CheckAlive, CheckOnline, CheckIp, CheckOld,
                  CheckForget, CheckReject, CheckBucket, CheckStore
    <3>2. conn[c].ip \in IPs \cup {None}
      BY <1>1 DEF MapsType, ConnType, Check
    <3> QED  BY <1>1, <3>1, <3>2 DEF Accept, AcceptedType
  <2>2. CASE GetOnlineDevice
    BY <1>1, <2>2 DEF GetOnlineDevice, ReportBegins, Ranging, ReportUser, ReportIp, ReportDelete, ReportEnds, AcceptedType
  <2>3. CASE UpdateUser
    BY <1>1, <2>3 DEF UpdateUser, UpdateBegins, UpdateForget, UpdateAdds, UpdateOnline,
                      UpdateBucket, UpdateAlive, UpdateEnds, AcceptedType
  <2>4. CASE SetAlive \/ UNCHANGED vars
    BY <1>1, <2>4 DEF SetAlive, vars, AcceptedType
  <2>5. ASSUME NEW u \in Uuids, NEW limit \in Speeds \ {0}, UpdateDynamicSpeedLimit(u, limit)
        PROVE  AcceptedType'
    BY <1>1, <2>5 DEF UpdateDynamicSpeedLimit, AcceptedType
  <2>6. ASSUME NEW u \in Uuids, TimePasses(u) PROVE AcceptedType'
    BY <1>1, <2>6 DEF TimePasses, AcceptedType
  <2> QED  BY <2>1, <2>2, <2>3, <2>4, <2>5, <2>6 DEF Next
<1>4. ASSUME use.serial PROVE OnlineIsSeen' /\ CountsOnline'
  <2>0. OnlineIsSeen /\ CountsOnline
    BY <1>4 DEF SeenInv
  <2>1. ASSUME NEW c \in Conns, CheckLimit(c) PROVE OnlineIsSeen' /\ CountsOnline'
    BY <1>1, <1>4, <2>0, <2>1, SeenCheck
  <2>2. CASE GetOnlineDevice
    <3>1. UNCHANGED conn /\ (report.pc = "free" => MayBegin)
      BY <2>2 DEF GetOnlineDevice, ReportBegins, Ranging, ReportUser, ReportIp, ReportDelete, ReportEnds
    <3>2. \A c \in Conns : conn[c].pc = "free"
      BY <1>1, <1>4, <3>1, NoneBusy DEF OneCall
    <3>3. \/ UNCHANGED <<online, ips, accepted>>
          \/ /\ online' = [online EXCEPT ![report.user] = 0] /\ ips' = Collected(ips, online', conn, report')
             /\ accepted' = [accepted EXCEPT ![report.user] = {}]
      BY <2>2 DEF GetOnlineDevice, ReportBegins, Ranging, ReportUser, ReportIp, ReportDelete, ReportEnds
    <3> QED  BY <1>1, <2>0, <3>1, <3>2, <3>3, SeenDrops
  <2>3. CASE UpdateUser
    <3>1. UNCHANGED conn /\ (update.pc = "free" => MayBegin)
      BY <2>3 DEF UpdateUser, UpdateBegins, UpdateForget, UpdateAdds, UpdateOnline,
                  UpdateBucket, UpdateAlive, UpdateEnds
    <3>2. \A c \in Conns : conn[c].pc = "free"
      BY <1>1, <1>4, <3>1, NoneBusy DEF OneCall
    <3>3. \/ UNCHANGED <<online, ips, accepted>>
          \/ /\ online' = [online EXCEPT ![update.user] = 0] /\ ips' = Collected(ips, online', conn, report)
             /\ accepted' = [accepted EXCEPT ![update.user] = {}]
      BY <2>3 DEF UpdateUser, UpdateBegins, UpdateForget, UpdateAdds, UpdateOnline,
                  UpdateBucket, UpdateAlive, UpdateEnds, limiterVars
    <3> QED  BY <1>1, <2>0, <3>1, <3>2, <3>3, SeenDrops
  <2>4. CASE SetAlive \/ UNCHANGED vars
    BY <1>1, <2>0, <2>4, SeenUnchanged DEF SetAlive, vars, limiterVars
  <2>5. ASSUME NEW u \in Uuids, NEW limit \in Speeds \ {0}, UpdateDynamicSpeedLimit(u, limit)
        PROVE  OnlineIsSeen' /\ CountsOnline'
    BY <1>1, <2>0, <2>5, SeenUnchanged DEF UpdateDynamicSpeedLimit
  <2>6. ASSUME NEW u \in Uuids, TimePasses(u) PROVE OnlineIsSeen' /\ CountsOnline'
    BY <1>1, <2>0, <2>6, SeenUnchanged DEF TimePasses
  <2> QED  BY <2>1, <2>2, <2>3, <2>4, <2>5, <2>6 DEF Next
<1> QED  BY <1>1, <1>2, <1>3, <1>4 DEF SeenInv

LEMMA SeenInit == Init => SeenInv
<1> SUFFICES ASSUME Init PROVE SeenInv
  OBVIOUS
<1>1. (\A c \in Conns : conn[c].pc = "free" /\ conn[c].map = 0) /\ report.pc = "free" /\ update.pc = "free"
  BY DEF Init, NoCheck, NoReport, NoUpdate
<1>2. AcceptedType /\ OneCall /\ CountsOnline
  BY <1>1 DEF Init, AcceptedType, OneCall, CountsOnline
<1>3. \A v : Pending(conn, v) = {}
  BY <1>1, NonePending
<1>4. OnlineIsSeen
  BY <1>3 DEF Init, OnlineIsSeen, Online
<1> QED  BY <1>2, <1>4 DEF SeenInv

\* Without overlapping calls, the devices of the next report are exactly the addresses
\* from which connections were let through since the last one: no rejected
\* address is left behind and none is lost.
THEOREM LimiterOnlineIsAccepted == Spec => []OnlineIsAccepted
<1>1. ASSUME SeenInv PROVE OnlineIsAccepted
  <2> SUFFICES ASSUME use.serial, Busy = {}, NEW u \in Uuids PROVE Online(u) = accepted[u]
    BY DEF OnlineIsAccepted
  <2>1. \A c \in Conns : conn[c].pc = "free"
    BY DEF Busy
  <2>2. Pending(conn, u) = {}
    BY <2>1, NonePending
  <2> QED  BY <1>1, <2>2 DEF SeenInv, OnlineIsSeen
<1>2. SeenInv => OnlineIsAccepted
  BY <1>1
<1>3. Init => OwnInv
  BY TypesInit, OwnInit DEF OwnInv
<1> QED  BY <1>2, <1>3, KnownInit, KnownStep, OwnStep, SeenInit, SeenStep, PTL DEF Spec

-----------------------------------------------------------------------------
(***************************************************************************)
(* Buckets.  BucketMatchesLimit depends on the order in UpdateUser: the    *)
(* user is unknown from before its bucket is deleted until it is stored    *)
(* again, so that no check can make a bucket of the old rate in between    *)
(* (BucketIsCurrent, AddsAreNew), and on the checks using the limit in     *)
(* force (LimitIsCurrent).                                                 *)
(***************************************************************************)

Rate(u) == determineSpeedLimit(NodeLimit, info[u].speed)

NoDynamic ==
    ~use.dynamic =>
        /\ \A u \in Uuids : info[u] # None => info[u].dynamic = 0
        /\ update.pc # "free" => update.info.dynamic = 0

\* UpdateUser stores no user that is known already, and the known users are listed
\* or about to be deleted.
AddsAreNew ==
    /\ \A u \in update.add : info[u] = None \/ u \in update.del
    /\ \A u \in Uuids : info[u] # None => u \in listed \cup update.del
    /\ update.add \subseteq listed
    /\ update.pc \in {"online", "bucket"} => update.user \in Uuids /\ info[update.user] = None

BucketIsCurrent ==
    \A u \in Uuids :
        \/ bucket[u] = 0
        \/ info[u] # None /\ bucket[u] = Rate(u)
        \/ update.pc \in {"online", "bucket"} /\ u = update.user

LimitIsCurrent ==
    \A c \in Conns :
        conn[c].pc # "free" => info[conn[c].user] # None /\ conn[c].limit = info[conn[c].user].speed

BucketInv ==
    /\ NoDynamic /\ AddsAreNew
    /\ use.serial /\ ~use.dynamic => BucketIsCurrent /\ LimitIsCurrent

\* Without dynamic limits no step but UpdateUser changes a record.
LEMMA InfoSteps ==
    ASSUME KnownInv, [Next]_vars, ~use.dynamic PROVE UpdateUser \/ UNCHANGED <<info, update, listed>>
<1>0. \A u \in Uuids : info[u] # None => info[u].expire = "never"
  BY DEF KnownInv, NeverExpires
<1>1. ASSUME NEW c \in Conns, CheckLimit(c) PROVE UNCHANGED <<info, update, listed>>
  <2>1. UNCHANGED <<update, listed>>
    BY <1>1 DEF CheckLimit
  <2>2. ASSUME NEW u \in Uuids, NEW track, NEW ip, CheckLoad(c, u, ip, track) PROVE info' = info
    BY <1>0, <2>2 DEF CheckLoad
  <2>3. CheckAlive(c) \/ CheckOnline(c) \/ CheckIp(c) \/ CheckOld(c) => info' = info
    BY DEF CheckAlive, CheckOnline, CheckIp, CheckOld, limiterVars
  <2>4. CheckForget(c) \/ CheckReject(c) \/ CheckBucket(c) \/ CheckStore(c) => info' = info
    BY DEF CheckForget, CheckReject, CheckBucket, CheckStore
  <2> QED  BY <1>1, <2>1, <2>2, <2>3, <2>4 DEF CheckLimit, CheckStep
<1>2. ASSUME GetOnlineDevice PROVE UNCHANGED <<info, update, listed>>
  BY <1>2 DEF GetOnlineDevice
<1>3. ASSUME SetAlive \/ UNCHANGED vars PROVE UNCHANGED <<info, update, listed>>
  BY <1>3 DEF SetAlive, vars, limiterVars
<1>4. ASSUME NEW u \in Uuids, NEW limit \in Speeds \ {0} PROVE ~UpdateDynamicSpeedLimit(u, limit)
  BY DEF UpdateDynamicSpeedLimit
<1>5. ASSUME NEW u \in Uuids PROVE ~TimePasses(u)
  BY <1>0 DEF TimePasses
<1> QED  BY <1>1, <1>2, <1>3, <1>4, <1>5 DEF Next

LEMMA NoDynamicStep == KnownInv /\ NoDynamic /\ [Next]_vars => NoDynamic'
<1> SUFFICES ASSUME KnownInv, NoDynamic, [Next]_vars PROVE NoDynamic'
  OBVIOUS
<1>0. use' = use
  BY DEF Next, vars
<1> SUFFICES ASSUME ~use.dynamic PROVE NoDynamic'
  BY <1>0 DEF NoDynamic
<1>1. CASE UNCHANGED <<info, update, listed>>
  BY <1>1 DEF NoDynamic
<1>2. ASSUME NEW del \in SUBSET Uuids, NEW add \in SUBSET Uuids,
             NEW s \in use.speeds, NEW d \in use.devices, UpdateBegins(del, add, s, d)
      PROVE  NoDynamic'
  BY <1>2 DEF UpdateBegins, NewInfo, limiterVars, NoDynamic
<1>3. ASSUME NEW u \in Uuids, UpdateForget(u) PROVE NoDynamic'
  BY <1>3 DEF UpdateForget, NoDynamic, KnownInv, InfoType, UpdateTypeOK
<1>4. ASSUME NEW u \in Uuids, UpdateAdds(u) PROVE NoDynamic'
  BY <1>4 DEF UpdateAdds, NoDynamic, KnownInv, InfoType, UpdateTypeOK
<1>5. CASE UpdateOnline \/ UpdateBucket \/ UpdateAlive \/ UpdateEnds
  BY <1>5 DEF UpdateOnline, UpdateBucket, UpdateAlive, UpdateEnds, NoUpdate, limiterVars, NoDynamic,
              KnownInv, UpdateTypeOK
<1> QED  BY <1>1, <1>2, <1>3, <1>4, <1>5, InfoSteps DEF UpdateUser

\* No step but UpdateUser makes a user known.
LEMMA UnknownStays ==
    ASSUME KnownInv, [Next]_vars
    PROVE  UpdateUser \/ (/\ UNCHANGED <<update, listed>>
                          /\ \A u \in Uuids : info[u] = None => info'[u] = None)
<1>0. info \in [Uuids -> UserLimitInfo \cup {None}]
  BY DEF KnownInv, InfoType
<1> DEFINE Stays == UNCHANGED <<update, listed>> /\ \A u \in Uuids : info[u] = None => info'[u] = None
<1>1. ASSUME NEW c \in Conns, CheckLimit(c) PROVE Stays
  <2>0. UNCHANGED <<update, listed>>
    BY <1>1 DEF CheckLimit
  <2>1. ASSUME NEW u \in Uuids, NEW track \in BOOLEAN, NEW ip \in Addresses[u], CheckLoad(c, u, ip, track)
        PROVE  \A v \in Uuids : info[v] = None => info'[v] = None
    BY <1>0, <2>1 DEF CheckLoad
  <2>2. ASSUME \/ CheckAlive(c) \/ CheckOnline(c) \/ CheckIp(c) \/ CheckOld(c)
               \/ CheckForget(c) \/ CheckReject(c) \/ CheckBucket(c) \/ CheckStore(c)
        PROVE  info' = info
    BY <2>2 DEF CheckAlive, CheckOnline, CheckIp, CheckOld, CheckForget, CheckReject,
                CheckBucket, CheckStore, limiterVars
  <2> QED  BY <1>1, <2>0, <2>1, <2>2 DEF CheckLimit, CheckStep
<1>2. ASSUME GetOnlineDevice PROVE Stays
  BY <1>2 DEF GetOnlineDevice
<1>3. ASSUME SetAlive \/ UNCHANGED vars PROVE Stays
  BY <1>3 DEF SetAlive, vars, limiterVars
<1>4. ASSUME NEW u \in Uuids, NEW limit \in Speeds \ {0}, UpdateDynamicSpeedLimit(u, limit) PROVE Stays
  BY <1>0, <1>4 DEF UpdateDynamicSpeedLimit
<1>5. ASSUME NEW u \in Uuids, TimePasses(u) PROVE Stays
  BY <1>0, <1>5 DEF TimePasses
<1> QED  BY <1>1, <1>2, <1>3, <1>4, <1>5 DEF Next

LEMMA AddsStep == KnownInv /\ AddsAreNew /\ [Next]_vars => AddsAreNew'
<1> SUFFICES ASSUME KnownInv, AddsAreNew, [Next]_vars PROVE AddsAreNew'
  OBVIOUS
<1>0. /\ info \in [Uuids -> UserLimitInfo \cup {None}] /\ listed \subseteq Uuids
      /\ UpdateTypeOK /\ (update.pc = "free" => update.del = {} /\ update.add = {})
  BY DEF KnownInv, InfoType, UpdateOrder
<1>1. CASE /\ UNCHANGED <<update, listed>>
           /\ \A u \in Uuids : info[u] = None => info'[u] = None
  BY <1>0, <1>1 DEF AddsAreNew, UpdateTypeOK
<1>2. ASSUME NEW del \in SUBSET Uuids, NEW add \in SUBSET Uuids,
             NEW s \in use.speeds, NEW d \in use.devices, UpdateBegins(del, add, s, d)
      PROVE  AddsAreNew'
  BY <1>0, <1>2 DEF UpdateBegins, limiterVars, AddsAreNew
<1>3. ASSUME NEW u \in Uuids, UpdateForget(u) PROVE AddsAreNew'
  BY <1>0, <1>3 DEF UpdateForget, AddsAreNew, UpdateTypeOK
<1>4. ASSUME NEW u \in Uuids, UpdateAdds(u) PROVE AddsAreNew'
  BY <1>0, <1>4 DEF UpdateAdds, AddsAreNew, UpdateTypeOK
<1>5. CASE UpdateOnline \/ UpdateBucket \/ UpdateAlive \/ UpdateEnds
  BY <1>0, <1>5 DEF UpdateOnline, UpdateBucket, UpdateAlive, UpdateEnds, NoUpdate, limiterVars,
                    AddsAreNew, UpdateTypeOK
<1> QED  BY <1>1, <1>2, <1>3, <1>4, <1>5, UnknownStays DEF UpdateUser

\* A limit in force and no dynamic one is the limit.
LEMMA SpeedAlone == ASSUME NEW s \in Speeds PROVE determineSpeedLimit(s, 0) = s
BY LimiterAssumption DEF determineSpeedLimit

\* A check: it takes the limit in force along, and gives the bucket its rate.
LEMMA BucketCheck ==
    ASSUME KnownInv, MapsType, CheckOrder, OneCall, NoDynamic, BucketIsCurrent, LimitIsCurrent,
           use.serial, ~use.dynamic, NEW c \in Conns, CheckLimit(c), UNCHANGED info
    PROVE  BucketIsCurrent' /\ LimitIsCurrent'
<1>0. /\ conn \in [Conns -> Check] /\ conn[c] \in Check /\ UNCHANGED update
      /\ \A d \in Conns \ {c} : conn'[d] = conn[d]
      /\ \A u \in Uuids : info[u] # None => info[u] \in UserLimitInfo /\ info[u].dynamic = 0
                                            /\ info[u].expire = "never"
      /\ bucket \in [Uuids -> Nat]
  BY OneCheckSteps DEF MapsType, ConnType, KnownInv, InfoType, NeverExpires, NoDynamic
\* It is enough to look at the check of c and at its bucket.
<1>1. ASSUME conn'[c].pc # "free" => /\ info[conn'[c].user] # None
                                     /\ conn'[c].limit = info[conn'[c].user].speed
      PROVE  LimitIsCurrent'
  BY <1>0, <1>1 DEF LimitIsCurrent
<1>2. ASSUME UNCHANGED bucket PROVE BucketIsCurrent'
  BY <1>0, <1>2 DEF BucketIsCurrent, Rate
<1>3. ASSUME NEW u \in Uuids, NEW track \in BOOLEAN, NEW ip \in Addresses[u],
             CheckLoad(c, u, ip, track)
      PROVE  BucketIsCurrent' /\ LimitIsCurrent'
  <2>1. UNCHANGED bucket
    BY <1>3 DEF CheckLoad
  <2>2. CASE info[u] = None
    <3>1. conn' = conn
      BY <1>3, <2>2 DEF CheckLoad
    <3> QED  BY <1>1, <1>2, <2>1, <3>1 DEF LimitIsCurrent
  <2>3. CASE info[u] # None
    <3>1. determineSpeedLimit(info[u].speed, info[u].dynamic) = info[u].speed
      BY <1>0, <2>3, SpeedAlone DEF UserLimitInfo
    <3>2. info[u].expire # "past"
      BY <1>0, <2>3
    <3> DEFINE k == [pc |-> IF track THEN "alive" ELSE "bucket", user |-> u,
                     ip |-> IF track THEN ip ELSE None, track |-> track,
                     device |-> IF track THEN info[u].device ELSE 0,
                     alive |-> 0, limit |-> info[u].speed, map |-> 0]
    <3>3. conn' = [conn EXCEPT ![c] = k]
      BY <1>3, <2>3, <3>1, <3>2 DEF CheckLoad
    <3>4. conn'[c] = k
      BY <1>0, <3>3
    <3>5. conn'[c].user = u /\ conn'[c].limit = info[u].speed
      BY <3>4
    <3> QED  BY <1>1, <1>2, <2>1, <2>3, <3>5
  <2> QED  BY <2>2, <2>3
\* The other steps take user and limit along, or end the check.
<1>4. ASSUME conn[c].pc # "free",
             conn'[c] = NoCheck \/ (conn'[c].user = conn[c].user /\ conn'[c].limit = conn[c].limit)
      PROVE  LimitIsCurrent'
  BY <1>1, <1>4 DEF LimitIsCurrent, NoCheck
<1>5. CASE CheckAlive(c) \/ CheckOnline(c)
  <2>1. conn[c].pc # "free" /\ UNCHANGED bucket
    BY <1>5 DEF CheckAlive, CheckOnline, limiterVars
  <2>2. conn'[c].user = conn[c].user /\ conn'[c].limit = conn[c].limit
    BY <1>0, <1>5 DEF CheckAlive, CheckOnline, Moves, Check
  <2> QED  BY <1>2, <1>4, <2>1, <2>2
<1>6. CASE CheckIp(c) \/ CheckOld(c) \/ CheckForget(c)
  <2>1. conn[c].pc # "free" /\ UNCHANGED bucket
    BY <1>6 DEF CheckIp, CheckOld, CheckForget
  <2>2. ASSUME NEW p, Moves(c, p) PROVE conn'[c].user = conn[c].user /\ conn'[c].limit = conn[c].limit
    BY <1>0, <2>2 DEF Moves, Check
  <2>3. ASSUME Passes(c) PROVE conn'[c].user = conn[c].user /\ conn'[c].limit = conn[c].limit
    BY <1>0, <2>3 DEF Passes, Check
  <2>4. conn'[c].user = conn[c].user /\ conn'[c].limit = conn[c].limit
    BY <1>6, <2>2, <2>3 DEF CheckIp, CheckOld, CheckForget
  <2> QED  BY <1>2, <1>4, <2>1, <2>4
<1>7. CASE CheckReject(c)
  <2>1. conn[c].pc # "free" /\ UNCHANGED bucket /\ conn'[c] = NoCheck
    BY <1>0, <1>7 DEF CheckReject, Ends
  <2> QED  BY <1>2, <1>4, <2>1
<1>8. CASE CheckBucket(c) \/ CheckStore(c)
  <2>1. conn[c].pc # "free"
    BY <1>8 DEF CheckBucket, CheckStore
  <2>2. conn[c].user \in Uuids /\ info[conn[c].user] # None /\ conn[c].limit = info[conn[c].user].speed
    BY <2>1 DEF CheckOrder, LimitIsCurrent
  <2>3. bucket' = bucket \/ bucket' = [bucket EXCEPT ![conn[c].user] = Rate(conn[c].user)]
    BY <1>8, <2>2 DEF CheckBucket, CheckStore, Rate
  <2>4. BucketIsCurrent'
    BY <1>0, <1>2, <2>2, <2>3 DEF BucketIsCurrent, Rate
  <2>5. Ends(c) \/ Moves(c, "store")
    BY <1>8 DEF CheckBucket, CheckStore
  <2>6. conn'[c] = NoCheck \/ (conn'[c].user = conn[c].user /\ conn'[c].limit = conn[c].limit)
    BY <1>0, <2>5 DEF Ends, Moves, Check
  <2> QED  BY <1>4, <2>1, <2>4, <2>6
<1> QED  BY <1>3, <1>5, <1>6, <1>7, <1>8 DEF CheckLimit, CheckStep

\* UpdateUser: no check is in progress, and the bucket goes while the user is unknown.
LEMMA BucketUpdate ==
    ASSUME KnownInv, MapsType, OneCall, AddsAreNew, BucketIsCurrent, use.serial, UpdateUser
    PROVE  BucketIsCurrent' /\ LimitIsCurrent'
<1>0. /\ info \in [Uuids -> UserLimitInfo \cup {None}] /\ UpdateTypeOK /\ bucket \in [Uuids -> Nat]
      /\ None \notin UserLimitInfo
  BY LimiterAssumption DEF KnownInv, InfoType, MapsType
<1>1. UNCHANGED conn /\ (update.pc = "free" => MayBegin)
  BY DEF UpdateUser, UpdateBegins, UpdateForget, UpdateAdds, UpdateOnline, UpdateBucket,
         UpdateAlive, UpdateEnds
<1>2. LimitIsCurrent'
  <2>1. \A c \in Conns : conn[c].pc = "free"
    BY <1>1, NoneBusy DEF OneCall
  <2> QED  BY <1>1, <2>1 DEF LimitIsCurrent
<1>3. ASSUME NEW del \in SUBSET Uuids, NEW add \in SUBSET Uuids,
             NEW s \in use.speeds, NEW d \in use.devices, UpdateBegins(del, add, s, d)
      PROVE  BucketIsCurrent'
  BY <1>0, <1>3 DEF UpdateBegins, limiterVars, BucketIsCurrent, Rate
<1>4. ASSUME NEW u \in Uuids, UpdateForget(u) PROVE BucketIsCurrent'
  BY <1>0, <1>4 DEF UpdateForget, BucketIsCurrent, Rate, UpdateTypeOK
<1>5. ASSUME NEW u \in Uuids, UpdateAdds(u) PROVE BucketIsCurrent'
  <2>1. info[u] = None /\ update.pc = "loop"
    BY <1>5 DEF UpdateAdds, AddsAreNew
  <2>2. bucket[u] = 0
    BY <2>1 DEF BucketIsCurrent
  <2> QED  BY <1>0, <1>5, <2>1, <2>2 DEF UpdateAdds, BucketIsCurrent, Rate, UpdateTypeOK
<1>6. CASE UpdateOnline
  BY <1>0, <1>2, <1>6 DEF UpdateOnline, BucketIsCurrent, Rate, UpdateTypeOK
<1>7. CASE UpdateBucket
  BY <1>0, <1>2, <1>7 DEF UpdateBucket, BucketIsCurrent, Rate, UpdateTypeOK
<1>8. CASE UpdateAlive \/ UpdateEnds
  BY <1>0, <1>2, <1>8 DEF UpdateAlive, UpdateEnds, NoUpdate, limiterVars, BucketIsCurrent, Rate, UpdateTypeOK
<1> QED  BY <1>2, <1>3, <1>4, <1>5, <1>6, <1>7, <1>8 DEF UpdateUser

LEMMA BucketStep == KnownInv /\ MapsType /\ CheckOrder /\ OneCall /\ BucketInv /\ [Next]_vars => BucketInv'
<1> SUFFICES ASSUME KnownInv, MapsType, CheckOrder, OneCall, BucketInv, [Next]_vars PROVE BucketInv'
  OBVIOUS
<1>0. UNCHANGED use /\ NoDynamic /\ AddsAreNew
  BY DEF Next, vars, BucketInv
<1>1. NoDynamic' /\ AddsAreNew'
  BY <1>0, NoDynamicStep, AddsStep
<1>2. ASSUME use.serial, ~use.dynamic PROVE BucketIsCurrent' /\ LimitIsCurrent'
  <2>0. BucketIsCurrent /\ LimitIsCurrent
    BY <1>2 DEF BucketInv
  <2>1. UpdateUser \/ UNCHANGED <<info, update, listed>>
    BY <1>2, InfoSteps
  <2>2. CASE UpdateUser
    BY <1>0, <1>2, <2>0, <2>2, BucketUpdate
  <2>3. CASE UNCHANGED <<info, update, listed>>
    <3>1. ASSUME NEW c \in Conns, CheckLimit(c) PROVE BucketIsCurrent' /\ LimitIsCurrent'
      BY <1>0, <1>2, <2>0, <2>3, <3>1, BucketCheck
    <3>2. CASE UNCHANGED <<bucket, conn>>
      BY <2>0, <2>3, <3>2 DEF BucketIsCurrent, LimitIsCurrent, Rate
    <3>3. ASSUME GetOnlineDevice \/ SetAlive \/ UNCHANGED vars PROVE UNCHANGED <<bucket, conn>>
      BY <3>3 DEF GetOnlineDevice, SetAlive, vars, limiterVars
    <3>4. ASSUME NEW u \in Uuids, NEW limit \in Speeds \ {0}, UpdateDynamicSpeedLimit(u, limit)
          PROVE  UNCHANGED <<bucket, conn>>
      BY <3>4 DEF UpdateDynamicSpeedLimit
    <3>5. ASSUME NEW u \in Uuids, TimePasses(u) PROVE UNCHANGED <<bucket, conn>>
      BY <3>5 DEF TimePasses
    <3> QED  BY <2>2, <3>1, <3>2, <3>3, <3>4, <3>5 DEF Next
  <2> QED  BY <2>1, <2>2, <2>3
<1> QED  BY <1>0, <1>1, <1>2 DEF BucketInv

LEMMA BucketInit == Init => BucketInv
<1> SUFFICES ASSUME Init PROVE BucketInv
  OBVIOUS
<1>1. PICK s \in [Uuids -> use.speeds], d \in [Uuids -> use.devices] :
        info = [u \in Uuids |-> NewInfo(s[u], d[u])]
  BY DEF Init
<1>2. NoDynamic
  BY <1>1 DEF NoDynamic, Init, NoUpdate, NewInfo
<1>3. AddsAreNew
  BY DEF AddsAreNew, Init, NoUpdate
<1>4. BucketIsCurrent /\ LimitIsCurrent
  BY DEF BucketIsCurrent, LimitIsCurrent, Init, NoCheck
<1> QED  BY <1>2, <1>3, <1>4 DEF BucketInv

\* Without overlapping calls and dynamic limits, a user's bucket has the rate of the limits
\* in force: a change of the speed limit does not leave the old bucket.
THEOREM LimiterBucketMatches == Spec => []BucketMatchesLimit
<1>1. ASSUME BucketInv PROVE BucketMatchesLimit
  <2> SUFFICES ASSUME use.serial, Busy = {}, ~use.dynamic, NEW u \in Uuids, info[u] # None
               PROVE  bucket[u] \in {0, determineSpeedLimit(NodeLimit, info[u].speed)}
    BY DEF BucketMatchesLimit
  <2>1. update.pc = "free"
    BY DEF Busy
  <2> QED  BY <1>1, <2>1 DEF BucketInv, BucketIsCurrent, Rate
<1>2. BucketInv => BucketMatchesLimit
  BY <1>1
<1>3. Init => MapsType /\ CheckOrder /\ SeenInv
  BY TypesInit, SeenInit
<1>4. MapsType /\ OneCall /\ [Next]_vars => OneCall'
  BY OneCallStep
<1>5. SeenInv => OneCall
  BY DEF SeenInv
<1> QED  BY <1>2, <1>3, <1>4, <1>5, KnownInit, KnownStep, TypesStep, BucketInit, BucketStep, PTL DEF Spec
=============================================================================
