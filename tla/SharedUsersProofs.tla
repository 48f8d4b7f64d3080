-------------------------- MODULE SharedUsersProofs --------------------------
(***************************************************************************)
(* Facts about the sing and the hysteria2 core that hold for all sets of   *)
(* nodes, users and connections.                                           *)
(***************************************************************************)
EXTENDS SharedUsers, FiniteSetTheorems, WellFoundedInduction, TLAPS

Stages == {"idle", "closing", "closed", "deleted", "bare", "limited", "added"}

Points == {"off", "creating", "open", "raw", "cut", "closed", "stale"}

Reports == [user: SUBSET Users, n: Nat, at: {"storage", "table", "gone"}]

Typed ==
    /\ setting \in Setting
    /\ list \in [Tags -> SUBSET Users] /\ deleting \in [Tags -> SUBSET Users]
    /\ stage \in [Tags -> Stages] /\ pc \in [Conns -> Points]
    /\ count \in [Tags -> [Users -> Nat]]
    /\ report \in [Reporters -> Reports] /\ slice \in [Reporters -> [Users -> Nat]]
    /\ sent \in [Users -> Nat] /\ charged \in [Users -> Nat]

LEMMA TypedInit == Init => Typed
BY ConstantsAssumption DEF Init, Typed, Stages, Points, Reports, None, NoSlice

\* One storage set to a number.
LEMMA CountSet ==
    ASSUME Typed, NEW t \in Tags, NEW u \in Users, NEW n \in Nat,
           count' = count \/ count' = Counted(t, u) \/ count' = [count EXCEPT ![t][u] = n]
    PROVE  count' \in [Tags -> [Users -> Nat]]
<1>1. count \in [Tags -> [Users -> Nat]]
  BY DEF Typed
<1>2. CASE count' = Counted(t, u)
  BY <1>1, <1>2 DEF Counted
<1>3. CASE count' = [count EXCEPT ![t][u] = n]
  BY <1>1, <1>3
<1> QED  BY <1>1, <1>2, <1>3

LEMMA ReportsGone ==
    ASSUME NEW t \in Tags, NEW u, report \in [Reporters -> Reports]
    PROVE  TableGone(t) \in [Reporters -> Reports] /\ StorageGone(t, u) \in [Reporters -> Reports]
<1>1. ASSUME NEW x \in Reports
      PROVE  [x EXCEPT !.at = "gone"] \in Reports /\ [x EXCEPT !.at = "table"] \in Reports
  BY DEF Reports
<1> QED  BY <1>1 DEF TableGone, StorageGone

LEMMA TypedNew ==
    ASSUME Typed, NEW c \in Conns, NEW n \in Nat, NewTable(On[c], c, n)
    PROVE  count' \in [Tags -> [Users -> Nat]] /\ report' \in [Reporters -> Reports]
<1>1. count \in [Tags -> [Users -> Nat]] /\ report \in [Reporters -> Reports] /\ On[c] \in Tags
  BY ConstantsAssumption DEF Typed
<1>2. count' \in [Tags -> [Users -> Nat]]
  <2> DEFINE row == [u \in Users |-> IF u = Owner[c] THEN n ELSE 0]
  <2>1. row \in [Users -> Nat]
    OBVIOUS
  <2>2. count' = [count EXCEPT ![On[c]] = row]
    BY DEF NewTable
  <2> HIDE DEF row
  <2> QED  BY <1>1, <2>1, <2>2
<1>3. report' \in [Reporters -> Reports]
  BY <1>1, ReportsGone DEF NewTable
<1> QED  BY <1>2, <1>3

\* A step of a connection changes its own state and the traffic of its user.
LEMMA TypedConn ==
    ASSUME Typed, UNCHANGED setting, NEW c \in Conns,
           \/ Routed(c) \/ StoreTable(c) \/ Transfer(c) \/ TransferNothing(c)
           \/ Event(c) \/ LogTraffic(c) \/ LogLate(c) \/ ClearFlag(c) \/ StoreCounter(c)
    PROVE  Typed'
<1>0. On[c] \in Tags /\ Owner[c] \in Users
  BY ConstantsAssumption
<1>1. CASE Routed(c)
  BY <1>0, <1>1 DEF Routed, Typed, Points, panel, account
<1>2. CASE StoreTable(c)
  BY <1>0, <1>2, TypedNew DEF StoreTable, Typed, Points, panel, account
<1>3. CASE Transfer(c)
  <2>0. \/ count' = count \/ count' = Counted(On[c], Owner[c])
        \/ count' = [count EXCEPT ![On[c]][Owner[c]] = 1]
    BY <1>3 DEF Transfer, Add, Store
  <2>1. count' \in [Tags -> [Users -> Nat]]
    BY <1>0, <2>0, CountSet
  <2>2. sent' \in [Users -> Nat]
    BY <1>0, <1>3 DEF Transfer, Typed
  <2> QED  BY <1>3, <2>1, <2>2 DEF Transfer, Typed, panel
<1>4. CASE TransferNothing(c)
  <2>1. count' = [count EXCEPT ![On[c]][Owner[c]] = 0]
    BY <1>4 DEF TransferNothing, Store
  <2>2. count' \in [Tags -> [Users -> Nat]]
    BY <1>0, <2>1, CountSet
  <2> QED  BY <1>4, <2>2 DEF TransferNothing, Typed, panel, account
<1>5. CASE Event(c)
  BY <1>0, <1>5 DEF Event, Typed, Points, panel, account
<1>6. CASE LogTraffic(c)
  <2>0. count' = count \/ count' = Counted(On[c], Owner[c])
    BY <1>6 DEF LogTraffic
  <2>1. count' \in [Tags -> [Users -> Nat]]
    BY <1>0, <2>0, CountSet
  <2>2. sent' \in [Users -> Nat]
    BY <1>0, <1>6 DEF LogTraffic, Typed
  <2>3. pc' \in [Conns -> Points]
    BY <1>6 DEF LogTraffic, Typed, Points
  <2> QED  BY <1>6, <2>1, <2>2, <2>3 DEF LogTraffic, Typed, panel
<1>7. CASE LogLate(c)
  <2>1. sent' \in [Users -> Nat] /\ pc' \in [Conns -> Points]
    BY <1>0, <1>7 DEF LogLate, Typed, Points
  <2> QED  BY <1>7, <2>1 DEF LogLate, Typed, panel
<1>8. CASE ClearFlag(c)
  BY <1>0, <1>8 DEF ClearFlag, Typed, Points, panel, account
<1>9. CASE StoreCounter(c)
  BY <1>0, <1>9, TypedNew DEF StoreCounter, Typed, Points, panel, account
<1> QED  BY <1>1, <1>2, <1>3, <1>4, <1>5, <1>6, <1>7, <1>8, <1>9

LEMMA TypedReport ==
    ASSUME Typed, UNCHANGED setting, NEW r \in Reporters,
           LoadCounter(r) \/ ResetCounter(r) \/ ReportUserTraffic(r)
    PROVE  Typed'
<1>0. Of[r] \in Tags
  BY ConstantsAssumption
<1>1. CASE LoadCounter(r)
  BY <1>0, <1>1 DEF LoadCounter, Typed, Reports, panel
<1>2. ASSUME NEW u \in report[r].user, Reset(r, u, report[r].n, report[r].at)
      PROVE  /\ u \in Users /\ count' \in [Tags -> [Users -> Nat]]
             /\ slice' \in [Reporters -> [Users -> Nat]]
  <2>1. u \in Users /\ report[r].n \in Nat
    BY DEF Typed, Reports
  <2>2. count' \in [Tags -> [Users -> Nat]]
    <3>1. count' = count \/ count' = [count EXCEPT ![Of[r]][u] = 0]
      BY <1>2 DEF Reset, DeleteCounter
    <3> QED  BY <1>0, <2>1, <3>1, CountSet
  <2>3. slice' \in [Reporters -> [Users -> Nat]]
    <3>1. slice' = slice \/ slice' = [slice EXCEPT ![r][u] = @ + report[r].n]
      BY <1>2 DEF Reset, Appends
    <3> QED  BY <2>1, <3>1 DEF Typed
  <2> QED  BY <2>1, <2>2, <2>3
<1>3. CASE ResetCounter(r)
  <2>1. PICK u \in report[r].user :
          /\ Reset(r, u, report[r].n, report[r].at)
          /\ \/ report' = [report EXCEPT ![r] = None]
             \/ report' = [StorageGone(Of[r], u) EXCEPT ![r] = None]
    BY <1>3 DEF ResetCounter
  <2>2. count' \in [Tags -> [Users -> Nat]] /\ slice' \in [Reporters -> [Users -> Nat]]
    BY <1>2, <2>1
  <2>3. None \in Reports
    BY DEF Reports, None
  <2>4. report \in [Reporters -> Reports] /\ StorageGone(Of[r], u) \in [Reporters -> Reports]
    BY <1>0, ReportsGone DEF Typed
  <2>5. report' \in [Reporters -> Reports]
    BY <2>1, <2>3, <2>4
  <2> QED  BY <1>3, <2>2, <2>5 DEF ResetCounter, Typed, panel
<1>4. CASE ReportUserTraffic(r)
  <2>1. charged' \in [Users -> Nat]
    BY <1>4 DEF ReportUserTraffic, Typed
  <2>2. slice' \in [Reporters -> [Users -> Nat]]
    BY <1>4 DEF ReportUserTraffic, Typed, NoSlice
  <2> QED  BY <1>4, <2>1, <2>2 DEF ReportUserTraffic, Typed, panel
<1> QED  BY <1>1, <1>3, <1>4

LEMMA TypedGone ==
    ASSUME Typed, NEW t \in Tags, NodeGone(t)
    PROVE  /\ count' \in [Tags -> [Users -> Nat]] /\ report' \in [Reporters -> Reports]
           /\ pc' \in [Conns -> Points]
<1>1. pc' \in [Conns -> Points]
  BY DEF Typed, NodeGone, Points
<1>2. CASE core = "sing"
  BY <1>1, <1>2 DEF Typed, NodeGone
<1>3. CASE core # "sing"
  <2>1. count' \in [Tags -> [Users -> Nat]]
    BY <1>3 DEF Typed, NodeGone, NoSlice
  <2>2. report' \in [Reporters -> Reports]
    BY <1>3, ReportsGone DEF Typed, NodeGone
  <2> QED  BY <1>1, <2>1, <2>2
<1> QED  BY <1>2, <1>3

LEMMA TypedController ==
    ASSUME Typed, UNCHANGED setting, NEW t \in Tags,
           \/ Close(t) \/ CloseNode(t) \/ ReloadNode(t)
           \/ ReplaceLimiter(t) \/ AddNode(t) \/ AddUsers(t)
    PROVE  Typed'
<1>1. CASE Close(t)
  BY <1>1 DEF Close, Begins, DropLimiter, Typed, Stages, Points, account
<1>2. CASE CloseNode(t)
  BY <1>2, TypedGone DEF CloseNode, DelNode, Proceeds, Typed, Stages, account
<1>3. CASE ReloadNode(t)
  BY <1>3, TypedGone DEF ReloadNode, DelNode, Begins, Typed, Stages, account
<1>4. CASE ReplaceLimiter(t) \/ AddNode(t) \/ AddUsers(t)
  BY <1>4 DEF ReplaceLimiter, DropLimiter, AddNode, AddUsers, Proceeds, Typed, Stages, Points, others, account
<1> QED  BY <1>1, <1>2, <1>3, <1>4

LEMMA TypedUser ==
    ASSUME Typed, UNCHANGED setting, NEW t \in Tags, NEW u \in Users,
           AddUser(t, u) \/ DelUser(t, u) \/ DelFromMap(t, u)
    PROVE  Typed'
<1>1. CASE AddUser(t, u)
  BY <1>1 DEF AddUser, Begins, Typed, account
<1>2. CASE DelUser(t, u)
  <2>1. count' \in [Tags -> [Users -> Nat]]
    <3>1. count' = [count EXCEPT ![t][u] = 0]
      BY <1>2 DEF DelUser, DeleteCounter
    <3> QED  BY <3>1, CountSet
  <2>2. report' \in [Reporters -> Reports]
    BY <1>2, ReportsGone DEF DelUser, Typed
  <2>3. list' \in [Tags -> SUBSET Users] /\ deleting' \in [Tags -> SUBSET Users]
    <3>1. list' = [list EXCEPT ![t] = @ \ {u}]
      BY <1>2 DEF DelUser
    <3>2. deleting' = deleting \/ deleting' = [deleting EXCEPT ![t] = @ \cup {u}]
      BY <1>2 DEF DelUser
    <3> QED  BY <3>1, <3>2 DEF Typed
  <2>4. UNCHANGED <<stage, pc, account>>
    BY <1>2 DEF DelUser, account
  <2>5. /\ setting' \in Setting /\ stage' \in [Tags -> Stages] /\ pc' \in [Conns -> Points]
        /\ sent' \in [Users -> Nat] /\ charged' \in [Users -> Nat]
        /\ slice' \in [Reporters -> [Users -> Nat]]
    BY <2>4 DEF Typed, account
  <2> QED  BY <2>1, <2>2, <2>3, <2>5 DEF Typed
<1>3. CASE DelFromMap(t, u)
  BY <1>3 DEF DelFromMap, Typed, account
<1> QED  BY <1>1, <1>2, <1>3

LEMMA TypedStep == Typed /\ [Next]_vars => Typed'
<1>1. Typed /\ UNCHANGED vars => Typed'
  BY DEF Typed, vars
<1> QED  BY <1>1, TypedConn, TypedReport, TypedController, TypedUser DEF Next

-----------------------------------------------------------------------------
(* The map from uuid to uid.  For a user that was never removed, what is   *)
(* in the map is on a list, and a list whose controller is idle is in the  *)
(* map; deletions under way are of removed users.                          *)

MapInv ==
    /\ \A u \in Users \ removed :
        /\ u \in uidMap => \E t \in Tags : u \in list[t]
        /\ \A t \in Tags : u \in list[t] /\ stage[t] = "idle" => u \in uidMap
    /\ \A t \in Tags : deleting[t] \subseteq removed

mapVars == <<list, uidMap, deleting, stage, removed>>

LEMMA MapInit == Init => MapInv
BY ConstantsAssumption DEF Init, MapInv

LEMMA MapUnchanged == MapInv /\ UNCHANGED mapVars => MapInv'
BY DEF MapInv, mapVars

LEMMA MapStep == Typed /\ MapInv /\ [Next]_vars => MapInv'
<1> SUFFICES ASSUME Typed, MapInv, [Next]_vars PROVE MapInv'
  OBVIOUS
<1>0. list \in [Tags -> SUBSET Users] /\ deleting \in [Tags -> SUBSET Users] /\ stage \in [Tags -> Stages]
  BY DEF Typed
<1>1. ASSUME NEW c \in Conns,
             \/ Routed(c) \/ StoreTable(c) \/ Transfer(c) \/ TransferNothing(c)
             \/ Event(c) \/ LogTraffic(c) \/ LogLate(c) \/ ClearFlag(c) \/ StoreCounter(c)
      PROVE  MapInv'
  BY <1>1, MapUnchanged DEF Routed, StoreTable, Transfer, TransferNothing, Event, LogTraffic, LogLate,
                  ClearFlag, StoreCounter, panel, mapVars
<1>2. ASSUME NEW r \in Reporters, LoadCounter(r) \/ ResetCounter(r) \/ ReportUserTraffic(r) PROVE MapInv'
  BY <1>2, MapUnchanged DEF LoadCounter, ResetCounter, ReportUserTraffic, panel, mapVars
<1>3. ASSUME NEW t \in Tags, NEW u \in Users, AddUser(t, u) PROVE MapInv'
  BY <1>0, <1>3 DEF AddUser, MapInv
<1>4. ASSUME NEW t \in Tags, NEW u \in Users, DelUser(t, u) PROVE MapInv'
  BY <1>0, <1>4 DEF DelUser, MapInv
<1>5. ASSUME NEW t \in Tags, NEW u \in Users, DelFromMap(t, u) PROVE MapInv'
  BY <1>0, <1>5 DEF DelFromMap, MapInv
<1>6. ASSUME NEW t \in Tags, Close(t) PROVE MapInv'
  BY <1>0, <1>6 DEF Close, MapInv
<1>7. ASSUME NEW t \in Tags, CloseNode(t) PROVE MapInv'
  BY <1>0, <1>7 DEF CloseNode, DelNode, Proceeds, MapInv
<1>8. ASSUME NEW t \in Tags, ReloadNode(t) PROVE MapInv'
  BY <1>0, <1>8 DEF ReloadNode, DelNode, MapInv
<1>9. ASSUME NEW t \in Tags, ReplaceLimiter(t) \/ AddNode(t) PROVE MapInv'
  BY <1>0, <1>9 DEF ReplaceLimiter, AddNode, Proceeds, others, MapInv
<1>10. ASSUME NEW t \in Tags, AddUsers(t) PROVE MapInv'
  BY <1>0, <1>10 DEF AddUsers, Proceeds, others, MapInv
<1>11. CASE UNCHANGED vars
  BY <1>11, MapUnchanged DEF vars, mapVars
<1> QED  BY <1>1, <1>2, <1>3, <1>4, <1>5, <1>6, <1>7, <1>8, <1>9, <1>10, <1>11 DEF Next

\* A user that was not removed from any list is in the shared map exactly if it is on some
\* list, except while the controller of one of its nodes is busy or closed.
THEOREM SharedMapFollowsLists == Spec => []MapFollowsLists
<1>1. MapInv => MapFollowsLists
  BY DEF MapInv, MapFollowsLists
<1> QED  BY <1>1, TypedInit, TypedStep, MapInit, MapStep, PTL DEF Spec

-----------------------------------------------------------------------------
(* Device limits: a flag is set only by a rejected event.                  *)

FlagInv == over \subseteq rejected /\ CutNeedsRejection

LEMMA FlagInit == Init => FlagInv
BY DEF Init, FlagInv, CutNeedsRejection

LEMMA FlagStep == Typed /\ FlagInv /\ [Next]_vars => FlagInv'
<1> SUFFICES ASSUME Typed, FlagInv, [Next]_vars PROVE FlagInv'
  OBVIOUS
<1>0. pc \in [Conns -> Points]
  BY DEF Typed
<1>1. ASSUME NEW c \in Conns, Routed(c) \/ StoreTable(c) \/ StoreCounter(c) PROVE FlagInv'
  BY <1>0, <1>1 DEF Routed, StoreTable, StoreCounter, FlagInv, CutNeedsRejection, Flag
<1>2. ASSUME NEW c \in Conns, Transfer(c) \/ TransferNothing(c) PROVE FlagInv'
  BY <1>2 DEF Transfer, TransferNothing, FlagInv, CutNeedsRejection, Flag
<1>3. ASSUME NEW c \in Conns, Event(c) PROVE FlagInv'
  BY <1>0, <1>3 DEF Event, Judge, FlagInv, CutNeedsRejection
<1>4. ASSUME NEW c \in Conns, LogTraffic(c) \/ LogLate(c) PROVE FlagInv'
  BY <1>0, <1>4 DEF LogTraffic, LogLate, FlagInv, CutNeedsRejection, Flag
<1>5. ASSUME NEW c \in Conns, ClearFlag(c) PROVE FlagInv'
  BY <1>0, <1>5 DEF ClearFlag, FlagInv, CutNeedsRejection, Flag
<1>6. ASSUME NEW t \in Tags, AddNode(t) \/ AddUsers(t) PROVE FlagInv'
  BY <1>6 DEF AddNode, AddUsers, others, FlagInv, CutNeedsRejection, Flag
<1>7. ASSUME NEW r \in Reporters, LoadCounter(r) \/ ResetCounter(r) \/ ReportUserTraffic(r) PROVE FlagInv'
  BY <1>7 DEF LoadCounter, ResetCounter, ReportUserTraffic, FlagInv, CutNeedsRejection, Flag
<1>8. ASSUME NEW t \in Tags, Close(t) \/ ReplaceLimiter(t) PROVE FlagInv'
  BY <1>0, <1>8 DEF Close, ReplaceLimiter, DropLimiter, others, FlagInv, CutNeedsRejection, Flag
<1>9. ASSUME NEW t \in Tags, CloseNode(t) \/ ReloadNode(t) PROVE FlagInv'
  <2>1. UNCHANGED <<over, rejected>>
    BY <1>9 DEF CloseNode, ReloadNode, DelNode
  <2>2. \A c \in Conns : pc'[c] = "cut" => pc[c] = "cut"
    BY <1>0, <1>9 DEF CloseNode, ReloadNode, DelNode, NodeGone
  <2> QED  BY <2>1, <2>2 DEF FlagInv, CutNeedsRejection, Flag
<1>10. ASSUME NEW t \in Tags, NEW u \in Users, AddUser(t, u) \/ DelUser(t, u) \/ DelFromMap(t, u)
      PROVE FlagInv'
  BY <1>10 DEF AddUser, DelUser, DelFromMap, FlagInv, CutNeedsRejection, Flag
<1>11. CASE UNCHANGED vars
  BY <1>11 DEF vars, FlagInv, CutNeedsRejection, Flag
<1> QED  BY <1>1, <1>2, <1>3, <1>4, <1>5, <1>6, <1>7, <1>8, <1>9, <1>10, <1>11 DEF Next

\* hysteria2 cuts a connection for the device limit only after an event of the same user on
\* the same node was rejected.
THEOREM SharedCutNeedsRejection == Spec => []CutNeedsRejection
<1>1. FlagInv => CutNeedsRejection
  BY DEF FlagInv
<1> QED  BY <1>1, TypedInit, TypedStep, FlagInit, FlagStep, PTL DEF Spec

-----------------------------------------------------------------------------
(* Limiters: a node in the core has one, unless its controller is closing  *)
(* it; a reload takes the node out before it touches the limiter.  So what *)
(* an event misses a limiter for in a reload, or after Close, is a         *)
(* connection whose node is gone.                                          *)

LimiterInv ==
    /\ \A t \in Tags :
        /\ t \in up /\ t \notin limited => stage[t] = "closing"
        /\ stage[t] \in {"deleted", "bare"} => t \notin up
        /\ t \notin limited => stage[t] \in {"closing", "closed", "bare"}
    /\ PanicNeedsCause

limiterVars == <<limited, up, stage>>

LEMMA LimiterInit == Init => LimiterInv
BY DEF Init, LimiterInv, PanicNeedsCause

LEMMA LimiterUnchanged == LimiterInv /\ ~crashed' /\ UNCHANGED limiterVars => LimiterInv'
BY DEF LimiterInv, PanicNeedsCause, limiterVars

LEMMA LimiterStep == Typed /\ LimiterInv /\ [Next]_vars => LimiterInv'
<1> SUFFICES ASSUME Typed, LimiterInv, [Next]_vars PROVE LimiterInv'
  OBVIOUS
<1>0. stage \in [Tags -> Stages] /\ pc \in [Conns -> Points]
  BY DEF Typed
<1>1. ASSUME NEW c \in Conns, ~crashed,
             \/ Routed(c) \/ StoreTable(c) \/ Transfer(c) \/ TransferNothing(c)
             \/ LogTraffic(c) \/ LogLate(c) \/ ClearFlag(c) \/ StoreCounter(c)
      PROVE  LimiterInv'
  BY <1>1, LimiterUnchanged DEF Routed, StoreTable, Transfer, TransferNothing, LogTraffic, LogLate,
                  ClearFlag, StoreCounter, panel, limiterVars
<1>2. ASSUME NEW c \in Conns, ~crashed, Event(c) PROVE LimiterInv'
  <2>0. On[c] \in Tags /\ UNCHANGED limiterVars
    BY <1>2, ConstantsAssumption DEF Event, panel, limiterVars
  <2>1. CASE On[c] \in limited
    BY <1>2, <2>0, <2>1, LimiterUnchanged DEF Event
  <2>2. CASE On[c] \notin limited
    <3>1. pc' = pc /\ (pc[c] = "stale" \/ On[c] \in up)
      BY <1>2, <2>2 DEF Event
    <3>2. stage[On[c]] = "closing" \/ (stage[On[c]] \in {"closed", "bare"} /\ pc[c] = "stale")
      BY <2>0, <2>2, <3>1 DEF LimiterInv
    <3>3. PanicNeedsCause'
      BY <2>0, <3>1, <3>2 DEF PanicNeedsCause, limiterVars
    <3> QED  BY <2>0, <3>3 DEF LimiterInv, limiterVars
  <2> QED  BY <2>1, <2>2
<1>3. ASSUME NEW r \in Reporters, ~crashed, LoadCounter(r) \/ ResetCounter(r) \/ ReportUserTraffic(r)
      PROVE LimiterInv'
  BY <1>3, LimiterUnchanged DEF LoadCounter, ResetCounter, ReportUserTraffic, panel, limiterVars
<1>4. ASSUME NEW t \in Tags, NEW u \in Users, ~crashed, AddUser(t, u) \/ DelUser(t, u) \/ DelFromMap(t, u)
      PROVE LimiterInv'
  BY <1>4, LimiterUnchanged DEF AddUser, DelUser, DelFromMap, limiterVars
<1>5. ASSUME NEW t \in Tags, ~crashed,
             Close(t) \/ CloseNode(t) \/ ReloadNode(t) \/ ReplaceLimiter(t) \/ AddNode(t) \/ AddUsers(t)
      PROVE LimiterInv'
  <2>1. UNCHANGED crashed
    BY <1>5 DEF Close, CloseNode, ReloadNode, DelNode, ReplaceLimiter, AddNode, AddUsers, others
  <2>2. CASE Close(t)
    BY <1>0, <1>5, <2>1, <2>2 DEF Close, Begins, DropLimiter, LimiterInv, PanicNeedsCause
  <2>3. CASE CloseNode(t)
    BY <1>0, <1>5, <2>1, <2>3 DEF CloseNode, DelNode, Proceeds, LimiterInv, PanicNeedsCause
  <2>4. CASE ReloadNode(t)
    BY <1>0, <1>5, <2>1, <2>4 DEF ReloadNode, DelNode, Begins, LimiterInv, PanicNeedsCause
  <2>5. CASE ReplaceLimiter(t)
    BY <1>0, <1>5, <2>1, <2>5 DEF ReplaceLimiter, DropLimiter, Proceeds, LimiterInv, PanicNeedsCause
  <2>6. CASE AddNode(t) \/ AddUsers(t)
    BY <1>0, <1>5, <2>1, <2>6 DEF AddNode, AddUsers, Proceeds, LimiterInv, PanicNeedsCause
  <2> QED  BY <1>5, <2>2, <2>3, <2>4, <2>5, <2>6
<1>6. CASE UNCHANGED vars
  BY <1>6 DEF vars, LimiterInv, PanicNeedsCause
<1> QED  BY <1>1, <1>2, <1>3, <1>4, <1>5, <1>6 DEF Next

\* An event finds no limiter, and panics, only while Controller.Close runs, or if it was in
\* flight when Close or a reload deleted the node.
THEOREM SharedPanicNeedsCause == Spec => []PanicNeedsCause
<1>1. LimiterInv => PanicNeedsCause
  BY DEF LimiterInv
<1> QED  BY <1>1, TypedInit, TypedStep, LimiterInit, LimiterStep, PTL DEF Spec
-----------------------------------------------------------------------------
(* Reasoning about traffic without sums.  n pieces were sent; b[p] of them *)
(* are asked for by place p.  The pieces cover the demands when each can   *)
(* be given to at most one place so that every place has what it asks for. *)

Covers(P, n, b) ==
    \E w \in [1..n -> P \X Nat] : \A p \in P : \A k \in 1..b[p] : \E i \in 1..n : w[i] = <<p, k>>

\* No pieces cover no demands.
LEMMA CoversNothing ==
    ASSUME NEW P, NEW p \in P, NEW b, \A q \in P : b[q] = 0
    PROVE  Covers(P, 0, b)
<1> DEFINE w == [i \in 1..0 |-> <<p, 0>>]
<1>1. w \in [1..0 -> P \X Nat]
  OBVIOUS
<1>2. \A q \in P : 1..b[q] = {}
  OBVIOUS
<1> QED  BY <1>1, <1>2 DEF Covers

\* No place holds more than there is.
LEMMA CoversBound ==
    ASSUME NEW P, NEW n \in Nat, NEW b \in [P -> Nat], Covers(P, n, b), NEW p \in P
    PROVE  b[p] <= n
<1>1. PICK w \in [1..n -> P \X Nat] : \A k \in 1..b[p] : \E i \in 1..n : w[i] = <<p, k>>
  BY DEF Covers
<1> DEFINE f == [k \in 1..b[p] |-> CHOOSE i \in 1..n : w[i] = <<p, k>>]
<1>2. \A k \in 1..b[p] : f[k] \in 1..n /\ w[f[k]] = <<p, k>>
  BY <1>1
<1>3. f \in Injection(1..b[p], 1..n)
  <2>1. f \in [1..b[p] -> 1..n]
    BY <1>2
  <2>2. \A j, k \in 1..b[p] : f[j] = f[k] => j = k
    <3> HIDE DEF f
    <3> QED  BY <1>2
  <2> QED  BY <2>1, <2>2 DEF Injection, IsInjective
<1>4. IsFiniteSet(1..b[p]) /\ IsFiniteSet(1..n) /\ Cardinality(1..b[p]) = b[p] /\ Cardinality(1..n) = n
  <2>1. ASSUME NEW k \in Nat PROVE IsFiniteSet(1..k) /\ Cardinality(1..k) = k
    <3>1. 1 \in Int /\ k \in Int
      OBVIOUS
    <3>2. IsFiniteSet(1..k) /\ Cardinality(1..k) = IF 1 > k THEN 0 ELSE k - 1 + 1
      BY <3>1, FS_Interval
    <3> QED  BY <3>2
  <2>2. b[p] \in Nat
    OBVIOUS
  <2> QED  BY <2>1, <2>2
<1>5. Cardinality(1..b[p]) <= Cardinality(1..n)
  BY <1>3, <1>4, FS_Injection
<1> QED  BY <1>4, <1>5

\* A new piece is put in one place.
LEMMA CoversPut ==
    ASSUME NEW P, NEW n \in Nat, NEW b \in [P -> Nat], Covers(P, n, b), NEW p \in P
    PROVE  Covers(P, n + 1, [b EXCEPT ![p] = @ + 1])
<1>1. PICK w \in [1..n -> P \X Nat] : \A q \in P : \A k \in 1..b[q] : \E i \in 1..n : w[i] = <<q, k>>
  BY DEF Covers
<1> DEFINE v == [i \in 1..(n + 1) |-> IF i = n + 1 THEN <<p, b[p] + 1>> ELSE w[i]]
           c == [b EXCEPT ![p] = @ + 1]
<1>2. v \in [1..(n + 1) -> P \X Nat]
  OBVIOUS
<1>3. v[n + 1] = <<p, b[p] + 1>> /\ \A i \in 1..n : v[i] = w[i] /\ i \in 1..(n + 1)
  OBVIOUS
<1>4. c[p] = b[p] + 1 /\ \A q \in P \ {p} : c[q] = b[q]
  OBVIOUS
<1> HIDE DEF v, c
<1>5. ASSUME NEW q \in P, NEW k \in 1..c[q] PROVE \E i \in 1..(n + 1) : v[i] = <<q, k>>
  <2>1. CASE k \in 1..b[q]
    BY <1>1, <1>3, <2>1
  <2>2. CASE k \notin 1..b[q]
    <3>1. q = p /\ k = b[p] + 1
      BY <1>4, <2>2
    <3>2. v[n + 1] = <<q, k>> /\ n + 1 \in 1..(n + 1)
      BY <1>3, <3>1
    <3> QED  BY <3>2
  <2> QED  BY <2>1, <2>2
<1>6. Covers(P, n + 1, c)
  BY <1>2, <1>5 DEF Covers
<1> QED  BY <1>6 DEF c

\* All pieces of one place are moved to another one.
LEMMA CoversMove ==
    ASSUME NEW P, NEW n \in Nat, NEW b \in [P -> Nat], Covers(P, n, b),
           NEW p \in P, NEW q \in P, p # q
    PROVE  Covers(P, n, [b EXCEPT ![p] = 0, ![q] = @ + b[p]])
<1>1. PICK w \in [1..n -> P \X Nat] : \A r \in P : \A k \in 1..b[r] : \E i \in 1..n : w[i] = <<r, k>>
  BY DEF Covers
<1> DEFINE v == [i \in 1..n |-> IF w[i][1] = p THEN <<q, b[q] + w[i][2]>> ELSE w[i]]
           c == [b EXCEPT ![p] = 0, ![q] = @ + b[p]]
<1>2. v \in [1..n -> P \X Nat]
  OBVIOUS
<1>3. \A i \in 1..n : \A r, k : w[i] = <<r, k>> => v[i] = IF r = p THEN <<q, b[q] + k>> ELSE <<r, k>>
  <2> SUFFICES ASSUME NEW i \in 1..n, NEW r, NEW k, w[i] = <<r, k>>
               PROVE  v[i] = IF r = p THEN <<q, b[q] + k>> ELSE <<r, k>>
    OBVIOUS
  <2>1. w[i][1] = r /\ w[i][2] = k
    OBVIOUS
  <2> QED  BY <2>1
<1>4. c[p] = 0 /\ c[q] = b[q] + b[p] /\ \A r \in P \ {p, q} : c[r] = b[r]
  OBVIOUS
<1> HIDE DEF v, c
<1>5. ASSUME NEW r \in P, NEW k \in 1..c[r] PROVE \E i \in 1..n : v[i] = <<r, k>>
  <2>1. CASE r # p /\ k \in 1..b[r]
    <3>1. PICK i \in 1..n : w[i] = <<r, k>>
      BY <1>1, <2>1
    <3>2. v[i] = <<r, k>>
      BY <1>3, <2>1, <3>1
    <3> QED  BY <3>2
  <2>2. CASE ~(r # p /\ k \in 1..b[r])
    <3>1. r = q /\ k - b[q] \in 1..b[p] /\ k = b[q] + (k - b[q])
      BY <1>4, <2>2
    <3>2. PICK i \in 1..n : w[i] = <<p, k - b[q]>>
      BY <1>1, <3>1
    <3>3. v[i] = <<q, b[q] + (k - b[q])>>
      BY <1>3, <3>2
    <3> QED  BY <3>1, <3>3
  <2> QED  BY <2>1, <2>2
<1>6. Covers(P, n, c)
  BY <1>2, <1>5 DEF Covers
<1> QED  BY <1>6 DEF c
-----------------------------------------------------------------------------
(* Traffic.  For each user the pieces that were sent cover what is charged *)
(* for it, what is in the slices and in the counters, and what a report    *)
(* has loaded: a report whose storage is still in the table has loaded     *)
(* pieces of the counter, which its reset takes off; one whose storage was *)
(* deleted or replaced has taken the pieces with it.  Two reports that     *)
(* have loaded the same counter ask for its pieces twice, and nothing is   *)
(* said about its user any more (Alone).  OneUser: a report reads one user *)
(* at a time.                                                              *)

Paid == <<"paid", "all">>

InCounter(t) == <<"counter", t>>

InReport(r) == <<"report", r>>

InSlice(r) == <<"slice", r>>

Places == {Paid} \cup {InCounter(t) : t \in Tags} \cup {InReport(r) : r \in Reporters}
                 \cup {InSlice(r) : r \in Reporters}

LoadedFrom(x, r) == IF x.at = "storage" THEN InCounter(Of[r]) ELSE InReport(r)

DemandsOf(r, u, b) ==
    /\ slice[r][u] <= b[InSlice(r)]
    /\ u \in report[r].user => report[r].n <= b[LoadedFrom(report[r], r)]

Demands(u, b) ==
    /\ charged[u] <= b[Paid]
    /\ \A t \in Tags : count[t][u] <= b[InCounter(t)]
    /\ \A r \in Reporters : DemandsOf(r, u, b)

Backed(u) == \E b \in [Places -> Nat] : Covers(Places, sent[u], b) /\ Demands(u, b)

OneUser == \A r \in Reporters : \A u, v \in report[r].user : u = v

\* A report of node t that has loaded the counter of u in the table.
Reads(r, t, u) == Of[r] = t /\ u \in report[r].user /\ report[r].at = "storage"

Alone ==
    \A u \in Users \ doubled : \A t \in Tags : \A q, r \in Reporters :
        Reads(q, t, u) /\ Reads(r, t, u) => q = r

AccountInv == OneUser /\ Alone /\ \A u \in Users \ doubled : Backed(u)

LEMMA PlacesDiffer ==
    /\ Paid \in Places
    /\ \A t \in Tags : InCounter(t) \in Places /\ InCounter(t) # Paid
    /\ \A r \in Reporters : /\ InReport(r) \in Places /\ InSlice(r) \in Places
                            /\ InReport(r) # Paid /\ InSlice(r) # Paid
                            /\ \A x : LoadedFrom(x, r) \in Places /\ LoadedFrom(x, r) # Paid
    /\ \A t, r : InCounter(t) # InReport(r) /\ InCounter(t) # InSlice(r) /\ InReport(t) # InSlice(r)
    /\ \A x, y : /\ InCounter(x) = InCounter(y) => x = y
                 /\ InReport(x) = InReport(y) => x = y
                 /\ InSlice(x) = InSlice(y) => x = y
<1>1. \A x, y : /\ InCounter(x) = InCounter(y) => x = y
                /\ InReport(x) = InReport(y) => x = y
                /\ InSlice(x) = InSlice(y) => x = y
  BY DEF InCounter, InReport, InSlice
<1>2. \A t, r : /\ InCounter(t) # InReport(r) /\ InCounter(t) # InSlice(r) /\ InReport(t) # InSlice(r)
                /\ InCounter(t) # Paid /\ InReport(t) # Paid /\ InSlice(t) # Paid
  BY DEF Paid, InCounter, InReport, InSlice
<1>3. /\ Paid \in Places /\ \A t \in Tags : InCounter(t) \in Places
      /\ \A r \in Reporters : InReport(r) \in Places /\ InSlice(r) \in Places
  BY DEF Places
<1>4. \A r \in Reporters : Of[r] \in Tags
  BY ConstantsAssumption
<1>5. \A r \in Reporters : \A x : LoadedFrom(x, r) \in Places /\ LoadedFrom(x, r) # Paid
  BY <1>2, <1>3, <1>4 DEF LoadedFrom
<1> QED  BY <1>1, <1>2, <1>3, <1>5

LEMMA AccountInit == Init => AccountInv
<1> SUFFICES ASSUME Init PROVE AccountInv
  OBVIOUS
<1>1. OneUser /\ Alone
  BY DEF Init, OneUser, Alone, Reads, None
<1>2. ASSUME NEW u \in Users PROVE Backed(u)
  <2> DEFINE b == [p \in Places |-> 0]
  <2>1. b \in [Places -> Nat] /\ Paid \in Places
    BY DEF Places
  <2>2. Covers(Places, sent[u], b)
    <3>1. sent[u] = 0
      BY DEF Init
    <3> QED  BY <2>1, <3>1, CoversNothing
  <2>3. Demands(u, b)
    <3>1. \A p \in Places : b[p] = 0
      OBVIOUS
    <3>2. charged[u] = 0 /\ \A t \in Tags : count[t][u] = 0
      BY DEF Init
    <3>3. \A r \in Reporters : slice[r][u] = 0 /\ report[r].user = {}
      BY DEF Init, None, NoSlice
    <3> HIDE DEF b
    <3> QED  BY <3>1, <3>2, <3>3, PlacesDiffer DEF Demands, DemandsOf
  <2> QED  BY <2>1, <2>2, <2>3 DEF Backed
<1> QED  BY <1>1, <1>2 DEF AccountInv

\* What is still counted and loaded needs no more than before; a report may load a counter, and
\* a slice may be dropped.
KeepsReport(u, r) ==
    u \in report'[r].user =>
        \/ u \in report[r].user /\ report'[r] = report[r]
        \/ report'[r].at = "storage" /\ report'[r].n = count[Of[r]][u]

LEMMA KeepBacked ==
    ASSUME Typed, Typed', NEW u \in Users, Backed(u),
           sent'[u] = sent[u], charged'[u] = charged[u],
           \A t \in Tags : count'[t][u] <= count[t][u],
           \A r \in Reporters : slice'[r][u] <= slice[r][u] /\ KeepsReport(u, r)
    PROVE  Backed(u)'
<1>1. PICK b \in [Places -> Nat] : Covers(Places, sent[u], b) /\ Demands(u, b)
  BY DEF Backed
<1>2. charged'[u] <= b[Paid]
  BY <1>1 DEF Demands
<1>3. ASSUME NEW t \in Tags PROVE count'[t][u] <= b[InCounter(t)]
  <2>1. b[InCounter(t)] \in Nat /\ count[t][u] \in Nat /\ count'[t][u] \in Nat
    BY PlacesDiffer DEF Typed
  <2>2. count[t][u] <= b[InCounter(t)] /\ count'[t][u] <= count[t][u]
    BY <1>1 DEF Demands
  <2> QED  BY <2>1, <2>2
<1>4. ASSUME NEW r \in Reporters PROVE DemandsOf(r, u, b)'
  <2>1. b[InSlice(r)] \in Nat /\ slice[r][u] \in Nat /\ slice'[r][u] \in Nat
    BY PlacesDiffer DEF Typed
  <2>2. slice[r][u] <= b[InSlice(r)] /\ slice'[r][u] <= slice[r][u]
    BY <1>1 DEF Demands, DemandsOf
  <2>3. u \in report'[r].user => report'[r].n <= b[LoadedFrom(report'[r], r)]
    <3>1. Of[r] \in Tags
      BY ConstantsAssumption
    <3>2. count[Of[r]][u] <= b[InCounter(Of[r])] /\ DemandsOf(r, u, b)
      BY <1>1, <3>1 DEF Demands
    <3> QED  BY <3>2 DEF DemandsOf, KeepsReport, LoadedFrom
  <2> QED  BY <2>1, <2>2, <2>3 DEF DemandsOf
<1>5. Demands(u, b)'
  BY <1>2, <1>3, <1>4 DEF Demands
<1> QED  BY <1>1, <1>5 DEF Backed

\* One more piece was sent through node t, and is at most counted there.
LEMMA SendBacked ==
    ASSUME Typed, Typed', NEW u \in Users, NEW t \in Tags, Backed(u),
           sent'[u] = sent[u] + 1, charged'[u] = charged[u], UNCHANGED <<report, slice>>,
           count'[t][u] <= count[t][u] + 1, \A x \in Tags \ {t} : count'[x][u] = count[x][u]
    PROVE  Backed(u)'
<1>1. PICK b \in [Places -> Nat] : Covers(Places, sent[u], b) /\ Demands(u, b)
  BY DEF Backed
<1> DEFINE c == [b EXCEPT ![InCounter(t)] = @ + 1]
<1>2. c \in [Places -> Nat] /\ Covers(Places, sent'[u], c)
  <2>1. sent[u] \in Nat /\ InCounter(t) \in Places
    BY PlacesDiffer DEF Typed
  <2>2. Covers(Places, sent[u] + 1, c)
    BY <1>1, <2>1, CoversPut
  <2>3. c \in [Places -> Nat]
    BY <2>1
  <2> HIDE DEF c
  <2> QED  BY <2>2, <2>3
<1>3. \A p \in Places : b[p] \in Nat /\ c[p] \in Nat /\ b[p] <= c[p]
  BY <1>2
<1>4. c[InCounter(t)] = b[InCounter(t)] + 1
  BY PlacesDiffer
<1> HIDE DEF c
<1>5. charged'[u] <= c[Paid]
  BY <1>1, <1>3, PlacesDiffer DEF Demands, Typed
<1>6. ASSUME NEW x \in Tags PROVE count'[x][u] <= c[InCounter(x)]
  <2>0. count[x][u] \in Nat /\ count'[x][u] \in Nat /\ count[x][u] <= b[InCounter(x)]
    BY <1>1 DEF Typed, Demands
  <2>1. InCounter(x) \in Places
    BY PlacesDiffer
  <2>2. CASE x = t
    <3>1. count'[t][u] <= count[t][u] + 1
      OBVIOUS
    <3> QED  BY <1>3, <1>4, <2>0, <2>1, <2>2, <3>1
  <2>3. CASE x # t
    BY <1>3, <2>0, <2>1, <2>3
  <2> QED  BY <2>2, <2>3
<1>7. ASSUME NEW r \in Reporters PROVE DemandsOf(r, u, c)'
  <2>1. slice[r][u] \in Nat /\ report[r].n \in Nat /\ DemandsOf(r, u, b)
    BY <1>1 DEF Typed, Reports, Demands
  <2>2. InSlice(r) \in Places /\ LoadedFrom(report[r], r) \in Places
    BY PlacesDiffer
  <2>3. slice[r][u] <= c[InSlice(r)]
    BY <1>3, <2>1, <2>2 DEF DemandsOf
  <2>4. u \in report[r].user => report[r].n <= c[LoadedFrom(report[r], r)]
    BY <1>3, <2>1, <2>2 DEF DemandsOf
  <2> QED  BY <2>3, <2>4 DEF DemandsOf
<1>8. Demands(u, c)'
  BY <1>5, <1>6, <1>7 DEF Demands
<1> QED  BY <1>2, <1>8 DEF Backed

\* The pieces for a node's counter are handed to the report that has loaded it, if there is one.
LEMMA HandOver ==
    ASSUME Typed, NEW u \in Users, NEW t \in Tags, NEW b \in [Places -> Nat],
           Covers(Places, sent[u], b), Demands(u, b),
           \A q, r \in Reporters : Reads(q, t, u) /\ Reads(r, t, u) => q = r
    PROVE  \E c \in [Places -> Nat] :
             /\ Covers(Places, sent[u], c) /\ b[Paid] <= c[Paid]
             /\ \A x \in Tags \ {t} : b[InCounter(x)] <= c[InCounter(x)]
             /\ \A r \in Reporters : /\ b[InSlice(r)] <= c[InSlice(r)]
                                     /\ b[InReport(r)] <= c[InReport(r)]
                                     /\ Reads(r, t, u) => report[r].n <= c[InReport(r)]
<1>0. \A p \in Places : b[p] \in Nat
  OBVIOUS
<1>1. CASE \A r \in Reporters : ~Reads(r, t, u)
  <2>1. \A p \in Places : b[p] <= b[p]
    BY <1>0
  <2> QED  BY <1>1, <2>1, PlacesDiffer
<1>2. ASSUME NEW q \in Reporters, Reads(q, t, u) PROVE
           \E c \in [Places -> Nat] :
             /\ Covers(Places, sent[u], c) /\ b[Paid] <= c[Paid]
             /\ \A x \in Tags \ {t} : b[InCounter(x)] <= c[InCounter(x)]
             /\ \A r \in Reporters : /\ b[InSlice(r)] <= c[InSlice(r)]
                                     /\ b[InReport(r)] <= c[InReport(r)]
                                     /\ Reads(r, t, u) => report[r].n <= c[InReport(r)]
  <2> DEFINE c == [b EXCEPT ![InCounter(t)] = 0, ![InReport(q)] = @ + b[InCounter(t)]]
  <2>1. InCounter(t) \in Places /\ InReport(q) \in Places /\ InCounter(t) # InReport(q) /\ sent[u] \in Nat
    BY PlacesDiffer DEF Typed
  <2>2. c \in [Places -> Nat]
    BY <1>0, <2>1
  <2>3. Covers(Places, sent[u], c)
    BY <2>1, CoversMove
  <2>4. /\ c[InReport(q)] = b[InReport(q)] + b[InCounter(t)]
        /\ \A p \in Places : p # InCounter(t) /\ p # InReport(q) => c[p] = b[p]
    BY <2>1
  <2> HIDE DEF c
  <2>5. \A p \in Places : p # InCounter(t) => b[p] <= c[p]
    <3> SUFFICES ASSUME NEW p \in Places, p # InCounter(t) PROVE b[p] <= c[p]
      OBVIOUS
    <3>1. CASE p = InReport(q)
      BY <1>0, <2>1, <2>4, <3>1
    <3>2. CASE p # InReport(q)
      BY <1>0, <2>4, <3>2
    <3> QED  BY <3>1, <3>2
  <2>6. report[q].n <= b[InCounter(t)] /\ report[q].n \in Nat
    <3>1. DemandsOf(q, u, b) /\ report[q].n \in Nat
      BY DEF Demands, Typed, Reports
    <3> QED  BY <1>2, <3>1 DEF DemandsOf, Reads, LoadedFrom
  <2>7. report[q].n <= c[InReport(q)]
    BY <1>0, <2>1, <2>4, <2>6
  <2>8. \A r \in Reporters : Reads(r, t, u) => report[r].n <= c[InReport(r)]
    BY <1>2, <2>7
  <2>9. b[Paid] <= c[Paid] /\ \A x \in Tags \ {t} : b[InCounter(x)] <= c[InCounter(x)]
    BY <2>5, PlacesDiffer
  <2>10. \A r \in Reporters : b[InSlice(r)] <= c[InSlice(r)] /\ b[InReport(r)] <= c[InReport(r)]
    BY <2>5, PlacesDiffer
  <2> QED  BY <2>2, <2>3, <2>8, <2>9, <2>10
<1> QED  BY <1>1, <1>2

\* The counters of node t are replaced or deleted, and a report that loaded one of them keeps
\* what it loaded.  With k = 1 the new counter starts with a new piece.
LEMMA UnlinkBacked ==
    ASSUME Typed, Typed', NEW u \in Users, NEW t \in Tags, NEW k \in {0, 1}, Backed(u),
           \A q, r \in Reporters : Reads(q, t, u) /\ Reads(r, t, u) => q = r,
           sent'[u] = sent[u] + k, charged'[u] = charged[u], slice' = slice, count'[t][u] = k,
           \A x \in Tags \ {t} : count'[x][u] = count[x][u],
           \A r \in Reporters : u \in report'[r].user =>
               /\ u \in report[r].user /\ report'[r].n = report[r].n
               /\ IF Of[r] = t THEN report'[r].at # "storage" ELSE report'[r] = report[r]
    PROVE  Backed(u)'
<1>1. PICK b \in [Places -> Nat] : Covers(Places, sent[u], b) /\ Demands(u, b)
  BY DEF Backed
<1>2. PICK c \in [Places -> Nat] :
             /\ Covers(Places, sent[u], c) /\ b[Paid] <= c[Paid]
             /\ \A x \in Tags \ {t} : b[InCounter(x)] <= c[InCounter(x)]
             /\ \A r \in Reporters : /\ b[InSlice(r)] <= c[InSlice(r)]
                                     /\ b[InReport(r)] <= c[InReport(r)]
                                     /\ Reads(r, t, u) => report[r].n <= c[InReport(r)]
  BY <1>1, HandOver
<1>3. sent[u] \in Nat /\ InCounter(t) \in Places
  BY PlacesDiffer DEF Typed
<1>4. PICK e \in [Places -> Nat] :
             /\ Covers(Places, sent'[u], e) /\ k <= e[InCounter(t)]
             /\ \A p \in Places : c[p] <= e[p]
  <2>1. CASE k = 0
    <3>1. sent'[u] = sent[u]
      BY <1>3, <2>1
    <3>2. \A p \in Places : c[p] <= c[p] /\ c[p] \in Nat
      OBVIOUS
    <3>3. k <= c[InCounter(t)]
      BY <1>3, <2>1, <3>2
    <3>4. Covers(Places, sent'[u], c)
      BY <1>2, <3>1
    <3> QED  BY <3>2, <3>3, <3>4
  <2>2. CASE k = 1
    <3> DEFINE d == [c EXCEPT ![InCounter(t)] = @ + 1]
    <3>1. Covers(Places, sent[u] + 1, d)
      BY <1>2, <1>3, CoversPut
    <3>2. d \in [Places -> Nat] /\ d[InCounter(t)] = c[InCounter(t)] + 1
      BY <1>3
    <3>3. \A p \in Places : c[p] \in Nat /\ c[p] <= d[p]
      OBVIOUS
    <3> HIDE DEF d
    <3>4. k <= d[InCounter(t)]
      BY <1>3, <2>2, <3>2, <3>3
    <3>5. Covers(Places, sent'[u], d)
      BY <2>2, <3>1
    <3> QED  BY <3>2, <3>3, <3>4, <3>5
  <2> QED  BY <2>1, <2>2
<1>5. \A p \in Places : b[p] \in Nat /\ c[p] \in Nat /\ e[p] \in Nat
  OBVIOUS
<1>6. charged'[u] <= e[Paid]
  <2>1. charged[u] <= b[Paid] /\ b[Paid] <= c[Paid] /\ c[Paid] <= e[Paid] /\ charged[u] \in Nat
    BY <1>1, <1>2, <1>4, PlacesDiffer DEF Demands, Typed
  <2> QED  BY <1>5, <2>1, PlacesDiffer
<1>7. ASSUME NEW x \in Tags PROVE count'[x][u] <= e[InCounter(x)]
  <2>1. CASE x = t
    BY <1>4, <2>1
  <2>2. CASE x # t
    <3>1. count'[x][u] = count[x][u] /\ count[x][u] <= b[InCounter(x)] /\ count[x][u] \in Nat
      BY <1>1, <2>2 DEF Demands, Typed
    <3>2. b[InCounter(x)] <= c[InCounter(x)] /\ c[InCounter(x)] <= e[InCounter(x)]
      BY <1>2, <1>4, <2>2, PlacesDiffer
    <3> QED  BY <1>5, <3>1, <3>2, PlacesDiffer
  <2> QED  BY <2>1, <2>2
<1>8. ASSUME NEW r \in Reporters PROVE DemandsOf(r, u, e)'
  <2>0. DemandsOf(r, u, b) /\ slice[r][u] \in Nat /\ report[r].n \in Nat
    BY <1>1 DEF Demands, Typed, Reports
  <2>1. InSlice(r) \in Places /\ InReport(r) \in Places /\ Of[r] \in Tags
    BY PlacesDiffer, ConstantsAssumption
  <2>2. slice'[r][u] <= e[InSlice(r)]
    <3>1. slice[r][u] <= b[InSlice(r)] /\ b[InSlice(r)] <= c[InSlice(r)] /\ c[InSlice(r)] <= e[InSlice(r)]
      BY <1>2, <1>4, <2>0, <2>1 DEF DemandsOf
    <3> QED  BY <1>5, <2>0, <2>1, <3>1
  <2>3. ASSUME u \in report'[r].user PROVE report'[r].n <= e[LoadedFrom(report'[r], r)]
    <3>0. u \in report[r].user /\ report'[r].n = report[r].n /\ report[r].n <= b[LoadedFrom(report[r], r)]
      BY <2>0, <2>3 DEF DemandsOf
    <3>1. CASE Of[r] = t
      <4>1. LoadedFrom(report'[r], r) = InReport(r)
        BY <2>3, <3>1 DEF LoadedFrom
      <4>2. report[r].n <= c[InReport(r)]
        <5>1. CASE report[r].at = "storage"
          BY <1>2, <3>0, <3>1, <5>1 DEF Reads
        <5>2. CASE report[r].at # "storage"
          <6>1. report[r].n <= b[InReport(r)] /\ b[InReport(r)] <= c[InReport(r)]
            BY <1>2, <3>0, <5>2 DEF LoadedFrom
          <6> QED  BY <1>5, <2>0, <2>1, <6>1
        <5> QED  BY <5>1, <5>2
      <4>3. c[InReport(r)] <= e[InReport(r)]
        BY <1>4, <2>1
      <4> QED  BY <1>5, <2>0, <2>1, <3>0, <4>1, <4>2, <4>3
    <3>2. CASE Of[r] # t
      <4>1. report'[r] = report[r]
        BY <2>3, <3>2
      <4>2. PICK p \in Places : p = LoadedFrom(report[r], r)
        BY PlacesDiffer
      <4>3. b[p] <= c[p]
        BY <1>2, <2>1, <3>2, <4>2 DEF LoadedFrom
      <4> QED  BY <1>4, <1>5, <2>0, <3>0, <4>1, <4>2, <4>3
    <3> QED  BY <3>1, <3>2
  <2> QED  BY <2>2, <2>3 DEF DemandsOf
<1>9. Demands(u, e)'
  BY <1>6, <1>7, <1>8 DEF Demands
<1> QED  BY <1>4, <1>9 DEF Backed

\* All pieces of one place are moved to another one.
LEMMA MovePieces ==
    ASSUME NEW n \in Nat, NEW b \in [Places -> Nat], Covers(Places, n, b),
           NEW from \in Places, NEW to \in Places, from # to
    PROVE  \E c \in [Places -> Nat] :
             /\ Covers(Places, n, c) /\ c[from] = 0 /\ c[to] = b[to] + b[from]
             /\ \A p \in Places : p # from /\ p # to => c[p] = b[p]
<1> DEFINE c == [b EXCEPT ![from] = 0, ![to] = @ + b[from]]
<1>1. c \in [Places -> Nat] /\ c[from] = 0 /\ c[to] = b[to] + b[from]
  OBVIOUS
<1>2. \A p \in Places : p # from /\ p # to => c[p] = b[p]
  OBVIOUS
<1>3. Covers(Places, n, c)
  BY CoversMove
<1> HIDE DEF c
<1> QED  BY <1>1, <1>2, <1>3

\* A report has reset the counter it loaded, and appends what it loaded to its slice.
LEMMA ResetBacked ==
    ASSUME Typed, Typed', NEW u \in Users, NEW r \in Reporters, Backed(u), u \in report[r].user,
           \A q \in Reporters : Reads(q, Of[r], u) /\ Reads(r, Of[r], u) => q = r,
           sent'[u] = sent[u], charged'[u] = charged[u], slice'[r][u] = slice[r][u] + report[r].n,
           report[r].at = "storage" => count'[Of[r]][u] = 0,
           report[r].at # "storage" => count'[Of[r]][u] = count[Of[r]][u],
           \A x \in Tags \ {Of[r]} : count'[x][u] = count[x][u],
           u \notin report'[r].user,
           \A q \in Reporters \ {r} : slice'[q][u] = slice[q][u] /\ report'[q] = report[q]
    PROVE  Backed(u)'
<1>1. PICK b \in [Places -> Nat] : Covers(Places, sent[u], b) /\ Demands(u, b)
  BY DEF Backed
<1>2. PICK from \in Places : from = LoadedFrom(report[r], r)
  BY PlacesDiffer
<1>3. PICK to \in Places : to = InSlice(r)
  BY PlacesDiffer
<1>4. from # Paid /\ to # Paid /\ from # to /\ sent[u] \in Nat /\ Of[r] \in Tags
  BY <1>2, <1>3, PlacesDiffer, ConstantsAssumption DEF LoadedFrom, Typed
<1>5. PICK c \in [Places -> Nat] :
        /\ Covers(Places, sent[u], c) /\ c[from] = 0 /\ c[to] = b[to] + b[from]
        /\ \A p \in Places : p # from /\ p # to => c[p] = b[p]
  <2>1. from # to
    BY <1>4
  <2>2. PICK n \in Nat : n = sent[u] /\ Covers(Places, n, b)
    BY <1>1, <1>4
  <2>3. \E c \in [Places -> Nat] :
          /\ Covers(Places, n, c) /\ c[from] = 0 /\ c[to] = b[to] + b[from]
          /\ \A p \in Places : p # from /\ p # to => c[p] = b[p]
    BY <2>1, <2>2, MovePieces
  <2> QED  BY <2>2, <2>3
<1>6. \A p \in Places : b[p] \in Nat /\ c[p] \in Nat
  OBVIOUS
<1>7. charged'[u] <= c[Paid]
  BY <1>1, <1>4, <1>5, PlacesDiffer DEF Demands
<1>8. ASSUME NEW x \in Tags PROVE count'[x][u] <= c[InCounter(x)]
  <2>1. InCounter(x) \in Places /\ InCounter(x) # to /\ count[x][u] <= b[InCounter(x)]
    BY <1>1, <1>3, PlacesDiffer DEF Demands
  <2>2. CASE x = Of[r] /\ report[r].at = "storage"
    <3>1. count'[x][u] = 0 /\ c[InCounter(x)] \in Nat
      BY <1>6, <2>1, <2>2
    <3> QED  BY <3>1
  <2>3. CASE ~(x = Of[r] /\ report[r].at = "storage")
    <3>1. InCounter(x) # from
      BY <1>2, <2>3, PlacesDiffer DEF LoadedFrom
    <3>2. count'[x][u] = count[x][u]
      BY <2>3
    <3> QED  BY <1>5, <2>1, <3>1, <3>2
  <2> QED  BY <2>2, <2>3
<1>9. ASSUME NEW q \in Reporters PROVE DemandsOf(q, u, c)'
  <2>1. DemandsOf(q, u, b) /\ Of[q] \in Tags
    BY <1>1, ConstantsAssumption DEF Demands
  <2>2. CASE q = r
    <3>1. slice[r][u] <= b[to] /\ report[r].n <= b[from]
      BY <1>2, <1>3, <2>1, <2>2 DEF DemandsOf
    <3>2. slice[r][u] \in Nat /\ report[r].n \in Nat
      BY DEF Typed, Reports
    <3>3. slice'[r][u] <= c[to]
      BY <1>5, <1>6, <3>1, <3>2
    <3> QED  BY <1>3, <2>2, <3>3 DEF DemandsOf
  <2>3. CASE q # r
    <3>1. InSlice(q) \in Places /\ InSlice(q) # from /\ InSlice(q) # to
      BY <1>2, <1>3, <2>3, PlacesDiffer DEF LoadedFrom
    <3>2. slice'[q][u] <= c[InSlice(q)]
      BY <1>5, <2>1, <2>3, <3>1 DEF DemandsOf
    <3>3. ASSUME u \in report'[q].user PROVE report'[q].n <= c[LoadedFrom(report'[q], q)]
      <4>1. report'[q] = report[q] /\ u \in report[q].user
        BY <2>3, <3>3
      <4>2. LoadedFrom(report[q], q) # to
        BY <1>3, PlacesDiffer DEF LoadedFrom
      <4>3. LoadedFrom(report[q], q) # from
        <5>1. CASE report[q].at = "storage" /\ report[r].at = "storage"
          <6>1. Of[q] # Of[r]
            BY <2>3, <4>1, <5>1 DEF Reads
          <6> QED  BY <1>2, <5>1, <6>1, PlacesDiffer DEF LoadedFrom
        <5>2. CASE ~(report[q].at = "storage" /\ report[r].at = "storage")
          BY <1>2, <2>3, <5>2, PlacesDiffer DEF LoadedFrom
        <5> QED  BY <5>1, <5>2
      <4>4. LoadedFrom(report[q], q) \in Places
        BY PlacesDiffer
      <4> QED  BY <1>5, <2>1, <4>1, <4>2, <4>3, <4>4 DEF DemandsOf
    <3> QED  BY <3>2, <3>3 DEF DemandsOf
  <2> QED  BY <2>2, <2>3
<1>10. Demands(u, c)'
  BY <1>7, <1>8, <1>9 DEF Demands
<1>11. Covers(Places, sent'[u], c)
  BY <1>5
<1> QED  BY <1>10, <1>11 DEF Backed

\* The panel has charged what is in a slice.
LEMMA PostBacked ==
    ASSUME Typed, Typed', NEW u \in Users, NEW r \in Reporters, Backed(u),
           UNCHANGED <<sent, count, report>>, charged'[u] = charged[u] + slice[r][u], slice'[r][u] = 0,
           \A q \in Reporters \ {r} : slice'[q][u] = slice[q][u]
    PROVE  Backed(u)'
<1>1. PICK b \in [Places -> Nat] : Covers(Places, sent[u], b) /\ Demands(u, b)
  BY DEF Backed
<1>2. InSlice(r) \in Places /\ Paid \in Places /\ InSlice(r) # Paid /\ sent[u] \in Nat
  BY PlacesDiffer DEF Typed
<1>3. PICK c \in [Places -> Nat] :
        /\ Covers(Places, sent[u], c) /\ c[InSlice(r)] = 0 /\ c[Paid] = b[Paid] + b[InSlice(r)]
        /\ \A p \in Places : p # InSlice(r) /\ p # Paid => c[p] = b[p]
  BY <1>1, <1>2, MovePieces, Zenon
<1>4. \A p \in Places : b[p] \in Nat /\ c[p] \in Nat
  OBVIOUS
<1>5. charged'[u] <= c[Paid]
  <2>1. charged[u] <= b[Paid] /\ slice[r][u] <= b[InSlice(r)] /\ charged[u] \in Nat /\ slice[r][u] \in Nat
    BY <1>1 DEF Demands, DemandsOf, Typed
  <2> QED  BY <1>2, <1>3, <1>4, <2>1
<1>6. ASSUME NEW x \in Tags PROVE count'[x][u] <= c[InCounter(x)]
  <2>1. InCounter(x) \in Places /\ InCounter(x) # InSlice(r) /\ InCounter(x) # Paid
    BY PlacesDiffer
  <2> QED  BY <1>1, <1>3, <2>1 DEF Demands
<1>7. ASSUME NEW q \in Reporters PROVE DemandsOf(q, u, c)'
  <2>1. DemandsOf(q, u, b) /\ InSlice(q) \in Places /\ InSlice(q) # Paid
    BY <1>1, PlacesDiffer DEF Demands
  <2>2. PICK p \in Places : p = LoadedFrom(report[q], q) /\ p # Paid /\ p # InSlice(r)
    BY PlacesDiffer DEF LoadedFrom
  <2>3. slice'[q][u] <= c[InSlice(q)]
    <3>1. CASE q = r
      BY <1>2, <1>3, <3>1
    <3>2. CASE q # r
      <4>1. InSlice(q) # InSlice(r)
        BY <3>2, PlacesDiffer
      <4> QED  BY <1>3, <2>1, <3>2, <4>1 DEF DemandsOf
    <3> QED  BY <3>1, <3>2
  <2>4. u \in report'[q].user => report'[q].n <= c[p]
    BY <1>3, <2>1, <2>2 DEF DemandsOf
  <2>5. p = LoadedFrom(report'[q], q)
    BY <2>2
  <2> QED  BY <2>3, <2>4, <2>5 DEF DemandsOf
<1>8. Demands(u, c)'
  BY <1>5, <1>6, <1>7 DEF Demands
<1> QED  BY <1>3, <1>8 DEF Backed

counting == <<sent, charged, count, report, slice, doubled>>

LEMMA AccountUnchanged == AccountInv /\ UNCHANGED counting => AccountInv'
<1> SUFFICES ASSUME AccountInv, UNCHANGED counting PROVE AccountInv'
  OBVIOUS
<1>1. OneUser' /\ Alone'
  BY DEF AccountInv, OneUser, Alone, Reads, counting
<1>2. ASSUME NEW u \in Users \ doubled' PROVE Backed(u)'
  <2>1. Backed(u)
    BY DEF AccountInv, counting
  <2> QED  BY <2>1 DEF Backed, Demands, DemandsOf, LoadedFrom, counting
<1> QED  BY <1>1, <1>2 DEF AccountInv

\* What a report has loaded becomes of less use, if anything.
LEMMA ReportsKept ==
    ASSUME AccountInv, doubled' = doubled,
           \A r \in Reporters : /\ report'[r].user \subseteq report[r].user
                                /\ report'[r].at = "storage" => report[r].at = "storage"
    PROVE  OneUser' /\ Alone'
BY DEF AccountInv, OneUser, Alone, Reads

LEMMA GoneIs ==
    ASSUME Typed, NEW t \in Tags, NEW u \in Users, NEW r \in Reporters, NEW x,
           x = TableGone(t)[r] \/ x = StorageGone(t, u)[r]
    PROVE  /\ x.user = report[r].user /\ x.n = report[r].n /\ (Of[r] # t => x = report[r])
           /\ x.at = "storage" => x = report[r]
           /\ x = TableGone(t)[r] /\ Of[r] = t => x.at = "gone"
           /\ x = StorageGone(t, u)[r] => IF Of[r] = t /\ u \in report[r].user THEN x.at # "storage" ELSE x = report[r]
<1>1. report[r] \in Reports
  BY DEF Typed
<1>2. ASSUME NEW g \in {"gone", "table"}
      PROVE  /\ [report[r] EXCEPT !.at = g].at = g /\ [report[r] EXCEPT !.at = g].user = report[r].user
             /\ [report[r] EXCEPT !.at = g].n = report[r].n
  BY <1>1 DEF Reports
<1>3. TableGone(t)[r] = IF Of[r] = t THEN [report[r] EXCEPT !.at = "gone"] ELSE report[r]
  BY DEF TableGone
<1>4. StorageGone(t, u)[r] = IF Of[r] = t /\ u \in report[r].user /\ report[r].at = "storage"
                             THEN [report[r] EXCEPT !.at = "table"] ELSE report[r]
  BY DEF StorageGone
<1>5. CASE x = TableGone(t)[r] /\ Of[r] = t
  <2>1. /\ x.at = "gone" /\ x.user = report[r].user /\ x.n = report[r].n
    BY <1>2, <1>3, <1>5
  <2>2. x = StorageGone(t, u)[r] => IF u \in report[r].user THEN x.at # "storage" ELSE x = report[r]
    BY <1>4, <2>1
  <2> QED  BY <1>5, <2>1, <2>2
<1>6. CASE x = StorageGone(t, u)[r] /\ Of[r] = t /\ u \in report[r].user /\ report[r].at = "storage"
  <2>1. /\ x.at = "table" /\ x.user = report[r].user /\ x.n = report[r].n
    BY <1>2, <1>4, <1>6
  <2>2. x # TableGone(t)[r]
    BY <1>2, <1>3, <1>6, <2>1
  <2> QED  BY <1>6, <2>1, <2>2
<1>7. CASE x = report[r]
  BY <1>3, <1>4, <1>5, <1>6, <1>7
<1> QED  BY <1>3, <1>4, <1>5, <1>6, <1>7

\* The counters of node t are replaced, with k new pieces of user v, or dropped.
LEMMA AccountTable ==
    ASSUME Typed, Typed', AccountInv, NEW t \in Tags, NEW v \in Users, NEW k \in {0, 1},
           count' = [count EXCEPT ![t] = [u \in Users |-> IF u = v THEN k ELSE 0]],
           report' = TableGone(t), UNCHANGED <<charged, slice, doubled>>, sent' = [sent EXCEPT ![v] = @ + k]
    PROVE  AccountInv'
<1>1. count \in [Tags -> [Users -> Nat]] /\ sent \in [Users -> Nat]
  BY DEF Typed
<1>2. ASSUME NEW r \in Reporters
      PROVE  /\ report'[r].user = report[r].user /\ report'[r].n = report[r].n
             /\ IF Of[r] = t THEN report'[r].at = "gone" ELSE report'[r] = report[r]
  BY GoneIs
<1>3. OneUser' /\ Alone'
  BY <1>2, ReportsKept
<1>4. ASSUME NEW u \in Users \ doubled' PROVE Backed(u)'
  <2>1. Backed(u) /\ \A q, r \in Reporters : Reads(q, t, u) /\ Reads(r, t, u) => q = r
    BY DEF AccountInv, Alone
  <2>2. \A x \in Tags \ {t} : count'[x][u] = count[x][u]
    BY <1>1
  <2>3. PICK j \in {0, 1} : j = IF u = v THEN k ELSE 0
    OBVIOUS
  <2>4. count'[t][u] = j /\ sent'[u] = sent[u] + j
    BY <1>1, <2>3
  <2>5. charged'[u] = charged[u] /\ slice' = slice
    OBVIOUS
  <2>6. \A r \in Reporters : u \in report'[r].user =>
               /\ u \in report[r].user /\ report'[r].n = report[r].n
               /\ IF Of[r] = t THEN report'[r].at # "storage" ELSE report'[r] = report[r]
    BY <1>2
  <2> QED  BY <2>1, <2>2, <2>4, <2>5, <2>6, UnlinkBacked
<1> QED  BY <1>3, <1>4 DEF AccountInv

\* A piece sent through a connection is counted once, or not at all.
LEMMA AccountSend ==
    ASSUME Typed, Typed', AccountInv, NEW c \in Conns,
           \/ count' = count \/ count' = Counted(On[c], Owner[c])
           \/ count' = [count EXCEPT ![On[c]][Owner[c]] = 1],
           sent' = [sent EXCEPT ![Owner[c]] = @ + 1], UNCHANGED <<charged, report, slice, doubled>>
    PROVE  AccountInv'
<1>0. On[c] \in Tags /\ Owner[c] \in Users
  BY ConstantsAssumption
<1>1. count \in [Tags -> [Users -> Nat]] /\ sent \in [Users -> Nat] /\ slice \in [Reporters -> [Users -> Nat]]
  BY DEF Typed
<1>2. /\ \A t \in Tags, u \in Users : t # On[c] \/ u # Owner[c] => count'[t][u] = count[t][u]
      /\ count'[On[c]][Owner[c]] <= count[On[c]][Owner[c]] + 1
  <2>1. CASE count' = count
    BY <1>0, <1>1, <2>1
  <2>2. CASE count' = Counted(On[c], Owner[c])
    BY <1>0, <1>1, <2>2 DEF Counted
  <2>3. CASE count' = [count EXCEPT ![On[c]][Owner[c]] = 1]
    BY <1>0, <1>1, <2>3
  <2> QED  BY <2>1, <2>2, <2>3
<1>3. OneUser' /\ Alone'
  BY ReportsKept
<1>4. ASSUME NEW u \in Users \ doubled' PROVE Backed(u)'
  <2>0. Backed(u) /\ charged'[u] = charged[u]
    BY DEF AccountInv
  <2>1. CASE u = Owner[c]
    <3>1. sent'[u] = sent[u] + 1
      BY <1>0, <1>1, <2>1
    <3>2. /\ count'[On[c]][u] <= count[On[c]][u] + 1
          /\ \A x \in Tags \ {On[c]} : count'[x][u] = count[x][u]
      BY <1>0, <1>2, <2>1
    <3> QED  BY <1>0, <2>0, <3>1, <3>2, SendBacked
  <2>2. CASE u # Owner[c]
    <3>1. sent'[u] = sent[u]
      BY <1>0, <1>1, <2>2
    <3>2. \A t \in Tags : count'[t][u] = count[t][u] /\ count[t][u] \in Nat
      BY <1>0, <1>1, <1>2, <2>2
    <3>3. \A r \in Reporters : slice'[r][u] = slice[r][u] /\ slice[r][u] \in Nat /\ KeepsReport(u, r)
      BY <1>1 DEF KeepsReport
    <3>4. \A t \in Tags : count'[t][u] <= count[t][u]
      BY <3>2
    <3>5. \A r \in Reporters : slice'[r][u] <= slice[r][u] /\ KeepsReport(u, r)
      BY <3>3
    <3> QED  BY <2>0, <3>1, <3>4, <3>5, KeepBacked
  <2> QED  BY <2>1, <2>2
<1> QED  BY <1>3, <1>4 DEF AccountInv

\* Counters that are emptied, slices that are dropped.
LEMMA AccountLess ==
    ASSUME Typed, Typed', AccountInv, UNCHANGED <<sent, charged, report, doubled>>,
           \A t \in Tags, u \in Users : count'[t][u] = count[t][u] \/ count'[t][u] = 0,
           \A r \in Reporters, u \in Users : slice'[r][u] = slice[r][u] \/ slice'[r][u] = 0
    PROVE  AccountInv'
<1>1. OneUser' /\ Alone'
  BY ReportsKept
<1>2. ASSUME NEW u \in Users \ doubled' PROVE Backed(u)'
  <2>1. Backed(u) /\ sent'[u] = sent[u] /\ charged'[u] = charged[u]
    BY DEF AccountInv
  <2>2. ASSUME NEW t \in Tags PROVE count'[t][u] <= count[t][u]
    <3>1. count[t][u] \in Nat /\ (count'[t][u] = count[t][u] \/ count'[t][u] = 0)
      BY DEF Typed
    <3> QED  BY <3>1
  <2>3. ASSUME NEW r \in Reporters PROVE slice'[r][u] <= slice[r][u] /\ KeepsReport(u, r)
    <3>1. slice[r][u] \in Nat /\ (slice'[r][u] = slice[r][u] \/ slice'[r][u] = 0)
      BY DEF Typed
    <3>2. slice'[r][u] <= slice[r][u]
      BY <3>1
    <3> QED  BY <3>2 DEF KeepsReport
  <2> QED  BY <2>1, <2>2, <2>3, KeepBacked
<1> QED  BY <1>1, <1>2 DEF AccountInv

\* A report loads a counter; its user is set aside if another one has loaded it already.
LEMMA AccountLoad ==
    ASSUME Typed, Typed', AccountInv, NEW r \in Reporters, LoadCounter(r)
    PROVE  AccountInv'
<1>1. /\ report \in [Reporters -> Reports] /\ count \in [Tags -> [Users -> Nat]]
      /\ slice \in [Reporters -> [Users -> Nat]] /\ Of[r] \in Tags
  BY ConstantsAssumption DEF Typed
<1>2. PICK v \in Users :
        /\ report' = [report EXCEPT ![r] = [user |-> {v}, n |-> count[Of[r]][v], at |-> "storage"]]
        /\ doubled' = IF \E q \in Reporters : Of[q] = Of[r] /\ v \in report[q].user /\ report[q].at = "storage"
                      THEN doubled \cup {v} ELSE doubled
  BY DEF LoadCounter
<1>3. UNCHANGED <<sent, charged, count, slice>> /\ report[r] = None
  BY DEF LoadCounter
<1>4. /\ report'[r].user = {v} /\ report'[r].n = count[Of[r]][v] /\ report'[r].at = "storage"
      /\ \A q \in Reporters \ {r} : report'[q] = report[q]
  BY <1>1, <1>2
<1>5. OneUser'
  BY <1>4 DEF AccountInv, OneUser
<1>6. ASSUME NEW u \in Users \ doubled', NEW t \in Tags, NEW p \in Reporters, NEW q \in Reporters,
             Reads(p, t, u)', Reads(q, t, u)'
      PROVE  p = q
  <2>1. u \notin doubled
    BY <1>2, <1>6
  <2>2. CASE u # v
    <3>1. p # r /\ q # r
      BY <1>4, <1>6, <2>2 DEF Reads
    <3>2. Reads(p, t, u) /\ Reads(q, t, u)
      BY <1>4, <1>6, <3>1 DEF Reads
    <3> QED  BY <2>1, <3>2 DEF AccountInv, Alone
  <2>3. CASE u = v
    <3>1. \A x \in Reporters : ~(Of[x] = Of[r] /\ v \in report[x].user /\ report[x].at = "storage")
      BY <1>2, <1>6, <2>3
    <3>2. \A x \in Reporters \ {r} : Reads(x, t, u)' => Of[x] = t /\ v \in report[x].user /\ report[x].at = "storage"
      BY <1>4, <2>3 DEF Reads
    <3>3. Of[p] = t /\ Of[q] = t
      BY <1>6 DEF Reads
    <3>4. CASE p = r \/ q = r
      BY <1>6, <3>1, <3>2, <3>3, <3>4
    <3>5. CASE p # r /\ q # r
      BY <1>6, <2>1, <2>3, <3>2, <3>5 DEF AccountInv, Alone, Reads
    <3> QED  BY <3>4, <3>5
  <2> QED  BY <2>2, <2>3
<1>7. ASSUME NEW u \in Users \ doubled' PROVE Backed(u)'
  <2>1. Backed(u) /\ sent'[u] = sent[u] /\ charged'[u] = charged[u]
    BY <1>2, <1>3 DEF AccountInv
  <2>2. \A t \in Tags : count'[t][u] <= count[t][u]
    <3>1. \A t \in Tags : count'[t][u] = count[t][u] /\ count[t][u] \in Nat
      BY <1>1, <1>3
    <3> QED  BY <3>1
  <2>3. ASSUME NEW q \in Reporters PROVE slice'[q][u] <= slice[q][u] /\ KeepsReport(u, q)
    <3>1. slice'[q][u] = slice[q][u] /\ slice[q][u] \in Nat
      BY <1>1, <1>3
    <3>2. slice'[q][u] <= slice[q][u]
      BY <3>1
    <3>3. KeepsReport(u, q)
      BY <1>4 DEF KeepsReport
    <3> QED  BY <3>2, <3>3
  <2> QED  BY <2>1, <2>2, <2>3, KeepBacked
<1> QED  BY <1>5, <1>6, <1>7 DEF AccountInv, Alone

\* A report resets the counter it loaded, or drops it with its user.
LEMMA AccountReset ==
    ASSUME Typed, Typed', AccountInv, NEW r \in Reporters, ResetCounter(r)
    PROVE  AccountInv'
<1>0. /\ count \in [Tags -> [Users -> Nat]] /\ charged \in [Users -> Nat] /\ sent \in [Users -> Nat]
      /\ report \in [Reporters -> Reports] /\ slice \in [Reporters -> [Users -> Nat]] /\ Of[r] \in Tags
  BY ConstantsAssumption DEF Typed
<1>1. PICK v \in report[r].user :
        /\ Reset(r, v, report[r].n, report[r].at)
        /\ report' = [(IF v \in uidMap \/ report[r].at = "gone" THEN report ELSE StorageGone(Of[r], v))
                      EXCEPT ![r] = None]
  BY DEF ResetCounter
<1>2. UNCHANGED <<sent, charged, doubled>> /\ v \in Users
  BY <1>0 DEF ResetCounter, Reports
<1>3. report'[r] = None
  BY <1>0, <1>1 DEF StorageGone
<1>4. ASSUME NEW q \in Reporters \ {r}
      PROVE  /\ report'[q].user = report[q].user /\ report'[q].n = report[q].n
             /\ report'[q].at = "storage" => report'[q] = report[q]
             /\ IF (v \in uidMap \/ report[r].at = "gone") \/ Of[q] # Of[r] \/ v \notin report[q].user
                THEN report'[q] = report[q] ELSE report'[q].at # "storage"
  <2>1. CASE v \in uidMap \/ report[r].at = "gone"
    BY <1>0, <1>1, <2>1
  <2>2. CASE ~(v \in uidMap \/ report[r].at = "gone")
    <3>1. report'[q] = StorageGone(Of[r], v)[q]
      BY <1>1, <2>2 DEF StorageGone
    <3> QED  BY <1>0, <1>2, <2>2, <3>1, GoneIs
  <2> QED  BY <2>1, <2>2
<1>5. OneUser' /\ Alone'
  BY <1>2, <1>3, <1>4, ReportsKept DEF None
<1>6. /\ \A x \in Tags, u \in Users : x # Of[r] \/ u # v => count'[x][u] = count[x][u]
      /\ \A q \in Reporters, u \in Users : q # r \/ u # v => slice'[q][u] = slice[q][u]
  <2>1. count' = count \/ count' = [count EXCEPT ![Of[r]][v] = 0]
    BY <1>1 DEF Reset, DeleteCounter
  <2>2. slice' = slice \/ slice' = [slice EXCEPT ![r][v] = @ + report[r].n]
    BY <1>1 DEF Reset, Appends
  <2> QED  BY <1>0, <1>2, <2>1, <2>2
<1>7. ASSUME NEW u \in Users \ doubled' PROVE Backed(u)'
  <2>1. /\ Backed(u) /\ sent'[u] = sent[u] /\ charged'[u] = charged[u]
        /\ \A q, p \in Reporters : Reads(q, Of[r], u) /\ Reads(p, Of[r], u) => q = p
    BY <1>0, <1>2 DEF AccountInv, Alone
  <2>2. CASE u = v /\ v \in uidMap
    <3>1. /\ slice'[r][u] = slice[r][u] + report[r].n
          /\ report[r].at = "storage" => count'[Of[r]][u] = 0
          /\ report[r].at # "storage" => count'[Of[r]][u] = count[Of[r]][u]
      BY <1>0, <1>1, <1>2, <2>2 DEF Reset, Appends
    <3>2. u \in report[r].user /\ u \notin report'[r].user
      BY <1>3, <2>2 DEF None
    <3>3. \A x \in Tags \ {Of[r]} : count'[x][u] = count[x][u]
      BY <1>6
    <3>4. \A q \in Reporters \ {r} : slice'[q][u] = slice[q][u] /\ report'[q] = report[q]
      BY <1>4, <1>6, <2>2
    <3> QED  BY <2>1, <3>1, <3>2, <3>3, <3>4, ResetBacked
  <2>3. CASE u = v /\ v \notin uidMap /\ report[r].at # "gone"
    <3>1. slice' = slice /\ count'[Of[r]][u] = 0
      BY <1>0, <1>1, <1>2, <2>3 DEF Reset, DeleteCounter
    <3>2. \A x \in Tags \ {Of[r]} : count'[x][u] = count[x][u]
      BY <1>6
    <3>3. sent'[u] = sent[u] + 0
      BY <1>0, <1>2
    <3>4. \A q \in Reporters : u \in report'[q].user =>
               /\ u \in report[q].user /\ report'[q].n = report[q].n
               /\ IF Of[q] = Of[r] THEN report'[q].at # "storage" ELSE report'[q] = report[q]
      BY <1>3, <1>4, <2>3 DEF None
    <3> QED  BY <1>0, <2>1, <3>1, <3>2, <3>3, <3>4, UnlinkBacked
  <2>4. CASE u # v \/ (v \notin uidMap /\ report[r].at = "gone")
    <3>1. ASSUME NEW t \in Tags PROVE count'[t][u] <= count[t][u]
      <4>1. count'[t][u] = count[t][u] /\ count[t][u] \in Nat
        BY <1>0, <1>1, <1>6, <2>4 DEF Reset
      <4> QED  BY <4>1
    <3>2. ASSUME NEW q \in Reporters PROVE slice'[q][u] <= slice[q][u] /\ KeepsReport(u, q)
      <4>1. slice'[q][u] = slice[q][u] /\ slice[q][u] \in Nat
        BY <1>0, <1>1, <1>6, <2>4 DEF Reset
      <4>2. slice'[q][u] <= slice[q][u]
        BY <4>1
      <4>3. KeepsReport(u, q)
        <5>1. CASE q = r
          BY <1>3, <5>1 DEF KeepsReport, None
        <5>2. CASE q # r /\ report'[q] = report[q]
          BY <5>2 DEF KeepsReport
        <5>3. CASE q # r /\ report'[q] # report[q]
          <6>1. v \in report[q].user /\ report'[q].user = report[q].user /\ u # v
            BY <1>4, <2>4, <5>3
          <6>2. u \notin report'[q].user
            BY <1>2, <6>1 DEF AccountInv, OneUser
          <6> QED  BY <6>2 DEF KeepsReport
        <5> QED  BY <5>1, <5>2, <5>3
      <4> QED  BY <4>2, <4>3
    <3> QED  BY <2>1, <3>1, <3>2, KeepBacked
  <2> QED  BY <2>2, <2>3, <2>4
<1> QED  BY <1>5, <1>7 DEF AccountInv

\* A slice goes to the panel, or is dropped.
LEMMA AccountPost ==
    ASSUME Typed, Typed', AccountInv, NEW r \in Reporters, ReportUserTraffic(r)
    PROVE  AccountInv'
<1>0. charged \in [Users -> Nat] /\ slice \in [Reporters -> [Users -> Nat]]
  BY DEF Typed
<1>1. UNCHANGED <<sent, count, report, doubled>> /\ slice' = [slice EXCEPT ![r] = NoSlice]
  BY DEF ReportUserTraffic
<1>2. \A u \in Users : slice'[r][u] = 0 /\ \A q \in Reporters \ {r} : slice'[q][u] = slice[q][u]
  BY <1>0, <1>1 DEF NoSlice
<1>3. CASE charged' = charged
  <2>1. \A q \in Reporters, u \in Users : slice'[q][u] = slice[q][u] \/ slice'[q][u] = 0
    BY <1>2
  <2>2. UNCHANGED <<sent, charged, report, doubled>>
    BY <1>1, <1>3
  <2>3. \A t \in Tags, u \in Users : count'[t][u] = count[t][u] \/ count'[t][u] = 0
    BY <1>1
  <2> QED  BY <2>1, <2>2, <2>3, AccountLess
<1>4. CASE charged' = [u \in Users |-> charged[u] + slice[r][u]]
  <2>1. OneUser' /\ Alone'
    BY <1>1, ReportsKept
  <2>2. ASSUME NEW u \in Users \ doubled' PROVE Backed(u)'
    <3>1. Backed(u) /\ charged'[u] = charged[u] + slice[r][u]
      BY <1>1, <1>4 DEF AccountInv
    <3> QED  BY <1>1, <1>2, <3>1, PostBacked
  <2> QED  BY <2>1, <2>2 DEF AccountInv
<1> QED  BY <1>3, <1>4 DEF ReportUserTraffic

\* The counters of a deleted node or user.
LEMMA AccountGone ==
    ASSUME Typed, Typed', AccountInv, NEW t \in Tags, NodeGone(t), UNCHANGED account
    PROVE  AccountInv'
<1>1. CASE core = "sing"
  BY <1>1, AccountUnchanged DEF NodeGone, counting, account
<1>2. CASE core # "sing"
  <2>1. count' = [count EXCEPT ![t] = NoSlice] /\ report' = TableGone(t)
    BY <1>2 DEF NodeGone
  <2>2. UNCHANGED <<sent, charged, slice, doubled>>
    BY DEF account
  <2>3. CASE Users = {}
    <3>1. OneUser' /\ Alone'
      BY <2>3 DEF OneUser, Alone, Typed, Reports
    <3> QED  BY <2>3, <3>1 DEF AccountInv
  <2>4. ASSUME NEW v \in Users PROVE AccountInv'
    <3>1. sent' = [sent EXCEPT ![v] = @ + 0]
      BY <2>2 DEF Typed
    <3>2. count' = [count EXCEPT ![t] = [u \in Users |-> IF u = v THEN 0 ELSE 0]]
      BY <2>1 DEF NoSlice
    <3> QED  BY <2>1, <2>2, <3>1, <3>2, AccountTable
  <2> QED  BY <2>3, <2>4
<1> QED  BY <1>1, <1>2

LEMMA AccountDelUser ==
    ASSUME Typed, Typed', AccountInv, NEW t \in Tags, NEW v \in Users, DelUser(t, v)
    PROVE  AccountInv'
<1>0. count \in [Tags -> [Users -> Nat]] /\ sent \in [Users -> Nat] /\ slice \in [Reporters -> [Users -> Nat]]
  BY DEF Typed
<1>1. /\ count' = [count EXCEPT ![t][v] = 0] /\ UNCHANGED <<sent, charged, slice, doubled>>
      /\ report' = StorageGone(t, v)
  BY DEF DelUser, DeleteCounter, account
<1>2. ASSUME NEW r \in Reporters
      PROVE  /\ report'[r].user = report[r].user /\ report'[r].n = report[r].n
             /\ report'[r].at = "storage" => report'[r] = report[r]
             /\ IF Of[r] = t /\ v \in report[r].user THEN report'[r].at # "storage" ELSE report'[r] = report[r]
  BY <1>1, GoneIs
<1>3. OneUser' /\ Alone'
  BY <1>1, <1>2, ReportsKept
<1>4. ASSUME NEW u \in Users \ doubled' PROVE Backed(u)'
  <2>0. /\ Backed(u) /\ sent'[u] = sent[u] + 0 /\ sent'[u] = sent[u] /\ charged'[u] = charged[u] /\ slice' = slice
        /\ \A q, r \in Reporters : Reads(q, t, u) /\ Reads(r, t, u) => q = r
    BY <1>0, <1>1 DEF AccountInv, Alone
  <2>1. \A x \in Tags : x # t \/ u # v => count'[x][u] = count[x][u]
    BY <1>0, <1>1
  <2>2. CASE u = v
    <3>1. count'[t][u] = 0 /\ \A x \in Tags \ {t} : count'[x][u] = count[x][u]
      BY <1>0, <1>1, <2>1, <2>2
    <3>2. \A r \in Reporters : u \in report'[r].user =>
               /\ u \in report[r].user /\ report'[r].n = report[r].n
               /\ IF Of[r] = t THEN report'[r].at # "storage" ELSE report'[r] = report[r]
      BY <1>2, <2>2
    <3> QED  BY <2>0, <3>1, <3>2, UnlinkBacked
  <2>3. CASE u # v
    <3>1. ASSUME NEW x \in Tags PROVE count'[x][u] <= count[x][u]
      <4>1. count'[x][u] = count[x][u] /\ count[x][u] \in Nat
        BY <1>0, <2>1, <2>3
      <4> QED  BY <4>1
    <3>2. ASSUME NEW r \in Reporters PROVE slice'[r][u] <= slice[r][u] /\ KeepsReport(u, r)
      <4>1. slice'[r][u] = slice[r][u] /\ slice[r][u] \in Nat
        BY <1>0, <2>0
      <4>2. slice'[r][u] <= slice[r][u]
        BY <4>1
      <4>3. KeepsReport(u, r)
        <5>1. u \in report'[r].user => v \notin report[r].user
          BY <1>2, <2>3 DEF AccountInv, OneUser
        <5> QED  BY <1>2, <5>1 DEF KeepsReport
      <4> QED  BY <4>2, <4>3
    <3> QED  BY <2>0, <3>1, <3>2, KeepBacked
  <2> QED  BY <2>2, <2>3
<1> QED  BY <1>3, <1>4 DEF AccountInv

LEMMA AccountConn ==
    ASSUME Typed, Typed', AccountInv, NEW c \in Conns,
           \/ Routed(c) \/ StoreTable(c) \/ Transfer(c) \/ TransferNothing(c)
           \/ Event(c) \/ LogTraffic(c) \/ LogLate(c) \/ ClearFlag(c) \/ StoreCounter(c)
    PROVE  AccountInv'
<1>0. On[c] \in Tags /\ Owner[c] \in Users /\ count \in [Tags -> [Users -> Nat]] /\ sent \in [Users -> Nat]
  BY ConstantsAssumption DEF Typed
<1>1. CASE Routed(c) \/ Event(c) \/ ClearFlag(c)
  BY <1>1, AccountUnchanged DEF Routed, Event, ClearFlag, counting, account
<1>2. CASE StoreTable(c)
  <2>1. sent' = [sent EXCEPT ![Owner[c]] = @ + 0]
    BY <1>0, <1>2 DEF StoreTable, account
  <2>2. /\ count' = [count EXCEPT ![On[c]] = [u \in Users |-> IF u = Owner[c] THEN 0 ELSE 0]]
        /\ report' = TableGone(On[c]) /\ UNCHANGED <<charged, slice, doubled>>
    BY <1>2 DEF StoreTable, NewTable, account
  <2> QED  BY <1>0, <2>1, <2>2, AccountTable
<1>3. CASE StoreCounter(c)
  <2>1. /\ count' = [count EXCEPT ![On[c]] = [u \in Users |-> IF u = Owner[c] THEN 1 ELSE 0]]
        /\ sent' = [sent EXCEPT ![Owner[c]] = @ + 1]
        /\ report' = TableGone(On[c]) /\ UNCHANGED <<charged, slice, doubled>>
    BY <1>3 DEF StoreCounter, NewTable
  <2> QED  BY <1>0, <2>1, AccountTable
<1>4. CASE Transfer(c)
  <2>1. \/ count' = count \/ count' = Counted(On[c], Owner[c])
        \/ count' = [count EXCEPT ![On[c]][Owner[c]] = 1]
    BY <1>4 DEF Transfer, Add, Store
  <2> QED  BY <1>4, <2>1, AccountSend DEF Transfer
<1>5. CASE TransferNothing(c)
  <2>1. count' = [count EXCEPT ![On[c]][Owner[c]] = 0] /\ UNCHANGED <<sent, charged, report, slice, doubled>>
    BY <1>5 DEF TransferNothing, Store, account
  <2>2. \A t \in Tags, u \in Users : count'[t][u] = count[t][u] \/ count'[t][u] = 0
    BY <1>0, <2>1
  <2>3. \A r \in Reporters, u \in Users : slice'[r][u] = slice[r][u] \/ slice'[r][u] = 0
    BY <2>1
  <2> QED  BY <2>1, <2>2, <2>3, AccountLess
<1>6. CASE LogTraffic(c)
  <2>1. UNCHANGED <<charged, report, slice, doubled>>
    BY <1>6 DEF LogTraffic
  <2>2. CASE UNCHANGED <<count, sent>>
    BY <2>1, <2>2, AccountUnchanged DEF counting
  <2>3. CASE count' = Counted(On[c], Owner[c]) /\ sent' = [sent EXCEPT ![Owner[c]] = @ + 1]
    BY <2>1, <2>3, AccountSend
  <2> QED  BY <1>6, <2>2, <2>3 DEF LogTraffic
<1>7. CASE LogLate(c)
  <2>1. UNCHANGED <<count, charged, report, slice, doubled>>
    BY <1>7 DEF LogLate
  <2>2. CASE UNCHANGED sent
    BY <2>1, <2>2, AccountUnchanged DEF counting
  <2>3. CASE sent' = [sent EXCEPT ![Owner[c]] = @ + 1]
    BY <2>1, <2>3, AccountSend
  <2> QED  BY <1>7, <2>2, <2>3 DEF LogLate
<1> QED  BY <1>1, <1>2, <1>3, <1>4, <1>5, <1>6, <1>7

LEMMA AccountStep == Typed /\ Typed' /\ AccountInv /\ [Next]_vars => AccountInv'
<1> SUFFICES ASSUME Typed, Typed', AccountInv, [Next]_vars PROVE AccountInv'
  OBVIOUS
<1>1. ASSUME NEW t \in Tags, Close(t) \/ ReplaceLimiter(t) \/ AddNode(t) \/ AddUsers(t)
      PROVE  AccountInv'
  BY <1>1, AccountUnchanged DEF Close, ReplaceLimiter, AddNode, AddUsers, others, counting, account
<1>2. ASSUME NEW t \in Tags, CloseNode(t) \/ ReloadNode(t) PROVE AccountInv'
  BY <1>2, AccountGone DEF CloseNode, ReloadNode, DelNode
<1>3. ASSUME NEW t \in Tags, NEW u \in Users, AddUser(t, u) \/ DelFromMap(t, u) PROVE AccountInv'
  BY <1>3, AccountUnchanged DEF AddUser, DelFromMap, counting, account
<1>4. CASE UNCHANGED vars
  BY <1>4, AccountUnchanged DEF vars, counting
<1>5. ASSUME NEW r \in Reporters, LoadCounter(r) \/ ResetCounter(r) \/ ReportUserTraffic(r)
      PROVE  AccountInv'
  BY <1>5, AccountLoad, AccountReset, AccountPost
<1> QED  BY <1>1, <1>2, <1>3, <1>4, <1>5, AccountConn, AccountDelUser DEF Next

\* The pieces that were sent cover what was charged.
Within == \A u \in Users \ doubled : charged[u] <= sent[u]

LEMMA AccountWithin == Typed /\ AccountInv => Within
<1> SUFFICES ASSUME Typed, AccountInv, NEW u \in Users \ doubled PROVE charged[u] <= sent[u]
  BY DEF Within
<1>1. PICK b \in [Places -> Nat] : Covers(Places, sent[u], b) /\ Demands(u, b)
  BY DEF AccountInv, Backed
<1>2. Paid \in Places /\ charged[u] \in Nat /\ sent[u] \in Nat
  BY DEF Places, Typed
<1>3. b[Paid] <= sent[u] /\ b[Paid] \in Nat
  BY <1>1, <1>2, CoversBound
<1> QED  BY <1>1, <1>2, <1>3 DEF Demands

LEMMA SendRefines ==
    ASSUME Typed, NEW c \in Conns,
           \/ Routed(c) \/ StoreTable(c) \/ Transfer(c) \/ TransferNothing(c)
           \/ Event(c) \/ LogTraffic(c) \/ LogLate(c) \/ ClearFlag(c) \/ StoreCounter(c)
    PROVE  Account!Send \/ UNCHANGED <<sent, charged, doubled>>
<1>1. UNCHANGED <<charged, doubled>> /\ (sent' = sent \/ sent' = [sent EXCEPT ![Owner[c]] = @ + 1])
  <2>1. CASE Routed(c) \/ StoreTable(c) \/ TransferNothing(c) \/ Event(c) \/ ClearFlag(c)
    BY <2>1 DEF Routed, StoreTable, TransferNothing, Event, ClearFlag, account
  <2>2. CASE Transfer(c) \/ LogTraffic(c) \/ LogLate(c) \/ StoreCounter(c)
    BY <2>2 DEF Transfer, LogTraffic, LogLate, StoreCounter
  <2> QED  BY <2>1, <2>2
<1>2. CASE sent' = [sent EXCEPT ![Owner[c]] = @ + 1]
  <2>1. Owner[c] \in Users /\ sent \in [Users -> Nat]
    BY ConstantsAssumption DEF Typed
  <2>2. PICK u \in Users : u = Owner[c]
    BY <2>1
  <2>3. sent'[u] > sent[u]
    BY <1>2, <2>1, <2>2
  <2>4. sent' = [sent EXCEPT ![u] = sent'[u]]
    BY <1>2, <2>1, <2>2
  <2> QED  BY <1>1, <2>3, <2>4 DEF Account!Send
<1> QED  BY <1>1, <1>2

LEMMA ReportRefines ==
    ASSUME Typed, Typed', Within', NEW r \in Reporters,
           LoadCounter(r) \/ ResetCounter(r) \/ ReportUserTraffic(r)
    PROVE  Account!Charge \/ Account!ReadTwice \/ UNCHANGED <<sent, charged, doubled>>
<1>1. CASE LoadCounter(r)
  BY <1>1 DEF LoadCounter, Account!ReadTwice
<1>2. CASE ResetCounter(r)
  BY <1>2 DEF ResetCounter
<1>3. CASE ReportUserTraffic(r) /\ charged' = charged
  BY <1>3 DEF ReportUserTraffic
<1>4. CASE ReportUserTraffic(r) /\ charged' = [u \in Users |-> charged[u] + slice[r][u]]
  <2>1. UNCHANGED <<sent, doubled>>
    BY <1>4 DEF ReportUserTraffic
  <2>2. charged' = [u \in Users |-> charged'[u]]
    BY DEF Typed
  <2>3. ASSUME NEW u \in Users PROVE charged'[u] >= charged[u] /\ (charged'[u] <= sent[u] \/ u \in doubled)
    <3>1. charged'[u] = charged[u] + slice[r][u] /\ charged[u] \in Nat /\ slice[r][u] \in Nat
      BY <1>4 DEF Typed
    <3>2. charged'[u] <= sent[u] \/ u \in doubled
      BY <2>1 DEF Within
    <3> QED  BY <3>1, <3>2
  <2> QED  BY <2>1, <2>2, <2>3 DEF Account!Charge
<1> QED  BY <1>1, <1>2, <1>3, <1>4 DEF ReportUserTraffic

LEMMA AccountRefines ==
    Typed /\ Typed' /\ Within' /\ [Next]_vars
        => [Account!Send \/ Account!Charge \/ Account!ReadTwice]_<<sent, charged, doubled>>
<1> SUFFICES ASSUME Typed, Typed', Within', Next
             PROVE  Account!Send \/ Account!Charge \/ Account!ReadTwice \/ UNCHANGED <<sent, charged, doubled>>
  BY DEF vars
<1>1. ASSUME NEW t \in Tags, \/ Close(t) \/ CloseNode(t) \/ ReloadNode(t)
                             \/ ReplaceLimiter(t) \/ AddNode(t) \/ AddUsers(t)
      PROVE  UNCHANGED <<sent, charged, doubled>>
  BY <1>1 DEF Close, CloseNode, ReloadNode, DelNode, ReplaceLimiter, AddNode, AddUsers, others, account
<1>2. ASSUME NEW t \in Tags, NEW u \in Users, AddUser(t, u) \/ DelUser(t, u) \/ DelFromMap(t, u)
      PROVE  UNCHANGED <<sent, charged, doubled>>
  BY <1>2 DEF AddUser, DelUser, DelFromMap, account
<1> QED  BY <1>1, <1>2, SendRefines, ReportRefines DEF Next

\* Whatever the interleaving of connections, reports, panel calls and changes of users and nodes,
\* the cores implement the account of TrafficAccount: a user is charged only for traffic of its
\* own that was sent before, and for no piece of it twice, unless two report loops had loaded a
\* counter of the user before either of them reset it.
THEOREM SharedAccount == Spec => AccountSpec
<1>1. Init => Account!Init
  BY DEF Init, Account!Init
<1> QED  BY <1>1, TypedInit, TypedStep, AccountInit, AccountStep, AccountWithin, AccountRefines, PTL
         DEF Spec, AccountSpec, Account!Spec
-----------------------------------------------------------------------------
(* Sums.  What is stored for a user is a sum over the nodes, and tlapm has *)
(* no induction over sets: that the recursion of a sum has a solution, and *)
(* what a change of one summand does to it, is shown for the subsets of    *)
(* the set by their cardinality, with the least counterexample.            *)

\* Induction over the numbers, by the least one that is missing.
LEMMA NoneOf ==
    ASSUME NEW M, M \subseteq Nat, 0 \notin M, \A n \in Nat : n \notin M => n + 1 \notin M
    PROVE  M = {}
<1> SUFFICES ASSUME M # {} PROVE FALSE
  OBVIOUS
<1>1. PICK n \in M : \A k \in M : ~(<<k, n>> \in OpToRel(<, Nat))
  BY NatLessThanWellFounded, WFMin
<1>2. n \in Nat /\ n # 0 /\ n - 1 \in Nat /\ n - 1 \notin M => FALSE
  <2>1. ASSUME n \in Nat, n - 1 \in Nat, n - 1 \notin M PROVE n - 1 + 1 \notin M
    BY <2>1
  <2> QED BY <2>1
<1>3. n \in Nat /\ n - 1 \in Nat
  OBVIOUS
<1>4. <<n - 1, n>> \in OpToRel(<, Nat)
  BY <1>3 DEF OpToRel
<1> QED BY <1>1, <1>2, <1>3, <1>4

\* The element at which the recursion of a sum takes a set apart.
First(s) == CHOOSE x \in s : TRUE

LEMMA TakeFirst ==
    ASSUME NEW S, IsFiniteSet(S), NEW s \in SUBSET S
    PROVE  /\ Cardinality(s) \in Nat
           /\ Cardinality(s) = 0 => s = {}
           /\ s # {} => /\ First(s) \in s /\ s \ {First(s)} \in SUBSET S
                        /\ Cardinality(s \ {First(s)}) = Cardinality(s) - 1
<1>1. IsFiniteSet(s)
  BY FS_Subset
<1>2. s # {} => First(s) \in s
  BY DEF First
<1> QED  BY <1>1, <1>2, FS_CardinalityType, FS_RemoveElement, FS_EmptySet

\* Induction over the subsets of a finite set.
LEMMA AllSubsets ==
    ASSUME NEW S, IsFiniteSet(S), NEW M, {} \in M,
           \A s \in SUBSET S : s # {} /\ s \ {First(s)} \in M => s \in M
    PROVE  S \in M
<1> DEFINE Missing == {n \in Nat : \E s \in SUBSET S : Cardinality(s) = n /\ s \notin M}
<1>1. 0 \notin Missing
  <2> SUFFICES ASSUME NEW s \in SUBSET S, Cardinality(s) = 0 PROVE s \in M
    OBVIOUS
  <2> QED  BY TakeFirst
<1>2. ASSUME NEW n \in Nat, n \notin Missing PROVE n + 1 \notin Missing
  <2> SUFFICES ASSUME NEW s \in SUBSET S, Cardinality(s) = n + 1 PROVE s \in M
    OBVIOUS
  <2>1. CASE s = {}
    BY <2>1
  <2>2. CASE s # {}
    <3>1. s \ {First(s)} \in SUBSET S /\ Cardinality(s \ {First(s)}) = n + 1 - 1
      BY <2>2, TakeFirst
    <3>2. s \ {First(s)} \in M
      BY <1>2, <3>1
    <3> QED  BY <2>2, <3>2
  <2> QED  BY <2>1, <2>2
<1>3. Missing = {}
  <2>1. Missing \subseteq Nat
    OBVIOUS
  <2> HIDE DEF Missing
  <2> QED  BY <1>1, <1>2, <2>1, NoneOf
<1>4. S \in SUBSET S /\ Cardinality(S) \in Nat
  BY FS_CardinalityType
<1> QED  BY <1>3, <1>4

\* g is the sum of f over every subset of S.
IsSum(g, f, S) ==
    /\ f \in [S -> Nat]
    /\ \A s \in SUBSET S : g[s] = IF s = {} THEN 0 ELSE f[First(s)] + g[s \ {First(s)}]

LEMMA SumExists ==
    ASSUME NEW S, IsFiniteSet(S), NEW f \in [S -> Nat]
    PROVE  \E g \in [SUBSET S -> Nat] : IsSum(g, f, S)
<1> DEFINE Step(g) == [s \in SUBSET S |-> IF s = {} THEN 0 ELSE f[First(s)] + g[s \ {First(s)}]]
           Upto(g, n) == \A s \in SUBSET S : Cardinality(s) < n => g[s] = Step(g)[s]
           Missing == {n \in Nat : \A g \in [SUBSET S -> Nat] : ~Upto(g, n)}
<1>1. ASSUME NEW g \in [SUBSET S -> Nat] PROVE Step(g) \in [SUBSET S -> Nat]
  BY DEF First
<1>2. ASSUME NEW g \in [SUBSET S -> Nat], NEW s \in SUBSET S
      PROVE  Step(g)[s] = IF s = {} THEN 0 ELSE f[First(s)] + g[s \ {First(s)}]
  OBVIOUS
<1> HIDE DEF Step
<1>3. ASSUME NEW n \in Nat, NEW g \in [SUBSET S -> Nat], Upto(g, n)
      PROVE  Upto(Step(g), n + 1)
  <2> SUFFICES ASSUME NEW s \in SUBSET S, Cardinality(s) < n + 1
               PROVE  Step(g)[s] = Step(Step(g))[s]
    OBVIOUS
  <2>1. CASE s = {}
    BY <1>1, <1>2, <2>1
  <2>2. CASE s # {}
    <3>1. s \ {First(s)} \in SUBSET S /\ Cardinality(s \ {First(s)}) < n
      <4>1. /\ Cardinality(s) \in Nat /\ s \ {First(s)} \in SUBSET S
            /\ Cardinality(s \ {First(s)}) = Cardinality(s) - 1
        BY <2>2, TakeFirst
      <4> QED  BY <4>1
    <3>2. g[s \ {First(s)}] = Step(g)[s \ {First(s)}]
      BY <1>3, <3>1
    <3>3. /\ Step(g)[s] = f[First(s)] + g[s \ {First(s)}]
          /\ Step(Step(g))[s] = f[First(s)] + Step(g)[s \ {First(s)}]
      BY <1>1, <1>2, <2>2
    <3> QED  BY <3>2, <3>3
  <2> QED  BY <2>1, <2>2
<1>4. 0 \notin Missing
  <2>1. [s \in SUBSET S |-> 0] \in [SUBSET S -> Nat]
    OBVIOUS
  <2>2. \A s \in SUBSET S : ~(Cardinality(s) < 0)
    <3>1. ASSUME NEW s \in SUBSET S PROVE ~(Cardinality(s) < 0)
      <4>1. Cardinality(s) \in Nat
        BY TakeFirst
      <4> QED  BY <4>1
    <3> QED  BY <3>1
  <2>3. Upto([s \in SUBSET S |-> 0], 0)
    BY <2>2, Zenon
  <2> QED  BY <2>1, <2>3
<1>5. ASSUME NEW n \in Nat, n \notin Missing PROVE n + 1 \notin Missing
  <2>1. PICK g \in [SUBSET S -> Nat] : Upto(g, n)
    BY <1>5
  <2>2. Step(g) \in [SUBSET S -> Nat] /\ Upto(Step(g), n + 1)
    BY <1>1, <1>3, <2>1
  <2> HIDE DEF Upto
  <2> QED  BY <2>2
<1>6. Missing = {}
  <2>1. Missing \subseteq Nat
    OBVIOUS
  <2> HIDE DEF Missing
  <2> QED BY <1>4, <1>5, <2>1, NoneOf
<1>7. PICK g \in [SUBSET S -> Nat] : Upto(g, Cardinality(S) + 1)
  <2>1. Cardinality(S) + 1 \in Nat
    <3>1. Cardinality(S) \in Nat
      BY FS_CardinalityType
    <3> QED  BY <3>1
  <2> HIDE DEF Upto
  <2> QED  BY <1>6, <2>1
<1>8. ASSUME NEW s \in SUBSET S PROVE g[s] = IF s = {} THEN 0 ELSE f[First(s)] + g[s \ {First(s)}]
  <2>1. Cardinality(s) < Cardinality(S) + 1
    BY FS_Subset, FS_CardinalityType
  <2>2. g[s] = Step(g)[s]
    BY <1>7, <2>1
  <2> QED  BY <1>2, <2>2
<1> QED  BY <1>8 DEF IsSum

\* Two sums of functions that differ at one place at most.
LEMMA SumChange ==
    ASSUME NEW S, IsFiniteSet(S), NEW f, NEW e, NEW g, NEW h, IsSum(g, f, S), IsSum(h, e, S),
           NEW t \in S, \A x \in S \ {t} : e[x] = f[x]
    PROVE  g[S] \in Nat /\ h[S] \in Nat /\ h[S] + f[t] = g[S] + e[t]
<1> DEFINE F(s) == IF t \in s THEN f[t] ELSE 0
           E(s) == IF t \in s THEN e[t] ELSE 0
           Right(s) == g[s] \in Nat /\ h[s] \in Nat /\ h[s] + F(s) = g[s] + E(s)
           M == {s \in SUBSET S : Right(s)}
<1>0. f \in [S -> Nat] /\ e \in [S -> Nat]
  BY DEF IsSum
<1>1. \A s \in SUBSET S : F(s) \in Nat /\ E(s) \in Nat
  BY <1>0
<1>2. Right({})
  <2>1. g[{}] = 0 /\ h[{}] = 0
    BY DEF IsSum
  <2> QED  BY <2>1
<1>3. ASSUME NEW s \in SUBSET S, s # {}, NEW r \in SUBSET S, r = s \ {First(s)}, Right(r)
      PROVE  Right(s)
  <2>1. h[s] = e[First(s)] + h[r] /\ g[s] = f[First(s)] + g[r]
    BY <1>3 DEF IsSum
  <2>2. First(s) \in s /\ First(s) \in S
    BY <1>3 DEF First
  <2>3. CASE First(s) = t
    <3>1. F(s) = f[t] /\ E(s) = e[t] /\ F(r) = 0 /\ E(r) = 0
      BY <1>3, <2>2, <2>3
    <3> HIDE DEF E, F
    <3> QED  BY <1>1, <1>3, <2>1, <2>3, <3>1
  <2>4. CASE First(s) # t
    <3>1. F(s) = F(r) /\ E(s) = E(r) /\ e[First(s)] = f[First(s)] /\ f[First(s)] \in Nat
      BY <1>0, <1>3, <2>2, <2>4
    <3> HIDE DEF E, F
    <3> QED  BY <1>1, <1>3, <2>1, <2>4, <3>1
  <2> QED  BY <2>3, <2>4
<1> HIDE DEF Right
<1>4. {} \in M /\ \A s \in SUBSET S : s # {} /\ s \ {First(s)} \in M => s \in M
  BY <1>2, <1>3
<1>5. Right(S)
  <2> HIDE DEF M
  <2>1. S \in M
    BY <1>4, AllSubsets, Zenon
  <2> QED  BY <2>1 DEF M
<1> QED  BY <1>5 DEF Right

LEMMA SumZero ==
    ASSUME NEW S, IsFiniteSet(S), NEW f, NEW g, IsSum(g, f, S), \A x \in S : f[x] = 0
    PROVE  g[S] = 0
<1> DEFINE M == {s \in SUBSET S : g[s] = 0}
<1>1. {} \in M
  BY DEF IsSum
<1>2. ASSUME NEW s \in SUBSET S, s # {}, s \ {First(s)} \in M PROVE s \in M
  <2>1. g[s] = f[First(s)] + g[s \ {First(s)}] /\ First(s) \in S
    BY <1>2 DEF IsSum, First
  <2> QED  BY <1>2, <2>1
<1>3. S \in M
  <2> HIDE DEF M
  <2> QED  BY <1>1, <1>2, AllSubsets, Zenon
<1> QED  BY <1>3

\* The traffic of a user that is in tables or slices.
Total(S, m, u) == MapThenSumSet(LAMBDA t : m[t][u], S)

\* What the operator of the model is.
LEMMA TotalIs ==
    ASSUME NEW S, IsFiniteSet(S), NEW m, NEW u, NEW f \in [S -> Nat], \A t \in S : f[t] = m[t][u]
    PROVE  \E g : IsSum(g, f, S) /\ Total(S, m, u) = g[S]
<1>1. PICK k \in [SUBSET S -> Nat] : IsSum(k, f, S)
  BY SumExists
<1> DEFINE Step(h) == [s \in SUBSET S |-> IF s = {} THEN 0
                                           ELSE m[CHOOSE x \in s : TRUE][u] + h[s \ {CHOOSE x \in s : TRUE}]]
<1>2. k = Step(k)
  <2>1. \A s \in SUBSET S : k[s] = IF s = {} THEN 0
                                     ELSE m[CHOOSE x \in s : TRUE][u] + k[s \ {CHOOSE x \in s : TRUE}]
    <3> SUFFICES ASSUME NEW s \in SUBSET S, s # {}
                 PROVE  k[s] = m[First(s)][u] + k[s \ {First(s)}]
      BY <1>1 DEF IsSum, First
    <3>1. First(s) \in S
      BY DEF First
    <3> QED  BY <1>1, <3>1 DEF IsSum
  <2> QED  BY <2>1
<1>3. PICK g : g = (CHOOSE h : h = Step(h)) /\ Total(S, m, u) = g[S]
  BY Zenon DEF Total, MapThenSumSet, MapThenFoldSet
<1>4. g = Step(g)
  <2> HIDE DEF Step
  <2> QED  BY <1>2, <1>3, Zenon
<1>5. IsSum(g, f, S)
  <2> SUFFICES ASSUME NEW s \in SUBSET S
               PROVE  g[s] = IF s = {} THEN 0 ELSE f[First(s)] + g[s \ {First(s)}]
    BY DEF IsSum
  <2>1. g[s] = Step(g)[s]
    BY <1>4, Zenon
  <2>2. s # {} => First(s) \in S
    BY DEF First
  <2> QED  BY <2>1, <2>2 DEF First
<1> QED  BY <1>3, <1>5

\* Nothing anywhere.
LEMMA TotalZero ==
    ASSUME NEW S, IsFiniteSet(S), NEW m, NEW u, \A t \in S : m[t][u] = 0
    PROVE  Total(S, m, u) = 0
<1>1. PICK f \in [S -> Nat] : \A x \in S : f[x] = 0
  <2>1. [x \in S |-> 0] \in [S -> Nat]
    OBVIOUS
  <2> QED  BY <2>1
<1>2. \A x \in S : f[x] = m[x][u]
  BY <1>1
<1>3. PICK g : IsSum(g, f, S) /\ Total(S, m, u) = g[S]
  BY <1>2, TotalIs
<1> QED  BY <1>1, <1>3, SumZero

\* Two that differ at one place at most.
LEMMA TotalChange ==
    ASSUME NEW S, IsFiniteSet(S), NEW m, NEW n, NEW u, NEW t \in S,
           \A x \in S : m[x][u] \in Nat /\ n[x][u] \in Nat /\ (x # t => n[x][u] = m[x][u])
    PROVE  /\ Total(S, m, u) \in Nat /\ Total(S, n, u) \in Nat
           /\ Total(S, n, u) + m[t][u] = Total(S, m, u) + n[t][u]
<1>1. PICK f \in [S -> Nat] : \A x \in S : f[x] = m[x][u]
  <2>1. [x \in S |-> m[x][u]] \in [S -> Nat]
    OBVIOUS
  <2> QED  BY <2>1
<1>2. PICK e \in [S -> Nat] : \A x \in S : e[x] = n[x][u]
  <2>1. [x \in S |-> n[x][u]] \in [S -> Nat]
    OBVIOUS
  <2> QED  BY <2>1
<1>3. PICK g : IsSum(g, f, S) /\ Total(S, m, u) = g[S]
  BY <1>1, TotalIs
<1>4. PICK h : IsSum(h, e, S) /\ Total(S, n, u) = h[S]
  BY <1>2, TotalIs
<1>5. /\ f[t] = m[t][u] /\ e[t] = n[t][u]
      /\ \A x \in S \ {t} : e[x] = f[x]
  BY <1>1, <1>2
<1>6. g[S] \in Nat /\ h[S] \in Nat /\ h[S] + f[t] = g[S] + e[t]
  BY <1>3, <1>4, <1>5, SumChange
<1> QED  BY <1>3, <1>4, <1>5, <1>6

\* Two that do not differ.
LEMMA TotalSame ==
    ASSUME NEW S, IsFiniteSet(S), NEW m, NEW n, NEW u,
           \A x \in S : m[x][u] \in Nat /\ n[x][u] = m[x][u]
    PROVE  Total(S, m, u) \in Nat /\ Total(S, n, u) = Total(S, m, u)
<1>1. CASE S = {}
  <2>1. Total(S, m, u) = 0 /\ Total(S, n, u) = 0
    BY <1>1, TotalZero
  <2> QED  BY <2>1
<1>2. ASSUME NEW t \in S PROVE Total(S, m, u) \in Nat /\ Total(S, n, u) = Total(S, m, u)
  <2>1. \A x \in S : m[x][u] \in Nat /\ n[x][u] \in Nat /\ (x # t => n[x][u] = m[x][u])
    OBVIOUS
  <2>2. /\ Total(S, m, u) \in Nat /\ Total(S, n, u) \in Nat
        /\ Total(S, n, u) + m[t][u] = Total(S, m, u) + n[t][u]
    BY <2>1, TotalChange
  <2>3. PICK k \in Nat : k = m[t][u] /\ k = n[t][u]
    OBVIOUS
  <2> QED  BY <2>2, <2>3
<1> QED  BY <1>1, <1>2
-----------------------------------------------------------------------------
(* What is lost, and why.  A user that is not marked was sent what is      *)
(* charged and what the slices and the tables hold.  For a step to keep    *)
(* that, a report whose storage left the table, and a connection of sing   *)
(* whose storage is in no table, must be of users that are marked already; *)
(* and a storage that a report has loaded is not empty, so that a table    *)
(* which replaces it marks its user.                                       *)

Marks == lost \cup doubled

Balanced(u) == sent[u] = charged[u] + Total(Reporters, slice, u) + Total(Tags, count, u)

Marked(r) ==
    \A u \in report[r].user : u \in Marks \/ (report[r].at = "storage" /\ count[Of[r]][u] > 0)

Counts(c) ==
    /\ core = "sing" /\ pc[c] = "open" => c \in attached \/ Owner[c] \in lost
    /\ pc[c] = "raw" => Owner[c] \in lost

Balances == \A u \in Users : u \notin Marks => Balanced(u)

LostInv == Balances /\ (\A r \in Reporters : Marked(r)) /\ (\A c \in Conns : Counts(c))

LEMMA LostInit == Init => LostInv
<1> SUFFICES ASSUME Init PROVE LostInv
  OBVIOUS
<1>1. ASSUME NEW u \in Users PROVE Balanced(u)
  <2>1. Total(Tags, count, u) = 0
    <3>1. \A t \in Tags : count[t][u] = 0
      BY DEF Init
    <3> QED  BY <3>1, TotalZero, ConstantsAssumption
  <2>2. Total(Reporters, slice, u) = 0
    <3>1. \A r \in Reporters : slice[r][u] = 0
      BY DEF Init, NoSlice
    <3> QED  BY <3>1, TotalZero, ConstantsAssumption
  <2>3. sent[u] = 0 /\ charged[u] = 0
    BY DEF Init
  <2> QED  BY <2>1, <2>2, <2>3 DEF Balanced
<1>2. \A r \in Reporters : Marked(r)
  BY DEF Init, Marked, None
<1>3. \A c \in Conns : Counts(c)
  BY DEF Init, Counts
<1> QED  BY <1>1, <1>2, <1>3 DEF LostInv, Balances

\* A user's balance holds after a step that sends a pieces, and adds them to what is stored for
\* the user at one node.
LEMMA KeepBalance ==
    ASSUME Typed, Typed', NEW u \in Users, NEW t \in Tags, Balanced(u), NEW a \in Nat,
           sent'[u] = sent[u] + a, charged'[u] = charged[u], count'[t][u] = count[t][u] + a,
           \A x \in Tags \ {t} : count'[x][u] = count[x][u],
           \A r \in Reporters : slice'[r][u] = slice[r][u]
    PROVE  Balanced(u)'
<1>1. /\ \A x \in Tags : count[x][u] \in Nat /\ count'[x][u] \in Nat
      /\ \A r \in Reporters : slice[r][u] \in Nat
      /\ sent[u] \in Nat /\ charged[u] \in Nat
  BY DEF Typed
<1>2. /\ Total(Tags, count, u) \in Nat /\ Total(Tags, count', u) \in Nat
      /\ Total(Tags, count', u) + count[t][u] = Total(Tags, count, u) + count'[t][u]
  BY <1>1, TotalChange, ConstantsAssumption
<1>3. Total(Reporters, slice, u) \in Nat /\ Total(Reporters, slice', u) = Total(Reporters, slice, u)
  BY <1>1, TotalSame, ConstantsAssumption
<1>4. sent[u] = charged[u] + Total(Reporters, slice, u) + Total(Tags, count, u)
  BY DEF Balanced
<1>5. sent'[u] = charged'[u] + Total(Reporters, slice', u) + Total(Tags, count', u)
  BY <1>1, <1>2, <1>3, <1>4
<1> QED  BY <1>5 DEF Balanced

\* Nothing changes for a user.
LEMMA SameBalance ==
    ASSUME Typed, Typed', NEW u \in Users, Balanced(u), sent'[u] = sent[u], charged'[u] = charged[u],
           \A x \in Tags : count'[x][u] = count[x][u], \A r \in Reporters : slice'[r][u] = slice[r][u]
    PROVE  Balanced(u)'
<1>1. (\A x \in Tags : count[x][u] \in Nat) /\ (\A r \in Reporters : slice[r][u] \in Nat)
  BY DEF Typed
<1>2. Total(Tags, count', u) = Total(Tags, count, u)
  BY <1>1, TotalSame, ConstantsAssumption
<1>3. Total(Reporters, slice', u) = Total(Reporters, slice, u)
  BY <1>1, TotalSame, ConstantsAssumption
<1> QED  BY <1>2, <1>3 DEF Balanced

\* A report moves pieces from its node's counter to its slice, or from there to the panel.
LEMMA ReportBalance ==
    ASSUME Typed, Typed', NEW u \in Users, NEW r \in Reporters, Balanced(u), sent'[u] = sent[u],
           charged'[u] + slice'[r][u] + count'[Of[r]][u] = charged[u] + slice[r][u] + count[Of[r]][u],
           \A x \in Tags \ {Of[r]} : count'[x][u] = count[x][u],
           \A q \in Reporters \ {r} : slice'[q][u] = slice[q][u]
    PROVE  Balanced(u)'
<1>1. /\ \A x \in Tags : count[x][u] \in Nat /\ count'[x][u] \in Nat
      /\ \A q \in Reporters : slice[q][u] \in Nat /\ slice'[q][u] \in Nat
      /\ sent[u] \in Nat /\ charged[u] \in Nat /\ charged'[u] \in Nat /\ Of[r] \in Tags
  BY ConstantsAssumption DEF Typed
<1>2. /\ Total(Tags, count, u) \in Nat /\ Total(Tags, count', u) \in Nat
      /\ Total(Tags, count', u) + count[Of[r]][u] = Total(Tags, count, u) + count'[Of[r]][u]
  BY <1>1, TotalChange, ConstantsAssumption
<1>3. /\ Total(Reporters, slice, u) \in Nat /\ Total(Reporters, slice', u) \in Nat
      /\ Total(Reporters, slice', u) + slice[r][u] = Total(Reporters, slice, u) + slice'[r][u]
  BY <1>1, TotalChange, ConstantsAssumption
<1>4. sent[u] = charged[u] + Total(Reporters, slice, u) + Total(Tags, count, u)
  BY DEF Balanced
<1>5. sent'[u] = charged'[u] + Total(Reporters, slice', u) + Total(Tags, count', u)
  BY <1>1, <1>2, <1>3, <1>4
<1> QED  BY <1>5 DEF Balanced

lostVars == <<setting, pc, attached, count, report, slice, sent, charged, lost, doubled>>

\* Steps that leave the accounts, the storages and the reports alone.
LEMMA LostFrame ==
    ASSUME LostInv, UNCHANGED <<count, report, slice, sent, charged, doubled>>, lost \subseteq lost'
    PROVE  Balances' /\ \A r \in Reporters : Marked(r)'
<1>1. ASSUME NEW u \in Users, u \notin Marks' PROVE Balanced(u)'
  <2>1. Balanced(u)
    BY <1>1 DEF LostInv, Balances, Marks
  <2> QED  BY <2>1 DEF Balanced
<1>2. ASSUME NEW r \in Reporters PROVE Marked(r)'
  BY DEF LostInv, Marked, Marks
<1> QED  BY <1>1, <1>2 DEF Balances

LEMMA LostUnchanged == LostInv /\ UNCHANGED lostVars => LostInv'
<1> SUFFICES ASSUME LostInv, UNCHANGED lostVars PROVE LostInv'
  OBVIOUS
<1>1. Balances' /\ \A r \in Reporters : Marked(r)'
  BY LostFrame DEF lostVars
<1>2. ASSUME NEW c \in Conns PROVE Counts(c)'
  BY DEF LostInv, Counts, lostVars, core
<1> QED  BY <1>1, <1>2 DEF LostInv

\* The counters of a node that are not empty are emptied, or of marked users, or not touched;
\* the reports that had loaded them are of marked users.
LEMMA LostMarks ==
    ASSUME Typed, Typed', LostInv, lost \subseteq lost', doubled \subseteq doubled',
           \A r \in Reporters :
             \/ report'[r].user = {}
             \/ /\ report'[r].user = report[r].user
                /\ \A u \in report[r].user :
                     \/ u \in Marks'
                     \/ report'[r].at = report[r].at /\ count'[Of[r]][u] >= count[Of[r]][u]
                     \/ count[Of[r]][u] = 0
    PROVE  \A r \in Reporters : Marked(r)'
<1> SUFFICES ASSUME NEW r \in Reporters, NEW u \in report'[r].user, u \notin Marks'
             PROVE  report'[r].at = "storage" /\ count'[Of[r]][u] > 0
  BY DEF Marked
<1>1. u \in report[r].user /\ u \notin Marks
  BY DEF Marks
<1>2. report[r].at = "storage" /\ count[Of[r]][u] > 0
  BY <1>1 DEF LostInv, Marked
<1>3. report'[r].at = report[r].at /\ count'[Of[r]][u] >= count[Of[r]][u]
  BY <1>1, <1>2
<1>4. u \in Users /\ Of[r] \in Tags
  BY <1>1, ConstantsAssumption DEF Typed, Reports
<1>5. count[Of[r]][u] \in Nat /\ count'[Of[r]][u] \in Nat
  BY <1>4 DEF Typed
<1> QED  BY <1>2, <1>3, <1>5

\* The first connection of a node stores a table, with k pieces of its own: what was in an older
\* one is lost.
LEMMA LostNew ==
    ASSUME Typed, Typed', LostInv, NEW c \in Conns, NEW k \in {0, 1}, NewTable(On[c], c, k),
           UNCHANGED <<setting, charged, slice, doubled>>, sent' = [sent EXCEPT ![Owner[c]] = @ + k],
           pc' = [pc EXCEPT ![c] = "open"]
    PROVE  LostInv'
<1>0. /\ On[c] \in Tags /\ Owner[c] \in Users
      /\ count \in [Tags -> [Users -> Nat]] /\ sent \in [Users -> Nat] /\ pc \in [Conns -> Points]
  BY ConstantsAssumption DEF Typed
<1> DEFINE emptied == {u \in Users : count[On[c]][u] > 0 \/ \E d \in attached : On[d] = On[c] /\ Owner[d] = u}
<1>1. /\ lost' = lost \cup emptied
      /\ report' = TableGone(On[c])
      /\ attached' = {d \in attached : On[d] # On[c]} \cup {c}
      /\ count' = [count EXCEPT ![On[c]] = [u \in Users |-> IF u = Owner[c] THEN k ELSE 0]]
  BY DEF NewTable, Lost
<1>2. ASSUME NEW u \in Users, u \notin Marks' PROVE Balanced(u)'
  <2>1. Balanced(u) /\ u \notin emptied
    BY <1>1, <1>2 DEF LostInv, Balances, Marks
  <2>2. count[On[c]][u] = 0
    BY <1>0, <2>1
  <2>3. \A x \in Tags \ {On[c]} : count'[x][u] = count[x][u]
    BY <1>0, <1>1
  <2>4. PICK a \in Nat : a = IF u = Owner[c] THEN k ELSE 0
    OBVIOUS
  <2>5. sent'[u] = sent[u] + a /\ count'[On[c]][u] = count[On[c]][u] + a
    BY <1>0, <1>1, <2>2, <2>4
  <2> QED  BY <1>0, <2>1, <2>3, <2>5, KeepBalance
<1>3. \A r \in Reporters : Marked(r)'
  <2> SUFFICES ASSUME NEW r \in Reporters, NEW u \in report[r].user
               PROVE  /\ report'[r].user = report[r].user
                      /\ \/ u \in Marks'
                         \/ report'[r].at = report[r].at /\ count'[Of[r]][u] >= count[Of[r]][u]
                         \/ count[Of[r]][u] = 0
    <3>1. \A r \in Reporters : report'[r].user = report[r].user
      BY <1>0, <1>1, GoneIs
    <3>2. lost \subseteq lost' /\ doubled \subseteq doubled'
      BY <1>1
    <3> QED  BY <3>1, <3>2, LostMarks
  <2>1. /\ report'[r].user = report[r].user /\ u \in Users /\ Of[r] \in Tags
        /\ Of[r] # On[c] => report'[r] = report[r]
    BY <1>0, <1>1, GoneIs, ConstantsAssumption DEF Typed, Reports
  <2>2. count[Of[r]][u] \in Nat
    BY <1>0, <2>1
  <2>3. CASE Of[r] = On[c]
    BY <1>1, <2>1, <2>2, <2>3 DEF Marks
  <2>4. CASE Of[r] # On[c]
    <3>1. count'[Of[r]][u] = count[Of[r]][u]
      BY <1>0, <1>1, <2>1, <2>4
    <3>2. count'[Of[r]][u] >= count[Of[r]][u]
      BY <2>2, <3>1
    <3> QED  BY <2>1, <2>4, <3>2
  <2> QED  BY <2>3, <2>4
<1>4. ASSUME NEW d \in Conns PROVE Counts(d)'
  <2>0. Owner[d] \in Users
    BY ConstantsAssumption
  <2>1. CASE d = c
    BY <1>0, <1>1, <2>1 DEF Counts
  <2>2. CASE d # c
    <3>1. pc'[d] = pc[d] /\ Counts(d)
      BY <1>0, <2>2 DEF LostInv
    <3>2. d \in attached => d \in attached' \/ Owner[d] \in lost'
      BY <1>1, <2>0
    <3> QED  BY <1>1, <3>1, <3>2 DEF Counts, core
  <2> QED  BY <2>1, <2>2
<1> QED  BY <1>2, <1>3, <1>4 DEF LostInv, Balances

\* The storage of one user is set to k pieces, or k pieces are added to it, and k are sent; what
\* was overwritten is lost.
LEMMA LostStored ==
    ASSUME Typed, Typed', LostInv, NEW t \in Tags, NEW u \in Users, NEW k \in {0, 1},
           \/ count' = [count EXCEPT ![t][u] = @ + k] /\ lost' = lost
           \/ /\ count' = [count EXCEPT ![t][u] = k]
              /\ IF count[t][u] > 0 THEN Lost({u}) ELSE UNCHANGED lost,
           sent' = [sent EXCEPT ![u] = @ + k], UNCHANGED <<charged, report, slice, doubled>>
    PROVE  Balances' /\ (\A r \in Reporters : Marked(r)') /\ lost \subseteq lost'
<1>0. count \in [Tags -> [Users -> Nat]] /\ sent \in [Users -> Nat]
  BY DEF Typed
<1>1. \A x \in Tags, v \in Users : x # t \/ v # u => count'[x][v] = count[x][v]
  BY <1>0
<1>2. lost \subseteq lost' /\ (u \in lost' \/ count'[t][u] = count[t][u] + k)
  <2>1. CASE count' = [count EXCEPT ![t][u] = @ + k] /\ lost' = lost
    BY <1>0, <2>1
  <2>2. CASE count' = [count EXCEPT ![t][u] = k] /\ IF count[t][u] > 0 THEN Lost({u}) ELSE UNCHANGED lost
    <3>1. CASE count[t][u] > 0
      BY <2>2, <3>1 DEF Lost
    <3>2. CASE ~(count[t][u] > 0)
      <4>1. count[t][u] = 0 /\ count'[t][u] = k
        BY <1>0, <2>2, <3>2
      <4> QED  BY <2>2, <3>2, <4>1
    <3> QED  BY <3>1, <3>2
  <2> QED  BY <2>1, <2>2
<1>3. ASSUME NEW v \in Users, v \notin Marks' PROVE Balanced(v)'
  <2>1. Balanced(v) /\ v \notin lost'
    BY <1>2, <1>3 DEF LostInv, Balances, Marks
  <2>2. PICK a \in Nat : a = IF v = u THEN k ELSE 0
    OBVIOUS
  <2>3. sent'[v] = sent[v] + a /\ charged'[v] = charged[v]
    BY <1>0, <2>2
  <2>4. count'[t][v] = count[t][v] + a
    BY <1>0, <1>1, <1>2, <2>1, <2>2
  <2>5. \A x \in Tags \ {t} : count'[x][v] = count[x][v]
    BY <1>1
  <2> QED  BY <2>1, <2>3, <2>4, <2>5, KeepBalance
<1>4. \A r \in Reporters : Marked(r)'
  <2> SUFFICES ASSUME NEW r \in Reporters, NEW v \in report[r].user
               PROVE  v \in Marks' \/ count'[Of[r]][v] >= count[Of[r]][v]
    BY <1>2, LostMarks
  <2>1. v \in Users /\ Of[r] \in Tags
    BY ConstantsAssumption DEF Typed, Reports
  <2>2. count[Of[r]][v] \in Nat /\ count'[Of[r]][v] \in Nat
    BY <2>1 DEF Typed
  <2>3. v \in lost' \/ count'[Of[r]][v] = count[Of[r]][v] \/ count'[Of[r]][v] = count[Of[r]][v] + k
    BY <1>1, <1>2, <2>1
  <2> QED  BY <2>2, <2>3 DEF Marks
<1> QED  BY <1>2, <1>3, <1>4 DEF Balances

LEMMA LostTransfer ==
    ASSUME Typed, Typed', LostInv, UNCHANGED setting, NEW c \in Conns, Transfer(c) \/ TransferNothing(c)
    PROVE  LostInv'
<1>0. /\ On[c] \in Tags /\ Owner[c] \in Users /\ sent \in [Users -> Nat]
  BY ConstantsAssumption DEF Typed
<1>1. UNCHANGED <<attached, pc, report, slice, charged, doubled>> /\ core = "sing" /\ pc[c] \in {"open", "raw"}
  BY DEF Transfer, TransferNothing, account
<1>2. PICK k \in {0, 1} :
        /\ sent' = [sent EXCEPT ![Owner[c]] = @ + k]
        /\ IF c \in attached
           THEN \/ count' = [count EXCEPT ![On[c]][Owner[c]] = @ + k] /\ lost' = lost
                \/ /\ count' = [count EXCEPT ![On[c]][Owner[c]] = k]
                   /\ IF count[On[c]][Owner[c]] > 0 THEN Lost({Owner[c]}) ELSE UNCHANGED lost
           ELSE UNCHANGED <<count, lost>>
  <2>1. CASE Transfer(c)
    BY <2>1 DEF Transfer, Add, Counted, Store
  <2>2. CASE TransferNothing(c)
    <3>1. sent' = [sent EXCEPT ![Owner[c]] = @ + 0]
      BY <1>0, <2>2 DEF TransferNothing, account
    <3> QED  BY <2>2, <3>1 DEF TransferNothing, Store
  <2> QED  BY <2>1, <2>2
<1>3. Balances' /\ (\A r \in Reporters : Marked(r)') /\ lost \subseteq lost'
  <2>1. CASE c \in attached
    BY <1>0, <1>1, <1>2, <2>1, LostStored
  <2>2. CASE c \notin attached
    <3>1. UNCHANGED <<count, lost>> /\ Owner[c] \in lost
      BY <1>1, <1>2, <2>2 DEF LostInv, Counts
    <3>2. ASSUME NEW u \in Users, u \notin Marks' PROVE Balanced(u)'
      <4>1. u # Owner[c] /\ Balanced(u)
        BY <1>1, <3>1, <3>2 DEF LostInv, Balances, Marks
      <4>2. sent'[u] = sent[u]
        BY <1>0, <1>2, <4>1
      <4> QED  BY <1>1, <3>1, <4>1, <4>2 DEF Balanced
    <3>3. \A r \in Reporters : Marked(r)'
      BY <1>1, <3>1 DEF LostInv, Marked, Marks
    <3> QED  BY <3>1, <3>2, <3>3 DEF Balances
  <2> QED  BY <2>1, <2>2
<1>4. ASSUME NEW d \in Conns PROVE Counts(d)'
  BY <1>1, <1>3 DEF LostInv, Counts, core
<1> QED  BY <1>3, <1>4 DEF LostInv

LEMMA LostConn ==
    ASSUME Typed, Typed', LostInv, UNCHANGED setting, NEW c \in Conns,
           \/ Routed(c) \/ StoreTable(c) \/ Transfer(c) \/ TransferNothing(c)
           \/ Event(c) \/ LogTraffic(c) \/ LogLate(c) \/ ClearFlag(c) \/ StoreCounter(c)
    PROVE  LostInv'
<1>0. On[c] \in Tags /\ Owner[c] \in Users /\ pc \in [Conns -> Points] /\ sent \in [Users -> Nat]
  BY ConstantsAssumption DEF Typed
<1>1. CASE Routed(c)
  <2>1. UNCHANGED <<count, report, slice, sent, charged, doubled>> /\ lost \subseteq lost'
    BY <1>1 DEF Routed, Lost, account
  <2>2. ASSUME NEW d \in Conns PROVE Counts(d)'
    <3>1. attached \subseteq attached' /\ Counts(d)
      BY <1>1 DEF Routed, LostInv
    <3>2. CASE d # c
      <4>1. pc'[d] = pc[d]
        BY <1>0, <1>1, <3>2 DEF Routed
      <4> QED  BY <2>1, <3>1, <4>1 DEF Counts, core
    <3>3. CASE d = c
      <4>1. \/ pc'[c] = "raw" /\ Owner[c] \in lost'
            \/ pc'[c] = "open" /\ c \in attached'
            \/ pc'[c] \in {"closed", "creating"}
        BY <1>0, <1>1 DEF Routed, Lost
      <4> QED  BY <3>3, <4>1 DEF Counts
    <3> QED  BY <3>2, <3>3
  <2> QED  BY <2>1, <2>2, LostFrame DEF LostInv
<1>2. CASE StoreTable(c)
  <2>1. sent' = [sent EXCEPT ![Owner[c]] = @ + 0]
    BY <1>0, <1>2 DEF StoreTable, account
  <2> QED  BY <1>2, <2>1, LostNew DEF StoreTable, account
<1>3. CASE Transfer(c) \/ TransferNothing(c)
  BY <1>3, LostTransfer
<1>4. CASE Event(c) \/ ClearFlag(c)
  <2>1. UNCHANGED <<count, report, slice, sent, charged, lost, attached, doubled>>
    BY <1>4 DEF Event, ClearFlag, account
  <2>2. ASSUME NEW d \in Conns PROVE Counts(d)'
    <3>1. \/ pc'[d] = pc[d]
          \/ pc'[d] = "open" /\ core = "hy2"
          \/ pc'[d] = "closed"
      BY <1>0, <1>4 DEF Event, ClearFlag
    <3> QED  BY <2>1, <3>1 DEF LostInv, Counts, core
  <2> QED  BY <2>1, <2>2, LostFrame DEF LostInv
<1>5. CASE LogTraffic(c)
  <2>1. /\ core = "hy2" /\ UNCHANGED <<report, slice, charged, lost, attached, doubled>>
        /\ \/ UNCHANGED <<count, sent>>
           \/ count' = Counted(On[c], Owner[c]) /\ sent' = [sent EXCEPT ![Owner[c]] = @ + 1]
    BY <1>5 DEF LogTraffic
  <2>2. ASSUME NEW d \in Conns PROVE Counts(d)'
    <3>1. pc'[d] = pc[d] \/ pc'[d] # "raw"
      BY <1>0, <1>5 DEF LogTraffic
    <3> QED  BY <2>1, <3>1 DEF LostInv, Counts, core
  <2>3. CASE UNCHANGED <<count, sent>>
    BY <2>1, <2>2, <2>3, LostFrame DEF LostInv
  <2>4. CASE count' = Counted(On[c], Owner[c]) /\ sent' = [sent EXCEPT ![Owner[c]] = @ + 1]
    <3>1. Balances' /\ \A r \in Reporters : Marked(r)'
      BY <1>0, <2>1, <2>4, LostStored DEF Counted
    <3> QED  BY <2>2, <3>1 DEF LostInv
  <2> QED  BY <2>1, <2>3, <2>4
<1>6. CASE LogLate(c)
  <2>1. core = "hy2" /\ UNCHANGED <<count, report, slice, charged, attached, doubled>>
    BY <1>6 DEF LogLate
  <2>2. /\ lost \subseteq lost' /\ (sent' = sent \/ Owner[c] \in lost')
        /\ \A u \in Users : u # Owner[c] => sent'[u] = sent[u]
    BY <1>0, <1>6 DEF LogLate, Lost
  <2>3. ASSUME NEW u \in Users, u \notin Marks' PROVE Balanced(u)'
    <3>1. Balanced(u) /\ sent'[u] = sent[u]
      BY <2>1, <2>2, <2>3 DEF LostInv, Balances, Marks
    <3> QED  BY <2>1, <3>1 DEF Balanced
  <2>4. \A r \in Reporters : Marked(r)'
    BY <2>1, <2>2 DEF LostInv, Marked, Marks
  <2>5. ASSUME NEW d \in Conns PROVE Counts(d)'
    <3>1. pc'[d] = pc[d] \/ pc'[d] = "cut"
      BY <1>0, <1>6 DEF LogLate
    <3> QED  BY <2>1, <2>2, <3>1 DEF LostInv, Counts, core
  <2> QED  BY <2>3, <2>4, <2>5 DEF LostInv, Balances
<1>7. CASE StoreCounter(c)
  BY <1>7, LostNew DEF StoreCounter
<1> QED  BY <1>1, <1>2, <1>3, <1>4, <1>5, <1>6, <1>7

LEMMA LostLoad ==
    ASSUME Typed, Typed', LostInv, UNCHANGED setting, NEW r \in Reporters, LoadCounter(r)
    PROVE  LostInv'
<1>1. UNCHANGED <<count, slice, sent, charged, lost, pc, attached>> /\ doubled \subseteq doubled'
  BY DEF LoadCounter
<1>2. PICK u \in Users : /\ count[Of[r]][u] > 0
                         /\ report' = [report EXCEPT ![r] = [user |-> {u}, n |-> count[Of[r]][u], at |-> "storage"]]
  BY DEF LoadCounter
<1>3. ASSUME NEW v \in Users, v \notin Marks' PROVE Balanced(v)'
  <2>1. Balanced(v)
    BY <1>1, <1>3 DEF LostInv, Balances, Marks
  <2> QED  BY <1>1, <2>1 DEF Balanced
<1>4. ASSUME NEW q \in Reporters PROVE Marked(q)'
  <2>0. report \in [Reporters -> Reports]
    BY DEF Typed
  <2>1. CASE q = r
    <3>1. report'[r].user = {u} /\ report'[r].at = "storage"
      BY <1>2, <2>0
    <3> QED  BY <1>1, <1>2, <2>1, <3>1 DEF Marked
  <2>2. CASE q # r
    <3>1. report'[q] = report[q] /\ Marked(q)
      BY <1>2, <2>0, <2>2 DEF LostInv
    <3> QED  BY <1>1, <3>1 DEF Marked, Marks
  <2> QED  BY <2>1, <2>2
<1>5. ASSUME NEW c \in Conns PROVE Counts(c)'
  BY <1>1 DEF LostInv, Counts, core
<1> QED  BY <1>3, <1>4, <1>5 DEF LostInv, Balances

\* Nobody else has loaded the counter that a report of an unmarked user resets.
LEMMA LostReset ==
    ASSUME Typed, Typed', AccountInv, LostInv, UNCHANGED setting, NEW r \in Reporters, ResetCounter(r)
    PROVE  LostInv'
<1>0. /\ count \in [Tags -> [Users -> Nat]] /\ slice \in [Reporters -> [Users -> Nat]]
      /\ report \in [Reporters -> Reports] /\ Of[r] \in Tags /\ charged \in [Users -> Nat]
  BY ConstantsAssumption DEF Typed
<1>1. PICK u \in report[r].user :
        /\ Reset(r, u, report[r].n, report[r].at)
        /\ report' = [(IF u \in uidMap \/ report[r].at = "gone" THEN report ELSE StorageGone(Of[r], u))
                      EXCEPT ![r] = None]
  BY DEF ResetCounter
<1>2. UNCHANGED <<pc, sent, charged, doubled>> /\ u \in Users /\ report[r].n \in Nat
  BY <1>0 DEF ResetCounter, Reports
<1>3. lost \subseteq lost' /\ \A d \in attached : d \in attached' \/ Owner[d] \in lost'
  BY <1>1 DEF Reset, DeleteCounter, Lost
<1>4. /\ \A x \in Tags, v \in Users : x # Of[r] \/ v # u => count'[x][v] = count[x][v]
      /\ \A q \in Reporters, v \in Users : q # r \/ v # u => slice'[q][v] = slice[q][v]
  <2>1. count' = count \/ count' = [count EXCEPT ![Of[r]][u] = 0]
    BY <1>1 DEF Reset, DeleteCounter
  <2>2. slice' = slice \/ slice' = [slice EXCEPT ![r][u] = @ + report[r].n]
    BY <1>1 DEF Reset, Appends
  <2> QED  BY <1>0, <1>2, <2>1, <2>2
<1>5. ASSUME u \notin Marks'
      PROVE  /\ count[Of[r]][u] = report[r].n /\ report[r].at = "storage" /\ u \in uidMap
             /\ slice' = [slice EXCEPT ![r][u] = @ + report[r].n] /\ count' = [count EXCEPT ![Of[r]][u] = 0]
  <2>1. report[r].at = "storage"
    BY <1>2, <1>3, <1>5 DEF LostInv, Marked, Marks
  <2> QED  BY <1>1, <1>5, <2>1 DEF Reset, Appends, Lost, Marks
<1>6. ASSUME NEW v \in Users, v \notin Marks' PROVE Balanced(v)'
  <2>1. Balanced(v) /\ sent'[v] = sent[v] /\ charged'[v] = charged[v]
    BY <1>2, <1>3, <1>6 DEF LostInv, Balances, Marks
  <2>2. CASE v = u
    <3>1. /\ slice'[r][v] = slice[r][v] + report[r].n /\ count'[Of[r]][v] = 0
          /\ count[Of[r]][v] = report[r].n
      BY <1>0, <1>5, <1>6, <2>2
    <3>2. charged'[v] + slice'[r][v] + count'[Of[r]][v] = charged[v] + slice[r][v] + count[Of[r]][v]
      <4>1. charged[v] \in Nat /\ slice[r][v] \in Nat
        BY <1>0
      <4> QED  BY <1>2, <2>1, <3>1, <4>1
    <3> QED  BY <1>4, <2>1, <3>2, ReportBalance
  <2>3. CASE v # u
    <3>1. /\ \A x \in Tags : count'[x][v] = count[x][v]
          /\ \A q \in Reporters : slice'[q][v] = slice[q][v]
      BY <1>4, <2>3
    <3> QED  BY <2>1, <3>1, SameBalance
  <2> QED  BY <2>2, <2>3
<1>7. \A q \in Reporters : Marked(q)'
  <2> SUFFICES ASSUME NEW q \in Reporters
               PROVE  \/ report'[q].user = {}
                      \/ /\ report'[q].user = report[q].user
                         /\ \A v \in report[q].user :
                              \/ v \in Marks'
                              \/ report'[q].at = report[q].at /\ count'[Of[q]][v] >= count[Of[q]][v]
                              \/ count[Of[q]][v] = 0
    BY <1>2, <1>3, LostMarks
  <2>1. CASE q = r
    BY <1>0, <1>1, <2>1 DEF None, StorageGone
  <2>2. ASSUME q # r, NEW v \in report[q].user, v \notin Marks'
        PROVE  report'[q].at = report[q].at /\ count'[Of[q]][v] >= count[Of[q]][v]
    <3>1. v \in Users /\ Of[q] \in Tags
      BY <1>0, ConstantsAssumption DEF Reports
    <3>2. v # u \/ Of[q] # Of[r]
      <4> SUFFICES ASSUME v = u, Of[q] = Of[r] PROVE FALSE
        OBVIOUS
      <4>1. report[r].at = "storage" /\ v \notin doubled
        BY <1>2, <1>5, <2>2 DEF Marks
      <4>2. report[q].at = "storage"
        BY <1>3, <2>2, <3>1, <4>1 DEF LostInv, Marked, Marks
      <4>3. Reads(q, Of[r], v) /\ Reads(r, Of[r], v)
        BY <4>1, <4>2 DEF Reads
      <4> QED  BY <1>0, <2>2, <3>1, <4>1, <4>3 DEF AccountInv, Alone
    <3>3. count'[Of[q]][v] = count[Of[q]][v] /\ count[Of[q]][v] \in Nat
      BY <1>0, <1>4, <3>1, <3>2
    <3>4. report'[q] = report[q]
      <4>1. CASE u \in uidMap \/ report[r].at = "gone"
        BY <1>1, <2>2, <4>1
      <4>2. CASE ~(u \in uidMap \/ report[r].at = "gone")
        <5>1. report'[q] = StorageGone(Of[r], u)[q]
          BY <1>1, <2>2, <4>2 DEF StorageGone
        <5>2. Of[q] # Of[r] \/ u \notin report[q].user
          BY <1>2, <3>1, <3>2 DEF AccountInv, OneUser
        <5> QED  BY <5>1, <5>2 DEF StorageGone
      <4> QED  BY <4>1, <4>2
    <3>5. count'[Of[q]][v] >= count[Of[q]][v]
      BY <3>3
    <3> QED  BY <3>4, <3>5
  <2>3. q # r => report'[q].user = report[q].user
    <3>1. CASE u \in uidMap \/ report[r].at = "gone"
      BY <1>1, <3>1
    <3>2. CASE q # r /\ ~(u \in uidMap \/ report[r].at = "gone")
      <4>1. report'[q] = StorageGone(Of[r], u)[q]
        BY <1>1, <3>2 DEF StorageGone
      <4> QED  BY <1>0, <1>2, <4>1, GoneIs
    <3> QED  BY <3>1, <3>2
  <2> QED  BY <2>1, <2>2, <2>3
<1>8. ASSUME NEW c \in Conns PROVE Counts(c)'
  BY <1>2, <1>3 DEF LostInv, Counts, core
<1> QED  BY <1>6, <1>7, <1>8 DEF LostInv, Balances

LEMMA LostPost ==
    ASSUME Typed, Typed', LostInv, UNCHANGED setting, NEW r \in Reporters, ReportUserTraffic(r)
    PROVE  LostInv'
<1>0. /\ slice \in [Reporters -> [Users -> Nat]] /\ charged \in [Users -> Nat]
      /\ count \in [Tags -> [Users -> Nat]] /\ Of[r] \in Tags
  BY ConstantsAssumption DEF Typed
<1>1. /\ UNCHANGED <<sent, count, report, doubled, pc, attached>> /\ slice' = [slice EXCEPT ![r] = NoSlice]
      /\ lost \subseteq lost'
      /\ \/ charged' = [u \in Users |-> charged[u] + slice[r][u]]
         \/ charged' = charged /\ \A u \in Users : slice[r][u] > 0 => u \in lost'
  BY DEF ReportUserTraffic, Lost
<1>2. ASSUME NEW u \in Users, u \notin Marks' PROVE Balanced(u)'
  <2>1. Balanced(u) /\ u \notin lost'
    BY <1>1, <1>2 DEF LostInv, Balances, Marks
  <2>2. slice'[r][u] = 0 /\ \A q \in Reporters \ {r} : slice'[q][u] = slice[q][u]
    BY <1>0, <1>1 DEF NoSlice
  <2>3. slice[r][u] \in Nat /\ charged[u] \in Nat /\ count[Of[r]][u] \in Nat
    BY <1>0
  <2>4. charged'[u] = charged[u] + slice[r][u]
    <3>1. CASE charged' = charged /\ \A v \in Users : slice[r][v] > 0 => v \in lost'
      <4>1. slice[r][u] = 0
        BY <2>1, <2>3, <3>1
      <4> QED  BY <2>3, <3>1, <4>1
    <3> QED  BY <1>1, <3>1
  <2>5. charged'[u] + slice'[r][u] + count'[Of[r]][u] = charged[u] + slice[r][u] + count[Of[r]][u]
    <3>1. count'[Of[r]][u] = count[Of[r]][u]
      BY <1>1
    <3> QED  BY <2>2, <2>3, <2>4, <3>1
  <2> QED  BY <1>1, <2>1, <2>2, <2>5, ReportBalance
<1>3. \A q \in Reporters : Marked(q)'
  BY <1>1 DEF LostInv, Marked, Marks
<1>4. ASSUME NEW c \in Conns PROVE Counts(c)'
  BY <1>1 DEF LostInv, Counts, core
<1> QED  BY <1>2, <1>3, <1>4 DEF LostInv, Balances

\* A node leaves the core.
LEMMA LostGone ==
    ASSUME Typed, Typed', LostInv, UNCHANGED setting, NEW t \in Tags, NodeGone(t), UNCHANGED account
    PROVE  LostInv'
<1>0. /\ count \in [Tags -> [Users -> Nat]] /\ UNCHANGED <<sent, charged, slice, doubled, attached>>
      /\ pc \in [Conns -> Points]
  BY DEF Typed, account, NodeGone
<1>1. ASSUME lost \subseteq lost', NEW c \in Conns PROVE Counts(c)'
  <2>1. pc'[c] = pc[c] \/ pc'[c] \in {"stale", "closed"}
    BY DEF NodeGone
  <2> QED  BY <1>0, <1>1, <2>1 DEF LostInv, Counts, core
<1>2. CASE core = "sing"
  <2>1. UNCHANGED <<count, report, lost>>
    BY <1>2 DEF NodeGone
  <2> QED  BY <1>0, <1>1, <2>1, LostFrame DEF LostInv
<1>3. CASE core # "sing"
  <2>1. /\ count' = [count EXCEPT ![t] = NoSlice] /\ report' = TableGone(t)
        /\ lost' = lost \cup {u \in Users : count[t][u] > 0}
    BY <1>3 DEF NodeGone, Lost
  <2>2. ASSUME NEW u \in Users, u \notin Marks' PROVE Balanced(u)'
    <3>1. Balanced(u) /\ count[t][u] = 0
      BY <1>0, <2>1, <2>2 DEF LostInv, Balances, Marks
    <3>2. \A x \in Tags : count'[x][u] = count[x][u]
      BY <1>0, <2>1, <3>1 DEF NoSlice
    <3> QED  BY <1>0, <3>1, <3>2, SameBalance
  <2>3. \A r \in Reporters : Marked(r)'
    <3> SUFFICES ASSUME NEW r \in Reporters, NEW u \in report[r].user
                 PROVE  /\ report'[r].user = report[r].user
                        /\ \/ u \in Marks'
                           \/ report'[r].at = report[r].at /\ count'[Of[r]][u] >= count[Of[r]][u]
                           \/ count[Of[r]][u] = 0
      <4>1. ASSUME NEW r \in Reporters PROVE report'[r].user = report[r].user \/ report'[r].user = {}
        <5>1. report[r].user \subseteq Users
          BY DEF Typed, Reports
        <5>2. ASSUME NEW u \in Users PROVE report'[r].user = report[r].user
          BY <2>1, GoneIs
        <5>3. CASE Users = {}
          BY <5>3 DEF Typed, Reports
        <5> QED  BY <5>2, <5>3
      <4>2. lost \subseteq lost' /\ doubled \subseteq doubled'
        BY <1>0, <2>1
      <4> QED  BY <4>1, <4>2, LostMarks
    <3>1. /\ report'[r].user = report[r].user /\ u \in Users /\ Of[r] \in Tags
          /\ Of[r] # t => report'[r] = report[r]
      BY <2>1, GoneIs, ConstantsAssumption DEF Typed, Reports
    <3>2. count[Of[r]][u] \in Nat
      BY <1>0, <3>1
    <3>3. CASE Of[r] = t
      BY <2>1, <3>1, <3>2, <3>3 DEF Marks
    <3>4. CASE Of[r] # t
      <4>1. count'[Of[r]][u] = count[Of[r]][u]
        BY <1>0, <2>1, <3>1, <3>4
      <4>2. count'[Of[r]][u] >= count[Of[r]][u]
        BY <3>2, <4>1
      <4> QED  BY <3>1, <3>4, <4>2
    <3> QED  BY <3>3, <3>4
  <2>4. lost \subseteq lost'
    BY <2>1
  <2> QED  BY <1>1, <2>2, <2>3, <2>4 DEF LostInv, Balances
<1> QED  BY <1>2, <1>3

LEMMA LostDelUser ==
    ASSUME Typed, Typed', OneUser, LostInv, UNCHANGED setting, NEW t \in Tags, NEW u \in Users, DelUser(t, u)
    PROVE  LostInv'
<1>0. count \in [Tags -> [Users -> Nat]]
  BY DEF Typed
<1>1. /\ count' = [count EXCEPT ![t][u] = 0] /\ report' = StorageGone(t, u)
      /\ attached' = {d \in attached : On[d] # t \/ Owner[d] # u}
      /\ lost' = lost \cup {u}
      /\ UNCHANGED <<pc, sent, charged, slice, doubled>>
  BY DEF DelUser, DeleteCounter, Lost, account
<1>2. \A x \in Tags, v \in Users : v # u => count'[x][v] = count[x][v]
  BY <1>0, <1>1
<1>3. ASSUME NEW v \in Users, v \notin Marks' PROVE Balanced(v)'
  <2>1. Balanced(v) /\ v # u
    BY <1>1, <1>3 DEF LostInv, Balances, Marks
  <2> QED  BY <1>1, <1>2, <2>1, SameBalance
<1>4. \A r \in Reporters : Marked(r)'
  <2> SUFFICES ASSUME NEW r \in Reporters
               PROVE  /\ report'[r].user = report[r].user
                      /\ \A v \in report[r].user :
                           \/ v \in Marks'
                           \/ report'[r].at = report[r].at /\ count'[Of[r]][v] >= count[Of[r]][v]
                           \/ count[Of[r]][v] = 0
    BY <1>1, LostMarks
  <2>1. report'[r].user = report[r].user
    BY <1>1, GoneIs
  <2>2. ASSUME NEW v \in report[r].user, v \notin Marks'
        PROVE  \/ report'[r].at = report[r].at /\ count'[Of[r]][v] >= count[Of[r]][v]
               \/ count[Of[r]][v] = 0
    <3>1. v \in Users /\ Of[r] \in Tags /\ v # u /\ v \notin Marks
      BY <1>1, <2>2, ConstantsAssumption DEF Typed, Reports, Marks
    <3>2. count'[Of[r]][v] = count[Of[r]][v] /\ count[Of[r]][v] \in Nat
      BY <1>0, <1>2, <3>1
    <3>3. count'[Of[r]][v] >= count[Of[r]][v]
      BY <3>2
    <3>4. report'[r] = report[r]
      <4>1. u \notin report[r].user
        BY <3>1 DEF OneUser
      <4> QED  BY <1>1, <4>1 DEF StorageGone
    <3> QED  BY <3>1, <3>3, <3>4
  <2> QED  BY <2>1, <2>2
<1>5. ASSUME NEW c \in Conns PROVE Counts(c)'
  BY <1>1 DEF LostInv, Counts, core
<1> QED  BY <1>3, <1>4, <1>5 DEF LostInv, Balances

LEMMA LostStep == Typed /\ Typed' /\ AccountInv /\ LostInv /\ [Next]_vars => LostInv'
<1> SUFFICES ASSUME Typed, Typed', AccountInv, LostInv, [Next]_vars PROVE LostInv'
  OBVIOUS
<1>1. ASSUME UNCHANGED setting, NEW t \in Tags, CloseNode(t) \/ ReloadNode(t) PROVE LostInv'
  <2>1. NodeGone(t) /\ UNCHANGED account
    BY <1>1 DEF CloseNode, ReloadNode, DelNode
  <2> QED  BY <1>1, <2>1, LostGone
<1>2. ASSUME UNCHANGED setting, NEW t \in Tags, Close(t) \/ ReplaceLimiter(t) \/ AddNode(t) \/ AddUsers(t)
      PROVE LostInv'
  <2>1. UNCHANGED <<attached, count, report, slice, sent, charged, lost, doubled>>
    BY <1>2 DEF Close, ReplaceLimiter, AddNode, AddUsers, others, account
  <2>2. \A c \in Conns : pc'[c] = pc[c] \/ pc'[c] = "closed"
    BY <1>2 DEF Close, ReplaceLimiter, DropLimiter, AddNode, AddUsers, Typed
  <2>3. ASSUME NEW c \in Conns PROVE Counts(c)'
    BY <1>2, <2>1, <2>2 DEF LostInv, Counts, core
  <2> QED  BY <2>1, <2>3, LostFrame DEF LostInv
<1>3. ASSUME UNCHANGED setting, NEW t \in Tags, NEW u \in Users, AddUser(t, u) \/ DelFromMap(t, u)
      PROVE LostInv'
  BY <1>3, LostUnchanged DEF AddUser, DelFromMap, account, lostVars
<1>4. ASSUME UNCHANGED setting, NEW t \in Tags, NEW u \in Users, DelUser(t, u) PROVE LostInv'
  BY <1>4, LostDelUser DEF AccountInv
<1>5. ASSUME UNCHANGED setting, NEW r \in Reporters, LoadCounter(r) \/ ResetCounter(r) \/ ReportUserTraffic(r)
      PROVE LostInv'
  BY <1>5, LostLoad, LostReset, LostPost
<1>6. CASE UNCHANGED vars
  BY <1>6, LostUnchanged DEF vars, lostVars
<1> QED  BY <1>1, <1>2, <1>3, <1>4, <1>5, <1>6, LostConn DEF Next

\* Whatever the interleaving, traffic that was sent is charged, in a slice or still counted,
\* unless it was lost in one of the ways that mark its user, or two report loops had loaded the
\* same counter.
THEOREM SharedLostNeedsCause == Spec => []LostNeedsCause
<1>1. LostInv => LostNeedsCause
  <2> SUFFICES ASSUME LostInv PROVE LostNeedsCause
    OBVIOUS
  <2>1. \A u \in Users : sent[u] # charged[u] + Total(Reporters, slice, u) + Total(Tags, count, u)
                         => u \in lost \cup doubled
    BY DEF LostInv, Balances, Balanced, Marks
  <2> QED  BY <2>1, Zenon DEF LostNeedsCause, Total
<1> QED  BY <1>1, TypedInit, TypedStep, AccountInit, AccountStep, LostInit, LostStep, PTL DEF Spec
=============================================================================
