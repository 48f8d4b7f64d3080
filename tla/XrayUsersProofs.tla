--------------------------- MODULE XrayUsersProofs --------------------------
(***************************************************************************)
(* Facts about the users of a node of the xray core that hold for all sets *)
(* of users, connections and loops of the report task, and every setting.  *)
(***************************************************************************)
EXTENDS XrayUsers, FiniteSetTheorems, WellFoundedInduction, TLAPS

-----------------------------------------------------------------------------
(* Types. *)

ConnStates == {"idle", "limit", "loadManager", "storeManager", "addLink", "loadCounter",
               "storeCounter", "getCounter", "open", "closed"}

ConnRecords ==
    [pc: ConnStates, kind: {"Dispatch", "DispatchLink", None}, user: Users \cup {None},
     lm: Conns \cup {None}, tc: Conns \cup {None}, storage: Conns \cup {None}, cut: BOOLEAN]

ChangeRecords ==
    [pc: {"free", "loop", "counter", "manager", "closeAll", "delete"}, todo: SUBSET Users,
     user: Users \cup {None}, lm: Conns \cup {None}, left: SUBSET Conns]

ReportRecords ==
    [pc: {"free", "range", "zero", "uid", "post"}, tc: Conns \cup {None}, todo: SUBSET Users,
     user: Users \cup {None}, storage: Conns \cup {None}, seen: Nat, slice: [Users -> Nat]]

Typed ==
    /\ setting \in Settings
    /\ TypeOK
    /\ conn \in [Conns -> ConnRecords]
    /\ change \in ChangeRecords
    /\ report \in [Reporters -> ReportRecords]

\* The steps of a connection before it has its counter.
BeforeCounter(c) ==
    \/ conn[c].pc \in {"idle", "limit", "loadManager", "storeManager", "loadCounter", "storeCounter",
                       "getCounter"}
    \/ conn[c].pc = "addLink" /\ conn[c].kind = "Dispatch"

\* What a connection, DelUsers and a report hold at each of their steps.
ConnHolds(c) ==
    /\ conn[c].pc \notin {"idle", "closed"} => conn[c].user \in Users
    /\ conn[c].pc = "getCounter" => conn[c].tc \in Conns
    /\ conn[c].pc \in {"addLink", "loadCounter", "storeCounter", "getCounter", "open"} => conn[c].lm \in Conns
    /\ BeforeCounter(c) => conn[c].storage = None
    /\ conn[c].pc = "open" => conn[c].storage \in Conns
    /\ conn[c].pc = "addLink" /\ conn[c].kind # "Dispatch" => conn[c].storage \in Conns

ChangeHolds ==
    /\ change.pc \in {"counter", "manager", "closeAll", "delete"} => change.user \in Users
    /\ change.pc = "closeAll" => change.lm \in Conns

ReportHolds(r) ==
    /\ Reading(r) => report[r].tc \in Conns
    /\ report[r].pc \in {"zero", "uid"} => report[r].user \in Users
    /\ report[r].pc = "zero" => report[r].storage \in Conns

Holding ==
    /\ \A c \in Conns : ConnHolds(c)
    /\ ChangeHolds
    /\ \A r \in Reporters : ReportHolds(r)

LEMMA TypedInit == Init => Typed
<1> SUFFICES ASSUME Init PROVE Typed
  OBVIOUS
<1>1. setting \in Settings /\ setting.users \subseteq Users
  BY XrayAssumption DEF Init, Setting
<1>2. TypeOK
  BY <1>1 DEF Init, TypeOK
<1>3. NoConn \in ConnRecords
  BY DEF NoConn, ConnRecords, ConnStates
<1>4. NoChange \in ChangeRecords
  BY DEF NoChange, ChangeRecords
<1>5. NoReport \in ReportRecords
  BY DEF NoReport, ReportRecords
<1> QED  BY <1>1, <1>2, <1>3, <1>4, <1>5 DEF Init, Typed

\* What a step of connection c makes of it; the others do not change.
Steps(c, pc, kind, user, lm, tc, storage) ==
    /\ \A d \in Conns \ {c} : conn'[d] = conn[d]
    /\ conn'[c].pc = pc /\ conn'[c].kind = kind /\ conn'[c].user = user
    /\ conn'[c].lm = lm /\ conn'[c].tc = tc /\ conn'[c].storage = storage

LEMMA ClosedFields == /\ Closed.pc = "closed" /\ Closed.kind = None /\ Closed.user = None
                      /\ Closed.lm = None /\ Closed.tc = None /\ Closed.storage = None
                      /\ Closed \in ConnRecords
<1>1. NoConn \in ConnRecords
  BY DEF NoConn, ConnRecords, ConnStates
<1>2. Closed \in ConnRecords
  BY <1>1 DEF Closed, ConnRecords, ConnStates
<1> QED  BY <1>2 DEF Closed, NoConn

LEMMA ConnSteps ==
    ASSUME Typed, NEW c \in Conns
    PROVE  LET r == conn[c] IN
      /\ \A u \in Users, k \in {"Dispatch", "DispatchLink"} :
            Connect(c, u, k) => Steps(c, "limit", k, u, None, None, None)
      /\ CheckLimit(c) => \/ Steps(c, "closed", None, None, None, None, None)
                          \/ Steps(c, "loadManager", r.kind, r.user, r.lm, r.tc, r.storage)
      /\ LoadManager(c) =>
            LET m == linkManagers[r.user] IN
            Steps(c, IF m = None THEN "storeManager" ELSE AfterManager(c), r.kind, r.user, m, r.tc,
                  r.storage)
      /\ StoreManager(c) => Steps(c, AfterManager(c), r.kind, r.user, c, r.tc, r.storage)
      /\ AddLink(c) => Steps(c, AfterLink(c), r.kind, r.user, r.lm, r.tc, r.storage)
      /\ LoadCounter(c) => Steps(c, IF counter = None THEN "storeCounter" ELSE "getCounter", r.kind,
                                 r.user, r.lm, counter, r.storage)
      /\ StoreCounter(c) => Steps(c, "getCounter", r.kind, r.user, r.lm, c, r.storage)
      /\ GetCounter(c) => Steps(c, AfterCounter(c), r.kind, r.user, r.lm, r.tc,
                                cells'[r.tc][r.user])
      /\ CloseLink(c) => Steps(c, "closed", None, None, None, None, None)
<1>0. conn \in [Conns -> ConnRecords]
  BY DEF Typed
<1>1. \A u \in Users, k \in {"Dispatch", "DispatchLink"} :
            Connect(c, u, k) => Steps(c, "limit", k, u, None, None, None)
  BY <1>0 DEF Connect, Steps, NoConn
<1>2. ASSUME conn' = [conn EXCEPT ![c] = Closed]
      PROVE  Steps(c, "closed", None, None, None, None, None)
  BY <1>0, <1>2, ClosedFields DEF Steps
<1>3. ASSUME NEW p, Moves(c, p)
      PROVE  Steps(c, p, conn[c].kind, conn[c].user, conn[c].lm, conn[c].tc, conn[c].storage)
  BY <1>0, <1>3 DEF Moves, Steps, ConnRecords
<1>4. LoadManager(c) =>
        LET m == linkManagers[conn[c].user] IN
        Steps(c, IF m = None THEN "storeManager" ELSE AfterManager(c), conn[c].kind, conn[c].user, m,
              conn[c].tc, conn[c].storage)
  BY <1>0 DEF LoadManager, Steps, ConnRecords
<1>5. StoreManager(c) =>
        Steps(c, AfterManager(c), conn[c].kind, conn[c].user, c, conn[c].tc, conn[c].storage)
  BY <1>0 DEF StoreManager, Steps, ConnRecords
<1>6. LoadCounter(c) =>
        Steps(c, IF counter = None THEN "storeCounter" ELSE "getCounter", conn[c].kind, conn[c].user,
              conn[c].lm, counter, conn[c].storage)
  BY <1>0 DEF LoadCounter, Steps, ConnRecords
<1>7. StoreCounter(c) =>
        Steps(c, "getCounter", conn[c].kind, conn[c].user, conn[c].lm, c, conn[c].storage)
  BY <1>0 DEF StoreCounter, Steps, ConnRecords
<1>8. GetCounter(c) =>
        Steps(c, AfterCounter(c), conn[c].kind, conn[c].user, conn[c].lm, conn[c].tc,
              cells'[conn[c].tc][conn[c].user])
  <2> DEFINE v == cells'[conn[c].tc][conn[c].user]
  <2> SUFFICES ASSUME GetCounter(c)
               PROVE  Steps(c, AfterCounter(c), conn[c].kind, conn[c].user, conn[c].lm, conn[c].tc, v)
    OBVIOUS
  <2>1. conn' = [conn EXCEPT ![c].storage = v, ![c].pc = AfterCounter(c)]
    BY DEF GetCounter
  <2> HIDE DEF v
  <2> QED  BY <1>0, <2>1 DEF Steps, ConnRecords
<1> QED  BY <1>1, <1>2, <1>3, <1>4, <1>5, <1>6, <1>7, <1>8 DEF CheckLimit, AddLink, CloseLink

LEMMA TypedConn ==
    ASSUME Typed, Holding, NEW c \in Conns, Connection(c) \/ ConcurrentMapWrite(c),
           UNCHANGED setting
    PROVE  Typed'
<1>0. conn \in [Conns -> ConnRecords] /\ TypeOK /\ conn[c] \in ConnRecords
  BY DEF Typed
<1>1. AfterManager(c) \in ConnStates /\ AfterLink(c) \in ConnStates /\ AfterCounter(c) \in ConnStates
  BY DEF AfterManager, AfterLink, AfterCounter, ConnStates
<1>2. ASSUME NEW p \in ConnStates, Moves(c, p) PROVE conn' \in [Conns -> ConnRecords]
  BY <1>0, <1>2 DEF Moves, ConnRecords
<1>3. ASSUME conn' = [conn EXCEPT ![c] = Closed] PROVE conn' \in [Conns -> ConnRecords]
  BY <1>0, <1>3, ClosedFields
<1>4. UNCHANGED <<manager, uidMap, change, report, charged>>
  BY DEF Connection, ConcurrentMapWrite
<1>5. ASSUME NEW u \in Users, NEW k \in {"Dispatch", "DispatchLink"}, Connect(c, u, k) PROVE Typed'
  <2>1. conn' \in [Conns -> ConnRecords]
    <3>1. NoConn \in ConnRecords
      BY DEF NoConn, ConnRecords, ConnStates
    <3>2. [NoConn EXCEPT !.pc = "limit", !.kind = k, !.user = u] \in ConnRecords
      BY <3>1 DEF ConnRecords, ConnStates
    <3> QED  BY <1>0, <1>5, <3>2 DEF Connect
  <2> QED  BY <1>0, <1>4, <1>5, <2>1 DEF Connect, Typed, TypeOK, linkVars, countVars, histVars
<1>6. CASE CheckLimit(c)
  <2>1. conn' \in [Conns -> ConnRecords]
    BY <1>2, <1>3, <1>6 DEF CheckLimit, ConnStates
  <2> QED  BY <1>0, <1>4, <1>6, <2>1 DEF CheckLimit, Typed, TypeOK, linkVars, countVars, histVars
<1>7. ASSUME LoadManager(c), conn[c].user \in Users PROVE Typed'
  <2>1. linkManagers[conn[c].user] \in Conns \cup {None}
    BY <1>0, <1>7 DEF TypeOK
  <2>2. conn' \in [Conns -> ConnRecords]
    BY <1>0, <1>1, <1>7, <2>1 DEF LoadManager, ConnRecords, ConnStates
  <2> QED  BY <1>0, <1>4, <1>7, <2>2 DEF LoadManager, Typed, TypeOK, linkVars, countVars, histVars
<1>8. ASSUME StoreManager(c), conn[c].user \in Users PROVE Typed'
  <2>1. conn' \in [Conns -> ConnRecords]
    BY <1>0, <1>1, <1>8 DEF StoreManager, ConnRecords
  <2>2. linkManagers' \in [Users -> Conns \cup {None}]
    BY <1>0, <1>8 DEF StoreManager, TypeOK
  <2> QED  BY <1>0, <1>4, <1>8, <2>1, <2>2 DEF StoreManager, Typed, TypeOK, countVars
<1>9. CASE AddLink(c)
  <2>1. conn' \in [Conns -> ConnRecords]
    BY <1>1, <1>2, <1>9 DEF AddLink
  <2>2. links' \in [Conns -> SUBSET Conns]
    BY <1>0, <1>9 DEF AddLink, TypeOK
  <2> QED  BY <1>0, <1>4, <1>9, <2>1, <2>2 DEF AddLink, Typed, TypeOK, countVars, histVars
<1>10. CASE LoadCounter(c)
  <2>1. conn' \in [Conns -> ConnRecords]
    BY <1>0, <1>10 DEF LoadCounter, ConnRecords, ConnStates, TypeOK
  <2> QED  BY <1>0, <1>4, <1>10, <2>1 DEF LoadCounter, Typed, TypeOK, linkVars, countVars, histVars
<1>11. CASE StoreCounter(c)
  <2>1. conn' \in [Conns -> ConnRecords]
    BY <1>0, <1>11 DEF StoreCounter, ConnRecords, ConnStates
  <2> QED  BY <1>0, <1>4, <1>11, <2>1 DEF StoreCounter, Typed, TypeOK, linkVars
<1>12. ASSUME GetCounter(c), conn[c].user \in Users, conn[c].tc \in Conns PROVE Typed'
  <2>0. cells \in [Conns -> [Users -> Conns \cup {None}]]
    BY <1>0 DEF TypeOK
  <2>1. cells' \in [Conns -> [Users -> Conns \cup {None}]]
    BY <1>12, <2>0 DEF GetCounter
  <2>2. cells'[conn[c].tc][conn[c].user] \in Conns \cup {None}
    BY <1>12, <2>1
  <2>3. conn' \in [Conns -> ConnRecords]
    BY <1>0, <1>1, <1>12, <2>2 DEF GetCounter, ConnRecords
  <2> QED  BY <1>0, <1>4, <1>12, <2>1, <2>3 DEF GetCounter, Typed, TypeOK, linkVars, histVars
<1>13. CASE Transfer(c)
  <2>1. count' \in [Conns -> Nat] /\ sent' \in [Users -> Nat]
    <3>1. conn[c].storage \in Conns /\ conn[c].user \in Users
      BY <1>13 DEF Holding, ConnHolds, Transfer
    <3>2. count \in [Conns -> Nat] /\ sent \in [Users -> Nat]
      BY <1>0 DEF TypeOK
    <3> QED  BY <1>13, <3>1, <3>2 DEF Transfer
  <2> QED  BY <1>0, <1>4, <1>13, <2>1 DEF Transfer, Typed, TypeOK, linkVars
<1>14. CASE CloseLink(c)
  <2>1. links' \in [Conns -> SUBSET Conns]
    BY <1>0, <1>14 DEF CloseLink, TypeOK
  <2> QED  BY <1>0, <1>3, <1>4, <1>14, <2>1 DEF CloseLink, Typed, TypeOK, countVars, histVars
<1>15. CASE ConcurrentMapWrite(c)
  BY <1>0, <1>15 DEF ConcurrentMapWrite, Typed, TypeOK, linkVars, countVars, histVars
<1>16. ASSUME conn[c].pc \in {"loadManager", "storeManager", "getCounter"}
       PROVE  conn[c].user \in Users /\ (conn[c].pc = "getCounter" => conn[c].tc \in Conns)
  BY <1>16 DEF Holding, ConnHolds
<1>17. LoadManager(c) \/ StoreManager(c) \/ GetCounter(c) => Typed'
  BY <1>7, <1>8, <1>12, <1>16 DEF LoadManager, StoreManager, GetCounter
<1> QED  BY <1>5, <1>6, <1>9, <1>10, <1>11, <1>13, <1>14, <1>15, <1>17 DEF Connection

LEMMA HoldingConn ==
    ASSUME Typed, Holding, NEW c \in Conns, Connection(c) \/ ConcurrentMapWrite(c)
    PROVE  Holding'
<1>0. conn \in [Conns -> ConnRecords] /\ TypeOK /\ conn[c] \in ConnRecords
  BY DEF Typed
<1>1. UNCHANGED <<change, report>>
  BY DEF Connection, ConcurrentMapWrite
<1>2. ChangeHolds' /\ \A r \in Reporters : ReportHolds(r)'
  BY <1>1 DEF Holding, ChangeHolds, ReportHolds, Reading
<1>3. ASSUME NEW d \in Conns, conn'[d] = conn[d] PROVE ConnHolds(d)'
  BY <1>3 DEF Holding, ConnHolds, BeforeCounter
<1>4. ASSUME NEW p, NEW k, NEW u, NEW m, NEW t, NEW s, Steps(c, p, k, u, m, t, s), ConnHolds(c)'
      PROVE  Holding'
  BY <1>2, <1>3, <1>4 DEF Steps, Holding
<1>5. ConnHolds(c) /\ conn[c].kind \in {"Dispatch", "DispatchLink", None}
  BY <1>0 DEF Holding, ConnRecords
<1> USE DEF ConnHolds, BeforeCounter, Steps
<1>6. ASSUME NEW u \in Users, NEW k \in {"Dispatch", "DispatchLink"}, Connect(c, u, k) PROVE Holding'
  <2>1. Steps(c, "limit", k, u, None, None, None)
    BY <1>6, ConnSteps
  <2>2. ConnHolds(c)'
    BY <2>1
  <2> HIDE DEF ConnHolds, Steps
  <2> QED  BY <1>4, <2>1, <2>2
<1>7. CASE CheckLimit(c)
  <2>1. CASE Steps(c, "closed", None, None, None, None, None)
    BY <1>4, <2>1
  <2>2. CASE Steps(c, "loadManager", conn[c].kind, conn[c].user, conn[c].lm, conn[c].tc, conn[c].storage)
    BY <1>4, <1>5, <1>7, <2>2 DEF CheckLimit
  <2> QED  BY <1>7, <2>1, <2>2, ConnSteps
<1>8. CASE LoadManager(c)
  <2> DEFINE m == linkManagers[conn[c].user]
  <2>0. m \in Conns \cup {None}
    BY <1>0, <1>5, <1>8 DEF TypeOK, LoadManager
  <2>1. Steps(c, IF m = None THEN "storeManager" ELSE AfterManager(c), conn[c].kind, conn[c].user, m,
              conn[c].tc, conn[c].storage)
    BY <1>8, ConnSteps
  <2> HIDE DEF m
  <2>2. conn[c].pc = "loadManager" /\ AfterManager(c) \in {"addLink", "loadCounter"}
        /\ (AfterManager(c) = "addLink" => conn[c].kind = "Dispatch")
    BY <1>8 DEF LoadManager, AfterManager
  <2>3. ConnHolds(c)'
    <3>1. CASE m = None
      BY <1>5, <2>1, <2>2, <3>1
    <3>2. CASE m \in Conns /\ m # None
      BY <1>5, <2>1, <2>2, <3>2
    <3> QED  BY <2>0, <3>1, <3>2
  <2> HIDE DEF ConnHolds, Steps
  <2> QED  BY <1>4, <2>1, <2>3
<1>9. CASE StoreManager(c)
  <2>1. Steps(c, AfterManager(c), conn[c].kind, conn[c].user, c, conn[c].tc, conn[c].storage)
    BY <1>9, ConnSteps
  <2>2. ConnHolds(c)'
    BY <1>5, <1>9, <2>1 DEF StoreManager, AfterManager
  <2> QED  BY <1>4, <2>1, <2>2
<1>10. CASE AddLink(c)
  <2>1. Steps(c, AfterLink(c), conn[c].kind, conn[c].user, conn[c].lm, conn[c].tc, conn[c].storage)
    BY <1>10, ConnSteps
  <2>2. ConnHolds(c)'
    BY <1>5, <1>10, <2>1 DEF AddLink, AfterLink
  <2> QED  BY <1>4, <2>1, <2>2
<1>11. CASE LoadCounter(c)
  <2>1. Steps(c, IF counter = None THEN "storeCounter" ELSE "getCounter", conn[c].kind, conn[c].user,
              conn[c].lm, counter, conn[c].storage)
    BY <1>11, ConnSteps
  <2>2. ConnHolds(c)'
    BY <1>0, <1>5, <1>11, <2>1 DEF LoadCounter, TypeOK
  <2> QED  BY <1>4, <2>1, <2>2
<1>12. CASE StoreCounter(c)
  <2>1. Steps(c, "getCounter", conn[c].kind, conn[c].user, conn[c].lm, c, conn[c].storage)
    BY <1>12, ConnSteps
  <2>2. ConnHolds(c)'
    BY <1>5, <1>12, <2>1 DEF StoreCounter
  <2> QED  BY <1>4, <2>1, <2>2
<1>13. CASE GetCounter(c)
  <2>1. Steps(c, AfterCounter(c), conn[c].kind, conn[c].user, conn[c].lm, conn[c].tc,
              cells'[conn[c].tc][conn[c].user])
    BY <1>13, ConnSteps
  <2>2. conn[c].tc \in Conns /\ conn[c].user \in Users
    BY <1>5, <1>13 DEF GetCounter
  <2>3. cells'[conn[c].tc][conn[c].user] \in Conns
    BY <1>0, <1>13, <2>2 DEF GetCounter, TypeOK
  <2>4. PICK v \in Conns : Steps(c, AfterCounter(c), conn[c].kind, conn[c].user, conn[c].lm, conn[c].tc, v)
    BY <2>1, <2>3
  <2>5. conn[c].lm \in Conns /\ conn[c].pc = "getCounter" /\ AfterCounter(c) \in {"open", "addLink"}
    BY <1>5, <1>13 DEF GetCounter, AfterCounter
  <2>6. AfterCounter(c) = "addLink" => conn[c].kind # "Dispatch"
    BY DEF AfterCounter
  <2>7. ConnHolds(c)'
    BY <2>2, <2>4, <2>5, <2>6
  <2> QED  BY <1>4, <2>4, <2>7
<1>14. CASE CloseLink(c)
  BY <1>4, <1>14, ConnSteps
<1>15. CASE Transfer(c) \/ ConcurrentMapWrite(c)
  <2>1. conn' = conn
    BY <1>15 DEF Transfer, ConcurrentMapWrite
  <2> QED  BY <1>2, <1>3, <2>1 DEF Holding
<1> QED  BY <1>6, <1>7, <1>8, <1>9, <1>10, <1>11, <1>12, <1>13, <1>14, <1>15 DEF Connection

LEMMA ConnHoldsUnchanged ==
    ASSUME NEW c \in Conns, ConnHolds(c), conn'[c].pc = conn[c].pc, conn'[c].kind = conn[c].kind,
           conn'[c].user = conn[c].user, conn'[c].lm = conn[c].lm, conn'[c].tc = conn[c].tc,
           conn'[c].storage = conn[c].storage
    PROVE  ConnHolds(c)'
BY DEF ConnHolds, BeforeCounter

\* A link that is cut is otherwise unchanged.
LEMMA Cut ==
    ASSUME Typed, NEW w \in Conns, conn' = [conn EXCEPT ![w].cut = TRUE]
    PROVE  /\ conn' \in [Conns -> ConnRecords]
           /\ \A c \in Conns : /\ conn'[c].pc = conn[c].pc /\ conn'[c].kind = conn[c].kind
                               /\ conn'[c].user = conn[c].user /\ conn'[c].lm = conn[c].lm
                               /\ conn'[c].tc = conn[c].tc /\ conn'[c].storage = conn[c].storage
<1> DEFINE x == [conn[w] EXCEPT !.cut = TRUE]
<1>1. conn \in [Conns -> ConnRecords]
  BY DEF Typed
<1>2. /\ x \in ConnRecords
      /\ x.pc = conn[w].pc /\ x.kind = conn[w].kind /\ x.user = conn[w].user
      /\ x.lm = conn[w].lm /\ x.tc = conn[w].tc /\ x.storage = conn[w].storage
  BY <1>1 DEF ConnRecords
<1>3. conn' = [conn EXCEPT ![w] = x]
  OBVIOUS
<1> HIDE DEF x
<1> QED  BY <1>1, <1>2, <1>3

LEMMA TypedChange ==
    ASSUME Typed, Holding, UserChange, UNCHANGED setting
    PROVE  Typed' /\ Holding'
<1>0. /\ conn \in [Conns -> ConnRecords] /\ TypeOK /\ change \in ChangeRecords
      /\ setting.users \subseteq Users
  BY XrayAssumption DEF Typed, Setting
<1>1. UNCHANGED <<counter, count, report, charged, sent>>
  BY DEF UserChange
<1>2. \A r \in Reporters : ReportHolds(r)'
  BY <1>1 DEF Holding, ReportHolds, Reading
<1>3. NoChange \in ChangeRecords
  BY DEF NoChange, ChangeRecords
<1>4. ASSUME conn' = conn, links' = links, linkManagers' = linkManagers, cells' = cells,
             manager' \subseteq Users, uidMap' \subseteq Users, change' \in ChangeRecords, ChangeHolds'
      PROVE  Typed' /\ Holding'
  <2>1. \A c \in Conns : ConnHolds(c)'
    BY <1>4 DEF Holding, ConnHolds, BeforeCounter
  <2> QED  BY <1>0, <1>1, <1>2, <1>4, <2>1 DEF Typed, TypeOK, Holding
<1>5. manager \subseteq Users /\ uidMap \subseteq Users /\ ChangeHolds
  BY <1>0 DEF TypeOK, Holding
<1>6. ASSUME NEW us \in SUBSET setting.users, NEW added \in SUBSET setting.users, AddUsers(us, added)
      PROVE  Typed' /\ Holding'
  <2>1. ChangeHolds'
    BY <1>5, <1>6 DEF AddUsers, ChangeHolds
  <2> QED  BY <1>0, <1>4, <1>5, <1>6, <2>1 DEF AddUsers, linkVars
<1>7. ASSUME NEW us \in SUBSET Users, DelBegins(us) PROVE Typed' /\ Holding'
  <2>1. change' \in ChangeRecords /\ change'.pc = "loop"
    BY <1>3, <1>7 DEF DelBegins, ChangeRecords
  <2> QED  BY <1>4, <1>5, <1>7, <2>1 DEF DelBegins, ChangeHolds, linkVars
<1>8. ASSUME NEW u \in Users, DelUser(u) PROVE Typed' /\ Holding'
  <2>1. CASE u \in manager
    <3>1. change' \in ChangeRecords /\ change'.pc = "counter" /\ change'.user = u
      <4>1. change' = [change EXCEPT !.pc = "counter", !.user = u, !.todo = @ \ {u}]
        BY <1>8, <2>1 DEF DelUser
      <4> QED  BY <1>0, <4>1 DEF ChangeRecords
    <3> QED  BY <1>4, <1>5, <1>8, <2>1, <3>1 DEF DelUser, ChangeHolds, linkVars
  <2>2. CASE u \notin manager
    <3>1. change' \in ChangeRecords /\ change'.pc = "free"
      BY <1>3, <1>8, <2>2 DEF DelUser, NoChange
    <3> QED  BY <1>4, <1>5, <1>8, <2>2, <3>1 DEF DelUser, ChangeHolds, linkVars
  <2> QED  BY <2>1, <2>2
<1>9. ASSUME NEW w \in Conns, CloseOne(w) PROVE Typed' /\ Holding'
  <2>0. change.lm \in Conns
    BY <1>5, <1>9 DEF CloseOne, ChangeHolds
  <2>1. change' \in ChangeRecords /\ change'.pc = change.pc /\ change'.user = change.user
        /\ change'.lm = change.lm
    BY <1>0, <1>9 DEF CloseOne, ChangeRecords
  <2>2. CASE w \in links[change.lm]
    <3>1. links' \in [Conns -> SUBSET Conns]
      BY <1>0, <1>9, <2>2 DEF CloseOne, TypeOK
    <3>2. conn' = [conn EXCEPT ![w].cut = TRUE]
      BY <1>9, <2>2 DEF CloseOne
    <3>3. conn' \in [Conns -> ConnRecords] /\ \A c \in Conns : ConnHolds(c)'
      BY <3>2, Cut, ConnHoldsUnchanged DEF Holding
    <3> QED  BY <1>0, <1>1, <1>2, <1>5, <1>9, <2>1, <3>1, <3>3
             DEF CloseOne, Typed, TypeOK, Holding, ChangeHolds
  <2>3. CASE w \notin links[change.lm]
    BY <1>4, <1>5, <1>9, <2>1, <2>3 DEF CloseOne, ChangeHolds
  <2> QED  BY <2>2, <2>3
<1>10. CASE DelCounter
  <2>1. change' \in ChangeRecords /\ change'.pc = "manager" /\ change'.user = change.user
    BY <1>0, <1>10 DEF DelCounter, ChangeRecords
  <2>2. change.user \in Users
    BY <1>5, <1>10 DEF DelCounter, ChangeHolds
  <2>3. cells' \in [Conns -> [Users -> Conns \cup {None}]]
    <3>0. cells \in [Conns -> [Users -> Conns \cup {None}]]
      BY <1>0 DEF TypeOK
    <3> QED  BY <1>10, <3>0, <2>2 DEF DelCounter
  <2>4. \A c \in Conns : ConnHolds(c)'
    BY <1>10 DEF DelCounter, Holding, ConnHolds, BeforeCounter
  <2> QED  BY <1>0, <1>1, <1>2, <1>5, <1>10, <2>1, <2>2, <2>3, <2>4
           DEF DelCounter, Typed, TypeOK, Holding, ChangeHolds, linkVars
<1>11. CASE DelManager
  <2>1. change.user \in Users
    BY <1>5, <1>11 DEF DelManager, ChangeHolds
  <2>2. linkManagers[change.user] \in Conns \cup {None}
    BY <1>0, <2>1 DEF TypeOK
  <2>3. change' \in ChangeRecords /\ ChangeHolds'
    BY <1>0, <1>5, <1>11, <2>1, <2>2 DEF DelManager, ChangeRecords, ChangeHolds, TypeOK
  <2> QED  BY <1>4, <1>5, <1>11, <2>3 DEF DelManager, linkVars
<1>12. CASE CloseAllEnds
  <2>1. change' \in ChangeRecords /\ ChangeHolds'
    BY <1>0, <1>5, <1>12 DEF CloseAllEnds, ChangeRecords, ChangeHolds
  <2> QED  BY <1>4, <1>5, <1>12, <2>1 DEF CloseAllEnds, linkVars
<1>13. CASE DelDelete
  <2>1. change' \in ChangeRecords /\ ChangeHolds'
    BY <1>0, <1>13 DEF DelDelete, ChangeRecords, ChangeHolds
  <2>2. linkManagers' \in [Users -> Conns \cup {None}]
    BY <1>0, <1>5, <1>13 DEF DelDelete, TypeOK
  <2>3. \A c \in Conns : ConnHolds(c)'
    BY <1>13 DEF DelDelete, Holding, ConnHolds, BeforeCounter
  <2> QED  BY <1>0, <1>1, <1>2, <1>13, <2>1, <2>2, <2>3 DEF DelDelete, Typed, TypeOK, Holding
<1>14. CASE DelEnds
  <2>1. change' \in ChangeRecords /\ ChangeHolds'
    BY <1>3, <1>14 DEF DelEnds, NoChange, ChangeHolds
  <2> QED  BY <1>4, <1>5, <1>14, <2>1 DEF DelEnds, linkVars
<1> QED  BY <1>6, <1>7, <1>8, <1>9, <1>10, <1>11, <1>12, <1>13, <1>14 DEF UserChange

\* What a step makes of report r; the others do not change.
LEMMA ReportFields ==
    ASSUME Typed, NEW r \in Reporters, NEW x, report' = [report EXCEPT ![r] = x]
    PROVE  report'[r] = x /\ \A q \in Reporters \ {r} : report'[q] = report[q]
BY DEF Typed

LEMMA TypedReport ==
    ASSUME Typed, Holding, NEW r \in Reporters, Report(r), UNCHANGED setting
    PROVE  Typed' /\ Holding'
<1>0. report \in [Reporters -> ReportRecords] /\ report[r] \in ReportRecords /\ TypeOK
  BY DEF Typed
<1>1. UNCHANGED <<manager, uidMap, linkManagers, links, counter, conn, change, sent>>
  BY DEF Report, linkVars
<1>2. \A c \in Conns : ConnHolds(c)'
  BY <1>1 DEF Holding, ConnHolds, BeforeCounter
<1>3. NoReport \in ReportRecords
  BY DEF NoReport, ReportRecords
<1>4. ASSUME NEW x \in ReportRecords, report' = [report EXCEPT ![r] = x],
             x.pc \in {"range", "zero", "uid"} => x.tc \in Conns,
             x.pc \in {"zero", "uid"} => x.user \in Users,
             x.pc = "zero" => x.storage \in Conns,
             cells' \in [Conns -> [Users -> Conns \cup {None}]], count' \in [Conns -> Nat],
             charged' \in [Users -> Nat]
      PROVE  Typed' /\ Holding'
  <2>1. report' \in [Reporters -> ReportRecords]
    BY <1>0, <1>4
  <2>2. \A q \in Reporters : ReportHolds(q)'
    BY <1>4, ReportFields DEF Holding, ReportHolds, Reading
  <2> QED  BY <1>0, <1>1, <1>2, <1>4, <2>1, <2>2 DEF Typed, TypeOK, Holding, ChangeHolds
<1>5. /\ cells \in [Conns -> [Users -> Conns \cup {None}]] /\ count \in [Conns -> Nat]
      /\ charged \in [Users -> Nat]
  BY <1>0 DEF TypeOK
<1>6. ReportHolds(r)
  BY DEF Holding
<1>7. CASE ReportBegins(r)
  <2> DEFINE x == [NoReport EXCEPT !.pc = "range", !.tc = counter,
                                   !.todo = {u \in Users : cells[counter][u] # None}]
  <2>1. counter \in Conns
    BY <1>0, <1>7 DEF ReportBegins, TypeOK
  <2>2. x \in ReportRecords /\ x.pc = "range" /\ x.tc = counter
    BY <1>3, <2>1 DEF ReportRecords
  <2>3. report' = [report EXCEPT ![r] = x]
    BY <1>7 DEF ReportBegins
  <2> HIDE DEF x
  <2> QED  BY <1>4, <1>5, <1>7, <2>1, <2>2, <2>3 DEF ReportBegins
<1>8. ASSUME NEW u \in Users, LoadTraffic(r, u) PROVE Typed' /\ Holding'
  <2> DEFINE s == cells[report[r].tc][u]
             y == [report[r] EXCEPT !.todo = @ \ {u}]
             z == [y EXCEPT !.user = u, !.storage = s, !.seen = count[s], !.pc = "zero"]
  <2>0. report[r].tc \in Conns /\ report[r].pc = "range"
    BY <1>6, <1>8 DEF LoadTraffic, ReportHolds, Reading
  <2>1. s \in Conns \cup {None}
    BY <1>5, <2>0
  <2>2. y \in ReportRecords /\ y.pc = "range" /\ y.tc \in Conns
    BY <1>0, <2>0 DEF ReportRecords
  <2>3. report' = [report EXCEPT ![r] = IF s # None /\ count[s] > setting.min THEN z ELSE y]
    BY <1>8 DEF LoadTraffic
  <2>4. CASE s # None /\ count[s] > setting.min
    <3>1. s \in Conns /\ count[s] \in Nat
      BY <1>5, <2>1, <2>4
    <3>2. report' = [report EXCEPT ![r] = z]
      BY <2>3, <2>4
    <3> HIDE DEF s, y
    <3>3. z \in ReportRecords /\ z.pc = "zero" /\ z.tc \in Conns /\ z.user \in Users /\ z.storage \in Conns
      BY <2>2, <3>1 DEF ReportRecords
    <3> HIDE DEF z
    <3> QED  BY <1>4, <1>5, <1>8, <3>2, <3>3 DEF LoadTraffic
  <2>5. CASE ~(s # None /\ count[s] > setting.min)
    <3>1. report' = [report EXCEPT ![r] = y]
      BY <2>3, <2>5
    <3> HIDE DEF y
    <3> QED  BY <1>4, <1>5, <1>8, <2>2, <3>1 DEF LoadTraffic
  <2> QED  BY <2>4, <2>5
<1>9. CASE ResetTraffic(r)
  <2> DEFINE x == [report[r] EXCEPT !.pc = "uid", !.storage = None]
  <2>1. report' = [report EXCEPT ![r] = x]
    BY <1>0, <1>9 DEF ResetTraffic
  <2>2. x \in ReportRecords /\ x.pc = "uid" /\ x.tc = report[r].tc /\ x.user = report[r].user
    BY <1>0 DEF ReportRecords
  <2>3. report[r].tc \in Conns /\ report[r].user \in Users /\ report[r].storage \in Conns
    BY <1>6, <1>9 DEF ResetTraffic, ReportHolds, Reading
  <2>4. count' \in [Conns -> Nat]
    BY <1>5, <1>9 DEF ResetTraffic
  <2> HIDE DEF x
  <2> QED  BY <1>4, <1>5, <1>9, <2>1, <2>2, <2>3, <2>4 DEF ResetTraffic
<1>10. CASE AppendTraffic(r)
  <2> DEFINE u == report[r].user
             next == [report[r] EXCEPT !.pc = "range", !.user = None, !.seen = 0]
             more == [next EXCEPT !.slice[u] = report[r].seen]
  <2>0. report[r].tc \in Conns /\ u \in Users
    BY <1>6, <1>10 DEF AppendTraffic, ReportHolds, Reading
  <2>1. next \in ReportRecords /\ next.pc = "range" /\ next.tc = report[r].tc
    BY <1>0 DEF ReportRecords
  <2>2. more \in ReportRecords /\ more.pc = "range" /\ more.tc = report[r].tc
    <3>1. report[r].seen \in Nat
      BY <1>0 DEF ReportRecords
    <3> HIDE DEF next, u
    <3> QED  BY <2>0, <2>1, <3>1 DEF ReportRecords
  <2>3. CASE u \in uidMap
    <3>1. report' = [report EXCEPT ![r] = more] /\ UNCHANGED cells
      BY <1>10, <2>3 DEF AppendTraffic
    <3> HIDE DEF more
    <3> QED  BY <1>4, <1>5, <1>10, <2>0, <2>2, <3>1 DEF AppendTraffic
  <2>4. CASE u \notin uidMap
    <3>1. /\ report' = [report EXCEPT ![r] = next]
          /\ cells' = [cells EXCEPT ![report[r].tc][u] = None]
      BY <1>10, <2>4 DEF AppendTraffic
    <3>2. cells' \in [Conns -> [Users -> Conns \cup {None}]]
      BY <1>5, <2>0, <3>1
    <3> HIDE DEF next
    <3> QED  BY <1>4, <1>5, <1>10, <2>0, <2>1, <3>1, <3>2 DEF AppendTraffic
  <2> QED  BY <2>3, <2>4
<1>11. CASE ReportEnds(r)
  <2> DEFINE x == [report[r] EXCEPT !.pc = "post"]
  <2>1. report' = [report EXCEPT ![r] = x] \/ report' = [report EXCEPT ![r] = NoReport]
    BY <1>0, <1>11 DEF ReportEnds
  <2>2. x \in ReportRecords /\ x.pc = "post" /\ NoReport.pc = "free"
    BY <1>0 DEF ReportRecords, NoReport
  <2>3. UNCHANGED <<cells, count, charged>>
    BY <1>11 DEF ReportEnds
  <2> HIDE DEF x
  <2> QED  BY <1>3, <1>4, <1>5, <2>1, <2>2, <2>3
<1>12. CASE ReportUserTraffic(r)
  <2>1. charged' \in [Users -> Nat]
    BY <1>0, <1>5, <1>12 DEF ReportUserTraffic, ReportRecords
  <2>2. NoReport.pc = "free"
    BY DEF NoReport
  <2> QED  BY <1>3, <1>4, <1>5, <1>12, <2>1, <2>2 DEF ReportUserTraffic
<1> QED  BY <1>7, <1>8, <1>9, <1>10, <1>11, <1>12 DEF Report

LEMMA HoldingInit == Init => Holding
BY XrayAssumption DEF Init, Holding, ConnHolds, BeforeCounter, ChangeHolds, ReportHolds, Reading, NoConn,
   NoChange, NoReport

LEMMA TypedStep == Typed /\ Holding /\ [Next]_vars => Typed' /\ Holding'
<1> SUFFICES ASSUME Typed, Holding, [Next]_vars PROVE Typed' /\ Holding'
  OBVIOUS
<1>1. CASE UNCHANGED vars
  BY <1>1 DEF vars, linkVars, countVars, histVars, Typed, TypeOK, Holding, ConnHolds, BeforeCounter,
             ChangeHolds, ReportHolds, Reading
<1>2. CASE Next
  <2>1. setting.reporters \subseteq Reporters
    BY XrayAssumption DEF Typed, Setting
  <2> QED  BY <1>2, <2>1, TypedConn, HoldingConn, TypedChange, TypedReport DEF Next
<1> QED  BY <1>1, <1>2

\* The maps, counters and accounts of the xray core keep their types.
THEOREM XrayTypeOK == Spec => []TypeOK
<1>1. Typed => TypeOK
  BY DEF Typed
<1> QED  BY <1>1, TypedInit, HoldingInit, TypedStep, PTL DEF Spec

-----------------------------------------------------------------------------
(* Storages.  A storage belongs to the user in whose cell it is, whose     *)
(* connection holds it or whose counter a report has loaded and not yet    *)
(* reset.  It belongs to one user at most, and to none before the          *)
(* connection it is named for has its counter.                             *)

Owns(u, s) ==
    \/ \E t \in Conns : cells[t][u] = s
    \/ \E c \in Conns : conn[c].user = u /\ conn[c].storage = s
    \/ \E r \in Reporters : report[r].pc = "zero" /\ report[r].user = u /\ report[r].storage = s

OwnInv ==
    \A s \in Conns :
        /\ \A u, v \in Users : Owns(u, s) /\ Owns(v, s) => u = v
        /\ BeforeCounter(s) => count[s] = 0 /\ \A u \in Users : ~Owns(u, s)

\* The connection gets its counter in this step.
Creates(u, s) == BeforeCounter(s) /\ ~BeforeCounter(s)' /\ u = conn[s].user

OwnsLess ==
    \A s \in Conns :
        /\ BeforeCounter(s)' => BeforeCounter(s)
        /\ \A u \in Users : Owns(u, s)' => Owns(u, s) \/ Creates(u, s)

LEMMA OwnsConn ==
    ASSUME Typed, Holding, NEW c \in Conns, Connection(c) \/ ConcurrentMapWrite(c)
    PROVE  OwnsLess
<1>0. None \notin Conns /\ None \notin Users
  BY XrayAssumption
<1>1. report' = report
  BY DEF Connection, ConcurrentMapWrite
<1>2. ConnHolds(c)
  BY DEF Holding
<1>3. ASSUME cells' = cells, NEW p, NEW k, NEW u, NEW m, NEW t, NEW x, Steps(c, p, k, u, m, t, x),
             BeforeCounter(c)' => BeforeCounter(c),
             x = None \/ (u = conn[c].user /\ x = conn[c].storage)
      PROVE  OwnsLess
  <2> SUFFICES ASSUME NEW s \in Conns
               PROVE  /\ BeforeCounter(s)' => BeforeCounter(s)
                      /\ \A v \in Users : Owns(v, s)' => Owns(v, s)
    BY DEF OwnsLess
  <2>1. BeforeCounter(s)' => BeforeCounter(s)
    BY <1>3 DEF Steps, BeforeCounter
  <2>2. ASSUME NEW d \in Conns, conn'[d].storage = s
        PROVE  conn[d].storage = s /\ conn[d].user = conn'[d].user
    BY <1>0, <1>3, <2>2 DEF Steps
  <2>3. ASSUME NEW v \in Users, Owns(v, s)' PROVE Owns(v, s)
    BY <1>1, <1>3, <2>2, <2>3 DEF Owns
  <2> QED  BY <2>1, <2>3
<1>4. ASSUME NEW u \in Users, NEW k \in {"Dispatch", "DispatchLink"}, Connect(c, u, k) PROVE OwnsLess
  <2>1. Steps(c, "limit", k, u, None, None, None)
    BY <1>4, ConnSteps
  <2>2. cells' = cells /\ BeforeCounter(c)
    BY <1>4 DEF Connect, countVars, BeforeCounter
  <2> QED  BY <1>3, <2>1, <2>2
<1>5. CASE CheckLimit(c)
  <2>1. cells' = cells /\ BeforeCounter(c)
    BY <1>5 DEF CheckLimit, countVars, BeforeCounter
  <2> QED  BY <1>3, <1>5, <2>1, ConnSteps
<1>6. CASE LoadManager(c) \/ LoadCounter(c)
  <2>1. cells' = cells /\ BeforeCounter(c)
    BY <1>6 DEF LoadManager, LoadCounter, countVars, BeforeCounter
  <2> QED  BY <1>3, <1>6, <2>1, ConnSteps
<1>7. CASE StoreManager(c) \/ StoreCounter(c)
  <2>1. cells' = cells /\ BeforeCounter(c)
    BY <1>7 DEF StoreManager, StoreCounter, countVars, BeforeCounter
  <2> QED  BY <1>3, <1>7, <2>1, ConnSteps
<1>8. CASE AddLink(c)
  <2>1. Steps(c, AfterLink(c), conn[c].kind, conn[c].user, conn[c].lm, conn[c].tc, conn[c].storage)
    BY <1>8, ConnSteps
  <2>2. cells' = cells /\ conn[c].pc = "addLink"
    BY <1>8 DEF AddLink, countVars
  <2>3. BeforeCounter(c)' => BeforeCounter(c)
    BY <2>1, <2>2 DEF Steps, BeforeCounter, AfterLink
  <2> QED  BY <1>3, <2>1, <2>2, <2>3
<1>9. CASE GetCounter(c)
  <2> DEFINE t == conn[c].tc
             u == conn[c].user
  <2>1. Steps(c, AfterCounter(c), conn[c].kind, u, conn[c].lm, t, cells'[t][u])
    BY <1>9, ConnSteps
  <2>2. t \in Conns /\ u \in Users /\ conn[c].pc = "getCounter"
    BY <1>2, <1>9 DEF GetCounter, ConnHolds
  <2>3. BeforeCounter(c) /\ ~BeforeCounter(c)'
    BY <2>1, <2>2 DEF Steps, BeforeCounter, AfterCounter
  <2>4. cells \in [Conns -> [Users -> Conns \cup {None}]]
    BY DEF Typed, TypeOK
  <2>5. cells' = [cells EXCEPT ![t][u] = IF @ = None THEN c ELSE @]
    BY <1>9 DEF GetCounter
  <2>6. /\ \A x \in Conns, v \in Users : x # t \/ v # u => cells'[x][v] = cells[x][v]
        /\ cells'[t][u] = c \/ cells'[t][u] = cells[t][u]
    BY <2>2, <2>4, <2>5
  <2>7. ASSUME NEW s \in Conns PROVE BeforeCounter(s)' => BeforeCounter(s)
    BY <2>1, <2>3 DEF Steps, BeforeCounter
  <2>8. ASSUME NEW s \in Conns, NEW v \in Users, Owns(v, s)' PROVE Owns(v, s) \/ Creates(v, s)
    <3>1. CASE \E x \in Conns : cells'[x][v] = s
      BY <2>2, <2>3, <2>6, <3>1 DEF Owns, Creates
    <3>2. CASE \E d \in Conns \ {c} : conn'[d].user = v /\ conn'[d].storage = s
      BY <2>1, <3>2 DEF Steps, Owns
    <3>3. CASE conn'[c].user = v /\ conn'[c].storage = s
      <4>1. v = u /\ s = cells'[t][u]
        BY <2>1, <3>3 DEF Steps
      <4>2. CASE cells'[t][u] = c
        BY <2>3, <4>1, <4>2 DEF Creates
      <4>3. CASE cells'[t][u] = cells[t][u]
        BY <2>2, <4>1, <4>3 DEF Owns
      <4> QED  BY <2>6, <4>2, <4>3
    <3>4. CASE \E r \in Reporters : report[r].pc = "zero" /\ report[r].user = v /\ report[r].storage = s
      BY <3>4 DEF Owns
    <3> QED  BY <1>1, <2>8, <3>1, <3>2, <3>3, <3>4 DEF Owns
  <2> QED  BY <2>7, <2>8 DEF OwnsLess
<1>10. CASE CloseLink(c)
  <2>1. Steps(c, "closed", None, None, None, None, None)
    BY <1>10, ConnSteps
  <2>2. cells' = cells /\ ~BeforeCounter(c)'
    BY <1>10, <2>1 DEF CloseLink, countVars, Steps, BeforeCounter
  <2> QED  BY <1>3, <2>1, <2>2
<1>11. CASE Transfer(c) \/ ConcurrentMapWrite(c)
  BY <1>1, <1>11 DEF Transfer, ConcurrentMapWrite, countVars, OwnsLess, Owns, BeforeCounter
<1> QED  BY <1>4, <1>5, <1>6, <1>7, <1>8, <1>9, <1>10, <1>11 DEF Connection

\* Cells only lose storages, and the connections keep what they hold.
LEMMA OwnsKept ==
    ASSUME Typed,
           \A t \in Conns, u \in Users : cells'[t][u] = cells[t][u] \/ cells'[t][u] = None,
           \A c \in Conns : /\ conn'[c].pc = conn[c].pc /\ conn'[c].kind = conn[c].kind
                            /\ conn'[c].user = conn[c].user /\ conn'[c].storage = conn[c].storage,
           \A r \in Reporters :
               report'[r].pc = "zero" =>
                   Owns(report'[r].user, report'[r].storage)
    PROVE  OwnsLess
<1>0. None \notin Conns
  BY XrayAssumption
<1> SUFFICES ASSUME NEW s \in Conns
             PROVE  /\ BeforeCounter(s)' => BeforeCounter(s)
                    /\ \A u \in Users : Owns(u, s)' => Owns(u, s)
  BY DEF OwnsLess
<1>1. BeforeCounter(s)' => BeforeCounter(s)
  BY DEF BeforeCounter
<1>2. ASSUME NEW u \in Users, Owns(u, s)' PROVE Owns(u, s)
  <2>1. CASE \E t \in Conns : cells'[t][u] = s
    BY <1>0, <2>1 DEF Owns
  <2>2. CASE \E c \in Conns : conn'[c].user = u /\ conn'[c].storage = s
    BY <2>2 DEF Owns
  <2>3. CASE \E r \in Reporters : report'[r].pc = "zero" /\ report'[r].user = u /\ report'[r].storage = s
    BY <2>3
  <2> QED  BY <1>2, <2>1, <2>2, <2>3 DEF Owns
<1> QED  BY <1>1, <1>2

LEMMA OwnsChange == ASSUME Typed, Holding, UserChange PROVE OwnsLess
<1>1. report' = report
  BY DEF UserChange
<1>2. \A r \in Reporters : report'[r].pc = "zero" => Owns(report'[r].user, report'[r].storage)
  BY <1>1 DEF Owns
<1>3. \A t \in Conns, u \in Users : cells'[t][u] = cells[t][u] \/ cells'[t][u] = None
  <2>0. cells \in [Conns -> [Users -> Conns \cup {None}]] /\ counter \in Conns \cup {None}
    BY DEF Typed, TypeOK
  <2>1. CASE DelCounter
    <3>1. change.user \in Users
      BY <2>1 DEF DelCounter, Holding, ChangeHolds
    <3> QED  BY <2>0, <2>1, <3>1 DEF DelCounter
  <2>2. CASE cells' = cells
    BY <2>2
  <2> QED  BY <2>1, <2>2 DEF UserChange, AddUsers, DelBegins, DelUser, CloseOne, DelManager, CloseAllEnds,
                             DelDelete, DelEnds
<1>4. \A c \in Conns : /\ conn'[c].pc = conn[c].pc /\ conn'[c].kind = conn[c].kind
                       /\ conn'[c].user = conn[c].user /\ conn'[c].storage = conn[c].storage
  <2>1. ASSUME NEW w \in Conns, CloseOne(w)
        PROVE  conn' = conn \/ conn' = [conn EXCEPT ![w].cut = TRUE]
    BY <2>1 DEF CloseOne
  <2>2. CASE conn' = conn
    BY <2>2
  <2> QED  BY <2>1, <2>2, Cut DEF UserChange, AddUsers, DelBegins, DelUser, DelCounter, DelManager,
                             CloseAllEnds, DelDelete, DelEnds
<1> QED  BY <1>2, <1>3, <1>4, OwnsKept

\* The steps of a report, field by field.
LEMMA ReportSteps ==
    ASSUME Typed, Holding, NEW r \in Reporters
    PROVE  /\ ReportBegins(r) => /\ report'[r].pc = "range" /\ report'[r].slice = [u \in Users |-> 0]
           /\ \A u \in Users : LoadTraffic(r, u) =>
                /\ report'[r].slice = report[r].slice
                /\ \/ report'[r].pc = "range"
                   \/ /\ report'[r].pc = "zero" /\ report'[r].user = u
                      /\ report'[r].storage \in Conns
                      /\ report'[r].storage = cells[report[r].tc][u]
                      /\ report'[r].seen = count[report'[r].storage]
           /\ ResetTraffic(r) => /\ report'[r].pc = "uid" /\ report'[r].slice = report[r].slice
                                 /\ report'[r].user = report[r].user /\ report'[r].seen = report[r].seen
           /\ AppendTraffic(r) =>
                /\ report'[r].pc = "range"
                /\ \/ report'[r].slice = report[r].slice
                   \/ report'[r].slice = [report[r].slice EXCEPT ![report[r].user] = report[r].seen]
           /\ ReportEnds(r) =>
                \/ report'[r].pc = "post" /\ report'[r].slice = report[r].slice
                \/ report'[r].pc = "free" /\ report'[r].slice = [u \in Users |-> 0]
           /\ ReportUserTraffic(r) => report'[r].pc = "free" /\ report'[r].slice = [u \in Users |-> 0]
<1>0. report \in [Reporters -> ReportRecords] /\ report[r] \in ReportRecords /\ ReportHolds(r)
  BY DEF Typed, Holding
<1>1. ReportBegins(r) => report'[r].pc = "range" /\ report'[r].slice = [u \in Users |-> 0]
  BY <1>0 DEF ReportBegins, NoReport
<1>2. ASSUME NEW u \in Users, LoadTraffic(r, u)
      PROVE  /\ report'[r].slice = report[r].slice
             /\ \/ report'[r].pc = "range"
                \/ /\ report'[r].pc = "zero" /\ report'[r].user = u
                   /\ report'[r].storage \in Conns
                   /\ report'[r].storage = cells[report[r].tc][u]
                   /\ report'[r].seen = count[report'[r].storage]
  <2> DEFINE s == cells[report[r].tc][u]
             y == [report[r] EXCEPT !.todo = @ \ {u}]
             z == [y EXCEPT !.user = u, !.storage = s, !.seen = count[s], !.pc = "zero"]
  <2>1. report' = [report EXCEPT ![r] = IF s # None /\ count[s] > setting.min THEN z ELSE y]
    BY <1>2 DEF LoadTraffic
  <2>2. report[r].pc = "range" /\ report[r].tc \in Conns
    BY <1>0, <1>2 DEF LoadTraffic, ReportHolds, Reading
  <2>3. s \in Conns \cup {None}
    BY <2>2 DEF Typed, TypeOK
  <2>4. y.pc = "range" /\ y.slice = report[r].slice /\ y \in ReportRecords
    BY <1>0, <2>2 DEF ReportRecords
  <2>5. z.pc = "zero" /\ z.slice = y.slice /\ z.user = u /\ z.storage = s /\ z.seen = count[s]
    <3> HIDE DEF y, s
    <3> QED  BY <2>4 DEF ReportRecords
  <2>6. CASE s # None /\ count[s] > setting.min
    <3>1. report'[r] = z
      BY <1>0, <2>1, <2>6
    <3> HIDE DEF z, s
    <3> QED  BY <2>3, <2>4, <2>5, <2>6, <3>1 DEF s
  <2>7. CASE ~(s # None /\ count[s] > setting.min)
    <3>1. report'[r] = y
      BY <1>0, <2>1, <2>7
    <3> HIDE DEF y
    <3> QED  BY <2>4, <3>1
  <2> QED  BY <2>6, <2>7
<1>3. ResetTraffic(r) => /\ report'[r].pc = "uid" /\ report'[r].slice = report[r].slice
                         /\ report'[r].user = report[r].user /\ report'[r].seen = report[r].seen
  BY <1>0 DEF ResetTraffic, ReportRecords
<1>4. ASSUME AppendTraffic(r)
      PROVE  /\ report'[r].pc = "range"
             /\ \/ report'[r].slice = report[r].slice
                \/ report'[r].slice = [report[r].slice EXCEPT ![report[r].user] = report[r].seen]
  <2> DEFINE next == [report[r] EXCEPT !.pc = "range", !.user = None, !.seen = 0]
             more == [next EXCEPT !.slice[report[r].user] = report[r].seen]
  <2>1. report' = [report EXCEPT ![r] = next] \/ report' = [report EXCEPT ![r] = more]
    BY <1>4 DEF AppendTraffic
  <2>2. next.pc = "range" /\ next.slice = report[r].slice /\ next \in ReportRecords
    BY <1>0 DEF ReportRecords
  <2>3. more.pc = "range" /\ more.slice = [next.slice EXCEPT ![report[r].user] = report[r].seen]
    <3> HIDE DEF next
    <3> QED  BY <2>2 DEF ReportRecords
  <2>4. report'[r] = next \/ report'[r] = more
    <3> HIDE DEF next, more
    <3> QED  BY <1>0, <2>1
  <2> HIDE DEF next, more
  <2> QED  BY <2>2, <2>3, <2>4
<1>5. ReportEnds(r) =>
        \/ report'[r].pc = "post" /\ report'[r].slice = report[r].slice
        \/ report'[r].pc = "free" /\ report'[r].slice = [u \in Users |-> 0]
  BY <1>0 DEF ReportEnds, ReportRecords, NoReport
<1>6. ReportUserTraffic(r) => report'[r].pc = "free" /\ report'[r].slice = [u \in Users |-> 0]
  BY <1>0 DEF ReportUserTraffic, NoReport
<1> QED  BY <1>1, <1>2, <1>3, <1>4, <1>5, <1>6

LEMMA ReportOthers ==
    ASSUME Typed, NEW r \in Reporters, Report(r)
    PROVE  \A q \in Reporters \ {r} : report'[q] = report[q]
<1>0. report \in [Reporters -> ReportRecords]
  BY DEF Typed
<1>1. \E x : report' = [report EXCEPT ![r] = x]
  <2>1. ReportBegins(r) => \E x : report' = [report EXCEPT ![r] = x]
    BY DEF ReportBegins
  <2>2. \A u \in Users : LoadTraffic(r, u) => \E x : report' = [report EXCEPT ![r] = x]
    BY DEF LoadTraffic
  <2>3. ResetTraffic(r) => \E x : report' = [report EXCEPT ![r] = x]
    <3>1. ResetTraffic(r) => report' = [report EXCEPT ![r] = [report[r] EXCEPT !.pc = "uid", !.storage = None]]
      BY <1>0 DEF ResetTraffic
    <3> QED  BY <3>1
  <2>4. AppendTraffic(r) => \E x : report' = [report EXCEPT ![r] = x]
    BY DEF AppendTraffic
  <2>5. ReportEnds(r) => \E x : report' = [report EXCEPT ![r] = x]
    <3>1. ReportEnds(r) => \/ report' = [report EXCEPT ![r] = [report[r] EXCEPT !.pc = "post"]]
                           \/ report' = [report EXCEPT ![r] = NoReport]
      BY <1>0 DEF ReportEnds
    <3> QED  BY <3>1
  <2>6. ReportUserTraffic(r) => \E x : report' = [report EXCEPT ![r] = x]
    BY DEF ReportUserTraffic
  <2> QED  BY <2>1, <2>2, <2>3, <2>4, <2>5, <2>6 DEF Report
<1> QED  BY <1>1, ReportFields

LEMMA OwnsReport == ASSUME Typed, Holding, NEW r \in Reporters, Report(r) PROVE OwnsLess
<1>1. conn' = conn
  BY DEF Report
<1>2. \A t \in Conns, u \in Users : cells'[t][u] = cells[t][u] \/ cells'[t][u] = None
  <2>0. cells \in [Conns -> [Users -> Conns \cup {None}]]
    BY DEF Typed, TypeOK
  <2>1. CASE AppendTraffic(r)
    <3>1. report[r].tc \in Conns /\ report[r].user \in Users
      BY <2>1 DEF AppendTraffic, Holding, ReportHolds, Reading
    <3>2. cells' = cells \/ cells' = [cells EXCEPT ![report[r].tc][report[r].user] = None]
      BY <2>1 DEF AppendTraffic
    <3> QED  BY <2>0, <3>1, <3>2
  <2>2. CASE cells' = cells
    BY <2>2
  <2> QED  BY <2>1, <2>2 DEF Report, ReportBegins, LoadTraffic, ResetTraffic, ReportEnds, ReportUserTraffic
<1>3. report'[r].pc = "zero" => Owns(report'[r].user, report'[r].storage)
  <2>1. ASSUME NEW u \in Users, LoadTraffic(r, u), report'[r].pc = "zero"
        PROVE  Owns(report'[r].user, report'[r].storage)
    <3>1. report[r].tc \in Conns
      BY <2>1 DEF LoadTraffic, Holding, ReportHolds, Reading
    <3>2. report'[r].user = u /\ report'[r].storage = cells[report[r].tc][u]
      BY <2>1, ReportSteps
    <3> QED  BY <3>1, <3>2 DEF Owns
  <2> QED  BY <2>1, ReportSteps DEF Report
<1>4. \A q \in Reporters \ {r} : report'[q].pc = "zero" => Owns(report'[q].user, report'[q].storage)
  BY ReportOthers DEF Owns
<1> QED  BY <1>1, <1>2, <1>3, <1>4, OwnsKept

LEMMA OwnsStep == ASSUME Typed, Holding, [Next]_vars PROVE OwnsLess
<1>1. CASE UNCHANGED vars
  BY <1>1 DEF vars, countVars, OwnsLess, Owns, BeforeCounter
<1>2. CASE Next
  <2>1. setting.reporters \subseteq Reporters
    BY XrayAssumption DEF Typed, Setting
  <2> QED  BY <1>2, <2>1, OwnsConn, OwnsChange, OwnsReport DEF Next
<1> QED  BY <1>1, <1>2

LEMMA OwnInit == Init => OwnInv
BY XrayAssumption DEF Init, OwnInv, Owns, NoConn, NoReport

\* How a step may change the bytes in a storage.
LEMMA CountStep ==
    ASSUME Typed, Holding, [Next]_vars
    PROVE  \/ count' = count
           \/ \E c \in Conns : /\ Transfer(c) /\ conn[c].storage \in Conns /\ conn[c].user \in Users
                               /\ count' = [count EXCEPT ![conn[c].storage] = @ + 1]
           \/ \E r \in Reporters : /\ ResetTraffic(r) /\ report[r].storage \in Conns
                                   /\ count' = [count EXCEPT ![report[r].storage] = 0]
<1>1. ASSUME NEW c \in Conns, Connection(c) \/ ConcurrentMapWrite(c)
      PROVE  \/ count' = count
             \/ /\ Transfer(c) /\ conn[c].storage \in Conns /\ conn[c].user \in Users
                /\ count' = [count EXCEPT ![conn[c].storage] = @ + 1]
  <2>1. CASE Transfer(c)
    BY <2>1 DEF Transfer, Holding, ConnHolds
  <2>2. CASE ~Transfer(c)
    BY <1>1, <2>2 DEF Connection, ConcurrentMapWrite, Connect, CheckLimit, LoadManager, StoreManager,
                      AddLink, LoadCounter, StoreCounter, GetCounter, CloseLink, countVars
  <2> QED  BY <2>1, <2>2
<1>2. UserChange => count' = count
  BY DEF UserChange
<1>3. ASSUME NEW r \in Reporters, Report(r)
      PROVE  \/ count' = count
             \/ /\ ResetTraffic(r) /\ report[r].storage \in Conns
                /\ count' = [count EXCEPT ![report[r].storage] = 0]
  <2>1. CASE ResetTraffic(r)
    BY <2>1 DEF ResetTraffic, Holding, ReportHolds
  <2>2. CASE ~ResetTraffic(r)
    BY <1>3, <2>2 DEF Report, ReportBegins, LoadTraffic, AppendTraffic, ReportEnds, ReportUserTraffic
  <2> QED  BY <2>1, <2>2
<1>4. setting.reporters \subseteq Reporters
  BY XrayAssumption DEF Typed, Setting
<1>5. UNCHANGED vars => count' = count
  BY DEF vars, countVars
<1> QED  BY <1>1, <1>2, <1>3, <1>4, <1>5 DEF Next

LEMMA OwnStep == Typed /\ Holding /\ OwnInv /\ [Next]_vars => OwnInv'
<1> SUFFICES ASSUME Typed, Holding, OwnInv, [Next]_vars, NEW s \in Conns
             PROVE  /\ \A u, v \in Users : Owns(u, s)' /\ Owns(v, s)' => u = v
                    /\ BeforeCounter(s)' => count'[s] = 0 /\ \A u \in Users : ~Owns(u, s)'
  BY DEF OwnInv
<1>1. OwnsLess
  BY OwnsStep
<1>2. ASSUME NEW u \in Users, NEW v \in Users, Owns(u, s)', Owns(v, s)' PROVE u = v
  <2>1. Owns(u, s) \/ Creates(u, s)
    BY <1>1, <1>2 DEF OwnsLess
  <2>2. Owns(v, s) \/ Creates(v, s)
    BY <1>1, <1>2 DEF OwnsLess
  <2> QED  BY <2>1, <2>2 DEF OwnInv, Creates
<1>3. ASSUME BeforeCounter(s)' PROVE count'[s] = 0 /\ \A u \in Users : ~Owns(u, s)'
  <2>1. BeforeCounter(s) /\ \A u \in Users : Owns(u, s)' => Owns(u, s)
    BY <1>1, <1>3 DEF OwnsLess, Creates
  <2>2. count[s] = 0 /\ \A u \in Users : ~Owns(u, s)
    BY <2>1 DEF OwnInv
  <2>3. \A c \in Conns : conn[c].user \in Users => conn[c].storage # s
    BY <2>2 DEF Owns
  <2>4. count'[s] = 0
    BY <2>2, <2>3, CountStep DEF Typed, TypeOK
  <2> QED  BY <2>1, <2>2, <2>4
<1> QED  BY <1>2, <1>3

-----------------------------------------------------------------------------
(* Reasoning about traffic without sums.  n pieces were sent; b[p] of them *)
(* are asked for by place p.  The pieces cover the demands when each can   *)
(* be given to at most one place so that every place has what it asks for. *)

Covers(P, n, b) ==
    \E w \in [1..n -> P \X Nat] : \A p \in P : \A k \in 1..b[p] : \E i \in 1..n : w[i] = <<p, k>>

\* No pieces cover no demands.
LEMMA CoversNothing ==
    ASSUME NEW P, NEW p \in P, NEW b, \A q \in P : b[q] = 0
    PROVE  Covers(P, 0, b)
<1> DEFINE w == [i \in 1..0 |-> <<p, 0>>]
<1>1. w \in [1..0 -> P \X Nat]
  OBVIOUS
<1>2. \A q \in P : 1..b[q] = {}
  OBVIOUS
<1> QED  BY <1>1, <1>2 DEF Covers

\* No place holds more than there is.
LEMMA CoversBound ==
    ASSUME NEW P, NEW n \in Nat, NEW b \in [P -> Nat], Covers(P, n, b), NEW p \in P
    PROVE  b[p] <= n
<1>1. PICK w \in [1..n -> P \X Nat] : \A k \in 1..b[p] : \E i \in 1..n : w[i] = <<p, k>>
  BY DEF Covers
<1> DEFINE f == [k \in 1..b[p] |-> CHOOSE i \in 1..n : w[i] = <<p, k>>]
<1>2. \A k \in 1..b[p] : f[k] \in 1..n /\ w[f[k]] = <<p, k>>
  BY <1>1
<1>3. f \in Injection(1..b[p], 1..n)
  <2>1. f \in [1..b[p] -> 1..n]
    BY <1>2
  <2>2. \A j, k \in 1..b[p] : f[j] = f[k] => j = k
    <3> HIDE DEF f
    <3> QED  BY <1>2
  <2> QED  BY <2>1, <2>2 DEF Injection, IsInjective
<1>4. IsFiniteSet(1..b[p]) /\ IsFiniteSet(1..n) /\ Cardinality(1..b[p]) = b[p] /\ Cardinality(1..n) = n
  <2>1. ASSUME NEW k \in Nat PROVE IsFiniteSet(1..k) /\ Cardinality(1..k) = k
    <3>1. 1 \in Int /\ k \in Int
      OBVIOUS
    <3>2. IsFiniteSet(1..k) /\ Cardinality(1..k) = IF 1 > k THEN 0 ELSE k - 1 + 1
      BY <3>1, FS_Interval
    <3> QED  BY <3>2
  <2>2. b[p] \in Nat
    OBVIOUS
  <2> QED  BY <2>1, <2>2
<1>5. Cardinality(1..b[p]) <= Cardinality(1..n)
  BY <1>3, <1>4, FS_Injection
<1> QED  BY <1>4, <1>5

\* A new piece is put in one place.
LEMMA CoversPut ==
    ASSUME NEW P, NEW n \in Nat, NEW b \in [P -> Nat], Covers(P, n, b), NEW p \in P
    PROVE  Covers(P, n + 1, [b EXCEPT ![p] = @ + 1])
<1>1. PICK w \in [1..n -> P \X Nat] : \A q \in P : \A k \in 1..b[q] : \E i \in 1..n : w[i] = <<q, k>>
  BY DEF Covers
<1> DEFINE v == [i \in 1..(n + 1) |-> IF i = n + 1 THEN <<p, b[p] + 1>> ELSE w[i]]
           c == [b EXCEPT ![p] = @ + 1]
<1>2. v \in [1..(n + 1) -> P \X Nat]
  OBVIOUS
<1>3. v[n + 1] = <<p, b[p] + 1>> /\ \A i \in 1..n : v[i] = w[i] /\ i \in 1..(n + 1)
  OBVIOUS
<1>4. c[p] = b[p] + 1 /\ \A q \in P \ {p} : c[q] = b[q]
  OBVIOUS
<1> HIDE DEF v, c
<1>5. ASSUME NEW q \in P, NEW k \in 1..c[q] PROVE \E i \in 1..(n + 1) : v[i] = <<q, k>>
  <2>1. CASE k \in 1..b[q]
    BY <1>1, <1>3, <2>1
  <2>2. CASE k \notin 1..b[q]
    <3>1. q = p /\ k = b[p] + 1
      BY <1>4, <2>2
    <3>2. v[n + 1] = <<q, k>> /\ n + 1 \in 1..(n + 1)
      BY <1>3, <3>1
    <3> QED  BY <3>2
  <2> QED  BY <2>1, <2>2
<1>6. Covers(P, n + 1, c)
  BY <1>2, <1>5 DEF Covers
<1> QED  BY <1>6 DEF c

\* All pieces of one place are moved to another one.
LEMMA CoversMove ==
    ASSUME NEW P, NEW n \in Nat, NEW b \in [P -> Nat], Covers(P, n, b),
           NEW p \in P, NEW q \in P, p # q
    PROVE  Covers(P, n, [b EXCEPT ![p] = 0, ![q] = @ + b[p]])
<1>1. PICK w \in [1..n -> P \X Nat] : \A r \in P : \A k \in 1..b[r] : \E i \in 1..n : w[i] = <<r, k>>
  BY DEF Covers
<1> DEFINE v == [i \in 1..n |-> IF w[i][1] = p THEN <<q, b[q] + w[i][2]>> ELSE w[i]]
           c == [b EXCEPT ![p] = 0, ![q] = @ + b[p]]
<1>2. v \in [1..n -> P \X Nat]
  OBVIOUS
<1>3. \A i \in 1..n : \A r, k : w[i] = <<r, k>> => v[i] = IF r = p THEN <<q, b[q] + k>> ELSE <<r, k>>
  <2> SUFFICES ASSUME NEW i \in 1..n, NEW r, NEW k, w[i] = <<r, k>>
               PROVE  v[i] = IF r = p THEN <<q, b[q] + k>> ELSE <<r, k>>
    OBVIOUS
  <2>1. w[i][1] = r /\ w[i][2] = k
    OBVIOUS
  <2> QED  BY <2>1
<1>4. c[p] = 0 /\ c[q] = b[q] + b[p] /\ \A r \in P \ {p, q} : c[r] = b[r]
  OBVIOUS
<1> HIDE DEF v, c
<1>5. ASSUME NEW r \in P, NEW k \in 1..c[r] PROVE \E i \in 1..n : v[i] = <<r, k>>
  <2>1. CASE r # p /\ k \in 1..b[r]
    <3>1. PICK i \in 1..n : w[i] = <<r, k>>
      BY <1>1, <2>1
    <3>2. v[i] = <<r, k>>
      BY <1>3, <2>1, <3>1
    <3> QED  BY <3>2
  <2>2. CASE ~(r # p /\ k \in 1..b[r])
    <3>1. r = q /\ k - b[q] \in 1..b[p] /\ k = b[q] + (k - b[q])
      BY <1>4, <2>2
    <3>2. PICK i \in 1..n : w[i] = <<p, k - b[q]>>
      BY <1>1, <3>1
    <3>3. v[i] = <<q, b[q] + (k - b[q])>>
      BY <1>3, <3>2
    <3> QED  BY <3>1, <3>3
  <2> QED  BY <2>1, <2>2
<1>6. Covers(P, n, c)
  BY <1>2, <1>5 DEF Covers
<1> QED  BY <1>6 DEF c

-----------------------------------------------------------------------------
(* Traffic.  While no two reports have read the counters at once, the      *)
(* bytes a user has sent cover what it was charged, what is in its         *)
(* storages, and what reports carry.                                       *)

Paid == <<"paid", "all">>

Stored(s) == <<"stored", s>>

InSlice(r) == <<"slice", r>>

Places == {Paid} \cup {Stored(s) : s \in Conns} \cup {InSlice(r) : r \in Reporters}

Demands(u, b) ==
    /\ charged[u] <= b[Paid]
    /\ \A s \in Conns : Owns(u, s) => count[s] <= b[Stored(s)]
    /\ \A r \in Reporters :
        /\ report[r].slice[u] <= b[InSlice(r)]
        /\ report[r].pc = "uid" /\ report[r].user = u => report[r].seen <= b[InSlice(r)]

Backed(u) == \E b \in [Places -> Nat] : Covers(Places, sent[u], b) /\ Demands(u, b)

Alone == \A q, r \in Reporters : Reading(q) /\ Reading(r) => q = r

Loaded == \A r \in Reporters : report[r].pc = "zero" => report[r].seen <= count[report[r].storage]

TrafficInv == ~overlapped => Alone /\ Loaded /\ \A u \in Users : Backed(u)

LEMMA PlacesDiffer ==
    /\ Paid \in Places
    /\ \A s \in Conns : /\ Stored(s) \in Places /\ Stored(s) # Paid
                        /\ \A x \in Conns : Stored(s) = Stored(x) => s = x
                        /\ \A r \in Reporters : Stored(s) # InSlice(r)
    /\ \A r \in Reporters : /\ InSlice(r) \in Places /\ InSlice(r) # Paid
                            /\ \A q \in Reporters : InSlice(r) = InSlice(q) => q = r
BY DEF Places, Paid, Stored, InSlice

LEMMA TrafficInit == Init => TrafficInv
<1> SUFFICES ASSUME Init PROVE Alone /\ Loaded /\ \A u \in Users : Backed(u)
  BY DEF TrafficInv
<1>1. Alone /\ Loaded
  BY DEF Init, Alone, Loaded, Reading, NoReport
<1>2. ASSUME NEW u \in Users PROVE Backed(u)
  <2> DEFINE b == [p \in Places |-> 0]
  <2>1. b \in [Places -> Nat]
    OBVIOUS
  <2>2. Covers(Places, sent[u], b)
    <3>1. sent[u] = 0
      BY DEF Init
    <3> QED  BY <2>1, <3>1, CoversNothing, PlacesDiffer
  <2>3. Demands(u, b)
    BY PlacesDiffer DEF Init, Demands, NoReport
  <2> QED  BY <2>1, <2>2, <2>3 DEF Backed
<1> QED  BY <1>1, <1>2

\* A user's storages hold no more than before.
KeepsStored(u, s) == Owns(u, s)' => count'[s] = 0 \/ (Owns(u, s) /\ count'[s] <= count[s])

\* A report carries no more of a user than before, or appends what it has taken.
KeepsSlice(u, r) ==
    /\ \/ report'[r].slice[u] = 0
       \/ report'[r].slice[u] = report[r].slice[u]
       \/ report[r].pc = "uid" /\ report[r].user = u /\ report'[r].slice[u] = report[r].seen
    /\ report'[r].pc = "uid" /\ report'[r].user = u =>
           report[r].pc = "uid" /\ report[r].user = u /\ report'[r].seen = report[r].seen

LEMMA KeptStored ==
    ASSUME Typed, Typed', NEW u \in Users, NEW b \in [Places -> Nat], Demands(u, b),
           NEW s \in Conns, KeepsStored(u, s), Owns(u, s)'
    PROVE  count'[s] <= b[Stored(s)]
<1>1. count[s] \in Nat /\ count'[s] \in Nat /\ b[Stored(s)] \in Nat
  BY PlacesDiffer DEF Typed, TypeOK
<1>2. Owns(u, s) => count[s] <= b[Stored(s)]
  BY DEF Demands
<1> QED  BY <1>1, <1>2 DEF KeepsStored

LEMMA KeptSlice ==
    ASSUME Typed, NEW u \in Users, NEW b \in [Places -> Nat], Demands(u, b),
           NEW r \in Reporters, KeepsSlice(u, r)
    PROVE  /\ report'[r].slice[u] <= b[InSlice(r)]
           /\ report'[r].pc = "uid" /\ report'[r].user = u => report'[r].seen <= b[InSlice(r)]
<1>1. b[InSlice(r)] \in Nat
  BY PlacesDiffer
<1> QED  BY <1>1 DEF KeepsSlice, Demands

LEMMA KeepBacked ==
    ASSUME Typed, Typed', NEW u \in Users, Backed(u), sent'[u] = sent[u], charged'[u] = charged[u],
           \A s \in Conns : KeepsStored(u, s), \A r \in Reporters : KeepsSlice(u, r)
    PROVE  Backed(u)'
<1>1. PICK b \in [Places -> Nat] : Covers(Places, sent[u], b) /\ Demands(u, b)
  BY DEF Backed
<1>2. Demands(u, b)'
  <2>1. charged'[u] <= b[Paid]
    BY <1>1 DEF Demands
  <2>2. \A s \in Conns : Owns(u, s)' => count'[s] <= b[Stored(s)]
    BY <1>1, KeptStored
  <2> QED  BY <1>1, <2>1, <2>2, KeptSlice DEF Demands
<1> QED  BY <1>1, <1>2 DEF Backed

\* A byte is counted in a storage x of the user.
LEMMA SendBacked ==
    ASSUME Typed, Typed', NEW u \in Users, NEW x \in Conns, Backed(u), Owns(u, x),
           sent'[u] = sent[u] + 1, charged'[u] = charged[u], count'[x] = count[x] + 1,
           \A s \in Conns \ {x} : KeepsStored(u, s), report' = report
    PROVE  Backed(u)'
<1>1. PICK b \in [Places -> Nat] : Covers(Places, sent[u], b) /\ Demands(u, b)
  BY DEF Backed
<1>2. sent[u] \in Nat /\ Stored(x) \in Places
  BY PlacesDiffer DEF Typed, TypeOK
<1> DEFINE c == [b EXCEPT ![Stored(x)] = @ + 1]
<1>3. c \in [Places -> Nat] /\ Covers(Places, sent[u] + 1, c)
  <2>1. Covers(Places, sent[u] + 1, c)
    BY <1>1, <1>2, CoversPut
  <2>2. c \in [Places -> Nat]
    BY <1>2
  <2> HIDE DEF c
  <2> QED  BY <2>1, <2>2
<1>4. c[Stored(x)] = b[Stored(x)] + 1
  BY <1>2
<1>5. \A p \in Places : p # Stored(x) => c[p] = b[p]
  BY <1>2
<1> HIDE DEF c
<1>6. Demands(u, c)'
  <2>1. charged'[u] <= c[Paid]
    BY <1>1, <1>5, PlacesDiffer DEF Demands
  <2>2. count'[x] <= c[Stored(x)]
    <3>1. count[x] \in Nat /\ b[Stored(x)] \in Nat /\ count[x] <= b[Stored(x)]
      BY <1>1, <1>2 DEF Typed, TypeOK, Demands
    <3> QED  BY <1>4, <3>1
  <2>3. ASSUME NEW s \in Conns, s # x, Owns(u, s)' PROVE count'[s] <= c[Stored(s)]
    <3>1. c[Stored(s)] = b[Stored(s)]
      BY <1>5, <2>3, PlacesDiffer
    <3> QED  BY <1>1, <2>3, <3>1, KeptStored
  <2>4. ASSUME NEW r \in Reporters PROVE c[InSlice(r)] = b[InSlice(r)]
    BY <1>5, PlacesDiffer
  <2>5. \A r \in Reporters :
          /\ report'[r].slice[u] <= c[InSlice(r)]
          /\ report'[r].pc = "uid" /\ report'[r].user = u => report'[r].seen <= c[InSlice(r)]
    BY <1>1, <2>4 DEF Demands
  <2> QED  BY <2>1, <2>2, <2>3, <2>5 DEF Demands
<1>7. Covers(Places, sent'[u], c)
  BY <1>3
<1> QED  BY <1>3, <1>6, <1>7 DEF Backed

\* A report takes what it has loaded off a storage x of the user.
LEMMA TakeBacked ==
    ASSUME Typed, Typed', NEW u \in Users, NEW x \in Conns, NEW r \in Reporters, Backed(u), Owns(u, x),
           sent'[u] = sent[u], charged'[u] = charged[u], count'[x] = 0,
           \A s \in Conns \ {x} : KeepsStored(u, s),
           \A q \in Reporters \ {r} : report'[q] = report[q],
           report'[r].slice = report[r].slice, report'[r].seen <= count[x]
    PROVE  Backed(u)'
<1>1. PICK b \in [Places -> Nat] : Covers(Places, sent[u], b) /\ Demands(u, b)
  BY DEF Backed
<1>2. /\ sent[u] \in Nat /\ Stored(x) \in Places /\ InSlice(r) \in Places
      /\ Stored(x) # InSlice(r)
  BY PlacesDiffer DEF Typed, TypeOK
<1> DEFINE c == [b EXCEPT ![Stored(x)] = 0, ![InSlice(r)] = @ + b[Stored(x)]]
<1>3. c \in [Places -> Nat]
  BY <1>2
<1>4. Covers(Places, sent[u], c)
  BY <1>1, <1>2, CoversMove
<1>5. c[InSlice(r)] = b[InSlice(r)] + b[Stored(x)]
  BY <1>2
<1>6. \A p \in Places : p # Stored(x) /\ p # InSlice(r) => c[p] = b[p]
  BY <1>2
<1>7. \A p \in Places : b[p] \in Nat /\ c[p] \in Nat
  BY <1>3
<1> HIDE DEF c
<1>8. Demands(u, c)'
  <2>1. charged'[u] <= c[Paid]
    BY <1>1, <1>6, PlacesDiffer DEF Demands
  <2>2. count'[x] <= c[Stored(x)]
    BY <1>2, <1>7
  <2>3. ASSUME NEW s \in Conns, s # x, Owns(u, s)' PROVE count'[s] <= c[Stored(s)]
    <3>1. c[Stored(s)] = b[Stored(s)]
      BY <1>6, <2>3, PlacesDiffer
    <3> QED  BY <1>1, <2>3, <3>1, KeptStored
  <2>4. ASSUME NEW q \in Reporters, q # r
        PROVE  /\ report'[q].slice[u] <= c[InSlice(q)]
               /\ report'[q].pc = "uid" /\ report'[q].user = u => report'[q].seen <= c[InSlice(q)]
    <3>1. c[InSlice(q)] = b[InSlice(q)]
      BY <1>6, <2>4, PlacesDiffer
    <3> QED  BY <1>1, <2>4, <3>1 DEF Demands
  <2>5. report'[r].slice[u] <= c[InSlice(r)]
    <3>1. report[r].slice[u] \in Nat /\ report[r].slice[u] <= b[InSlice(r)]
      BY <1>1 DEF Typed, ReportRecords, Demands
    <3> QED  BY <1>2, <1>5, <1>7, <3>1
  <2>6. report'[r].seen <= c[InSlice(r)]
    <3>1. count[x] \in Nat /\ count[x] <= b[Stored(x)] /\ report'[r].seen \in Nat
      BY <1>1 DEF Typed, TypeOK, ReportRecords, Demands
    <3> QED  BY <1>2, <1>5, <1>7, <3>1
  <2> QED  BY <2>1, <2>2, <2>3, <2>4, <2>5, <2>6 DEF Demands
<1>9. Covers(Places, sent'[u], c)
  BY <1>4
<1> QED  BY <1>3, <1>8, <1>9 DEF Backed

\* The panel charges what a report carries.
LEMMA PayBacked ==
    ASSUME Typed, Typed', NEW u \in Users, NEW r \in Reporters, Backed(u),
           sent'[u] = sent[u], charged'[u] = charged[u] + report[r].slice[u],
           \A s \in Conns : KeepsStored(u, s),
           \A q \in Reporters \ {r} : report'[q] = report[q],
           report'[r].slice[u] = 0, report'[r].pc # "uid"
    PROVE  Backed(u)'
<1>1. PICK b \in [Places -> Nat] : Covers(Places, sent[u], b) /\ Demands(u, b)
  BY DEF Backed
<1>2. sent[u] \in Nat /\ InSlice(r) \in Places /\ Paid \in Places /\ InSlice(r) # Paid
  BY PlacesDiffer DEF Typed, TypeOK
<1> DEFINE c == [b EXCEPT ![InSlice(r)] = 0, ![Paid] = @ + b[InSlice(r)]]
<1>3. c \in [Places -> Nat]
  BY <1>2
<1>4. Covers(Places, sent[u], c)
  BY <1>1, <1>2, CoversMove
<1>5. c[Paid] = b[Paid] + b[InSlice(r)]
  BY <1>2
<1>6. \A p \in Places : p # Paid /\ p # InSlice(r) => c[p] = b[p]
  BY <1>2
<1>7. \A p \in Places : b[p] \in Nat /\ c[p] \in Nat
  BY <1>3
<1> HIDE DEF c
<1>8. Demands(u, c)'
  <2>1. charged'[u] <= c[Paid]
    <3>1. /\ charged[u] \in Nat /\ report[r].slice[u] \in Nat
          /\ charged[u] <= b[Paid] /\ report[r].slice[u] <= b[InSlice(r)]
      BY <1>1 DEF Typed, TypeOK, ReportRecords, Demands
    <3> QED  BY <1>2, <1>5, <1>7, <3>1
  <2>2. ASSUME NEW s \in Conns, Owns(u, s)' PROVE count'[s] <= c[Stored(s)]
    <3>1. c[Stored(s)] = b[Stored(s)]
      BY <1>6, PlacesDiffer
    <3> QED  BY <1>1, <2>2, <3>1, KeptStored
  <2>3. ASSUME NEW q \in Reporters, q # r
        PROVE  /\ report'[q].slice[u] <= c[InSlice(q)]
               /\ report'[q].pc = "uid" /\ report'[q].user = u => report'[q].seen <= c[InSlice(q)]
    <3>1. c[InSlice(q)] = b[InSlice(q)]
      BY <1>6, <2>3, PlacesDiffer
    <3> QED  BY <1>1, <2>3, <3>1 DEF Demands
  <2>4. report'[r].slice[u] <= c[InSlice(r)]
    BY <1>2, <1>7
  <2> QED  BY <2>1, <2>2, <2>3, <2>4 DEF Demands
<1>9. Covers(Places, sent'[u], c)
  BY <1>4
<1> QED  BY <1>3, <1>8, <1>9 DEF Backed

\* A step that adds to no storage leaves no user more to be counted.
LEMMA StoredKept ==
    ASSUME Typed, Typed', Holding, OwnInv, [Next]_vars, NEW u \in Users, NEW s \in Conns,
           count'[s] = 0 \/ count'[s] = count[s]
    PROVE  KeepsStored(u, s)
<1>1. OwnsLess /\ count[s] \in Nat
  BY OwnsStep DEF Typed, TypeOK
<1>2. Owns(u, s)' => Owns(u, s) \/ count[s] = 0
  BY <1>1 DEF OwnsLess, OwnInv, Creates
<1> QED  BY <1>1, <1>2 DEF KeepsStored

LEMMA TrafficTransfer ==
    ASSUME Typed, Typed', Holding, OwnInv, [Next]_vars, NEW c \in Conns, Connection(c), Transfer(c),
           Alone, Loaded, \A u \in Users : Backed(u)
    PROVE  Alone' /\ Loaded' /\ \A u \in Users : Backed(u)'
<1> DEFINE x == conn[c].storage
           v == conn[c].user
<1>0. x \in Conns /\ v \in Users /\ count \in [Conns -> Nat] /\ sent \in [Users -> Nat]
  BY DEF Transfer, Holding, ConnHolds, Typed, TypeOK
<1>1. report' = report /\ charged' = charged
  BY DEF Connection
<1>2. count' = [count EXCEPT ![x] = @ + 1] /\ sent' = [sent EXCEPT ![v] = @ + 1]
  BY DEF Transfer
<1>3. Owns(v, x)
  BY DEF Owns
<1> HIDE DEF x, v
<1>4. /\ count'[x] = count[x] + 1 /\ \A s \in Conns \ {x} : count'[s] = count[s]
      /\ sent'[v] = sent[v] + 1 /\ \A u \in Users \ {v} : sent'[u] = sent[u]
  BY <1>0, <1>2
<1>5. Alone'
  BY <1>1 DEF Alone, Reading
<1>6. Loaded'
  <2> SUFFICES ASSUME NEW r \in Reporters, report[r].pc = "zero"
               PROVE  report[r].seen <= count'[report[r].storage]
    BY <1>1 DEF Loaded
  <2>1. report[r].seen \in Nat /\ report[r].storage \in Conns /\ report[r].seen <= count[report[r].storage]
    BY DEF Typed, ReportRecords, Holding, ReportHolds, Loaded
  <2>2. count[report[r].storage] \in Nat
    BY <1>0, <2>1
  <2> QED  BY <1>0, <1>4, <2>1, <2>2
<1>7. ASSUME NEW u \in Users PROVE Backed(u)'
  <2>1. \A s \in Conns \ {x} : KeepsStored(u, s)
    BY <1>4, StoredKept
  <2>2. CASE u = v
    BY <1>0, <1>1, <1>3, <1>4, <2>1, <2>2, SendBacked
  <2>3. CASE u # v
    <3>1. ~Owns(u, x)
      BY <1>0, <1>3, <2>3 DEF OwnInv
    <3>2. ~BeforeCounter(x)
      BY <1>0, <1>3 DEF OwnInv
    <3>3. ASSUME NEW s \in Conns, s = x PROVE ~Owns(u, s)'
      BY <3>1, <3>2, <3>3, OwnsStep DEF OwnsLess, Creates
    <3>4. \A s \in Conns : KeepsStored(u, s)
      BY <2>1, <3>3 DEF KeepsStored
    <3>5. \A r \in Reporters : KeepsSlice(u, r)
      BY <1>1 DEF KeepsSlice
    <3> QED  BY <1>1, <1>4, <2>3, <3>4, <3>5, KeepBacked
  <2> QED  BY <2>2, <2>3
<1> QED  BY <1>5, <1>6, <1>7

\* A step that touches neither storages nor reports nor accounts.
LEMMA TrafficKept ==
    ASSUME Typed, Typed', Holding, OwnInv, [Next]_vars, UNCHANGED <<count, report, sent, charged>>,
           Alone, Loaded, \A u \in Users : Backed(u)
    PROVE  Alone' /\ Loaded' /\ \A u \in Users : Backed(u)'
<1>1. Alone' /\ Loaded'
  BY DEF Alone, Loaded, Reading
<1>2. ASSUME NEW u \in Users PROVE Backed(u)'
  <2>1. \A s \in Conns : KeepsStored(u, s)
    BY StoredKept
  <2>2. \A r \in Reporters : KeepsSlice(u, r)
    BY DEF KeepsSlice
  <2> QED  BY <2>1, <2>2, KeepBacked
<1> QED  BY <1>1, <1>2

LEMMA TrafficReset ==
    ASSUME Typed, Typed', Holding, OwnInv, [Next]_vars, NEW r \in Reporters, Report(r), ResetTraffic(r),
           Alone, Loaded, \A u \in Users : Backed(u)
    PROVE  Alone' /\ Loaded' /\ \A u \in Users : Backed(u)'
<1> DEFINE x == report[r].storage
           v == report[r].user
<1>0. x \in Conns /\ v \in Users /\ count \in [Conns -> Nat] /\ report[r].pc = "zero"
  BY DEF ResetTraffic, Holding, ReportHolds, Typed, TypeOK
<1>1. sent' = sent /\ charged' = charged /\ count' = [count EXCEPT ![x] = 0]
  BY DEF ResetTraffic, Report
<1>2. /\ \A q \in Reporters \ {r} : report'[q] = report[q]
      /\ report'[r].pc = "uid" /\ report'[r].slice = report[r].slice
      /\ report'[r].user = v /\ report'[r].seen = report[r].seen
  BY ReportOthers, ReportSteps
<1>3. Owns(v, x) /\ report[r].seen <= count[x]
  BY <1>0 DEF Owns, Loaded
<1> HIDE DEF x, v
<1>4. count'[x] = 0 /\ \A s \in Conns \ {x} : count'[s] = count[s]
  BY <1>0, <1>1
<1>5. \A q \in Reporters \ {r} : ~Reading(q) /\ ~Reading(q)'
  BY <1>0, <1>2 DEF Alone, Reading
<1>6. Alone' /\ Loaded'
  BY <1>2, <1>5 DEF Alone, Loaded, Reading
<1>7. ASSUME NEW u \in Users PROVE Backed(u)'
  <2>1. \A s \in Conns : KeepsStored(u, s)
    BY <1>4, StoredKept
  <2>2. CASE u = v
    BY <1>0, <1>1, <1>2, <1>3, <1>4, <2>1, <2>2, TakeBacked
  <2>3. CASE u # v
    <3>1. \A q \in Reporters : KeepsSlice(u, q)
      BY <1>2, <2>3 DEF KeepsSlice
    <3> QED  BY <1>1, <2>1, <3>1, KeepBacked
  <2> QED  BY <2>2, <2>3
<1> QED  BY <1>6, <1>7

LEMMA TrafficPost ==
    ASSUME Typed, Typed', Holding, OwnInv, [Next]_vars, NEW r \in Reporters, Report(r),
           ReportUserTraffic(r), Alone, Loaded, \A u \in Users : Backed(u)
    PROVE  Alone' /\ Loaded' /\ \A u \in Users : Backed(u)'
<1>1. sent' = sent /\ count' = count
  BY DEF ReportUserTraffic, Report
<1>2. /\ \A q \in Reporters \ {r} : report'[q] = report[q]
      /\ report'[r].pc = "free" /\ report'[r].slice = [u \in Users |-> 0]
  BY ReportOthers, ReportSteps
<1>3. Alone' /\ Loaded'
  BY <1>1, <1>2 DEF Alone, Loaded, Reading
<1>4. ASSUME NEW u \in Users PROVE Backed(u)'
  <2>1. \A s \in Conns : KeepsStored(u, s)
    BY <1>1, StoredKept
  <2>2. CASE charged'[u] = charged[u] + report[r].slice[u]
    BY <1>1, <1>2, <2>1, <2>2, PayBacked
  <2>3. CASE charged'[u] = charged[u]
    <3>1. \A q \in Reporters : KeepsSlice(u, q)
      BY <1>2 DEF KeepsSlice
    <3> QED  BY <1>1, <2>1, <2>3, <3>1, KeepBacked
  <2> QED  BY <2>2, <2>3 DEF ReportUserTraffic
<1> QED  BY <1>3, <1>4

\* The other steps of a report; at its begin no other one may be reading.
LEMMA TrafficRead ==
    ASSUME Typed, Typed', Holding, OwnInv, [Next]_vars, NEW r \in Reporters, Report(r),
           ~ResetTraffic(r), ~ReportUserTraffic(r),
           ReportBegins(r) => \A q \in Reporters : ~Reading(q),
           Alone, Loaded, \A u \in Users : Backed(u)
    PROVE  Alone' /\ Loaded' /\ \A u \in Users : Backed(u)'
<1>1. sent' = sent /\ charged' = charged /\ count' = count
  BY DEF Report, ReportBegins, LoadTraffic, AppendTraffic, ReportEnds
<1>2. \A q \in Reporters \ {r} : report'[q] = report[q]
  BY ReportOthers
<1>3. Reading(r) \/ ReportBegins(r)
  BY DEF Report, LoadTraffic, AppendTraffic, ReportEnds, Reading
<1>4. Alone'
  BY <1>2, <1>3 DEF Alone, Reading
<1>5. Loaded'
  <2>1. report'[r].pc = "zero" => report'[r].seen <= count'[report'[r].storage]
    <3>1. ASSUME NEW u \in Users, LoadTraffic(r, u), report'[r].pc = "zero"
          PROVE  report'[r].seen <= count'[report'[r].storage]
      <4>1. report'[r].storage \in Conns /\ report'[r].seen = count[report'[r].storage]
        BY <3>1, ReportSteps
      <4>2. count[report'[r].storage] \in Nat
        BY <4>1 DEF Typed, TypeOK
      <4> QED  BY <1>1, <4>1, <4>2
    <3> QED  BY <3>1, ReportSteps DEF Report
  <2> QED  BY <1>1, <1>2, <2>1 DEF Loaded
<1>6. ASSUME NEW u \in Users PROVE Backed(u)'
  <2>1. \A s \in Conns : KeepsStored(u, s)
    BY <1>1, StoredKept
  <2>2. report'[r].pc # "uid"
    BY ReportSteps DEF Report
  <2>3. \/ report'[r].slice = [w \in Users |-> 0] \/ report'[r].slice = report[r].slice
        \/ /\ report[r].pc = "uid"
           /\ report'[r].slice = [report[r].slice EXCEPT ![report[r].user] = report[r].seen]
    BY ReportSteps DEF Report, AppendTraffic
  <2>4. report[r].slice \in [Users -> Nat]
    BY DEF Typed, ReportRecords
  <2>5. \A q \in Reporters : KeepsSlice(u, q)
    BY <1>2, <2>2, <2>3, <2>4 DEF KeepsSlice
  <2> QED  BY <1>1, <2>1, <2>5, KeepBacked
<1> QED  BY <1>4, <1>5, <1>6

LEMMA TrafficStep == Typed /\ Typed' /\ Holding /\ OwnInv /\ TrafficInv /\ [Next]_vars => TrafficInv'
<1> SUFFICES ASSUME Typed, Typed', Holding, OwnInv, TrafficInv, [Next]_vars, ~overlapped'
             PROVE  Alone' /\ Loaded' /\ \A u \in Users : Backed(u)'
  BY DEF TrafficInv
<1>1. ASSUME NEW r \in Reporters, Report(r)
      PROVE  ~overlapped /\ (ReportBegins(r) => \A q \in Reporters : ~Reading(q))
  <2>1. ReportBegins(r) => ~overlapped /\ \A q \in Reporters : ~Reading(q)
    BY Zenon DEF ReportBegins
  <2>2. ~ReportBegins(r) => overlapped' = overlapped
    BY <1>1 DEF Report, LoadTraffic, ResetTraffic, AppendTraffic, ReportEnds, ReportUserTraffic
  <2> QED  BY <2>1, <2>2
<1>2. ASSUME NEW c \in Conns, Connection(c) \/ ConcurrentMapWrite(c) PROVE ~overlapped
  BY <1>2 DEF Connection, ConcurrentMapWrite, Connect, CheckLimit, LoadManager, StoreManager, AddLink,
              LoadCounter, StoreCounter, GetCounter, Transfer, CloseLink, histVars
<1>3. UserChange \/ UNCHANGED vars => ~overlapped
  BY DEF UserChange, vars, histVars
<1>4. setting.reporters \subseteq Reporters
  BY XrayAssumption DEF Typed, Setting
<1>5. ~overlapped
  BY <1>1, <1>2, <1>3, <1>4 DEF Next
<1>6. Alone /\ Loaded /\ \A u \in Users : Backed(u)
  BY <1>5 DEF TrafficInv
<1>7. ASSUME NEW c \in Conns, Connection(c) \/ ConcurrentMapWrite(c), ~Transfer(c)
      PROVE  UNCHANGED <<count, report, sent, charged>>
  BY <1>7 DEF Connection, ConcurrentMapWrite, Connect, CheckLimit, LoadManager, StoreManager, AddLink,
              LoadCounter, StoreCounter, GetCounter, CloseLink, histVars, countVars
<1>8. UserChange \/ UNCHANGED vars => UNCHANGED <<count, report, sent, charged>>
  BY DEF UserChange, vars, histVars, countVars
<1>9. ASSUME NEW c \in Conns, ConcurrentMapWrite(c) PROVE UNCHANGED <<count, report, sent, charged>>
  BY <1>9 DEF ConcurrentMapWrite, histVars, countVars
<1>10. CASE UNCHANGED <<count, report, sent, charged>>
  BY <1>6, <1>10, TrafficKept
<1>11. ASSUME NEW c \in Conns, Connection(c), Transfer(c)
       PROVE  Alone' /\ Loaded' /\ \A u \in Users : Backed(u)'
  BY <1>6, <1>11, TrafficTransfer
<1>12. ASSUME NEW r \in Reporters, Report(r)
       PROVE  Alone' /\ Loaded' /\ \A u \in Users : Backed(u)'
  BY <1>1, <1>6, <1>12, TrafficReset, TrafficPost, TrafficRead
<1> QED  BY <1>4, <1>7, <1>8, <1>9, <1>10, <1>11, <1>12 DEF Next

\* The panel never charges a user for more bytes than passed, through deleted and added users,
\* replaced counters and lost requests, unless two loops of the report task have read the
\* counters at once.
THEOREM XrayChargedWasSent == Spec => []ChargedWasSent
<1>1. Typed /\ TrafficInv => ChargedWasSent
  <2> SUFFICES ASSUME Typed, TrafficInv, ~overlapped, NEW u \in Users PROVE charged[u] <= sent[u]
    BY DEF ChargedWasSent
  <2>1. PICK b \in [Places -> Nat] : Covers(Places, sent[u], b) /\ Demands(u, b)
    BY DEF TrafficInv, Backed
  <2>2. charged[u] \in Nat /\ sent[u] \in Nat
    BY DEF Typed, TypeOK
  <2>3. b[Paid] <= sent[u] /\ b[Paid] \in Nat
    BY <2>1, <2>2, CoversBound, PlacesDiffer
  <2> QED  BY <2>1, <2>2, <2>3 DEF Demands
<1> QED  BY <1>1, TypedInit, HoldingInit, OwnInit, TrafficInit, TypedStep, OwnStep, TrafficStep, PTL DEF Spec

-----------------------------------------------------------------------------
(* Links of deleted users.  A link that DelUsers did not miss is in the    *)
(* LinkManager of its user; the user is in the manager, or DelUsers is at  *)
(* this user and has yet to close the link.                                *)

Active(c) == conn[c].pc \notin {"idle", "closed"} /\ c \notin late /\ ~conn[c].cut

Linked(c) ==
    \/ conn[c].pc = "open"
    \/ conn[c].kind = "Dispatch" /\ conn[c].pc \in {"loadCounter", "storeCounter", "getCounter"}

ToBeClosed(c) ==
    /\ change.pc \in {"counter", "manager", "closeAll"} /\ change.user = conn[c].user
    /\ conn[c].pc = "open"
    /\ change.pc = "closeAll" => change.lm = conn[c].lm /\ c \in change.left

InReach(c) ==
    /\ conn[c].lm # None => linkManagers[conn[c].user] = conn[c].lm
    /\ Linked(c) => c \in links[conn[c].lm]
    /\ conn[c].user \in manager \/ ToBeClosed(c)

CutInv ==
    /\ change.pc \in {"counter", "manager", "closeAll", "delete"} => change.user \notin manager
    /\ \A c \in Conns : Active(c) => InReach(c)

LEMMA CutInit == Init => CutInv
BY DEF Init, CutInv, Active, NoConn, NoChange

\* Steps of a connection before it is closed do not cut it.
LEMMA StillCut ==
    ASSUME Typed, NEW c \in Conns, conn[c].pc # "idle", conn'[c].pc # "closed",
           \/ CheckLimit(c) \/ LoadManager(c) \/ StoreManager(c) \/ AddLink(c)
           \/ LoadCounter(c) \/ StoreCounter(c) \/ GetCounter(c)
    PROVE  conn'[c].cut = conn[c].cut
<1>0. conn \in [Conns -> ConnRecords]
  BY DEF Typed
<1>1. conn' = [conn EXCEPT ![c] = Closed] => conn'[c].pc = "closed"
  BY <1>0, ClosedFields
<1>2. ASSUME NEW p, Moves(c, p) PROVE conn'[c].cut = conn[c].cut
  BY <1>0, <1>2 DEF Moves, ConnRecords
<1>3. CheckLimit(c) \/ AddLink(c) => conn'[c].cut = conn[c].cut
  BY <1>1, <1>2 DEF CheckLimit, AddLink
<1>4. LoadManager(c) => conn'[c].cut = conn[c].cut
  BY <1>0 DEF LoadManager, ConnRecords
<1>5. StoreManager(c) => conn'[c].cut = conn[c].cut
  BY <1>0 DEF StoreManager, ConnRecords
<1>6. LoadCounter(c) => conn'[c].cut = conn[c].cut
  BY <1>0 DEF LoadCounter, ConnRecords
<1>7. StoreCounter(c) => conn'[c].cut = conn[c].cut
  BY <1>0 DEF StoreCounter, ConnRecords
<1>8. GetCounter(c) => conn'[c].cut = conn[c].cut
  <2> DEFINE v == cells'[conn[c].tc][conn[c].user]
  <2> SUFFICES ASSUME GetCounter(c) PROVE conn'[c].cut = conn[c].cut
    OBVIOUS
  <2>1. conn' = [conn EXCEPT ![c].storage = v, ![c].pc = AfterCounter(c)]
    BY DEF GetCounter
  <2> HIDE DEF v
  <2> QED  BY <1>0, <2>1 DEF ConnRecords
<1> QED  BY <1>3, <1>4, <1>5, <1>6, <1>7, <1>8

LEMMA ReachKept ==
    ASSUME NEW d \in Conns, Active(d) => InReach(d), conn'[d] = conn[d], UNCHANGED <<manager, change>>,
           late \subseteq late', Active(d)' => linkManagers'[conn[d].user] = linkManagers[conn[d].user],
           d \in links[conn[d].lm] => d \in links'[conn[d].lm]
    PROVE  Active(d)' => InReach(d)'
<1> SUFFICES ASSUME Active(d)' PROVE InReach(d)'
  OBVIOUS
<1>1. Active(d)
  BY DEF Active
<1> QED  BY <1>1 DEF InReach, Linked, ToBeClosed

LEMMA CutConn ==
    ASSUME Typed, Holding, CutInv, NEW c \in Conns, Connection(c) \/ ConcurrentMapWrite(c)
    PROVE  CutInv'
<1>0. conn \in [Conns -> ConnRecords] /\ conn[c] \in ConnRecords /\ TypeOK
  BY DEF Typed
<1>00. None \notin Conns /\ ConnHolds(c) /\ (Active(c) => InReach(c))
       /\ conn[c].kind \in {"Dispatch", "DispatchLink", None}
  BY <1>0, XrayAssumption DEF CutInv, Holding, ConnRecords
<1>1. UNCHANGED <<manager, change>>
  BY DEF Connection, ConcurrentMapWrite
<1>2. ASSUME NEW p, NEW k, NEW u, NEW m, NEW t, NEW x, Steps(c, p, k, u, m, t, x),
             late' = late, linkManagers' = linkManagers,
             \A d \in Conns \ {c} : d \in links[conn[d].lm] => d \in links'[conn[d].lm],
             Active(c)' => InReach(c)'
      PROVE  CutInv'
  <2>1. ASSUME NEW d \in Conns, d # c PROVE Active(d)' => InReach(d)'
    BY <1>1, <1>2, <2>1, ReachKept DEF Steps, CutInv
  <2> QED  BY <1>1, <1>2, <2>1 DEF CutInv
<1>3. ASSUME NEW u \in Users, NEW k \in {"Dispatch", "DispatchLink"}, Connect(c, u, k) PROVE CutInv'
  <2>1. Steps(c, "limit", k, u, None, None, None)
    BY <1>3, ConnSteps
  <2>2. late' = late /\ linkManagers' = linkManagers /\ links' = links /\ u \in manager
    BY <1>3 DEF Connect, histVars, linkVars
  <2>3. InReach(c)'
    BY <1>1, <2>1, <2>2 DEF Steps, InReach, Linked
  <2> QED  BY <1>2, <2>1, <2>2, <2>3
<1>4. ASSUME NEW p, NEW k, NEW u, NEW m, NEW t, NEW x, Steps(c, p, k, u, m, t, x), p = "closed",
             late' = late, linkManagers' = linkManagers,
             \A d \in Conns \ {c} : d \in links[conn[d].lm] => d \in links'[conn[d].lm]
      PROVE  CutInv'
  <2>1. ~Active(c)'
    BY <1>4 DEF Active, Steps
  <2> QED  BY <1>2, <1>4, <2>1
<1>5. CASE CheckLimit(c)
  <2>1. late' = late /\ linkManagers' = linkManagers /\ links' = links /\ conn[c].pc = "limit"
    BY <1>5 DEF CheckLimit, histVars, linkVars
  <2>2. CASE Steps(c, "closed", None, None, None, None, None)
    BY <1>4, <2>1, <2>2
  <2>3. CASE Steps(c, "loadManager", conn[c].kind, conn[c].user, conn[c].lm, conn[c].tc, conn[c].storage)
    <3>1. conn'[c].cut = conn[c].cut
      BY <1>5, <2>1, <2>3, StillCut DEF Steps
    <3>2. Active(c)' => Active(c)
      BY <2>1, <3>1 DEF Active
    <3>3. Active(c)' => InReach(c)'
      BY <1>00, <1>1, <2>1, <2>3, <3>2 DEF Steps, InReach, Linked, ToBeClosed
    <3> QED  BY <1>2, <2>1, <2>3, <3>3
  <2> QED  BY <1>5, <2>2, <2>3, ConnSteps
<1>6. CASE LoadManager(c)
  <2> DEFINE m == linkManagers[conn[c].user]
  <2>1. late' = late /\ linkManagers' = linkManagers /\ links' = links /\ conn[c].pc = "loadManager"
    BY <1>6 DEF LoadManager, histVars, linkVars
  <2>2. Steps(c, IF m = None THEN "storeManager" ELSE AfterManager(c), conn[c].kind, conn[c].user, m,
              conn[c].tc, conn[c].storage)
    BY <1>6, ConnSteps
  <2>3. conn'[c].cut = conn[c].cut
    BY <1>6, <2>1, <2>2, StillCut DEF Steps, AfterManager
  <2>4. Active(c)' => Active(c)
    BY <2>1, <2>3 DEF Active
  <2>5. Active(c)' => InReach(c)'
    BY <1>00, <1>1, <2>1, <2>2, <2>4 DEF Steps, InReach, Linked, ToBeClosed, AfterManager
  <2> HIDE DEF m
  <2> QED  BY <1>2, <2>1, <2>2, <2>5
<1>7. CASE StoreManager(c)
  <2> DEFINE u == conn[c].user
  <2>1. /\ linkManagers' = [linkManagers EXCEPT ![u] = c] /\ links' = links /\ conn[c].pc = "storeManager"
        /\ late' = late \cup {d \in Conns : conn[d].lm # None /\ conn[d].lm = linkManagers[u]}
    BY <1>7 DEF StoreManager
  <2>2. Steps(c, AfterManager(c), conn[c].kind, u, c, conn[c].tc, conn[c].storage)
    BY <1>7, ConnSteps
  <2>3. u \in Users /\ linkManagers \in [Users -> Conns \cup {None}]
    BY <1>0, <1>00, <2>1 DEF ConnHolds, TypeOK
  <2>4. conn'[c].cut = conn[c].cut
    BY <1>7, <2>1, <2>2, StillCut DEF Steps, AfterManager
  <2>5. Active(c)' => Active(c)
    BY <2>1, <2>4 DEF Active
  <2>6. Active(c)' => InReach(c)'
    BY <1>00, <1>1, <2>1, <2>2, <2>3, <2>5 DEF Steps, InReach, Linked, ToBeClosed, AfterManager
  <2>7. ASSUME NEW d \in Conns, d # c PROVE Active(d)' => InReach(d)'
    <3>0. conn'[d] = conn[d] /\ (Active(d) => InReach(d))
      BY <2>2, <2>7 DEF Steps, CutInv
    <3>1. CASE conn[d].user # u
      <4>1. linkManagers'[conn[d].user] = linkManagers[conn[d].user] \/ conn[d].user \notin Users
        BY <2>1, <2>3, <3>1
      <4>2. Active(d)' => conn[d].user \in Users
        BY <3>0 DEF Active, Holding, ConnHolds
      <4> QED  BY <1>1, <2>1, <3>0, <4>1, <4>2, ReachKept
    <3>2. CASE conn[d].user = u
      <4> SUFFICES ASSUME Active(d)' PROVE InReach(d)'
        OBVIOUS
      <4>1. Active(d) /\ d \notin late'
        BY <2>1, <3>0 DEF Active
      <4>2. conn[d].lm = None
        BY <2>1, <3>0, <3>2, <4>1 DEF InReach
      <4> QED  BY <1>1, <2>1, <3>0, <4>1, <4>2 DEF InReach, Linked, ToBeClosed
    <3> QED  BY <3>1, <3>2
  <2> QED  BY <1>1, <2>6, <2>7 DEF CutInv
<1>8. CASE AddLink(c)
  <2>1. /\ late' = late /\ linkManagers' = linkManagers /\ conn[c].pc = "addLink"
        /\ links' = [links EXCEPT ![conn[c].lm] = @ \cup {c}]
    BY <1>8 DEF AddLink, histVars
  <2>2. Steps(c, AfterLink(c), conn[c].kind, conn[c].user, conn[c].lm, conn[c].tc, conn[c].storage)
    BY <1>8, ConnSteps
  <2>3. conn[c].lm \in Conns /\ links \in [Conns -> SUBSET Conns]
    BY <1>0, <1>00, <2>1 DEF ConnHolds, TypeOK
  <2>4. c \in links'[conn[c].lm] /\ \A d \in Conns : d \in links[conn[d].lm] => d \in links'[conn[d].lm]
    BY <2>1, <2>3
  <2>5. conn'[c].cut = conn[c].cut
    BY <1>8, <2>1, <2>2, StillCut DEF Steps, AfterLink
  <2>6. Active(c)' => Active(c)
    BY <2>1, <2>5 DEF Active
  <2>7. Active(c)' => InReach(c)'
    BY <1>00, <1>1, <2>1, <2>2, <2>4, <2>6 DEF Steps, InReach, Linked, ToBeClosed, AfterLink
  <2> QED  BY <1>2, <2>1, <2>2, <2>4, <2>7
<1>9. CASE LoadCounter(c) \/ StoreCounter(c) \/ GetCounter(c)
  <2>1. /\ late' = late /\ linkManagers' = linkManagers /\ links' = links
        /\ conn[c].pc \in {"loadCounter", "storeCounter", "getCounter"}
    BY <1>9 DEF LoadCounter, StoreCounter, GetCounter, histVars, linkVars
  <2>2. PICK p, t, x : /\ Steps(c, p, conn[c].kind, conn[c].user, conn[c].lm, t, x)
                       /\ \/ p \in {"storeCounter", "getCounter"}
                          \/ p = AfterCounter(c) /\ conn[c].pc = "getCounter"
    BY <1>9, ConnSteps DEF GetCounter
  <2>3. conn'[c].cut = conn[c].cut
    BY <1>9, <2>1, <2>2, StillCut DEF Steps, AfterCounter
  <2>4. Active(c)' => Active(c)
    BY <2>1, <2>3 DEF Active
  <2>5. Active(c)' => InReach(c)'
    BY <1>00, <1>1, <2>1, <2>2, <2>4 DEF Steps, InReach, Linked, ToBeClosed, AfterCounter
  <2> QED  BY <1>2, <2>1, <2>2, <2>5
<1>10. CASE CloseLink(c)
  <2>1. /\ late' = late /\ linkManagers' = linkManagers
        /\ links' = [links EXCEPT ![conn[c].lm] = @ \ {c}]
    BY <1>10 DEF CloseLink, histVars
  <2>2. \A d \in Conns \ {c} : d \in links[conn[d].lm] => d \in links'[conn[d].lm]
    BY <1>0, <2>1 DEF TypeOK
  <2> QED  BY <1>4, <1>10, <2>1, <2>2, ConnSteps
<1>11. CASE Transfer(c) \/ ConcurrentMapWrite(c)
  <2>1. UNCHANGED <<conn, late, linkManagers, links>>
    BY <1>11 DEF Transfer, ConcurrentMapWrite, linkVars, histVars
  <2> QED  BY <1>1, <2>1 DEF CutInv, Active, InReach, Linked, ToBeClosed
<1> QED  BY <1>3, <1>5, <1>6, <1>7, <1>8, <1>9, <1>10, <1>11 DEF Connection

LEMMA CutChange == ASSUME Typed, Holding, CutInv, UserChange PROVE CutInv'
<1>0. TypeOK /\ change \in ChangeRecords /\ ChangeHolds /\ None \notin Conns
  BY XrayAssumption DEF Typed, Holding
<1>1. ASSUME NEW c \in Conns, Active(c)
      PROVE  /\ InReach(c) /\ ConnHolds(c)
             /\ change.pc \notin {"counter", "manager", "closeAll"} => conn[c].user \in manager
  BY <1>1 DEF CutInv, Holding, InReach, ToBeClosed
<1>2. ASSUME UNCHANGED <<conn, links, linkManagers, late, manager>>,
             change'.pc \in {"counter", "manager", "closeAll", "delete"} => change'.user \notin manager,
             \A c \in Conns : Active(c) => conn[c].user \in manager \/ ToBeClosed(c)'
      PROVE  CutInv'
  <2>1. ASSUME NEW c \in Conns, Active(c)' PROVE InReach(c)'
    <3>1. Active(c)
      BY <1>2, <2>1 DEF Active
    <3> QED  BY <1>1, <1>2, <3>1 DEF InReach, Linked
  <2> QED  BY <1>2, <2>1 DEF CutInv
<1>3. ASSUME NEW us \in SUBSET setting.users, NEW added \in SUBSET setting.users, AddUsers(us, added)
      PROVE  CutInv'
  <2>1. /\ UNCHANGED <<conn, links, linkManagers, late, change>> /\ manager' = manager \cup added
        /\ change.pc = "free"
    BY <1>3 DEF AddUsers, MayChange, linkVars
  <2>2. ASSUME NEW c \in Conns, Active(c)' PROVE InReach(c)'
    <3>1. Active(c)
      BY <2>1, <2>2 DEF Active
    <3> QED  BY <1>1, <2>1, <3>1 DEF InReach, Linked
  <2> QED  BY <2>1, <2>2 DEF CutInv
<1>4. ASSUME NEW us \in SUBSET Users, DelBegins(us) PROVE CutInv'
  <2>1. UNCHANGED <<conn, links, linkManagers, late, manager>> /\ change.pc = "free"
    BY <1>4 DEF DelBegins, MayChange, linkVars
  <2>2. change'.pc = "loop"
    BY <1>4 DEF DelBegins, NoChange
  <2> QED  BY <1>1, <1>2, <2>1, <2>2
<1>5. ASSUME NEW u \in Users, DelUser(u) PROVE CutInv'
  <2>0. change.pc = "loop" /\ UNCHANGED <<conn, links, linkManagers>>
    BY <1>5 DEF DelUser, linkVars
  <2>1. CASE u \notin manager
    <3>1. UNCHANGED <<manager, late>> /\ change'.pc = "free"
      BY <1>5, <2>1 DEF DelUser, NoChange
    <3> QED  BY <1>1, <1>2, <2>0, <3>1
  <2>2. CASE u \in manager
    <3>1. /\ manager' = manager \ {u}
          /\ change' = [change EXCEPT !.pc = "counter", !.user = u, !.todo = @ \ {u}]
          /\ late' = late \cup {c \in Conns : conn[c].user = u /\ conn[c].pc \notin {"open", "closed"}}
      BY <1>5, <2>2 DEF DelUser
    <3>2. change'.pc = "counter" /\ change'.user = u
      BY <1>0, <3>1 DEF ChangeRecords
    <3>3. ASSUME NEW c \in Conns, Active(c)' PROVE InReach(c)'
      <4>1. Active(c) /\ c \notin late'
        BY <2>0, <3>1, <3>3 DEF Active
      <4>2. conn[c].user = u => conn[c].pc = "open"
        BY <3>1, <4>1 DEF Active
      <4>3. conn[c].user \in manager /\ InReach(c)
        BY <1>1, <2>0, <4>1
      <4>4. conn'[c].user \in manager' \/ ToBeClosed(c)'
        BY <2>0, <3>1, <3>2, <4>2, <4>3 DEF ToBeClosed
      <4> QED  BY <2>0, <4>3, <4>4 DEF InReach, Linked
    <3> QED  BY <3>1, <3>2, <3>3 DEF CutInv
  <2> QED  BY <2>1, <2>2
<1>6. CASE DelCounter
  <2>1. UNCHANGED <<conn, links, linkManagers, late, manager>> /\ change.pc = "counter"
    BY <1>6 DEF DelCounter, linkVars
  <2>2. change'.pc = "manager" /\ change'.user = change.user
    BY <1>0, <1>6 DEF DelCounter, ChangeRecords
  <2>3. \A c \in Conns : Active(c) => conn[c].user \in manager \/ ToBeClosed(c)'
    BY <1>1, <2>1, <2>2 DEF InReach, ToBeClosed
  <2> QED  BY <1>2, <2>1, <2>2, <2>3 DEF CutInv
<1>7. CASE DelManager
  <2> DEFINE m == linkManagers[change.user]
  <2>1. UNCHANGED <<conn, links, linkManagers, late, manager>> /\ change.pc = "manager"
    BY <1>7 DEF DelManager, linkVars
  <2>2. ASSUME NEW c \in Conns, Active(c), conn[c].user \notin manager
        PROVE  conn[c].pc = "open" /\ change.user = conn[c].user /\ conn[c].lm = m /\ m \in Conns
               /\ c \in links[m]
    BY <1>0, <1>1, <2>1, <2>2 DEF InReach, ToBeClosed, ConnHolds, Linked
  <2>3. CASE m = None
    <3>1. change'.pc = "loop"
      BY <1>0, <1>7, <2>3 DEF DelManager, ChangeRecords
    <3>2. \A c \in Conns : Active(c) => conn[c].user \in manager
      BY <1>0, <2>2, <2>3
    <3> QED  BY <1>2, <2>1, <3>1, <3>2
  <2>4. CASE m # None
    <3>1. change' = [change EXCEPT !.pc = "closeAll", !.lm = m, !.left = links[m]]
      BY <1>7, <2>4 DEF DelManager
    <3>2. change'.pc = "closeAll" /\ change'.user = change.user /\ change'.lm = m /\ change'.left = links[m]
      BY <1>0, <3>1 DEF ChangeRecords
    <3>3. \A c \in Conns : Active(c) => conn[c].user \in manager \/ ToBeClosed(c)'
      BY <2>1, <2>2, <3>2 DEF ToBeClosed
    <3> QED  BY <1>2, <2>1, <3>2, <3>3 DEF CutInv
  <2> QED  BY <2>3, <2>4
<1>8. ASSUME NEW w \in Conns, CloseOne(w) PROVE CutInv'
  <2>0. /\ UNCHANGED <<linkManagers, late, manager>> /\ change.pc = "closeAll" /\ change.lm \in Conns
        /\ change' = [change EXCEPT !.left = @ \ {w}]
    BY <1>0, <1>8 DEF CloseOne, ChangeHolds
  <2>1. /\ change'.pc = "closeAll" /\ change'.user = change.user /\ change'.lm = change.lm
        /\ change'.left = change.left \ {w}
    BY <1>0, <2>0 DEF ChangeRecords
  <2>2. CASE w \in links[change.lm]
    <3>1. links' = [links EXCEPT ![change.lm] = @ \ {w}] /\ conn' = [conn EXCEPT ![w].cut = TRUE]
      BY <1>8, <2>2 DEF CloseOne
    <3>2. conn'[w].cut /\ \A d \in Conns \ {w} : conn'[d] = conn[d]
      BY <3>1 DEF Typed, ConnRecords
    <3>3. ASSUME NEW c \in Conns, Active(c)' PROVE InReach(c)'
      <4>1. c # w /\ conn'[c] = conn[c]
        BY <3>2, <3>3 DEF Active
      <4>2. Active(c)
        BY <2>0, <3>3, <4>1 DEF Active
      <4>3. c \in links[conn[c].lm] => c \in links'[conn[c].lm]
        BY <1>0, <3>1, <4>1 DEF TypeOK
      <4> QED  BY <1>1, <2>0, <2>1, <4>1, <4>2, <4>3 DEF InReach, Linked, ToBeClosed
    <3> QED  BY <2>0, <2>1, <3>3 DEF CutInv
  <2>3. CASE w \notin links[change.lm]
    <3>1. UNCHANGED <<links, conn>>
      BY <1>8, <2>3 DEF CloseOne
    <3>2. \A c \in Conns : Active(c) => conn[c].user \in manager \/ ToBeClosed(c)'
      BY <1>1, <2>0, <2>1, <2>3, <3>1 DEF InReach, ToBeClosed, Linked
    <3> QED  BY <1>2, <2>0, <2>1, <3>1, <3>2 DEF CutInv
  <2> QED  BY <2>2, <2>3
<1>9. CASE CloseAllEnds
  <2>1. /\ UNCHANGED <<conn, links, linkManagers, late, manager>> /\ change.pc = "closeAll"
        /\ change.left = {}
    BY <1>9 DEF CloseAllEnds, linkVars
  <2>2. change'.pc = "delete" /\ change'.user = change.user
    BY <1>0, <1>9 DEF CloseAllEnds, ChangeRecords
  <2>3. \A c \in Conns : Active(c) => conn[c].user \in manager
    BY <1>1, <2>1 DEF InReach, ToBeClosed
  <2> QED  BY <1>2, <2>1, <2>2, <2>3 DEF CutInv
<1>10. CASE DelDelete
  <2>1. /\ UNCHANGED <<conn, links, late, manager>> /\ change.pc = "delete"
        /\ linkManagers' = [linkManagers EXCEPT ![change.user] = None]
    BY <1>10 DEF DelDelete
  <2>2. change'.pc = "loop"
    BY <1>0, <1>10 DEF DelDelete, ChangeRecords
  <2>3. ASSUME NEW c \in Conns, Active(c)' PROVE InReach(c)'
    <3>1. Active(c)
      BY <2>1, <2>3 DEF Active
    <3>2. conn[c].user \in manager /\ change.user \notin manager
      BY <1>1, <2>1, <3>1 DEF CutInv
    <3>3. linkManagers'[conn[c].user] = linkManagers[conn[c].user]
      BY <1>0, <2>1, <3>2 DEF TypeOK
    <3> QED  BY <1>1, <2>1, <3>1, <3>2, <3>3 DEF InReach, Linked
  <2> QED  BY <2>2, <2>3 DEF CutInv
<1>11. CASE DelEnds
  <2>1. UNCHANGED <<conn, links, linkManagers, late, manager>> /\ change.pc = "loop"
    BY <1>11 DEF DelEnds, linkVars
  <2>2. change'.pc = "free"
    BY <1>11 DEF DelEnds, NoChange
  <2> QED  BY <1>1, <1>2, <2>1, <2>2
<1> QED  BY <1>3, <1>4, <1>5, <1>6, <1>7, <1>8, <1>9, <1>10, <1>11 DEF UserChange

LEMMA CutStep == Typed /\ Holding /\ CutInv /\ [Next]_vars => CutInv'
<1> SUFFICES ASSUME Typed, Holding, CutInv, [Next]_vars PROVE CutInv'
  OBVIOUS
<1>1. ASSUME UNCHANGED <<conn, links, linkManagers, late, manager, change>> PROVE CutInv'
  BY <1>1 DEF CutInv, Active, InReach, Linked, ToBeClosed
<1>2. ASSUME NEW r, Report(r) PROVE CutInv'
  BY <1>1, <1>2 DEF Report, linkVars
<1>3. UNCHANGED vars => CutInv'
  BY <1>1 DEF vars, linkVars, histVars
<1> QED  BY <1>2, <1>3, CutConn, CutChange DEF Next

\* Once DelUsers is done, no link of a removed user carries bytes, except one that was being
\* opened while DelUsers ran, or whose LinkManager a second first connection replaced.
THEOREM XrayDeletedIsCutOff == Spec => []DeletedIsCutOff
<1>1. CutInv => DeletedIsCutOff
  BY DEF CutInv, DeletedIsCutOff, Active, InReach, ToBeClosed
<1> QED  BY <1>1, TypedInit, HoldingInit, CutInit, TypedStep, CutStep, PTL DEF Spec

-----------------------------------------------------------------------------
(* Sums.  What reports carry of a user is a sum over the reports, and      *)
(* tlapm has no induction over sets: that the recursion of a sum has a     *)
(* solution, and what a change of one summand does to it, is shown for the *)
(* subsets of the set by their cardinality, with the least counterexample. *)

\* Induction over the numbers, by the least one that is missing.
LEMMA NoneOf ==
    ASSUME NEW M, M \subseteq Nat, 0 \notin M, \A n \in Nat : n \notin M => n + 1 \notin M
    PROVE  M = {}
<1> SUFFICES ASSUME M # {} PROVE FALSE
  OBVIOUS
<1>1. PICK n \in M : \A k \in M : ~(<<k, n>> \in OpToRel(<, Nat))
  BY NatLessThanWellFounded, WFMin
<1>2. n \in Nat /\ n # 0 /\ n - 1 \in Nat /\ n - 1 \notin M => FALSE
  <2>1. ASSUME n \in Nat, n - 1 \in Nat, n - 1 \notin M PROVE n - 1 + 1 \notin M
    BY <2>1
  <2> QED BY <2>1
<1>3. n \in Nat /\ n - 1 \in Nat
  OBVIOUS
<1>4. <<n - 1, n>> \in OpToRel(<, Nat)
  BY <1>3 DEF OpToRel
<1> QED BY <1>1, <1>2, <1>3, <1>4

\* The element at which the recursion of a sum takes a set apart.
First(s) == CHOOSE x \in s : TRUE

LEMMA TakeFirst ==
    ASSUME NEW S, IsFiniteSet(S), NEW s \in SUBSET S
    PROVE  /\ Cardinality(s) \in Nat
           /\ Cardinality(s) = 0 => s = {}
           /\ s # {} => /\ First(s) \in s /\ s \ {First(s)} \in SUBSET S
                        /\ Cardinality(s \ {First(s)}) = Cardinality(s) - 1
<1>1. IsFiniteSet(s)
  BY FS_Subset
<1>2. s # {} => First(s) \in s
  BY DEF First
<1> QED  BY <1>1, <1>2, FS_CardinalityType, FS_RemoveElement, FS_EmptySet

\* Induction over the subsets of a finite set.
LEMMA AllSubsets ==
    ASSUME NEW S, IsFiniteSet(S), NEW M, {} \in M,
           \A s \in SUBSET S : s # {} /\ s \ {First(s)} \in M => s \in M
    PROVE  S \in M
<1> DEFINE Missing == {n \in Nat : \E s \in SUBSET S : Cardinality(s) = n /\ s \notin M}
<1>1. 0 \notin Missing
  <2> SUFFICES ASSUME NEW s \in SUBSET S, Cardinality(s) = 0 PROVE s \in M
    OBVIOUS
  <2> QED  BY TakeFirst
<1>2. ASSUME NEW n \in Nat, n \notin Missing PROVE n + 1 \notin Missing
  <2> SUFFICES ASSUME NEW s \in SUBSET S, Cardinality(s) = n + 1 PROVE s \in M
    OBVIOUS
  <2>1. CASE s = {}
    BY <2>1
  <2>2. CASE s # {}
    <3>1. s \ {First(s)} \in SUBSET S /\ Cardinality(s \ {First(s)}) = n + 1 - 1
      BY <2>2, TakeFirst
    <3>2. s \ {First(s)} \in M
      BY <1>2, <3>1
    <3> QED  BY <2>2, <3>2
  <2> QED  BY <2>1, <2>2
<1>3. Missing = {}
  <2>1. Missing \subseteq Nat
    OBVIOUS
  <2> HIDE DEF Missing
  <2> QED  BY <1>1, <1>2, <2>1, NoneOf
<1>4. S \in SUBSET S /\ Cardinality(S) \in Nat
  BY FS_CardinalityType
<1> QED  BY <1>3, <1>4

\* g is the sum of f over every subset of S.
IsSum(g, f, S) ==
    /\ f \in [S -> Nat]
    /\ \A s \in SUBSET S : g[s] = IF s = {} THEN 0 ELSE f[First(s)] + g[s \ {First(s)}]

LEMMA SumExists ==
    ASSUME NEW S, IsFiniteSet(S), NEW f \in [S -> Nat]
    PROVE  \E g \in [SUBSET S -> Nat] : IsSum(g, f, S)
<1> DEFINE Step(g) == [s \in SUBSET S |-> IF s = {} THEN 0 ELSE f[First(s)] + g[s \ {First(s)}]]
           Upto(g, n) == \A s \in SUBSET S : Cardinality(s) < n => g[s] = Step(g)[s]
           Missing == {n \in Nat : \A g \in [SUBSET S -> Nat] : ~Upto(g, n)}
<1>1. ASSUME NEW g \in [SUBSET S -> Nat] PROVE Step(g) \in [SUBSET S -> Nat]
  BY DEF First
<1>2. ASSUME NEW g \in [SUBSET S -> Nat], NEW s \in SUBSET S
      PROVE  Step(g)[s] = IF s = {} THEN 0 ELSE f[First(s)] + g[s \ {First(s)}]
  OBVIOUS
<1> HIDE DEF Step
<1>3. ASSUME NEW n \in Nat, NEW g \in [SUBSET S -> Nat], Upto(g, n)
      PROVE  Upto(Step(g), n + 1)
  <2> SUFFICES ASSUME NEW s \in SUBSET S, Cardinality(s) < n + 1
               PROVE  Step(g)[s] = Step(Step(g))[s]
    OBVIOUS
  <2>1. CASE s = {}
    BY <1>1, <1>2, <2>1
  <2>2. CASE s # {}
    <3>1. s \ {First(s)} \in SUBSET S /\ Cardinality(s \ {First(s)}) < n
      <4>1. /\ Cardinality(s) \in Nat /\ s \ {First(s)} \in SUBSET S
            /\ Cardinality(s \ {First(s)}) = Cardinality(s) - 1
        BY <2>2, TakeFirst
      <4> QED  BY <4>1
    <3>2. g[s \ {First(s)}] = Step(g)[s \ {First(s)}]
      BY <1>3, <3>1
    <3>3. /\ Step(g)[s] = f[First(s)] + g[s \ {First(s)}]
          /\ Step(Step(g))[s] = f[First(s)] + Step(g)[s \ {First(s)}]
      BY <1>1, <1>2, <2>2
    <3> QED  BY <3>2, <3>3
  <2> QED  BY <2>1, <2>2
<1>4. 0 \notin Missing
  <2>1. [s \in SUBSET S |-> 0] \in [SUBSET S -> Nat]
    OBVIOUS
  <2>2. \A s \in SUBSET S : ~(Cardinality(s) < 0)
    <3>1. ASSUME NEW s \in SUBSET S PROVE ~(Cardinality(s) < 0)
      <4>1. Cardinality(s) \in Nat
        BY TakeFirst
      <4> QED  BY <4>1
    <3> QED  BY <3>1
  <2>3. Upto([s \in SUBSET S |-> 0], 0)
    BY <2>2, Zenon
  <2> QED  BY <2>1, <2>3
<1>5. ASSUME NEW n \in Nat, n \notin Missing PROVE n + 1 \notin Missing
  <2>1. PICK g \in [SUBSET S -> Nat] : Upto(g, n)
    BY <1>5
  <2>2. Step(g) \in [SUBSET S -> Nat] /\ Upto(Step(g), n + 1)
    BY <1>1, <1>3, <2>1
  <2> HIDE DEF Upto
  <2> QED  BY <2>2
<1>6. Missing = {}
  <2>1. Missing \subseteq Nat
    OBVIOUS
  <2> HIDE DEF Missing
  <2> QED BY <1>4, <1>5, <2>1, NoneOf
<1>7. PICK g \in [SUBSET S -> Nat] : Upto(g, Cardinality(S) + 1)
  <2>1. Cardinality(S) + 1 \in Nat
    <3>1. Cardinality(S) \in Nat
      BY FS_CardinalityType
    <3> QED  BY <3>1
  <2> HIDE DEF Upto
  <2> QED  BY <1>6, <2>1
<1>8. ASSUME NEW s \in SUBSET S PROVE g[s] = IF s = {} THEN 0 ELSE f[First(s)] + g[s \ {First(s)}]
  <2>1. Cardinality(s) < Cardinality(S) + 1
    BY FS_Subset, FS_CardinalityType
  <2>2. g[s] = Step(g)[s]
    BY <1>7, <2>1
  <2> QED  BY <1>2, <2>2
<1> QED  BY <1>8 DEF IsSum

\* Two sums of functions that differ at one place at most.
LEMMA SumChange ==
    ASSUME NEW S, IsFiniteSet(S), NEW f, NEW e, NEW g, NEW h, IsSum(g, f, S), IsSum(h, e, S),
           NEW t \in S, \A x \in S \ {t} : e[x] = f[x]
    PROVE  g[S] \in Nat /\ h[S] \in Nat /\ h[S] + f[t] = g[S] + e[t]
<1> DEFINE F(s) == IF t \in s THEN f[t] ELSE 0
           E(s) == IF t \in s THEN e[t] ELSE 0
           Right(s) == g[s] \in Nat /\ h[s] \in Nat /\ h[s] + F(s) = g[s] + E(s)
           M == {s \in SUBSET S : Right(s)}
<1>0. f \in [S -> Nat] /\ e \in [S -> Nat]
  BY DEF IsSum
<1>1. \A s \in SUBSET S : F(s) \in Nat /\ E(s) \in Nat
  BY <1>0
<1>2. Right({})
  <2>1. g[{}] = 0 /\ h[{}] = 0
    BY DEF IsSum
  <2> QED  BY <2>1
<1>3. ASSUME NEW s \in SUBSET S, s # {}, NEW r \in SUBSET S, r = s \ {First(s)}, Right(r)
      PROVE  Right(s)
  <2>1. h[s] = e[First(s)] + h[r] /\ g[s] = f[First(s)] + g[r]
    BY <1>3 DEF IsSum
  <2>2. First(s) \in s /\ First(s) \in S
    BY <1>3 DEF First
  <2>3. CASE First(s) = t
    <3>1. F(s) = f[t] /\ E(s) = e[t] /\ F(r) = 0 /\ E(r) = 0
      BY <1>3, <2>2, <2>3
    <3> HIDE DEF E, F
    <3> QED  BY <1>1, <1>3, <2>1, <2>3, <3>1
  <2>4. CASE First(s) # t
    <3>1. F(s) = F(r) /\ E(s) = E(r) /\ e[First(s)] = f[First(s)] /\ f[First(s)] \in Nat
      BY <1>0, <1>3, <2>2, <2>4
    <3> HIDE DEF E, F
    <3> QED  BY <1>1, <1>3, <2>1, <2>4, <3>1
  <2> QED  BY <2>3, <2>4
<1> HIDE DEF Right
<1>4. {} \in M /\ \A s \in SUBSET S : s # {} /\ s \ {First(s)} \in M => s \in M
  BY <1>2, <1>3
<1>5. Right(S)
  <2> HIDE DEF M
  <2>1. S \in M
    BY <1>4, AllSubsets, Zenon
  <2> QED  BY <2>1 DEF M
<1> QED  BY <1>5 DEF Right

LEMMA SumZero ==
    ASSUME NEW S, IsFiniteSet(S), NEW f, NEW g, IsSum(g, f, S), \A x \in S : f[x] = 0
    PROVE  g[S] = 0
<1> DEFINE M == {s \in SUBSET S : g[s] = 0}
<1>1. {} \in M
  BY DEF IsSum
<1>2. ASSUME NEW s \in SUBSET S, s # {}, s \ {First(s)} \in M PROVE s \in M
  <2>1. g[s] = f[First(s)] + g[s \ {First(s)}] /\ First(s) \in S
    BY <1>2 DEF IsSum, First
  <2> QED  BY <1>2, <2>1
<1>3. S \in M
  <2> HIDE DEF M
  <2> QED  BY <1>1, <1>2, AllSubsets, Zenon
<1> QED  BY <1>3

\* What a report carries of a user.
CarriedOf(x, u) == x.slice[u] + (IF x.pc = "uid" /\ x.user = u THEN x.seen ELSE 0)

CarriedBy(rep, u) == MapThenSumSet(LAMBDA r : CarriedOf(rep[r], u), Reporters)

LEMMA CarriedIsCarriedBy == ASSUME NEW u PROVE Carried(u) = CarriedBy(report, u)
BY Zenon DEF Carried, CarriedBy, CarriedOf

\* What the operator of the model is.
LEMMA CarriedIs ==
    ASSUME NEW rep \in [Reporters -> ReportRecords], NEW u \in Users,
           NEW f, f = [r \in Reporters |-> CarriedOf(rep[r], u)]
    PROVE  f \in [Reporters -> Nat] /\ \E g : IsSum(g, f, Reporters) /\ CarriedBy(rep, u) = g[Reporters]
<1>1. f \in [Reporters -> Nat]
  <2>1. \A x \in ReportRecords : CarriedOf(x, u) \in Nat
    BY DEF CarriedOf, ReportRecords
  <2> QED  BY <2>1
<1>2. PICK k \in [SUBSET Reporters -> Nat] : IsSum(k, f, Reporters)
  BY <1>1, SumExists, XrayAssumption
<1> DEFINE Step(h) == [s \in SUBSET Reporters |->
                          IF s = {} THEN 0
                          ELSE CarriedOf(rep[CHOOSE x \in s : TRUE], u) + h[s \ {CHOOSE x \in s : TRUE}]]
<1>3. k = Step(k)
  <2>1. \A s \in SUBSET Reporters :
            k[s] = IF s = {} THEN 0
                   ELSE CarriedOf(rep[CHOOSE x \in s : TRUE], u) + k[s \ {CHOOSE x \in s : TRUE}]
    <3> SUFFICES ASSUME NEW s \in SUBSET Reporters, s # {}
                 PROVE  k[s] = CarriedOf(rep[First(s)], u) + k[s \ {First(s)}]
      BY <1>2 DEF IsSum, First
    <3>1. First(s) \in Reporters
      BY DEF First
    <3> QED  BY <1>2, <3>1 DEF IsSum
  <2> QED  BY <2>1
<1>4. PICK g : g = (CHOOSE h : h = Step(h)) /\ CarriedBy(rep, u) = g[Reporters]
  BY Zenon DEF CarriedBy, MapThenSumSet, MapThenFoldSet
<1>5. g = Step(g)
  <2> HIDE DEF Step
  <2> QED  BY <1>3, <1>4, Zenon
<1>6. IsSum(g, f, Reporters)
  <2> SUFFICES ASSUME NEW s \in SUBSET Reporters
               PROVE  g[s] = IF s = {} THEN 0 ELSE f[First(s)] + g[s \ {First(s)}]
    BY <1>1 DEF IsSum
  <2>1. g[s] = Step(g)[s]
    BY <1>5, Zenon
  <2>2. s # {} => First(s) \in Reporters
    BY DEF First
  <2> QED  BY <2>1, <2>2 DEF First
<1> QED  BY <1>1, <1>4, <1>6

\* Reports that carry nothing.
LEMMA CarriedZero ==
    ASSUME NEW rep \in [Reporters -> ReportRecords], NEW u \in Users,
           \A r \in Reporters : CarriedOf(rep[r], u) = 0
    PROVE  CarriedBy(rep, u) = 0
<1>1. PICK f : f = [r \in Reporters |-> CarriedOf(rep[r], u)]
  OBVIOUS
<1>2. PICK g : IsSum(g, f, Reporters) /\ CarriedBy(rep, u) = g[Reporters]
  BY <1>1, CarriedIs
<1>3. \A r \in Reporters : f[r] = 0
  BY <1>1
<1> QED  BY <1>2, <1>3, SumZero, XrayAssumption

\* One report changes what it carries.
LEMMA CarriedChange ==
    ASSUME NEW rep \in [Reporters -> ReportRecords], NEW next \in [Reporters -> ReportRecords],
           NEW u \in Users, NEW r \in Reporters, \A q \in Reporters \ {r} : next[q] = rep[q]
    PROVE  /\ CarriedBy(rep, u) \in Nat /\ CarriedBy(next, u) \in Nat
           /\ CarriedOf(rep[r], u) \in Nat /\ CarriedOf(next[r], u) \in Nat
           /\ CarriedBy(next, u) + CarriedOf(rep[r], u) = CarriedBy(rep, u) + CarriedOf(next[r], u)
<1>1. PICK f : f = [q \in Reporters |-> CarriedOf(rep[q], u)]
  OBVIOUS
<1>2. PICK e : e = [q \in Reporters |-> CarriedOf(next[q], u)]
  OBVIOUS
<1>3. PICK g : f \in [Reporters -> Nat] /\ IsSum(g, f, Reporters) /\ CarriedBy(rep, u) = g[Reporters]
  BY <1>1, CarriedIs
<1>4. PICK h : e \in [Reporters -> Nat] /\ IsSum(h, e, Reporters) /\ CarriedBy(next, u) = h[Reporters]
  BY <1>2, CarriedIs
<1>5. /\ f[r] = CarriedOf(rep[r], u) /\ e[r] = CarriedOf(next[r], u)
      /\ \A q \in Reporters \ {r} : e[q] = f[q]
  BY <1>1, <1>2
<1>6. g[Reporters] \in Nat /\ h[Reporters] \in Nat /\ h[Reporters] + f[r] = g[Reporters] + e[r]
  <2>1. IsFiniteSet(Reporters)
    BY XrayAssumption
  <2> QED  BY <1>3, <1>4, <1>5, <2>1, SumChange
<1>7. f[r] \in Nat /\ e[r] \in Nat
  BY <1>3, <1>4
<1> QED  BY <1>3, <1>4, <1>5, <1>6, <1>7

LEMMA CarriedNat ==
    ASSUME NEW rep \in [Reporters -> ReportRecords], NEW u \in Users
    PROVE  CarriedBy(rep, u) \in Nat
<1>1. CASE Reporters = {}
  <2>1. CarriedBy(rep, u) = 0
    BY <1>1, CarriedZero
  <2> QED  BY <2>1
<1>2. ASSUME NEW r \in Reporters PROVE CarriedBy(rep, u) \in Nat
  BY CarriedChange
<1> QED  BY <1>1, <1>2

-----------------------------------------------------------------------------
(* Every byte.  While no two reports have read the counters at once, what  *)
(* a user that has no excuse has sent was charged, is carried by a report  *)
(* or waits in the user's counter.  For a step to keep that, a connection  *)
(* of such a user must add to the storage that the next report will find,  *)
(* a report must have loaded the bytes it takes off, and the slice must    *)
(* have room for a user that is about to join it.                          *)

\* The steps of a connection before it has a table of counters.
BeforeTable(c) == BeforeCounter(c) /\ conn[c].pc # "getCounter"

ConnTable(c) ==
    /\ conn[c].storage # None => conn[c].tc # None /\ conn[c].user # None
    /\ conn[c].user \notin excused /\ conn[c].tc # None => conn[c].tc = counter
    /\ conn[c].user \notin excused /\ conn[c].storage # None =>
           cells[counter][conn[c].user] = conn[c].storage
    /\ BeforeTable(c) => /\ counter # c /\ \A d \in Conns : conn[d].tc # c
                         /\ \A u \in Users : cells[c][u] = None

UserCells(u) ==
    /\ \A t, x \in Conns : cells[t][u] # None /\ cells[t][u] = cells[x][u] => t = x
    /\ u \notin excused =>
           \A t \in Conns : t # counter /\ cells[t][u] # None => count[cells[t][u]] = 0

TableInv == (\A c \in Conns : ConnTable(c)) /\ \A u \in Users : UserCells(u)

\* A user without a uid has lost its counter too, or is about to.
Known(u) == u \in uidMap \cup excused \/ (change.pc = "counter" /\ change.user = u)

KnownInv ==
    /\ manager \subseteq uidMap
    /\ \A c \in Conns : conn[c].user # None => Known(conn[c].user)
    /\ \A t \in Conns, u \in Users : cells[t][u] # None => Known(u)
    /\ \A r \in Reporters : /\ report[r].pc \in {"zero", "uid"} => Known(report[r].user)
                            /\ Reading(r) => change.pc = "free"

SliceOf(r) ==
    /\ report[r].pc = "free" => \A u \in Users : report[r].slice[u] = 0
    /\ Reading(r) => \A u \in report[r].todo : report[r].slice[u] = 0
    /\ report[r].pc \in {"zero", "uid"} =>
           report[r].user \notin report[r].todo /\ report[r].slice[report[r].user] = 0

SliceInv == \A r \in Reporters : SliceOf(r)

\* What a report has loaded is what the user's counter still holds.
Faithful(r) ==
    report[r].pc = "zero" /\ report[r].user \notin excused =>
        /\ counter # None /\ report[r].storage = cells[counter][report[r].user]
        /\ report[r].seen = count[report[r].storage] /\ report[r].seen > 0

Balanced(u) == sent[u] = charged[u] + CarriedBy(report, u) + Pending(u)

Exact == /\ \A r \in Reporters : Faithful(r)
         /\ \A u \in Users \ excused : Balanced(u)

ByteInv == TableInv /\ KnownInv /\ SliceInv /\ (~overlapped => Exact)

LEMMA ByteInit == Init => ByteInv
<1> SUFFICES ASSUME Init PROVE TableInv /\ KnownInv /\ SliceInv /\ Exact
  BY DEF ByteInv
<1>0. None \notin Conns /\ None \notin Users /\ Typed
  BY XrayAssumption, TypedInit
<1>1. TableInv
  BY <1>0 DEF Init, TableInv, ConnTable, UserCells, NoConn
<1>2. KnownInv
  BY <1>0 DEF Init, KnownInv, NoConn, NoReport, Reading
<1>3. SliceInv
  BY DEF Init, SliceInv, SliceOf, NoReport, Reading
<1>4. \A r \in Reporters : Faithful(r)
  BY DEF Init, Faithful, NoReport
<1>5. ASSUME NEW u \in Users PROVE Balanced(u)
  <2>1. \A r \in Reporters : CarriedOf(report[r], u) = 0
    BY DEF Init, NoReport, CarriedOf
  <2>2. CarriedBy(report, u) = 0
    BY <1>0, <2>1, CarriedZero DEF Typed
  <2>3. sent[u] = 0 /\ charged[u] = 0 /\ Pending(u) = 0
    BY DEF Init, Pending
  <2> QED  BY <2>2, <2>3 DEF Balanced
<1> QED  BY <1>1, <1>2, <1>3, <1>4, <1>5 DEF Exact

\* The steps of a report: the users it has yet to visit, and what it takes of one.
LEMMA ReportVisits ==
    ASSUME Typed, Holding, NEW r \in Reporters
    PROVE  /\ \A u \in Users : LoadTraffic(r, u) =>
                /\ report'[r].todo = report[r].todo \ {u} /\ u \in report[r].todo
                /\ report'[r].pc = "zero" => report'[r].seen > 0
           /\ ResetTraffic(r) => report'[r].todo = report[r].todo
           /\ AppendTraffic(r) =>
                /\ report'[r].todo = report[r].todo
                /\ report[r].user \in uidMap =>
                     report'[r].slice = [report[r].slice EXCEPT ![report[r].user] = report[r].seen]
                /\ report[r].user \notin uidMap => report'[r].slice = report[r].slice
<1>0. report \in [Reporters -> ReportRecords] /\ report[r] \in ReportRecords /\ ReportHolds(r)
  BY DEF Typed, Holding
<1>1. ASSUME NEW u \in Users, LoadTraffic(r, u)
      PROVE  /\ report'[r].todo = report[r].todo \ {u} /\ u \in report[r].todo
             /\ report'[r].pc = "zero" => report'[r].seen > 0
  <2> DEFINE s == cells[report[r].tc][u]
             y == [report[r] EXCEPT !.todo = @ \ {u}]
             z == [y EXCEPT !.user = u, !.storage = s, !.seen = count[s], !.pc = "zero"]
  <2>1. report' = [report EXCEPT ![r] = IF s # None /\ count[s] > setting.min THEN z ELSE y]
    BY <1>1 DEF LoadTraffic
  <2>2. report[r].pc = "range" /\ report[r].tc \in Conns /\ u \in report[r].todo
    BY <1>0, <1>1 DEF LoadTraffic, ReportHolds, Reading
  <2>3. s \in Conns \cup {None} /\ count \in [Conns -> Nat] /\ setting.min \in Nat
    BY <2>2, XrayAssumption DEF Typed, TypeOK, Setting
  <2>4. y.todo = report[r].todo \ {u} /\ y.pc = "range" /\ y \in ReportRecords
    BY <1>0, <2>2 DEF ReportRecords
  <2>5. z.todo = y.todo /\ z.seen = count[s]
    <3> HIDE DEF y, s
    <3> QED  BY <2>4 DEF ReportRecords
  <2>6. CASE s # None /\ count[s] > setting.min
    <3>1. report'[r] = z
      BY <1>0, <2>1, <2>6
    <3>2. count[s] > 0
      <4> HIDE DEF s
      <4> QED  BY <2>3, <2>6
    <3> HIDE DEF z, s, y
    <3> QED  BY <2>2, <2>4, <2>5, <3>1, <3>2
  <2>7. CASE ~(s # None /\ count[s] > setting.min)
    <3>1. report'[r] = y
      BY <1>0, <2>1, <2>7
    <3> HIDE DEF y
    <3> QED  BY <2>2, <2>4, <3>1
  <2> QED  BY <2>6, <2>7
<1>2. ResetTraffic(r) => report'[r].todo = report[r].todo
  BY <1>0 DEF ResetTraffic, ReportRecords
<1>3. ASSUME AppendTraffic(r)
      PROVE  /\ report'[r].todo = report[r].todo
             /\ report[r].user \in uidMap =>
                  report'[r].slice = [report[r].slice EXCEPT ![report[r].user] = report[r].seen]
             /\ report[r].user \notin uidMap => report'[r].slice = report[r].slice
  <2> DEFINE next == [report[r] EXCEPT !.pc = "range", !.user = None, !.seen = 0]
             more == [next EXCEPT !.slice[report[r].user] = report[r].seen]
  <2>1. /\ report[r].user \in uidMap => report' = [report EXCEPT ![r] = more]
        /\ report[r].user \notin uidMap => report' = [report EXCEPT ![r] = next]
    BY <1>3 DEF AppendTraffic
  <2>2. next.todo = report[r].todo /\ next.slice = report[r].slice /\ next \in ReportRecords
    BY <1>0 DEF ReportRecords
  <2>3. more.todo = next.todo /\ more.slice = [next.slice EXCEPT ![report[r].user] = report[r].seen]
    <3> HIDE DEF next
    <3> QED  BY <2>2 DEF ReportRecords
  <2>4. /\ report[r].user \in uidMap => report'[r] = more
        /\ report[r].user \notin uidMap => report'[r] = next
    <3> HIDE DEF next, more
    <3> QED  BY <1>0, <2>1
  <2> HIDE DEF next, more
  <2> QED  BY <2>2, <2>3, <2>4
<1> QED  BY <1>1, <1>2, <1>3

LEMMA SliceReport ==
    ASSUME Typed, Typed', Holding, SliceInv, NEW r \in Reporters, Report(r)
    PROVE  SliceInv'
<1>1. \A q \in Reporters \ {r} : SliceOf(q)'
  BY ReportOthers DEF SliceInv, SliceOf, Reading
<1>2. /\ report[r] \in ReportRecords /\ report'[r] \in ReportRecords /\ ReportHolds(r) /\ SliceOf(r)
  BY DEF Typed, Holding, SliceInv
<1>3. ReportBegins(r) => SliceOf(r)'
  <2> SUFFICES ASSUME ReportBegins(r) PROVE SliceOf(r)'
    OBVIOUS
  <2>1. report'[r].pc = "range" /\ report'[r].slice = [u \in Users |-> 0]
    BY ReportSteps
  <2> QED  BY <1>2, <2>1 DEF SliceOf, ReportRecords
<1>4. ASSUME NEW u \in Users, LoadTraffic(r, u) PROVE SliceOf(r)'
  <2>1. report[r].pc = "range"
    BY <1>4 DEF LoadTraffic
  <2>2. /\ report'[r].todo = report[r].todo \ {u} /\ u \in report[r].todo
        /\ report'[r].slice = report[r].slice
        /\ report'[r].pc = "range" \/ (report'[r].pc = "zero" /\ report'[r].user = u)
    BY <1>4, ReportSteps, ReportVisits
  <2> QED  BY <1>2, <2>1, <2>2 DEF SliceOf, Reading
<1>5. ResetTraffic(r) => SliceOf(r)'
  <2> SUFFICES ASSUME ResetTraffic(r) PROVE SliceOf(r)'
    OBVIOUS
  <2>1. report[r].pc = "zero" /\ report'[r].pc = "uid" /\ report'[r].slice = report[r].slice
        /\ report'[r].user = report[r].user /\ report'[r].todo = report[r].todo
    BY ReportSteps, ReportVisits DEF ResetTraffic
  <2> QED  BY <1>2, <2>1 DEF SliceOf, Reading
<1>6. AppendTraffic(r) => SliceOf(r)'
  <2> SUFFICES ASSUME AppendTraffic(r) PROVE SliceOf(r)'
    OBVIOUS
  <2>1. /\ report[r].pc = "uid" /\ report'[r].pc = "range" /\ report'[r].todo = report[r].todo
        /\ \/ report'[r].slice = report[r].slice
           \/ report'[r].slice = [report[r].slice EXCEPT ![report[r].user] = report[r].seen]
    BY ReportSteps, ReportVisits DEF AppendTraffic
  <2>2. report[r].slice \in [Users -> Nat] /\ report[r].todo \subseteq Users
    BY <1>2 DEF ReportRecords
  <2> QED  BY <1>2, <2>1, <2>2 DEF SliceOf, Reading
<1>7. ReportEnds(r) \/ ReportUserTraffic(r) => SliceOf(r)'
  BY ReportSteps DEF SliceOf, Reading
<1> QED  BY <1>1, <1>3, <1>4, <1>5, <1>6, <1>7 DEF Report, SliceInv

LEMMA SliceStep == Typed /\ Typed' /\ Holding /\ SliceInv /\ [Next]_vars => SliceInv'
<1>1. report' = report /\ SliceInv => SliceInv'
  BY DEF SliceInv, SliceOf, Reading
<1>2. (\E c \in Conns : Connection(c) \/ ConcurrentMapWrite(c)) \/ UserChange \/ UNCHANGED vars
          => report' = report
  BY DEF Connection, ConcurrentMapWrite, UserChange, vars
<1>3. Typed => setting.reporters \subseteq Reporters
  BY XrayAssumption DEF Typed, Setting
<1> QED  BY <1>1, <1>2, <1>3, SliceReport DEF Next

\* AddUsers and DelUsers hold the lock that a report reads under.
LEMMA NoneReads == ASSUME KnownInv, UserChange PROVE \A r \in Reporters : ~Reading(r)
BY DEF KnownInv, UserChange, AddUsers, DelBegins, MayChange, DelUser, DelCounter, DelManager, CloseOne,
       CloseAllEnds, DelDelete, DelEnds

\* What the steps of a connection leave alone.
LEMMA ConnUnchanged ==
    ASSUME NEW c \in Conns, Connection(c) \/ ConcurrentMapWrite(c)
    PROVE  /\ UNCHANGED <<manager, uidMap, change, report, charged, overlapped>>
           /\ excused \subseteq excused'
           /\ ~GetCounter(c) => cells' = cells
           /\ ~StoreCounter(c) => counter' = counter
           /\ ~Transfer(c) => count' = count /\ sent' = sent
           /\ ~Transfer(c) /\ ~StoreCounter(c) => excused' = excused
BY DEF Connection, ConcurrentMapWrite, Connect, CheckLimit, LoadManager, StoreManager, AddLink, LoadCounter,
       StoreCounter, GetCounter, Transfer, CloseLink, countVars, histVars

\* The new storage of a connection, and the cell it is in.
LEMMA GetsStorage ==
    ASSUME Typed, Holding, NEW c \in Conns, GetCounter(c)
    PROVE  LET t == conn[c].tc
               u == conn[c].user
           IN
           /\ t \in Conns /\ u \in Users /\ BeforeCounter(c) /\ ~BeforeTable(c)
           /\ Steps(c, AfterCounter(c), conn[c].kind, u, conn[c].lm, t, cells'[t][u])
           /\ cells'[t][u] = IF cells[t][u] = None THEN c ELSE cells[t][u]
           /\ \A x \in Conns, v \in Users : x # t \/ v # u => cells'[x][v] = cells[x][v]
<1> DEFINE t == conn[c].tc
           u == conn[c].user
<1>1. conn[c].pc = "getCounter" /\ t \in Conns /\ u \in Users
  BY DEF GetCounter, Holding, ConnHolds
<1>2. cells \in [Conns -> [Users -> Conns \cup {None}]]
  BY DEF Typed, TypeOK
<1>3. cells' = [cells EXCEPT ![t][u] = IF @ = None THEN c ELSE @]
  BY DEF GetCounter
<1>4. /\ cells'[t][u] = IF cells[t][u] = None THEN c ELSE cells[t][u]
      /\ \A x \in Conns, v \in Users : x # t \/ v # u => cells'[x][v] = cells[x][v]
  <2> HIDE DEF t, u
  <2> QED  BY <1>1, <1>2, <1>3
<1>5. BeforeCounter(c) /\ ~BeforeTable(c)
  BY <1>1 DEF BeforeCounter, BeforeTable
<1> QED  BY <1>1, <1>4, <1>5, ConnSteps

LEMMA KnownStays ==
    ASSUME uidMap \subseteq uidMap', excused \subseteq excused',
           change.pc = "counter" => change' = change \/ change.user \in excused',
           NEW u, Known(u)
    PROVE  Known(u)'
BY DEF Known

LEMMA KnownConn ==
    ASSUME Typed, Holding, KnownInv, NEW c \in Conns, Connection(c) \/ ConcurrentMapWrite(c)
    PROVE  KnownInv'
<1>0. None \notin Users /\ None \notin Conns
  BY XrayAssumption
<1>1. UNCHANGED <<manager, uidMap, change, report>> /\ excused \subseteq excused'
      /\ (~GetCounter(c) => cells' = cells)
  BY ConnUnchanged
<1>2. \A u : Known(u) => Known(u)'
  BY <1>1, KnownStays
<1>3. /\ manager' \subseteq uidMap'
      /\ \A r \in Reporters : /\ report'[r].pc \in {"zero", "uid"} => Known(report[r].user)'
                              /\ Reading(r)' => change'.pc = "free"
  BY <1>1, <1>2 DEF KnownInv, Reading, Known
<1>4. ASSUME NEW t \in Conns, NEW u \in Users, cells'[t][u] # None PROVE Known(u)'
  <2>1. CASE GetCounter(c)
    <3>1. conn[c].user \in Users /\ (u # conn[c].user => cells'[t][u] = cells[t][u])
      BY <2>1, GetsStorage
    <3> QED  BY <1>0, <1>2, <1>4, <3>1 DEF KnownInv
  <2>2. CASE ~GetCounter(c)
    BY <1>1, <1>2, <1>4, <2>2 DEF KnownInv
  <2> QED  BY <2>1, <2>2
<1>5. ASSUME NEW d \in Conns, conn'[d].user # None PROVE Known(conn[d].user)'
  <2>1. conn'[d].user = conn[d].user \/ conn'[d].user \in manager
    <3>1. ASSUME NEW u \in Users, NEW k \in {"Dispatch", "DispatchLink"}, Connect(c, u, k)
          PROVE  conn'[d] = conn[d] \/ conn'[d].user \in manager
      <4>1. Steps(c, "limit", k, u, None, None, None)
        BY <3>1, ConnSteps
      <4> QED  BY <3>1, <4>1 DEF Steps, Connect
    <3>2. CASE Transfer(c) \/ ConcurrentMapWrite(c)
      BY <3>2 DEF Transfer, ConcurrentMapWrite
    <3>3. CASE CheckLimit(c) \/ LoadManager(c) \/ StoreManager(c) \/ AddLink(c) \/ LoadCounter(c)
               \/ StoreCounter(c) \/ GetCounter(c) \/ CloseLink(c)
      <4>1. conn'[c].user \in {None, conn[c].user} /\ \A e \in Conns \ {c} : conn'[e] = conn[e]
        BY <3>3, ConnSteps DEF Steps
      <4> QED  BY <1>5, <4>1
    <3> QED  BY <3>1, <3>2, <3>3 DEF Connection
  <2> QED  BY <1>2, <1>5, <2>1 DEF KnownInv, Known
<1> QED  BY <1>3, <1>4, <1>5 DEF KnownInv

\* What AddUsers and DelUsers do to the counters, and to whom.
LEMMA ChangeCells ==
    ASSUME Typed, Holding, KnownInv, UserChange
    PROVE  /\ excused \subseteq excused'
           /\ \A t \in Conns, u \in Users :
                cells'[t][u] = cells[t][u] \/ (cells'[t][u] = None /\ u \in excused')
           /\ \A d \in Conns : /\ conn'[d].pc = conn[d].pc /\ conn'[d].kind = conn[d].kind
                               /\ conn'[d].user = conn[d].user /\ conn'[d].tc = conn[d].tc
                               /\ conn'[d].storage = conn[d].storage
           /\ manager' \subseteq uidMap'
           /\ \A u \in Users : Known(u) => Known(u)'
<1>0. /\ change \in ChangeRecords /\ ChangeHolds /\ counter \in Conns \cup {None}
      /\ cells \in [Conns -> [Users -> Conns \cup {None}]] /\ manager \subseteq uidMap
  BY DEF Typed, TypeOK, Holding, KnownInv
<1>1. CASE DelCounter
  <2>1. change.user \in Users /\ excused' = excused \cup {change.user} /\ UNCHANGED <<manager, uidMap, conn>>
    BY <1>0, <1>1 DEF DelCounter, ChangeHolds
  <2>2. ASSUME NEW t \in Conns, NEW u \in Users
        PROVE  cells'[t][u] = cells[t][u] \/ (cells'[t][u] = None /\ u \in excused')
    <3>1. CASE counter = None
      BY <1>1, <3>1 DEF DelCounter
    <3>2. CASE counter \in Conns /\ counter # None
      <4>1. cells' = [cells EXCEPT ![counter][change.user] = None]
        BY <1>1, <3>2 DEF DelCounter
      <4> QED  BY <1>0, <2>1, <3>2, <4>1
    <3> QED  BY <1>0, <3>1, <3>2
  <2> QED  BY <1>0, <2>1, <2>2, KnownStays
<1>2. ASSUME NEW u \in Users, DelUser(u)
      PROVE  /\ UNCHANGED <<conn, cells, excused>> /\ manager' \subseteq uidMap'
             /\ \A v \in Users : Known(v) => Known(v)'
  <2>0. change.pc = "loop" /\ UNCHANGED <<conn, cells, excused>>
    BY <1>2 DEF DelUser
  <2>1. CASE u \in manager
    <3>1. /\ manager' = manager \ {u} /\ uidMap' = uidMap \ {u}
          /\ change' = [change EXCEPT !.pc = "counter", !.user = u, !.todo = @ \ {u}]
      BY <1>2, <2>1 DEF DelUser
    <3>2. change'.pc = "counter" /\ change'.user = u
      BY <1>0, <3>1 DEF ChangeRecords
    <3> QED  BY <1>0, <2>0, <3>1, <3>2 DEF Known
  <2>2. CASE u \notin manager
    BY <1>0, <1>2, <2>0, <2>2 DEF DelUser, Known
  <2> QED  BY <2>0, <2>1, <2>2
<1>3. ASSUME NEW w \in Conns, CloseOne(w)
      PROVE  /\ \A d \in Conns : /\ conn'[d].pc = conn[d].pc /\ conn'[d].kind = conn[d].kind
                                 /\ conn'[d].user = conn[d].user /\ conn'[d].tc = conn[d].tc
                                 /\ conn'[d].storage = conn[d].storage
             /\ UNCHANGED <<manager, uidMap, cells, excused>> /\ change.pc = "closeAll"
  <2>1. conn' = conn \/ conn' = [conn EXCEPT ![w].cut = TRUE]
    BY <1>3 DEF CloseOne
  <2> QED  BY <1>3, <2>1, Cut DEF CloseOne
<1>4. ASSUME NEW us \in SUBSET setting.users, NEW added \in SUBSET setting.users, AddUsers(us, added)
      PROVE  /\ UNCHANGED <<conn, cells, excused, change>> /\ uidMap \subseteq uidMap'
             /\ manager' \subseteq uidMap'
  BY <1>0, <1>4 DEF AddUsers
<1>5. (\E us \in SUBSET Users : DelBegins(us)) \/ DelManager \/ CloseAllEnds \/ DelDelete \/ DelEnds
        => UNCHANGED <<manager, uidMap, conn, cells, excused>> /\ change.pc # "counter"
  BY DEF DelBegins, MayChange, DelManager, CloseAllEnds, DelDelete, DelEnds
<1> QED  BY <1>0, <1>1, <1>2, <1>3, <1>4, <1>5, KnownStays DEF UserChange

LEMMA KnownChange == ASSUME Typed, Holding, KnownInv, UserChange PROVE KnownInv'
<1>0. None \notin Conns /\ report' = report /\ \A r \in Reporters : ~Reading(r)
  BY XrayAssumption, NoneReads DEF UserChange
<1>1. /\ \A t \in Conns, u \in Users : cells'[t][u] # None => cells[t][u] # None
      /\ \A d \in Conns : conn'[d].user = conn[d].user
      /\ manager' \subseteq uidMap' /\ \A u \in Users : Known(u) => Known(u)'
  BY ChangeCells
<1>2. \A r \in Reporters : ~Reading(r)' /\ report'[r].pc \notin {"zero", "uid"}
  BY <1>0 DEF Reading
<1>3. ASSUME NEW t \in Conns, NEW u \in Users, cells'[t][u] # None PROVE Known(u)'
  BY <1>1, <1>3 DEF KnownInv
<1>4. ASSUME NEW d \in Conns, conn'[d].user # None PROVE Known(conn[d].user)'
  <2>1. conn[d].user \in Users /\ Known(conn[d].user)
    BY <1>1, <1>4 DEF Typed, ConnRecords, KnownInv
  <2>2. PICK u \in Users : u = conn[d].user
    BY <2>1
  <2> QED  BY <1>1, <2>1, <2>2 DEF Known
<1> QED  BY <1>1, <1>2, <1>3, <1>4 DEF KnownInv

\* What a report does to the counters, and to whom.
LEMMA ReportCells ==
    ASSUME Typed, Holding, KnownInv, NEW r \in Reporters, Report(r)
    PROVE  /\ UNCHANGED <<manager, uidMap, counter, conn, change, sent>> /\ excused \subseteq excused'
           /\ \A t \in Conns, u \in Users :
                cells'[t][u] = cells[t][u] \/ (cells'[t][u] = None /\ u \in excused')
           /\ \A s \in Conns : count'[s] = count[s] \/ count'[s] = 0
           /\ ~ResetTraffic(r) => count' = count
           /\ ~ReportUserTraffic(r) => charged' = charged /\ excused' = excused
<1>0. /\ report[r] \in ReportRecords /\ ReportHolds(r) /\ count \in [Conns -> Nat]
      /\ cells \in [Conns -> [Users -> Conns \cup {None}]]
  BY DEF Typed, TypeOK, Holding
<1>1. UNCHANGED <<manager, uidMap, counter, conn, change, sent>>
  BY DEF Report
<1>2. /\ excused \subseteq excused'
      /\ ~ResetTraffic(r) => count' = count
      /\ ~ReportUserTraffic(r) => charged' = charged /\ excused' = excused
      /\ ~AppendTraffic(r) => cells' = cells
  BY DEF Report, ReportBegins, LoadTraffic, ResetTraffic, AppendTraffic, ReportEnds, ReportUserTraffic
<1>3. ASSUME NEW s \in Conns PROVE count'[s] = count[s] \/ count'[s] = 0
  BY <1>0, <1>2 DEF ResetTraffic
<1>4. ASSUME NEW t \in Conns, NEW u \in Users
      PROVE  cells'[t][u] = cells[t][u] \/ (cells'[t][u] = None /\ u \in excused')
  <2>1. CASE AppendTraffic(r)
    <3>1. report[r].pc = "uid" /\ report[r].tc \in Conns /\ report[r].user \in Users
      BY <1>0, <2>1 DEF AppendTraffic, ReportHolds, Reading
    <3>2. report[r].user \notin uidMap => report[r].user \in excused
      BY <3>1 DEF KnownInv, Known, Reading
    <3>3. \/ cells' = cells
          \/ report[r].user \notin uidMap /\ cells' = [cells EXCEPT ![report[r].tc][report[r].user] = None]
      BY <2>1 DEF AppendTraffic
    <3> QED  BY <1>0, <1>2, <3>1, <3>2, <3>3
  <2> QED  BY <1>2, <2>1
<1> QED  BY <1>1, <1>2, <1>3, <1>4

LEMMA KnownReport ==
    ASSUME Typed, Holding, KnownInv, NEW r \in Reporters, Report(r)
    PROVE  KnownInv'
<1>0. None \notin Conns
  BY XrayAssumption
<1>1. /\ UNCHANGED <<manager, uidMap, conn, change>> /\ excused \subseteq excused'
      /\ \A t \in Conns, u \in Users : cells'[t][u] # None => cells[t][u] # None
  BY ReportCells
<1>2. \A u : Known(u) => Known(u)'
  BY <1>1, KnownStays
<1>3. \A q \in Reporters \ {r} : report'[q] = report[q]
  BY ReportOthers
<1>4. report'[r].pc \in {"zero", "uid"} => Known(report[r].user)'
  <2>1. ASSUME NEW u \in Users, LoadTraffic(r, u), report'[r].pc = "zero" PROVE Known(report[r].user)'
    <3>1. report'[r].user = u /\ cells[report[r].tc][u] \in Conns /\ report[r].tc \in Conns
      BY <2>1, ReportSteps DEF LoadTraffic, Holding, ReportHolds, Reading
    <3>2. Known(u)
      BY <1>0, <3>1 DEF KnownInv
    <3> QED  BY <1>1, <3>1, <3>2 DEF Known
  <2>2. CASE ResetTraffic(r)
    <3>1. report'[r].user = report[r].user /\ report[r].pc = "zero"
      BY <2>2, ReportSteps DEF ResetTraffic
    <3> QED  BY <1>1, <3>1 DEF Known, KnownInv
  <2> QED  BY <2>1, <2>2, ReportSteps DEF Report
<1>5. Reading(r)' => change'.pc = "free"
  <2>1. Reading(r) \/ ReportBegins(r) \/ ReportUserTraffic(r)
    BY DEF Report, LoadTraffic, ResetTraffic, AppendTraffic, ReportEnds, Reading
  <2>2. ReportUserTraffic(r) => ~Reading(r)'
    BY ReportSteps DEF Reading
  <2> QED  BY <1>1, <2>1, <2>2 DEF KnownInv, ReportBegins
<1>6. ASSUME NEW q \in Reporters
      PROVE  /\ report'[q].pc \in {"zero", "uid"} => Known(report[q].user)'
             /\ Reading(q)' => change'.pc = "free"
  BY <1>1, <1>3, <1>4, <1>5 DEF KnownInv, Known, Reading
<1>7. \A c \in Conns : conn'[c].user # None => Known(conn[c].user)'
  BY <1>1 DEF KnownInv, Known
<1> QED  BY <1>1, <1>2, <1>6, <1>7 DEF KnownInv

LEMMA KnownStep == Typed /\ Holding /\ KnownInv /\ [Next]_vars => KnownInv'
<1>1. UNCHANGED vars /\ KnownInv => KnownInv'
  BY DEF vars, countVars, histVars, KnownInv, Known, Reading
<1>2. Typed => setting.reporters \subseteq Reporters
  BY XrayAssumption DEF Typed, Setting
<1> QED  BY <1>1, <1>2, KnownConn, KnownChange, KnownReport DEF Next

\* Steps that store no table and no storage: a cell is emptied only for a user with an excuse,
\* and a connection that takes a table takes the present one.
LEMMA TableStill ==
    ASSUME Typed, Typed', TableInv, counter' = counter, excused \subseteq excused',
           \A t \in Conns, u \in Users :
               cells'[t][u] = cells[t][u] \/ (cells'[t][u] = None /\ u \in excused'),
           \A s \in Conns : count'[s] = count[s] \/ count'[s] = 0,
           \A d \in Conns :
               /\ BeforeTable(d)' => BeforeTable(d)
               /\ \/ conn'[d].storage = None
                  \/ conn'[d].storage = conn[d].storage /\ conn'[d].tc = conn[d].tc
                     /\ conn'[d].user = conn[d].user
               /\ \/ conn'[d].tc \in {None, counter}
                  \/ conn'[d].tc = conn[d].tc /\ conn'[d].user = conn[d].user
    PROVE  TableInv'
<1>0. None \notin Conns /\ None \notin Users
  BY XrayAssumption
<1>1. ASSUME NEW d \in Conns PROVE ConnTable(d)'
  <2>0. ConnTable(d) /\ conn[d] \in ConnRecords
    BY DEF TableInv, Typed
  <2>1. conn'[d].storage # None => conn'[d].tc # None /\ conn'[d].user # None
    BY <2>0 DEF ConnTable
  <2>2. conn'[d].user \notin excused' /\ conn'[d].tc # None => conn'[d].tc = counter'
    BY <2>0 DEF ConnTable
  <2>3. ASSUME conn'[d].user \notin excused', conn'[d].storage # None
        PROVE  cells'[counter'][conn'[d].user] = conn'[d].storage
    <3>1. /\ conn[d].storage # None /\ conn[d].user \notin excused
          /\ conn'[d].storage = conn[d].storage /\ conn'[d].user = conn[d].user
      BY <2>3
    <3>2. /\ conn[d].user \in Users /\ conn[d].tc \in Conns /\ conn[d].tc = counter
          /\ cells[counter][conn[d].user] = conn[d].storage
      BY <2>0, <3>1 DEF ConnTable, ConnRecords
    <3> QED  BY <2>3, <3>1, <3>2
  <2>4. ASSUME BeforeTable(d)'
        PROVE  /\ counter' # d /\ \A e \in Conns : conn'[e].tc # d
               /\ \A u \in Users : cells'[d][u] = None
    BY <1>0, <2>0, <2>4 DEF ConnTable
  <2> QED  BY <2>1, <2>2, <2>3, <2>4 DEF ConnTable
<1>2. ASSUME NEW u \in Users PROVE UserCells(u)'
  <2>0. UserCells(u) /\ cells \in [Conns -> [Users -> Conns \cup {None}]]
    BY DEF TableInv, Typed, TypeOK
  <2>1. \A t, x \in Conns : cells'[t][u] # None /\ cells'[t][u] = cells'[x][u] => t = x
    BY <2>0 DEF UserCells
  <2>2. ASSUME u \notin excused', NEW t \in Conns, t # counter', cells'[t][u] # None
        PROVE  count'[cells'[t][u]] = 0
    <3>1. u \notin excused /\ cells'[t][u] = cells[t][u] /\ cells[t][u] \in Conns
      BY <2>0, <2>2
    <3>2. count[cells[t][u]] = 0
      BY <2>0, <2>2, <3>1 DEF UserCells
    <3> QED  BY <3>1, <3>2
  <2> QED  BY <2>1, <2>2 DEF UserCells
<1> QED  BY <1>1, <1>2 DEF TableInv

\* The steps before the counter, and the end of a link.
LEMMA TableConn ==
    ASSUME Typed, Typed', Holding, TableInv, NEW c \in Conns, Connection(c),
           ~StoreCounter(c), ~GetCounter(c), ~Transfer(c)
    PROVE  TableInv'
<1>1. UNCHANGED <<counter, cells, count, excused>> /\ ConnHolds(c)
  BY ConnUnchanged DEF Holding
<1>2. ASSUME NEW p, NEW k, NEW u, NEW m, NEW t, NEW x, Steps(c, p, k, u, m, t, x),
             BeforeTable(c)' => BeforeTable(c),
             x = None \/ (x = conn[c].storage /\ t = conn[c].tc /\ u = conn[c].user),
             t \in {None, counter} \/ (t = conn[c].tc /\ u = conn[c].user)
      PROVE  TableInv'
  <2>1. ASSUME NEW d \in Conns, d # c
        PROVE  /\ BeforeTable(d)' => BeforeTable(d)
               /\ conn'[d].storage = conn[d].storage /\ conn'[d].tc = conn[d].tc
               /\ conn'[d].user = conn[d].user
    BY <1>2, <2>1 DEF Steps, BeforeTable, BeforeCounter
  <2>2. conn'[c].user = u /\ conn'[c].tc = t /\ conn'[c].storage = x
    BY <1>2 DEF Steps
  <2> QED  BY <1>1, <1>2, <2>1, <2>2, TableStill
<1>3. ASSUME NEW u \in Users, NEW k \in {"Dispatch", "DispatchLink"}, Connect(c, u, k) PROVE TableInv'
  <2>1. Steps(c, "limit", k, u, None, None, None)
    BY <1>3, ConnSteps
  <2>2. BeforeTable(c)
    BY <1>3 DEF Connect, BeforeTable, BeforeCounter
  <2> QED  BY <1>2, <2>1, <2>2
<1>4. CASE CheckLimit(c)
  <2>1. BeforeTable(c)
    BY <1>4 DEF CheckLimit, BeforeTable, BeforeCounter
  <2> QED  BY <1>2, <1>4, <2>1, ConnSteps
<1>5. CASE LoadManager(c) \/ StoreManager(c)
  <2>1. BeforeTable(c)
    BY <1>5 DEF LoadManager, StoreManager, BeforeTable, BeforeCounter
  <2> QED  BY <1>2, <1>5, <2>1, ConnSteps
<1>6. CASE AddLink(c)
  <2>1. Steps(c, AfterLink(c), conn[c].kind, conn[c].user, conn[c].lm, conn[c].tc, conn[c].storage)
    BY <1>6, ConnSteps
  <2>2. BeforeTable(c)' => BeforeTable(c)
    BY <1>6, <2>1 DEF AddLink, Steps, BeforeTable, BeforeCounter, AfterLink
  <2> QED  BY <1>2, <2>1, <2>2
<1>7. CASE LoadCounter(c)
  <2>1. Steps(c, IF counter = None THEN "storeCounter" ELSE "getCounter", conn[c].kind, conn[c].user,
              conn[c].lm, counter, conn[c].storage)
    BY <1>7, ConnSteps
  <2>2. BeforeTable(c) /\ conn[c].storage = None
    BY <1>1, <1>7 DEF LoadCounter, BeforeTable, BeforeCounter, ConnHolds
  <2> QED  BY <1>2, <2>1, <2>2
<1>8. CASE CloseLink(c)
  <2>1. Steps(c, "closed", None, None, None, None, None)
    BY <1>8, ConnSteps
  <2>2. ~BeforeTable(c)'
    BY <2>1 DEF Steps, BeforeTable, BeforeCounter
  <2> QED  BY <1>2, <2>1, <2>2
<1> QED  BY <1>3, <1>4, <1>5, <1>6, <1>7, <1>8 DEF Connection

\* A new table is empty, and whoever used the old one has an excuse.
LEMMA TableStore ==
    ASSUME Typed, Typed', Holding, TableInv, NEW c \in Conns, Connection(c), StoreCounter(c)
    PROVE  TableInv'
<1>0. None \notin Conns /\ None \notin Users
  BY XrayAssumption
<1>1. /\ Steps(c, "getCounter", conn[c].kind, conn[c].user, conn[c].lm, c, conn[c].storage)
      /\ conn[c].storage = None /\ BeforeTable(c) /\ ConnTable(c)
  BY ConnSteps DEF StoreCounter, Holding, ConnHolds, BeforeTable, BeforeCounter, TableInv
<1>2. /\ counter' = c /\ cells' = cells /\ count' = count /\ excused \subseteq excused'
      /\ \A d \in Conns : conn[d].tc # None /\ conn[d].tc = counter => conn[d].user \in excused'
      /\ \A u \in Users : Pending(u) > 0 => u \in excused'
  BY DEF StoreCounter
<1>3. ~BeforeTable(c)' /\ conn'[c].tc = c /\ conn'[c].storage = None
  BY <1>1 DEF Steps, BeforeTable, BeforeCounter
<1>4. ASSUME NEW d \in Conns, d # c PROVE ConnTable(d)'
  <2>1. conn'[d] = conn[d] /\ ConnTable(d) /\ (BeforeTable(d)' => BeforeTable(d))
    BY <1>1, <1>4 DEF Steps, TableInv, BeforeTable, BeforeCounter
  <2>2. conn[d].tc # None => conn[d].user \in excused'
    BY <1>2, <2>1 DEF ConnTable
  <2>3. ASSUME BeforeTable(d)'
        PROVE  /\ counter' # d /\ \A e \in Conns : conn'[e].tc # d
               /\ \A u \in Users : cells'[d][u] = None
    <3>1. \A e \in Conns \ {c} : conn'[e] = conn[e]
      BY <1>1 DEF Steps
    <3> QED  BY <1>2, <1>3, <1>4, <2>1, <2>3, <3>1 DEF ConnTable
  <2> QED  BY <2>1, <2>2, <2>3 DEF ConnTable
<1>5. ConnTable(c)'
  BY <1>2, <1>3 DEF ConnTable
<1>6. ASSUME NEW u \in Users PROVE UserCells(u)'
  <2>0. UserCells(u) /\ cells \in [Conns -> [Users -> Conns \cup {None}]] /\ count \in [Conns -> Nat]
        /\ counter \in Conns \cup {None}
    BY DEF TableInv, Typed, TypeOK
  <2>1. ASSUME u \notin excused', NEW t \in Conns, cells[t][u] # None PROVE count[cells[t][u]] = 0
    <3>1. CASE t # counter
      BY <1>2, <2>0, <2>1, <3>1 DEF UserCells
    <3>2. CASE t = counter
      <4>1. Pending(u) = count[cells[t][u]] /\ cells[t][u] \in Conns
        BY <1>0, <2>0, <2>1, <3>2 DEF Pending
      <4>2. count[cells[t][u]] \in Nat /\ ~(count[cells[t][u]] > 0)
        BY <1>2, <2>0, <2>1, <4>1
      <4> QED  BY <4>2
    <3> QED  BY <3>1, <3>2
  <2> QED  BY <1>2, <2>0, <2>1 DEF UserCells
<1> QED  BY <1>4, <1>5, <1>6 DEF TableInv

\* A new storage is empty, and nobody's before.
LEMMA TableGet ==
    ASSUME Typed, Typed', Holding, OwnInv, TableInv, NEW c \in Conns, Connection(c), GetCounter(c)
    PROVE  TableInv'
<1> DEFINE t == conn[c].tc
           u == conn[c].user
<1>0. /\ None \notin Conns /\ None \notin Users /\ ConnTable(c) /\ BeforeCounter(c) /\ count[c] = 0
      /\ \A v \in Users : ~Owns(v, c)
  BY XrayAssumption, GetsStorage DEF TableInv, OwnInv
<1>1. UNCHANGED <<counter, count, excused>>
  BY DEF GetCounter, histVars
<1>2. /\ t \in Conns /\ u \in Users /\ ~BeforeTable(c)
      /\ Steps(c, AfterCounter(c), conn[c].kind, u, conn[c].lm, t, cells'[t][u])
      /\ cells'[t][u] = IF cells[t][u] = None THEN c ELSE cells[t][u]
      /\ \A x \in Conns, v \in Users : x # t \/ v # u => cells'[x][v] = cells[x][v]
  BY GetsStorage
<1>3. /\ conn'[c].tc = t /\ conn'[c].user = u /\ conn'[c].storage = cells'[t][u] /\ ~BeforeTable(c)'
      /\ \A d \in Conns \ {c} : conn'[d] = conn[d]
  BY <1>2 DEF Steps, BeforeTable, BeforeCounter, AfterCounter
<1>4. ConnTable(c)'
  <2>1. t # None /\ u # None /\ cells'[t][u] # None
    BY <1>0, <1>2
  <2>2. u \notin excused => t = counter
    BY <1>0, <2>1 DEF ConnTable
  <2> HIDE DEF t, u
  <2> QED  BY <1>1, <1>3, <2>1, <2>2 DEF ConnTable
<1>5. ASSUME NEW d \in Conns, d # c PROVE ConnTable(d)'
  <2>1. conn'[d] = conn[d] /\ ConnTable(d) /\ (BeforeTable(d)' => BeforeTable(d)) /\ conn[d] \in ConnRecords
    BY <1>3, <1>5 DEF TableInv, BeforeTable, BeforeCounter, Typed
  <2>2. ASSUME conn[d].user \notin excused, conn[d].storage # None
        PROVE  cells'[counter][conn[d].user] = conn[d].storage
    <3>1. conn[d].user \in Users /\ counter \in Conns /\ cells[counter][conn[d].user] = conn[d].storage
      BY <2>1, <2>2 DEF ConnTable, ConnRecords
    <3> HIDE DEF t, u
    <3> QED  BY <1>2, <2>2, <3>1
  <2>3. ASSUME BeforeTable(d)'
        PROVE  /\ counter' # d /\ \A e \in Conns : conn'[e].tc # d
               /\ \A v \in Users : cells'[d][v] = None
    <3>1. counter # d /\ t # d /\ \A e \in Conns : conn[e].tc # d
      BY <2>1, <2>3 DEF ConnTable
    <3>2. \A v \in Users : cells[d][v] = None
      BY <2>1, <2>3 DEF ConnTable
    <3> HIDE DEF t, u
    <3> QED  BY <1>1, <1>2, <1>3, <3>1, <3>2
  <2> QED  BY <1>1, <2>1, <2>2, <2>3 DEF ConnTable
<1>6. ASSUME NEW v \in Users PROVE UserCells(v)'
  <2>0. UserCells(v) /\ \A x \in Conns : cells[x][v] # c
    BY <1>0 DEF TableInv, Owns
  <2> HIDE DEF t, u
  <2>1. \A x, y \in Conns : cells'[x][v] # None /\ cells'[x][v] = cells'[y][v] => x = y
    BY <1>2, <2>0 DEF UserCells
  <2>2. ASSUME v \notin excused, NEW x \in Conns, x # counter, cells'[x][v] # None
        PROVE  count[cells'[x][v]] = 0
    BY <1>0, <1>2, <2>0, <2>2 DEF UserCells
  <2> QED  BY <1>1, <2>1, <2>2 DEF UserCells
<1> QED  BY <1>4, <1>5, <1>6 DEF TableInv

\* The storage that bytes are added to, and for whom.
LEMMA Transfers ==
    ASSUME Typed, Holding, OwnInv, TableInv, NEW c \in Conns, Connection(c), Transfer(c)
    PROVE  LET x == conn[c].storage
               v == conn[c].user
           IN
           /\ x \in Conns /\ v \in Users
           /\ UNCHANGED <<counter, cells, conn, report, charged>> /\ excused \subseteq excused'
           /\ count'[x] = count[x] + 1 /\ \A s \in Conns \ {x} : count'[s] = count[s]
           /\ sent'[v] = sent[v] + 1 /\ \A u \in Users \ {v} : sent'[u] = sent[u]
           /\ \A u \in Users : Owns(u, x) => u = v
           /\ v \notin excused => counter \in Conns /\ cells[counter][v] = x
           /\ \A r \in Reporters : report[r].pc = "zero" /\ report[r].user = v => v \in excused'
<1> DEFINE x == conn[c].storage
           v == conn[c].user
<1>0. x \in Conns /\ v \in Users /\ count \in [Conns -> Nat] /\ sent \in [Users -> Nat] /\ ConnTable(c)
      /\ None \notin Conns
  BY XrayAssumption DEF Transfer, Holding, ConnHolds, Typed, TypeOK, TableInv
<1>1. count' = [count EXCEPT ![x] = @ + 1] /\ sent' = [sent EXCEPT ![v] = @ + 1]
  BY DEF Transfer
<1>2. UNCHANGED <<counter, cells, conn, report, charged>> /\ excused \subseteq excused'
      /\ \A r \in Reporters : report[r].pc = "zero" /\ report[r].user = v => v \in excused'
  BY DEF Transfer, Connection
<1>3. \A u \in Users : Owns(u, x) => u = v
  <2>1. Owns(v, x)
    BY DEF Owns
  <2> QED  BY <1>0, <2>1 DEF OwnInv
<1>4. v \notin excused => counter \in Conns /\ cells[counter][v] = x
  BY <1>0 DEF ConnTable, Typed, TypeOK
<1> HIDE DEF x, v
<1>5. /\ count'[x] = count[x] + 1 /\ \A s \in Conns \ {x} : count'[s] = count[s]
      /\ sent'[v] = sent[v] + 1 /\ \A u \in Users \ {v} : sent'[u] = sent[u]
  BY <1>0, <1>1
<1> QED  BY <1>0, <1>2, <1>3, <1>4, <1>5 DEF x, v

LEMMA TableTransfer ==
    ASSUME Typed, Typed', Holding, OwnInv, TableInv, NEW c \in Conns, Connection(c), Transfer(c)
    PROVE  TableInv'
<1> DEFINE x == conn[c].storage
           v == conn[c].user
<1>1. /\ x \in Conns /\ v \in Users
      /\ UNCHANGED <<counter, cells, conn>> /\ excused \subseteq excused'
      /\ \A s \in Conns \ {x} : count'[s] = count[s]
      /\ \A u \in Users : Owns(u, x) => u = v
      /\ v \notin excused => counter \in Conns /\ cells[counter][v] = x
  BY Transfers
<1>2. \A d \in Conns : ConnTable(d)'
  BY <1>1 DEF TableInv, ConnTable, BeforeTable, BeforeCounter
<1> HIDE DEF x, v
<1>3. ASSUME NEW u \in Users PROVE UserCells(u)'
  <2>0. UserCells(u) /\ cells \in [Conns -> [Users -> Conns \cup {None}]] /\ None \notin Conns
    BY XrayAssumption DEF TableInv, Typed, TypeOK
  <2>1. ASSUME u \notin excused', NEW t \in Conns, t # counter, cells[t][u] # None
        PROVE  count'[cells[t][u]] = 0
    <3>1. cells[t][u] # x
      <4> SUFFICES ASSUME cells[t][u] = x PROVE FALSE
        OBVIOUS
      <4>1. u = v
        BY <1>1 DEF Owns
      <4> QED  BY <1>1, <2>0, <2>1, <4>1 DEF UserCells
    <3>2. cells[t][u] \in Conns /\ count[cells[t][u]] = 0
      BY <1>1, <2>0, <2>1 DEF UserCells
    <3> QED  BY <1>1, <3>1, <3>2
  <2> QED  BY <1>1, <2>0, <2>1 DEF UserCells
<1> QED  BY <1>2, <1>3 DEF TableInv

LEMMA TableStep == Typed /\ Typed' /\ Holding /\ OwnInv /\ TableInv /\ KnownInv /\ [Next]_vars => TableInv'
<1> SUFFICES ASSUME Typed, Typed', Holding, OwnInv, TableInv, KnownInv, [Next]_vars PROVE TableInv'
  OBVIOUS
<1>1. CASE UNCHANGED vars
  BY <1>1 DEF vars, countVars, histVars, TableInv, ConnTable, UserCells, BeforeTable, BeforeCounter
<1>2. ASSUME NEW c \in Conns, Connection(c) \/ ConcurrentMapWrite(c) PROVE TableInv'
  <2>1. CASE Connection(c)
    BY <2>1, TableConn, TableStore, TableGet, TableTransfer
  <2>2. CASE ConcurrentMapWrite(c)
    <3>1. UNCHANGED <<counter, cells, count, conn, excused>>
      BY <2>2 DEF ConcurrentMapWrite, countVars, histVars
    <3> QED  BY <3>1 DEF TableInv, ConnTable, UserCells, BeforeTable, BeforeCounter
  <2> QED  BY <1>2, <2>1, <2>2
<1>3. CASE UserChange
  <2>1. counter' = counter /\ count' = count
    BY <1>3 DEF UserChange
  <2>2. \A d \in Conns : BeforeTable(d)' => BeforeTable(d)
    BY <1>3, ChangeCells DEF BeforeTable, BeforeCounter
  <2> QED  BY <1>3, <2>1, <2>2, ChangeCells, TableStill
<1>4. ASSUME NEW r \in Reporters, Report(r) PROVE TableInv'
  <2>1. \A d \in Conns : BeforeTable(d)' => BeforeTable(d)
    BY <1>4, ReportCells DEF BeforeTable, BeforeCounter
  <2> QED  BY <1>4, <2>1, ReportCells, TableStill
<1>5. setting.reporters \subseteq Reporters
  BY XrayAssumption DEF Typed, Setting
<1> QED  BY <1>1, <1>2, <1>3, <1>4, <1>5 DEF Next

\* How a balance is kept, with one report changing at most.
LEMMA StaysBalanced ==
    ASSUME Typed, Typed', NEW u \in Users, Balanced(u), NEW r \in Reporters,
           \A q \in Reporters \ {r} : report'[q] = report[q],
           sent'[u] + charged[u] + CarriedOf(report[r], u) + Pending(u)
               = sent[u] + charged'[u] + CarriedOf(report'[r], u) + Pending(u)'
    PROVE  Balanced(u)'
<1>1. report \in [Reporters -> ReportRecords] /\ report' \in [Reporters -> ReportRecords]
  BY DEF Typed
<1>2. /\ CarriedBy(report, u) \in Nat /\ CarriedBy(report', u) \in Nat
      /\ CarriedOf(report[r], u) \in Nat /\ CarriedOf(report'[r], u) \in Nat
      /\ CarriedBy(report', u) + CarriedOf(report[r], u) = CarriedBy(report, u) + CarriedOf(report'[r], u)
  BY <1>1, CarriedChange
<1>3. /\ sent[u] \in Nat /\ sent'[u] \in Nat /\ charged[u] \in Nat /\ charged'[u] \in Nat
      /\ Pending(u) \in Nat /\ Pending(u)' \in Nat
  <2>1. ASSUME Typed PROVE Pending(u) \in Nat
    BY <2>1 DEF Typed, TypeOK, Pending
  <2>2. ASSUME Typed' PROVE Pending(u)' \in Nat
    BY <2>2 DEF Typed, TypeOK, Pending
  <2> QED  BY <2>1, <2>2 DEF Typed, TypeOK
<1>4. sent[u] = charged[u] + CarriedBy(report, u) + Pending(u)
  BY DEF Balanced
<1>5. sent'[u] = charged'[u] + CarriedBy(report', u) + Pending(u)'
  <2>1. \A s, sn, c, cn, k, kn, o, on, p, pn \in Nat :
            s = c + k + p /\ kn + o = k + on /\ sn + c + o + p = s + cn + on + pn => sn = cn + kn + pn
    OBVIOUS
  <2> QED  BY <1>2, <1>3, <1>4, <2>1
<1> QED  BY <1>5 DEF Balanced

LEMMA ExactKept ==
    ASSUME Typed, Typed', Exact, excused \subseteq excused', UNCHANGED <<report, counter, sent, charged>>,
           \A u \in Users \ excused' : Pending(u)' = Pending(u),
           \A r \in Reporters : Faithful(r)'
    PROVE  Exact'
<1>1. ASSUME NEW u \in Users \ excused' PROVE Balanced(u)'
  <2>1. Balanced(u)
    BY DEF Exact
  <2>2. Pending(u)' = Pending(u) /\ sent'[u] = sent[u] /\ charged'[u] = charged[u]
    BY <1>1
  <2> QED  BY <2>1, <2>2 DEF Balanced
<1> QED  BY <1>1 DEF Exact

LEMMA ExactConn ==
    ASSUME Typed, Typed', Holding, OwnInv, TableInv, Exact, NEW c \in Conns, Connection(c)
    PROVE  Exact'
<1>0. /\ None \notin Conns /\ None \notin Users /\ counter \in Conns \cup {None}
      /\ cells \in [Conns -> [Users -> Conns \cup {None}]] /\ count \in [Conns -> Nat]
  BY XrayAssumption DEF Typed, TypeOK
<1>1. /\ UNCHANGED <<report, charged>> /\ excused \subseteq excused'
      /\ ~GetCounter(c) => cells' = cells
      /\ ~StoreCounter(c) => counter' = counter
      /\ ~Transfer(c) => count' = count /\ sent' = sent
      /\ ~Transfer(c) /\ ~StoreCounter(c) => excused' = excused
  BY ConnUnchanged
<1>2. ASSUME NEW r \in Reporters, report[r].pc = "zero", report[r].user \notin excused
      PROVE  /\ report[r].user \in Users /\ report[r].storage \in Conns /\ counter \in Conns
             /\ report[r].storage = cells[counter][report[r].user]
             /\ report[r].seen = count[report[r].storage] /\ report[r].seen > 0
  BY <1>0, <1>2 DEF Exact, Faithful, Holding, ReportHolds
<1>3. CASE StoreCounter(c)
  <2>1. /\ counter' = c /\ cells' = cells /\ count' = count /\ sent' = sent
        /\ \A u \in Users : Pending(u) > 0 => u \in excused'
    BY <1>1, <1>3 DEF StoreCounter
  <2>2. \A u \in Users : cells[c][u] = None
    <3>1. BeforeTable(c) /\ ConnTable(c)
      BY <1>3 DEF StoreCounter, BeforeTable, BeforeCounter, TableInv
    <3> QED  BY <3>1 DEF ConnTable
  <2>3. ASSUME NEW u \in Users \ excused' PROVE Balanced(u)'
    <3>1. Pending(u)' = 0
      BY <2>1, <2>2 DEF Pending
    <3>2. Pending(u) = 0
      <4>1. Pending(u) \in Nat
        BY <1>0 DEF Pending
      <4> QED  BY <2>1, <4>1
    <3>3. Balanced(u)
      BY <1>1 DEF Exact
    <3>4. sent'[u] = sent[u] /\ charged'[u] = charged[u] /\ report' = report
      BY <1>1, <2>1
    <3> QED  BY <3>1, <3>2, <3>3, <3>4 DEF Balanced
  <2>4. ASSUME NEW r \in Reporters PROVE Faithful(r)'
    <3> SUFFICES ASSUME report[r].pc = "zero", report[r].user \notin excused' PROVE FALSE
      BY <1>1 DEF Faithful
    <3>1. report[r].user \notin excused
      BY <1>1
    <3>2. Pending(report[r].user) = report[r].seen
      BY <1>0, <1>2, <3>1 DEF Pending
    <3> QED  BY <1>2, <2>1, <3>1, <3>2
  <2> QED  BY <2>3, <2>4 DEF Exact
<1>4. CASE GetCounter(c)
  <2> DEFINE t == conn[c].tc
             u == conn[c].user
  <2>1. UNCHANGED <<counter, count, excused, sent>>
    BY <1>4 DEF GetCounter, histVars
  <2>2. /\ t \in Conns /\ u \in Users /\ count[c] = 0
        /\ cells'[t][u] = IF cells[t][u] = None THEN c ELSE cells[t][u]
        /\ \A x \in Conns, v \in Users : x # t \/ v # u => cells'[x][v] = cells[x][v]
    BY <1>4, GetsStorage DEF OwnInv
  <2> HIDE DEF t, u
  <2>3. ASSUME NEW v \in Users PROVE Pending(v)' = Pending(v)
    <3>1. CASE counter = None
      BY <2>1, <3>1 DEF Pending
    <3>2. CASE counter \in Conns /\ counter # None
      <4>1. CASE counter = t /\ v = u /\ cells[t][u] = None
        BY <1>0, <2>1, <2>2, <3>2, <4>1 DEF Pending
      <4>2. CASE ~(counter = t /\ v = u /\ cells[t][u] = None)
        <5>1. cells'[counter][v] = cells[counter][v]
          BY <2>2, <3>2, <4>2
        <5> QED  BY <2>1, <3>2, <5>1 DEF Pending
      <4> QED  BY <4>1, <4>2
    <3> QED  BY <1>0, <3>1, <3>2
  <2>4. ASSUME NEW r \in Reporters PROVE Faithful(r)'
    <3> SUFFICES ASSUME report[r].pc = "zero", report[r].user \notin excused PROVE Faithful(r)'
      BY <1>1, <2>1 DEF Faithful
    <3>1. cells'[counter][report[r].user] = cells[counter][report[r].user]
      BY <1>0, <1>2, <2>2
    <3> QED  BY <1>0, <1>1, <1>2, <2>1, <3>1 DEF Faithful
  <2> QED  BY <1>1, <2>1, <2>3, <2>4, ExactKept
<1>5. CASE Transfer(c)
  <2>0. PICK x, v : x = conn[c].storage /\ v = conn[c].user
    OBVIOUS
  <2>1. /\ x \in Conns /\ v \in Users
        /\ UNCHANGED <<counter, cells, report, charged>> /\ excused \subseteq excused'
        /\ count'[x] = count[x] + 1 /\ \A s \in Conns \ {x} : count'[s] = count[s]
        /\ sent'[v] = sent[v] + 1 /\ \A u \in Users \ {v} : sent'[u] = sent[u]
        /\ \A u \in Users : Owns(u, x) => u = v
        /\ v \notin excused => counter \in Conns /\ cells[counter][v] = x
        /\ \A r \in Reporters : report[r].pc = "zero" /\ report[r].user = v => v \in excused'
    BY <1>5, <2>0, Transfers
  <2>2. \A u \in Users, t \in Conns : u # v => cells[t][u] # x
    BY <2>1 DEF Owns
  <2>3. ASSUME NEW u \in Users \ excused' PROVE Balanced(u)'
    <3>0. Balanced(u)
      BY <2>1 DEF Exact
    <3>1. CASE u = v
      <4>1. v \notin excused /\ counter \in Conns /\ cells[counter][v] = x
        BY <2>1, <3>1
      <4>2. Pending(v) = count[x] /\ Pending(v)' = count[x] + 1
        <5>1. counter # None /\ cells[counter][v] # None
          BY <1>0, <2>1, <4>1
        <5>2. counter' = counter /\ cells' = cells /\ count'[x] = count[x] + 1
          BY <2>1
        <5> QED  BY <4>1, <5>1, <5>2 DEF Pending
      <4>3. sent[v] = charged[v] + CarriedBy(report, v) + count[x]
        BY <3>0, <3>1, <4>2 DEF Balanced
      <4>4. charged[v] \in Nat /\ count[x] \in Nat /\ sent[v] \in Nat
        BY <2>1 DEF Typed, TypeOK
      <4>5. sent'[v] = charged'[v] + CarriedBy(report, v) + Pending(v)'
        <5>1. CarriedBy(report, v) \in Nat
          BY <2>1, CarriedNat DEF Typed
        <5> QED  BY <2>1, <4>2, <4>3, <4>4, <5>1
      <4>6. report' = report
        BY <2>1
      <4> QED  BY <3>1, <4>5, <4>6 DEF Balanced
    <3>2. CASE u # v
      <4>1. Pending(u)' = Pending(u)
        <5>1. counter \in Conns /\ cells[counter][u] # None
                  => cells[counter][u] \in Conns /\ cells[counter][u] # x
          BY <1>0, <2>2, <3>2
        <5> QED  BY <1>0, <2>1, <5>1 DEF Pending
      <4>2. sent'[u] = sent[u] /\ charged'[u] = charged[u] /\ report' = report
        BY <2>1, <3>2
      <4> QED  BY <3>0, <4>1, <4>2 DEF Balanced
    <3> QED  BY <3>1, <3>2
  <2>4. ASSUME NEW r \in Reporters PROVE Faithful(r)'
    <3> SUFFICES ASSUME report[r].pc = "zero", report[r].user \notin excused' PROVE Faithful(r)'
      BY <2>1 DEF Faithful
    <3>1. report[r].user \notin excused /\ report[r].user # v
      BY <2>1
    <3>2. report[r].storage # x
      BY <1>2, <2>2, <3>1
    <3> QED  BY <1>0, <1>2, <2>1, <3>1, <3>2 DEF Faithful
  <2> QED  BY <2>3, <2>4 DEF Exact
<1>6. CASE ~StoreCounter(c) /\ ~GetCounter(c) /\ ~Transfer(c)
  BY <1>1, <1>6, ExactKept DEF Exact, Faithful, Pending
<1> QED  BY <1>3, <1>4, <1>5, <1>6

LEMMA ExactChange ==
    ASSUME Typed, Typed', Holding, KnownInv, Exact, UserChange
    PROVE  Exact'
<1>1. UNCHANGED <<report, counter, count, sent, charged>> /\ excused \subseteq excused'
  BY ChangeCells DEF UserChange
<1>2. \A r \in Reporters : Faithful(r)'
  BY <1>1, NoneReads DEF Faithful, Reading
<1>3. ASSUME NEW u \in Users \ excused' PROVE Pending(u)' = Pending(u)
  <2>1. \A t \in Conns : cells'[t][u] = cells[t][u]
    BY ChangeCells
  <2>2. counter \in Conns \cup {None}
    BY DEF Typed, TypeOK
  <2> QED  BY <1>1, <2>1, <2>2 DEF Pending
<1> QED  BY <1>1, <1>2, <1>3, ExactKept

\* What a report carries of a user does not change, and no bytes are taken off.
LEMMA ExactFrame ==
    ASSUME Typed, Typed', Holding, TableInv, KnownInv, Exact, NEW r \in Reporters, Report(r),
           ~ResetTraffic(r), ~ReportUserTraffic(r),
           \A u \in Users \ excused' : CarriedOf(report'[r], u) = CarriedOf(report[r], u),
           \A q \in Reporters : Faithful(q)'
    PROVE  Exact'
<1>1. /\ counter' = counter /\ count' = count /\ sent' = sent /\ charged' = charged
      /\ excused \subseteq excused'
      /\ \A t \in Conns, u \in Users : cells'[t][u] = cells[t][u] \/ u \in excused'
  BY ReportCells
<1>2. ASSUME NEW u \in Users \ excused' PROVE Balanced(u)'
  <2>1. Pending(u)' = Pending(u)
    <3>1. counter \in Conns \cup {None} /\ \A t \in Conns : cells'[t][u] = cells[t][u]
      BY <1>1 DEF Typed, TypeOK
    <3> QED  BY <1>1, <3>1 DEF Pending
  <2>2. Balanced(u) /\ CarriedOf(report'[r], u) = CarriedOf(report[r], u)
        /\ sent'[u] = sent[u] /\ charged'[u] = charged[u]
    BY <1>1 DEF Exact
  <2>3. \A q \in Reporters \ {r} : report'[q] = report[q]
    BY ReportOthers
  <2> QED  BY <2>1, <2>2, <2>3, StaysBalanced
<1> QED  BY <1>2 DEF Exact

LEMMA ExactRead ==
    ASSUME Typed, Typed', Holding, TableInv, KnownInv, SliceInv, Exact, Alone,
           NEW r \in Reporters, Report(r), ~ResetTraffic(r), ~ReportUserTraffic(r),
           ReportBegins(r) => \A q \in Reporters : ~Reading(q)
    PROVE  Exact'
<1>0. /\ None \notin Conns /\ report[r] \in ReportRecords /\ ReportHolds(r) /\ SliceOf(r)
      /\ counter \in Conns \cup {None} /\ cells \in [Conns -> [Users -> Conns \cup {None}]]
  BY XrayAssumption DEF Typed, TypeOK, Holding, SliceInv
<1>1. /\ counter' = counter /\ count' = count /\ excused' = excused
      /\ \A q \in Reporters \ {r} : report'[q] = report[q]
  BY ReportCells, ReportOthers
<1>2. \A q \in Reporters \ {r} : ~Reading(q)
  <2>1. Reading(r) \/ ReportBegins(r)
    BY DEF Report, LoadTraffic, AppendTraffic, ReportEnds, Reading
  <2> QED  BY <2>1 DEF Alone
<1>3. \A q \in Reporters \ {r} : Faithful(q)'
  BY <1>1, <1>2 DEF Faithful, Reading
<1>4. Faithful(r)'
  <2>1. ASSUME NEW u \in Users, LoadTraffic(r, u), report'[r].pc = "zero", u \notin excused
        PROVE  Faithful(r)'
    <3>1. /\ report'[r].user = u /\ report'[r].storage \in Conns
          /\ report'[r].storage = cells[report[r].tc][u]
          /\ report'[r].seen = count[report'[r].storage] /\ report'[r].seen > 0
      BY <2>1, ReportSteps, ReportVisits
    <3>2. report[r].tc \in Conns /\ cells' = cells
      BY <1>0, <2>1 DEF LoadTraffic, ReportHolds, Reading
    <3>3. report[r].tc = counter
      <4>1. UserCells(u)
        BY DEF TableInv
      <4> QED  BY <1>0, <2>1, <3>1, <3>2, <4>1 DEF UserCells
    <3> QED  BY <1>0, <1>1, <3>1, <3>2, <3>3 DEF Faithful
  <2>2. ASSUME NEW u \in Users, LoadTraffic(r, u) PROVE report'[r].pc = "zero" => report'[r].user = u
    BY <2>2, ReportSteps
  <2>3. (\E u \in Users : LoadTraffic(r, u)) \/ report'[r].pc # "zero"
    BY ReportSteps DEF Report
  <2> QED  BY <1>1, <2>1, <2>2, <2>3 DEF Faithful
<1>5. ASSUME NEW u \in Users \ excused' PROVE CarriedOf(report'[r], u) = CarriedOf(report[r], u)
  <2>1. CASE ReportBegins(r)
    <3>1. report'[r].pc = "range" /\ report'[r].slice[u] = 0
      <4>1. report'[r].pc = "range" /\ report'[r].slice = [v \in Users |-> 0]
        BY <2>1, ReportSteps
      <4> QED  BY <4>1
    <3>2. report[r].pc = "free" /\ report[r].slice[u] = 0
      BY <1>0, <2>1 DEF ReportBegins, SliceOf
    <3> QED  BY <3>1, <3>2 DEF CarriedOf
  <2>2. ASSUME NEW v \in Users, LoadTraffic(r, v) PROVE CarriedOf(report'[r], u) = CarriedOf(report[r], u)
    <3>1. report'[r].slice = report[r].slice /\ report'[r].pc # "uid" /\ report[r].pc # "uid"
      BY <2>2, ReportSteps DEF LoadTraffic
    <3> QED  BY <3>1 DEF CarriedOf
  <2>3. CASE AppendTraffic(r)
    <3> DEFINE v == report[r].user
    <3>1. /\ report[r].pc = "uid" /\ report'[r].pc = "range" /\ v \in Users /\ report[r].slice[v] = 0
          /\ report[r].slice \in [Users -> Nat] /\ report[r].seen \in Nat
      BY <1>0, <2>3, ReportSteps DEF AppendTraffic, SliceOf, ReportHolds, ReportRecords
    <3>2. CASE v \in uidMap
      <4>1. report'[r].slice = [report[r].slice EXCEPT ![v] = report[r].seen]
        BY <2>3, <3>2, ReportVisits
      <4> HIDE DEF v
      <4>2. /\ u = v => report'[r].slice[u] = report[r].seen
            /\ u # v => report'[r].slice[u] = report[r].slice[u]
        BY <3>1, <4>1
      <4>3. CarriedOf(report'[r], u) = report'[r].slice[u] + 0
        BY <3>1 DEF CarriedOf
      <4>4. CarriedOf(report[r], u) = report[r].slice[u] + (IF v = u THEN report[r].seen ELSE 0)
        BY <3>1 DEF CarriedOf, v
      <4> QED  BY <3>1, <4>2, <4>3, <4>4
    <3>3. CASE v \notin uidMap
      <4>1. report'[r].slice = report[r].slice
        BY <2>3, <3>3, ReportVisits
      <4>2. v # u
        BY <1>1, <3>1, <3>3 DEF KnownInv, Known, Reading
      <4> QED  BY <3>1, <4>1, <4>2 DEF CarriedOf
    <3> QED  BY <3>2, <3>3
  <2>4. CASE ReportEnds(r)
    <3>1. report[r].pc = "range" /\ report'[r].pc # "uid"
      BY <2>4, ReportSteps DEF ReportEnds
    <3>2. report'[r].slice[u] = report[r].slice[u]
      <4>1. CASE \E v \in Users : report[r].slice[v] > 0
        <5>1. report' = [report EXCEPT ![r].pc = "post"] /\ report \in [Reporters -> ReportRecords]
          BY <2>4, <4>1 DEF ReportEnds, Typed
        <5> QED  BY <5>1 DEF ReportRecords
      <4>2. CASE ~\E v \in Users : report[r].slice[v] > 0
        <5>1. report' = [report EXCEPT ![r] = NoReport] /\ report \in [Reporters -> ReportRecords]
          BY <2>4, <4>2 DEF ReportEnds, Typed
        <5>2. report'[r].slice[u] = 0
          BY <5>1 DEF NoReport
        <5>3. report[r].slice[u] \in Nat /\ ~(report[r].slice[u] > 0)
          BY <1>0, <4>2 DEF ReportRecords
        <5> QED  BY <5>2, <5>3
      <4> QED  BY <4>1, <4>2
    <3> QED  BY <3>1, <3>2 DEF CarriedOf
  <2> QED  BY <2>1, <2>2, <2>3, <2>4 DEF Report
<1> QED  BY <1>3, <1>4, <1>5, ExactFrame

\* The bytes that a report takes off a counter are those it has loaded.
LEMMA ExactReset ==
    ASSUME Typed, Typed', Holding, OwnInv, KnownInv, SliceInv, Exact, Alone,
           NEW r \in Reporters, Report(r), ResetTraffic(r)
    PROVE  Exact'
<1>0. /\ None \notin Conns /\ report[r] \in ReportRecords /\ ReportHolds(r) /\ SliceOf(r) /\ Faithful(r)
      /\ counter \in Conns \cup {None} /\ cells \in [Conns -> [Users -> Conns \cup {None}]]
      /\ count \in [Conns -> Nat] /\ report[r].pc = "zero"
  BY XrayAssumption DEF Typed, TypeOK, Holding, SliceInv, Exact, ResetTraffic
<1>1. PICK x, v : x = report[r].storage /\ v = report[r].user
  OBVIOUS
<1>2. x \in Conns /\ v \in Users /\ Owns(v, x) /\ report[r].seen \in Nat
  BY <1>0, <1>1 DEF ReportHolds, Owns, ReportRecords
<1>3. /\ counter' = counter /\ cells' = cells /\ count' = [count EXCEPT ![x] = 0]
      /\ excused' = excused
  BY <1>1, ReportCells DEF ResetTraffic
<1>4. count'[x] = 0 /\ \A s \in Conns \ {x} : count'[s] = count[s]
  BY <1>0, <1>2, <1>3
<1>5. /\ report'[r].pc = "uid" /\ report'[r].slice = report[r].slice
      /\ report'[r].user = v /\ report'[r].seen = report[r].seen
      /\ \A q \in Reporters \ {r} : report'[q] = report[q]
  BY <1>1, ReportSteps, ReportOthers
<1>6. \A q \in Reporters : Faithful(q)'
  <2>1. \A q \in Reporters \ {r} : report'[q].pc # "zero"
    BY <1>0, <1>5 DEF Alone, Reading
  <2> QED  BY <1>5, <2>1 DEF Faithful
<1>7. ASSUME NEW u \in Users \ excused' PROVE Balanced(u)'
  <2>0. Balanced(u) /\ sent'[u] = sent[u] /\ charged'[u] = charged[u] /\ u \notin excused
        /\ sent[u] \in Nat /\ charged[u] \in Nat
    BY <1>3 DEF Exact, Report, ResetTraffic, Typed, TypeOK
  <2>1. report[r].slice[u] \in Nat
    BY <1>0 DEF ReportRecords
  <2>2. CASE u = v
    <3>1. counter \in Conns /\ cells[counter][v] = x /\ report[r].seen = count[x] /\ x # None
      BY <1>0, <1>1, <1>2, <2>0, <2>2 DEF Faithful
    <3>2. Pending(v) = report[r].seen /\ Pending(v)' = 0
      BY <1>0, <1>3, <1>4, <3>1 DEF Pending
    <3>3. /\ CarriedOf(report[r], v) = report[r].slice[v] + 0
          /\ CarriedOf(report'[r], v) = report[r].slice[v] + report[r].seen
      BY <1>0, <1>5 DEF CarriedOf
    <3>4. sent'[u] + charged[u] + CarriedOf(report[r], u) + Pending(u)
             = sent[u] + charged'[u] + CarriedOf(report'[r], u) + Pending(u)'
      BY <1>2, <2>0, <2>1, <2>2, <3>2, <3>3
    <3> QED  BY <1>5, <2>0, <3>4, StaysBalanced
  <2>3. CASE u # v
    <3>1. counter \in Conns /\ cells[counter][u] # None
              => cells[counter][u] \in Conns /\ cells[counter][u] # x
      BY <1>0, <1>2, <2>3 DEF OwnInv, Owns
    <3>2. Pending(u)' = Pending(u)
      BY <1>0, <1>3, <1>4, <3>1 DEF Pending
    <3>3. CarriedOf(report'[r], u) = CarriedOf(report[r], u)
      BY <1>0, <1>5, <2>3 DEF CarriedOf
    <3> QED  BY <1>5, <2>0, <3>2, <3>3, StaysBalanced
  <2> QED  BY <2>2, <2>3
<1> QED  BY <1>6, <1>7 DEF Exact

\* The panel charges the slice, or the users in it have an excuse.
LEMMA ExactPost ==
    ASSUME Typed, Typed', Holding, KnownInv, Exact, NEW r \in Reporters, Report(r), ReportUserTraffic(r)
    PROVE  Exact'
<1>0. report[r] \in ReportRecords /\ report[r].pc = "post"
  BY DEF Typed, ReportUserTraffic
<1>1. UNCHANGED <<counter, cells, count, sent>> /\ excused \subseteq excused'
  BY ReportCells DEF ReportUserTraffic
<1>2. /\ report'[r].pc = "free" /\ report'[r].slice = [u \in Users |-> 0]
      /\ \A q \in Reporters \ {r} : report'[q] = report[q]
  BY ReportSteps, ReportOthers
<1>3. \A q \in Reporters : Faithful(q)'
  BY <1>1, <1>2 DEF Exact, Faithful
<1>4. ASSUME NEW u \in Users \ excused' PROVE Balanced(u)'
  <2>0. /\ Balanced(u) /\ sent'[u] = sent[u] /\ Pending(u)' = Pending(u)
        /\ sent[u] \in Nat /\ charged[u] \in Nat /\ report[r].slice[u] \in Nat
    BY <1>0, <1>1 DEF Exact, Pending, Typed, TypeOK, ReportRecords
  <2>1. charged'[u] = charged[u] + report[r].slice[u]
    <3>1. CASE charged' = [v \in Users |-> charged[v] + report[r].slice[v]]
      BY <3>1
    <3>2. CASE charged' = charged /\ excused' = excused \cup {v \in Users : report[r].slice[v] > 0}
      <4>1. ~(report[r].slice[u] > 0)
        BY <3>2
      <4> QED  BY <2>0, <3>2, <4>1
    <3> QED  BY <3>1, <3>2 DEF ReportUserTraffic
  <2>2. CarriedOf(report[r], u) = report[r].slice[u] + 0 /\ CarriedOf(report'[r], u) = 0 + 0
    BY <1>0, <1>2 DEF CarriedOf
  <2>3. Pending(u) \in Nat
    BY DEF Typed, TypeOK, Pending
  <2>4. sent'[u] + charged[u] + CarriedOf(report[r], u) + Pending(u)
           = sent[u] + charged'[u] + CarriedOf(report'[r], u) + Pending(u)'
    BY <2>0, <2>1, <2>2, <2>3
  <2> QED  BY <1>2, <2>0, <2>4, StaysBalanced
<1> QED  BY <1>3, <1>4 DEF Exact

LEMMA ExactStep ==
    ASSUME Typed, Typed', Holding, OwnInv, TrafficInv, TableInv, KnownInv, SliceInv,
           ~overlapped => Exact, [Next]_vars, ~overlapped'
    PROVE  Exact'
<1>1. ASSUME NEW r \in Reporters, Report(r)
      PROVE  ~overlapped /\ (ReportBegins(r) => \A q \in Reporters : ~Reading(q))
  <2>1. ReportBegins(r) => ~overlapped /\ \A q \in Reporters : ~Reading(q)
    BY Zenon DEF ReportBegins
  <2>2. ~ReportBegins(r) => overlapped' = overlapped
    BY <1>1 DEF Report, LoadTraffic, ResetTraffic, AppendTraffic, ReportEnds, ReportUserTraffic
  <2> QED  BY <2>1, <2>2
<1>2. ASSUME NEW r \in Reporters, Report(r) PROVE Exact'
  <2>1. Exact /\ Alone
    BY <1>1, <1>2 DEF TrafficInv
  <2> QED  BY <1>1, <1>2, <2>1, ExactRead, ExactReset, ExactPost
<1>3. ASSUME NEW c \in Conns, Connection(c) PROVE Exact'
  <2>1. Exact
    BY <1>3, ConnUnchanged
  <2> QED  BY <1>3, <2>1, ExactConn
<1>4. CASE UserChange
  <2>1. Exact
    BY <1>4 DEF UserChange
  <2> QED  BY <1>4, <2>1, ExactChange
<1>5. ASSUME UNCHANGED <<report, counter, cells, count, sent, charged, excused, overlapped>> PROVE Exact'
  <2>1. Exact
    BY <1>5
  <2> QED  BY <1>5, <2>1, ExactKept DEF Exact, Faithful, Pending
<1>6. ASSUME NEW c \in Conns, ConcurrentMapWrite(c) PROVE Exact'
  BY <1>5, <1>6 DEF ConcurrentMapWrite, countVars, histVars
<1>7. CASE UNCHANGED vars
  BY <1>5, <1>7 DEF vars, countVars, histVars
<1>8. setting.reporters \subseteq Reporters
  BY XrayAssumption DEF Typed, Setting
<1> QED  BY <1>2, <1>3, <1>4, <1>6, <1>7, <1>8 DEF Next

LEMMA ByteStep ==
    Typed /\ Typed' /\ Holding /\ OwnInv /\ TrafficInv /\ ByteInv /\ [Next]_vars => ByteInv'
BY TableStep, KnownStep, SliceStep, ExactStep DEF ByteInv

\* No byte of a user is lost, except those of a user that was deleted, whose request failed, whose
\* counters were added to between the report's Load and Store, or whose counter a second first
\* connection of the node replaced.
THEOREM XrayEveryByteCounted == Spec => []EveryByteCounted
<1>1. ByteInv => EveryByteCounted
  <2> SUFFICES ASSUME ByteInv, ~overlapped, NEW u \in Users \ excused
               PROVE  sent[u] = charged[u] + Carried(u) + Pending(u)
    BY DEF EveryByteCounted
  <2>1. Balanced(u)
    BY DEF ByteInv, Exact
  <2> QED  BY <2>1, CarriedIsCarriedBy DEF Balanced
<1> QED  BY <1>1, TypedInit, HoldingInit, OwnInit, TrafficInit, ByteInit, TypedStep, OwnStep, TrafficStep,
            ByteStep, PTL DEF Spec
=============================================================================
