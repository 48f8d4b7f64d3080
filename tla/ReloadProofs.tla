---------------------------- MODULE ReloadProofs ----------------------------
(***************************************************************************)
(* Facts about reloading that hold for every number of reload goroutines,  *)
(* of nodes and of edits.                                                  *)
(***************************************************************************)
EXTENDS Reload, SequenceTheorems, TLAPS

\* The indices m + 1 .. m + n, which nodes.Start visits in this order.
From(m, n) == [i \in 1..n |-> m + i]

LEMMA FromIsSeq ==
    ASSUME NEW m \in Nat, NEW n \in Nat
    PROVE  /\ From(m, n) \in Seq(Nat) /\ Len(From(m, n)) = n
           /\ From(m, n) = <<>> <=> n = 0
<1>1. From(m, n) \in [1..n -> Nat]
  BY DEF From
<1>2. From(m, n) \in Seq(Nat) /\ Len(From(m, n)) = n
  BY <1>1
<1> QED  BY <1>1, <1>2

LEMMA FromVisited ==
    ASSUME NEW m \in Nat, NEW n \in Nat \ {0}
    PROVE  Head(From(m, n)) = m + 1 /\ Tail(From(m, n)) = From(m + 1, n - 1)
<1>0. /\ From(m, n) \in Seq(Nat) /\ From(m, n) # <<>> /\ Len(From(m, n)) = n
      /\ From(m + 1, n - 1) \in Seq(Nat) /\ Len(From(m + 1, n - 1)) = n - 1
  <2>1. n \in Nat /\ m + 1 \in Nat /\ n - 1 \in Nat /\ n # 0
    OBVIOUS
  <2> QED  BY <2>1, FromIsSeq
<1>1. Head(From(m, n)) = m + 1
  <2>1. From(m, n)[1] = m + 1
    BY DEF From
  <2>2. Head(From(m, n)) = From(m, n)[1]
    BY <1>0
  <2> QED  BY <2>1, <2>2
<1>2. /\ Tail(From(m, n)) \in Seq(Nat) /\ Len(Tail(From(m, n))) = n - 1
      /\ \A i \in 1..(n - 1) : Tail(From(m, n))[i] = From(m, n)[i + 1]
  BY <1>0, HeadTailProperties
<1>3. \A i \in 1..(n - 1) : From(m, n)[i + 1] = From(m + 1, n - 1)[i]
  BY DEF From
<1>4. Tail(From(m, n)) = From(m + 1, n - 1)
  BY <1>0, <1>2, <1>3, SeqEqual
<1> QED  BY <1>1, <1>4

-----------------------------------------------------------------------------
(* Types.  The list that nodes.Start goes through is a part of the indices *)
(* of a configuration, and not empty while a node is being started.        *)

Conf == [ver: Nat, kind: Kinds, cores: {0, 1}, nodes: 0..NodeCount]

Entries == {"nil", "starting", "failed", "added", "up", "reloading", "lost", "orphan"}

Points == {"off", "sleep", "closeNodes", "closeCore", "newCore", "startCore", "startNodes",
           "nextNode", "startNode"}

TodoOK ==
    /\ todo \in [Reloads -> Seq(Nat)]
    /\ \A r \in Reloads :
        /\ \E m, n \in 0..NodeCount : m + n <= NodeCount /\ todo[r] = From(m, n)
        /\ pc[r] = "startNode" => todo[r] # <<>>

Shape ==
    /\ Dns \in Panels /\ polls \in 0..MaxPolls
    /\ file \in [ver: 0..MaxEdits[Dns], kind: Kinds] /\ conf \in Conf
    /\ events \subseteq {"config", "dns"}
    /\ pc \in [Reloads -> Points] /\ shaken \subseteq Reloads
    /\ vc \in {"nil", "new", "started", "closed"}
    /\ crashed \in {"no", "controller", "serverClose", "nilCore", "core", "index", "closedCore"}
    /\ failure \in {"none", "past", "last"}

Flags == recent \in BOOLEAN /\ overlapped \in BOOLEAN /\ dropped \in BOOLEAN

ListOK == controllers \in Seq(Entries) /\ Len(controllers) <= NodeCount

Typed == Shape /\ Flags /\ ListOK /\ TodoOK

LEMMA TypedIsTypeOK == Typed => TypeOK
<1>1. TodoOK => todo \in [Reloads -> {[i \in 1..n |-> m + i] : n \in 0..NodeCount, m \in 0..NodeCount}]
  BY DEF TodoOK, From
<1> QED  BY <1>1 DEF Typed, Shape, Flags, ListOK, TypeOK, Entries, Points

LEMMA LoadedConf ==
    ASSUME NEW f \in [ver: Nat, kind: Kinds], NEW c \in LoadFromPath(f)
    PROVE  c \in Conf /\ c.ver = f.ver /\ (f.kind # "unparsable" => c.nodes = NodeCount)
BY ConstantsAssumption DEF LoadFromPath, Conf

LEMMA UpIsSeq ==
    ASSUME NEW n \in Nat, NEW s \in Entries
    PROVE  /\ [i \in 1..n |-> s] \in Seq(Entries) /\ Len([i \in 1..n |-> s]) = n
           /\ DOMAIN [i \in 1..n |-> s] = 1..n
<1>1. [i \in 1..n |-> s] \in [1..n -> Entries]
  OBVIOUS
<1> QED  BY <1>1

LEMMA TypedInit == Init => Typed
<1> SUFFICES ASSUME Init PROVE Typed
  OBVIOUS
<1>1. conf \in Conf
  BY ConstantsAssumption, LoadedConf DEF Init
<1>2. TodoOK
  <2>1. \A r \in Reloads : todo[r] = From(0, 0) /\ pc[r] = "off"
    BY FromIsSeq DEF Init
  <2>2. todo \in [Reloads -> Seq(Nat)]
    BY DEF Init
  <2> QED  BY <2>1, <2>2, ConstantsAssumption DEF TodoOK
<1>3. ListOK
  BY ConstantsAssumption, UpIsSeq DEF Init, Entries, ListOK
<1>4. Shape
  BY <1>1, ConstantsAssumption DEF Init, Shape, Points
<1>5. Flags
  BY Zenon DEF Init, Flags
<1> QED  BY <1>2, <1>3, <1>4, <1>5 DEF Typed

\* A step of a reload changes its own position only.
LEMMA StepMoves ==
    ASSUME Typed, NEW r \in Reloads, Step(r)
    PROVE  \E p \in Points : pc' = [pc EXCEPT ![r] = p]
<1>1. pc' = pc => pc' = [pc EXCEPT ![r] = pc[r]] /\ pc[r] \in Points
  BY DEF Typed, Shape
<1> QED  BY <1>1 DEF Step, CloseNodes, CloseCore, NewCore, getCore, StartCore, StartNodes,
                     NextNode, StartNode, Crash, Return, Points

LEMMA ShapeStep ==
    ASSUME Typed, NEW r \in Reloads, Step(r)
    PROVE  Shape'
<1>1. pc' \in [Reloads -> Points]
  BY StepMoves DEF Typed, Shape
<1>2. UNCHANGED <<Dns, polls, file, conf, recent, overlapped, dropped>>
  BY DEF Step, panel
<1>3. events' \subseteq {"config", "dns"}
  BY DEF Typed, Shape, Step, StartNode, updateDNSConfig, saveDnsConfig
<1>4. shaken' \subseteq Reloads /\ vc' \in {"nil", "new", "started", "closed"}
  BY DEF Typed, Shape, Step, CloseNodes, CloseCore, NewCore, getCore, StartCore, StartNodes,
                     NextNode, StartNode, Crash, Return
<1>5. /\ crashed' \in {"no", "controller", "serverClose", "nilCore", "core", "index", "closedCore"}
      /\ failure' \in {"none", "past", "last"}
  BY DEF Typed, Shape, Step, CloseNodes, CloseCore, NewCore, getCore, StartCore, StartNodes,
                     NextNode, StartNode, Crash, Return
<1> QED  BY <1>1, <1>2, <1>3, <1>4, <1>5 DEF Typed, Shape

LEMMA EntryOK ==
    ASSUME ListOK, NEW i, NEW s \in Entries
    PROVE  LET l == IF i \in DOMAIN controllers THEN [controllers EXCEPT ![i] = s] ELSE controllers
           IN  l \in Seq(Entries) /\ Len(l) = Len(controllers)
BY ExceptSeq, LenProperties DEF ListOK

LEMMA ListStep ==
    ASSUME Typed, NEW r \in Reloads, Step(r)
    PROVE  ListOK'
<1>1. CASE CloseNodes(r)
  <2>1. <<>> \in Seq(Entries) /\ Len(<<>>) <= NodeCount
    BY EmptySeq, ConstantsAssumption
  <2> QED  BY <1>1, <2>1 DEF CloseNodes, Crash, Typed, ListOK
<1>2. CASE CloseCore(r)
  <2>1. CASE controllers' = [i \in DOMAIN controllers |-> Orphaned(controllers[i])]
    <3>1. Len(controllers) \in Nat /\ DOMAIN controllers = 1..Len(controllers)
          /\ \A i \in 1..Len(controllers) : controllers[i] \in Entries
      BY LenProperties DEF Typed, ListOK
    <3>2. controllers' \in [1..Len(controllers) -> Entries]
      BY <2>1, <3>1 DEF Orphaned, Entries
    <3>3. controllers' \in Seq(Entries) /\ Len(controllers') = Len(controllers)
      BY <3>1, <3>2
    <3> QED  BY <3>3 DEF Typed, ListOK
  <2> QED  BY <1>2, <2>1 DEF CloseCore, Crash, Typed, ListOK
<1>3. CASE NewCore(r) \/ StartCore(r)
  BY <1>3 DEF NewCore, getCore, StartCore, Crash, Return, Typed, ListOK
<1>4. CASE StartNodes(r)
  <2>1. conf.nodes \in 0..NodeCount
    BY DEF Typed, Shape, Conf
  <2>2. CASE controllers' = [i \in 1..conf.nodes |-> "nil"]
    BY <2>1, <2>2, UpIsSeq, ConstantsAssumption DEF ListOK, Entries
  <2> QED  BY <1>4, <2>2 DEF StartNodes, Crash, Typed, ListOK
<1>5. CASE NextNode(r)
  <2>1. CASE At(r) \in DOMAIN controllers /\ controllers' = [controllers EXCEPT ![At(r)] = "starting"]
    <3>1. "starting" \in Entries
      BY DEF Entries
    <3> QED  BY <2>1, <3>1, EntryOK DEF Typed, ListOK
  <2> QED  BY <1>5, <2>1 DEF NextNode, Return, Crash, Typed, ListOK
<1>6. CASE StartNode(r)
  <2>1. CASE \E s \in Entries : controllers' = Entry(r, s)
    BY <2>1, EntryOK DEF Typed, ListOK, Entry
  <2> QED  BY <1>6, <2>1 DEF StartNode, Crash, Typed, ListOK, Entries
<1> QED  BY <1>1, <1>2, <1>3, <1>4, <1>5, <1>6 DEF Step

LEMMA TodoStep ==
    ASSUME Typed, NEW r \in Reloads, Step(r)
    PROVE  TodoOK'
<1>1. PICK p \in Points : pc' = [pc EXCEPT ![r] = p]
  BY StepMoves
<1>2. CASE StartNodes(r) /\ todo' # todo
  <2>1. conf.nodes \in 0..NodeCount
    BY DEF Typed, Shape, Conf
  <2>2. todo' = [todo EXCEPT ![r] = From(0, conf.nodes)] /\ pc' = [pc EXCEPT ![r] = "nextNode"]
    <3>1. [i \in 1..conf.nodes |-> i] = From(0, conf.nodes)
      BY <2>1 DEF From
    <3> QED  BY <1>2, <3>1 DEF StartNodes, Crash
  <2>3. From(0, conf.nodes) \in Seq(Nat)
    BY <2>1, FromIsSeq
  <2>4. 0 \in 0..NodeCount /\ 0 + conf.nodes <= NodeCount
    BY <2>1, ConstantsAssumption
  <2> QED  BY <2>1, <2>2, <2>3, <2>4 DEF Typed, Shape, TodoOK
<1>3. CASE StartNode(r) /\ todo' # todo
  <2>1. todo' = [todo EXCEPT ![r] = Tail(todo[r])] /\ pc' = [pc EXCEPT ![r] = "nextNode"]
    BY <1>3 DEF StartNode, Crash, Typed, TodoOK
  <2>2. PICK m, n \in 0..NodeCount : m + n <= NodeCount /\ todo[r] = From(m, n)
    BY DEF Typed, TodoOK
  <2>3. n # 0
    BY <1>3, <2>2, FromIsSeq DEF StartNode, Typed, TodoOK
  <2>4. Tail(todo[r]) = From(m + 1, n - 1) /\ From(m + 1, n - 1) \in Seq(Nat)
    <3>1. m \in Nat /\ n \in Nat \ {0} /\ m + 1 \in Nat /\ n - 1 \in Nat
      BY <2>3, ConstantsAssumption
    <3> QED  BY <2>2, <3>1, FromVisited, FromIsSeq
  <2>5. m + 1 \in 0..NodeCount /\ n - 1 \in 0..NodeCount /\ (m + 1) + (n - 1) <= NodeCount
    BY <2>2, <2>3, ConstantsAssumption
  <2> QED  BY <2>1, <2>4, <2>5 DEF Typed, Shape, TodoOK
<1>4. CASE todo' = todo
  <2>1. p = "startNode" => todo[r] # <<>>
    BY <1>1, <1>4 DEF Step, CloseNodes, CloseCore, NewCore, getCore, StartCore, StartNodes,
                 NextNode, StartNode, Crash, Return, Typed, Shape, TodoOK
  <2> QED  BY <1>1, <1>4, <2>1 DEF Typed, Shape, TodoOK
<1> QED  BY <1>2, <1>3, <1>4 DEF Step, CloseNodes, CloseCore, NewCore, getCore, StartCore,
            NextNode, Crash, Return

LEMMA FlagsStep == Typed /\ [Next]_vars => Flags'
<1> SUFFICES ASSUME Typed, [Next]_vars PROVE Flags'
  OBVIOUS
<1>1. Flags
  BY DEF Typed
<1>2. CASE Edit \/ Accept \/ Drop \/ Elapse
  BY <1>1, <1>2, Zenon DEF Edit, Accept, Drop, Elapse, Flags, history, panel
<1>3. ASSUME NEW r \in Reloads, Load(r) PROVE Flags'
  BY <1>1, <1>3, Zenon DEF Load, Flags
<1>4. ASSUME NEW r \in Reloads, Step(r) PROVE Flags'
  BY <1>1, <1>4, Zenon DEF Step, Flags
<1>5. CASE UNCHANGED vars
  BY <1>1, <1>5, Zenon DEF vars, Flags
<1>6. ASSUME NEW i \in 1..NodeCount, PollDelNode(i) \/ PollAddNode(i) PROVE Flags'
  BY <1>1, <1>6, Zenon DEF PollDelNode, PollAddNode, Flags, history
<1> QED  BY <1>2, <1>3, <1>4, <1>5, <1>6 DEF Next

\* A poll changes the entry of its controller and no position.
LEMMA PollMoves ==
    ASSUME Typed, NEW i \in 1..NodeCount, PollDelNode(i) \/ PollAddNode(i)
    PROVE  /\ i \in DOMAIN controllers /\ controllers[i] \in {"up", "reloading"}
           /\ \E e \in {"up", "reloading", "lost"} : controllers' = [controllers EXCEPT ![i] = e]
           /\ UNCHANGED <<Dns, file, recent, conf, pc, todo, shaken, vc, crashed, failure, overlapped, dropped>>
           /\ events \subseteq events' /\ crashed = "no"
<1>1. CASE PollDelNode(i)
  BY <1>1 DEF PollDelNode, history
<1>2. CASE PollAddNode(i)
  BY <1>2 DEF PollAddNode, updateDNSConfig, saveDnsConfig, history, panel
<1> QED  BY <1>1, <1>2

LEMMA PollTyped ==
    ASSUME Typed, NEW i \in 1..NodeCount, PollDelNode(i) \/ PollAddNode(i)
    PROVE  Shape' /\ ListOK' /\ TodoOK'
<1>1. polls' \in 0..MaxPolls /\ events' \subseteq {"config", "dns"}
  <2>1. CASE PollDelNode(i)
    BY <2>1, ConstantsAssumption DEF PollDelNode, Typed, Shape
  <2>2. CASE PollAddNode(i)
    BY <2>2 DEF PollAddNode, updateDNSConfig, saveDnsConfig, panel, Typed, Shape
  <2> QED  BY <2>1, <2>2
<1>2. PICK e \in {"up", "reloading", "lost"} : controllers' = [controllers EXCEPT ![i] = e]
  BY PollMoves
<1>3. i \in DOMAIN controllers /\ e \in Entries
  BY PollMoves DEF Entries
<1>4. controllers' \in Seq(Entries) /\ Len(controllers') = Len(controllers)
  BY <1>2, <1>3, EntryOK DEF Typed, ListOK
<1>5. ListOK'
  BY <1>4 DEF Typed, ListOK
<1> QED  BY <1>1, <1>5, PollMoves DEF Typed, Shape, TodoOK

LEMMA TypedStep == Typed /\ [Next]_vars => Typed'
<1> SUFFICES ASSUME Typed, [Next]_vars PROVE Shape' /\ ListOK' /\ TodoOK'
  BY FlagsStep DEF Typed
<1>1. CASE Edit
  BY <1>1, ConstantsAssumption DEF Edit, Typed, Shape, ListOK, TodoOK, history, panel
<1>2. CASE Accept
  BY <1>2 DEF Accept, Typed, Shape, ListOK, TodoOK, history, panel, Points
<1>3. CASE Drop \/ Elapse
  BY <1>3 DEF Drop, Elapse, Typed, Shape, ListOK, TodoOK, history, panel
<1>4. ASSUME NEW r \in Reloads, Load(r) PROVE Shape' /\ ListOK' /\ TodoOK'
  <2>1. conf' \in Conf
    BY <1>4, LoadedConf DEF Load, Typed, Shape
  <2> QED  BY <1>4, <2>1 DEF Load, Typed, Shape, ListOK, TodoOK, Points, panel
<1>5. ASSUME NEW r \in Reloads, Step(r) PROVE Shape' /\ ListOK' /\ TodoOK'
  BY <1>5, ShapeStep, ListStep, TodoStep
<1>6. CASE UNCHANGED vars
  BY <1>6 DEF vars, Typed, Shape, ListOK, TodoOK
<1>7. ASSUME NEW i \in 1..NodeCount, PollDelNode(i) \/ PollAddNode(i) PROVE Shape' /\ ListOK' /\ TodoOK'
  BY <1>7, PollTyped
<1> QED  BY <1>1, <1>2, <1>3, <1>4, <1>5, <1>6, <1>7 DEF Next

\* The variables have their types; in particular nodes.Start never reads the head of an
\* empty list.
THEOREM ReloadTypeOK == Spec => []TypeOK
<1> QED  BY TypedInit, TypedStep, TypedIsTypeOK, PTL DEF Spec

-----------------------------------------------------------------------------
(* What the program has read.  QuietIsCurrent alone is not inductive: an   *)
(* edit that was not read yet is an event, or a goroutine that sleeps, or  *)
(* was dropped.                                                            *)

WillRead ==
    crashed = "no" => \/ conf.ver = file.ver \/ "config" \in events \/ dropped
                      \/ \E r \in Reloads : pc[r] = "sleep"

LEMMA WillReadInit == Init => WillRead
BY LoadedConf, ConstantsAssumption DEF Init, WillRead

LEMMA WillReadStep == Typed /\ WillRead /\ [Next]_vars => WillRead'
<1> SUFFICES ASSUME Typed, WillRead, [Next]_vars PROVE WillRead'
  OBVIOUS
<1>1. CASE Edit
  BY <1>1 DEF Edit, WillRead, panel
<1>2. CASE Accept
  BY <1>2 DEF Accept, WillRead, Typed, Shape, history, panel
<1>3. CASE Drop
  BY <1>3 DEF Drop, WillRead, panel
<1>4. CASE Elapse
  BY <1>4 DEF Elapse, WillRead, history, panel
<1>5. ASSUME NEW r \in Reloads, Load(r) PROVE WillRead'
  BY <1>5, LoadedConf DEF Load, WillRead, Typed, Shape, panel
<1>6. ASSUME NEW r \in Reloads, Step(r) PROVE WillRead'
  <2>1. PICK p \in Points : pc' = [pc EXCEPT ![r] = p]
    BY <1>6, StepMoves
  <2>2. pc[r] # "sleep" /\ crashed = "no" /\ UNCHANGED <<file, conf, dropped>>
    BY <1>6 DEF Step, CloseNodes, CloseCore, NewCore, StartCore, StartNodes, NextNode, StartNode, panel
  <2>3. events \subseteq events'
    BY <1>6 DEF Step, StartNode, updateDNSConfig, saveDnsConfig
  <2> QED  BY <2>1, <2>2, <2>3 DEF WillRead, Typed, Shape
<1>7. CASE UNCHANGED vars
  BY <1>7 DEF vars, WillRead
<1>8. ASSUME NEW i \in 1..NodeCount, PollDelNode(i) \/ PollAddNode(i) PROVE WillRead'
  BY <1>8, PollMoves DEF WillRead
<1> QED  BY <1>1, <1>2, <1>3, <1>4, <1>5, <1>6, <1>7, <1>8 DEF Next

\* When nothing is under way and the debounce has not swallowed an event after the last
\* reading, the program has read the file as it is now, however edits, events and reloads
\* interleave.
THEOREM ReloadQuietIsCurrent == Spec => []QuietIsCurrent
<1>1. WillRead => QuietIsCurrent
  BY DEF WillRead, QuietIsCurrent, Idle
<1> QED  BY <1>1, TypedInit, TypedStep, WillReadInit, WillReadStep, PTL DEF Spec

-----------------------------------------------------------------------------
(* What a reload finds.  As long as no two have run at the same time, each *)
(* point of the one that runs fixes the core and the list of controllers,  *)
(* except that an earlier reload that returned early may have left         *)
(* anything for CloseNodes and CloseCore.                                  *)

Alone == ~overlapped => \A r, s \in Reloads : Running(r) /\ Running(s) => r = s

\* The controller runs: its Start ended well, and polls may have taken its node away since.
Serving == {"up", "reloading", "lost"}

AllServe == \A i \in DOMAIN controllers : controllers[i] \in Serving

\* nodes.Start has started the first m nodes.
Started(r, m) ==
    /\ vc = "started" /\ r \notin shaken
    /\ DOMAIN controllers = 1..conf.nodes
    /\ todo[r] = From(m, conf.nodes - m)
    /\ \A i \in 1..m : controllers[i] \in Serving

Finds(r) ==
    /\ pc[r] = "closeNodes" /\ failure # "last" => vc = "started" /\ AllServe
    /\ pc[r] \in {"closeCore", "newCore", "startCore", "startNodes"} => controllers = <<>>
    /\ pc[r] = "closeCore" /\ failure # "last" => vc = "started"
    /\ pc[r] = "newCore" => vc = "closed"
    /\ pc[r] = "startCore" => vc = "new"
    /\ pc[r] = "startNodes" => vc = "started"
    /\ pc[r] = "nextNode" => \E m \in 0..conf.nodes : Started(r, m)
    /\ pc[r] = "startNode" => \E m \in 0..(conf.nodes - 1) : Started(r, m)

Leaves ==
    failure # "last" /\ (\A r \in Reloads : ~Running(r)) =>
        vc = "started" /\ AllServe /\ DOMAIN controllers = 1..conf.nodes

Orderly == crashed = "no" /\ ~overlapped => Leaves /\ \A r \in Reloads : Finds(r)

OrderInv == Alone /\ Orderly /\ CrashNeedsCause

LEMMA OrderInit == Init => OrderInv
<1> SUFFICES ASSUME Init PROVE OrderInv
  OBVIOUS
<1>1. \A r \in Reloads : ~Running(r) /\ Finds(r)
  BY DEF Init, Running, Finds
<1>2. conf.nodes = NodeCount
  BY LoadedConf, ConstantsAssumption DEF Init
<1>3. Leaves
  BY <1>2 DEF Init, Leaves, AllServe, Serving
<1> QED  BY <1>1, <1>3 DEF OrderInv, Alone, Orderly, CrashNeedsCause, Init

\* Load: a second reload that begins while one runs is an overlap.
LEMMA OrderLoad ==
    ASSUME Typed, OrderInv, NEW r \in Reloads, Load(r)
    PROVE  OrderInv'
<1>1. /\ pc' = [pc EXCEPT ![r] = "closeNodes"] /\ pc \in [Reloads -> Points] /\ pc[r] = "sleep"
      /\ crashed = "no" /\ UNCHANGED <<vc, controllers, shaken, todo, crashed, failure>>
  BY DEF Load, Typed, Shape, panel
<1>2. CASE overlapped'
  BY <1>1, <1>2 DEF OrderInv, Alone, Orderly, CrashNeedsCause
<1>3. CASE ~overlapped'
  <2>1. ~overlapped /\ \A s \in Reloads : ~Running(s)
    BY <1>3 DEF Load
  <2>2. Alone'
    BY <1>1, <2>1 DEF Alone, Running
  <2>3. Leaves /\ (failure # "last" => vc = "started" /\ AllServe)
    BY <1>1, <2>1 DEF OrderInv, Orderly, Leaves
  <2>4. Running(r)'
    BY <1>1 DEF Running
  <2>5. \A s \in Reloads : Finds(s)'
    BY <1>1, <2>1, <2>3 DEF Finds, Running, AllServe
  <2> QED  BY <1>1, <2>2, <2>4, <2>5 DEF OrderInv, Orderly, Leaves, CrashNeedsCause
<1> QED  BY <1>2, <1>3

LEMMA OrderStep ==
    ASSUME Typed, OrderInv, NEW r \in Reloads, Step(r)
    PROVE  OrderInv'
<1>1. PICK p \in Points : pc' = [pc EXCEPT ![r] = p]
  BY StepMoves
<1>2. /\ crashed = "no" /\ Running(r) /\ UNCHANGED <<conf, overlapped>>
      /\ pc \in [Reloads -> Points] /\ p # "sleep"
  BY <1>1 DEF Typed, Shape, Step, CloseNodes, CloseCore, NewCore, getCore, StartCore, StartNodes, NextNode,
         StartNode, Running, Crash, Return
<1>3. CASE overlapped
  BY <1>1, <1>2, <1>3 DEF OrderInv, Alone, Orderly, CrashNeedsCause
<1>4. CASE ~overlapped
  <2>1. \A s \in Reloads \ {r} : ~Running(s) /\ ~Running(s)' /\ Finds(s)'
    BY <1>1, <1>2, <1>4 DEF OrderInv, Alone, Running, Finds
  <2>2. Alone'
    BY <1>1, <1>2, <1>4, <2>1 DEF Alone
  <2>3. Finds(r)
    BY <1>2, <1>4 DEF OrderInv, Orderly
  <2>4. CrashNeedsCause' /\ (crashed' = "no" => Finds(r)' /\ (~Running(r)' => Leaves'))
    <3>1. CASE CloseNodes(r)
      <4>1. CASE crashed' = "controller"
        <5>1. UNCHANGED <<controllers, failure>> /\ \E i \in DOMAIN controllers : controllers[i] \notin {"up", "added"}
          BY <1>2, <3>1, <4>1 DEF CloseNodes, Crash
        <5>2. failure # "none" \/ NodeMissing
          BY <2>3, <3>1, <5>1 DEF CloseNodes, Finds, AllServe, Serving, NodeMissing
        <5> QED  BY <4>1, <5>1, <5>2 DEF CrashNeedsCause, NodeMissing
      <4>2. CASE crashed' = "serverClose"
        BY <4>2 DEF CrashNeedsCause
      <4>3. CASE crashed' = "no"
        BY <1>1, <1>2, <2>1, <2>3, <3>1, <4>3 DEF CloseNodes, Crash, Finds, CrashNeedsCause, AllServe, Running
      <4> QED  BY <1>2, <3>1, <4>1, <4>2, <4>3 DEF CloseNodes, Crash
    <3>2. CASE CloseCore(r)
      <4>1. CASE crashed' # "no"
        BY <1>1, <1>2, <2>3, <3>2, <4>1 DEF CloseCore, Crash, Finds, CrashNeedsCause
      <4>2. CASE crashed' = "no"
        <5>1. vc' = "closed" /\ controllers' = <<>>
          BY <1>1, <1>2, <2>3, <3>2, <4>2, EmptySeq DEF CloseCore, Crash, Finds
        <5>2. \/ pc' = [pc EXCEPT ![r] = "newCore"]
              \/ pc' = [pc EXCEPT ![r] = "off"] /\ failure' = "last"
          BY <3>2, <1>2, <4>2 DEF CloseCore, Crash
        <5> QED  BY <1>2, <4>2, <5>1, <5>2 DEF Finds, CrashNeedsCause, Leaves, Running
      <4> QED  BY <4>1, <4>2
    <3>3. CASE NewCore(r) \/ StartCore(r)
      BY <1>1, <1>2, <2>3, <3>3 DEF NewCore, getCore, StartCore, Return, Crash, Finds, CrashNeedsCause, Leaves, Running
    <3>4. CASE StartNodes(r)
      <4>1. conf.nodes \in Nat /\ From(0, conf.nodes) = [i \in 1..conf.nodes |-> i]
        BY ConstantsAssumption DEF Typed, Shape, Conf, From
      <4>2. /\ vc = "started" /\ vc' = vc /\ pc' = [pc EXCEPT ![r] = "nextNode"] /\ UNCHANGED crashed
            /\ controllers' = [i \in 1..conf.nodes |-> "nil"] /\ r \notin shaken'
            /\ todo' = [todo EXCEPT ![r] = [i \in 1..conf.nodes |-> i]]
        BY <2>3, <3>4 DEF StartNodes, Crash, Finds
      <4>3. Started(r, 0)'
        BY <1>2, <4>1, <4>2 DEF Started, Typed, TodoOK
      <4> QED  BY <1>1, <1>2, <4>1, <4>2, <4>3 DEF Finds, CrashNeedsCause, Running
    <3>5. CASE NextNode(r)
      <4>0. conf.nodes \in Nat
        BY ConstantsAssumption DEF Typed, Shape, Conf
      <4>1. PICK m \in 0..conf.nodes : Started(r, m)
        BY <2>3, <3>5 DEF NextNode, Finds
      <4>2. m \in Nat /\ conf.nodes - m \in Nat /\ (todo[r] = <<>> <=> m = conf.nodes)
        <5>1. m \in Nat /\ conf.nodes - m \in Nat /\ todo[r] = From(m, conf.nodes - m)
          BY <4>0, <4>1 DEF Started
        <5>2. todo[r] = <<>> <=> conf.nodes - m = 0
          BY <5>1, FromIsSeq
        <5> QED  BY <4>0, <5>1, <5>2
      <4>3. CASE todo[r] = <<>>
        BY <1>1, <1>2, <2>1, <3>5, <4>0, <4>1, <4>2, <4>3 DEF NextNode, Started, Leaves, AllServe, Finds, Running,
                  CrashNeedsCause
      <4>4. CASE todo[r] # <<>>
        <5>1. At(r) = m + 1 /\ m + 1 \in DOMAIN controllers
          BY <4>0, <4>1, <4>2, <4>4, FromVisited DEF At, Started
        <5>2. CASE failure' = "last" /\ UNCHANGED crashed /\ pc' = [pc EXCEPT ![r] = "off"]
          BY <1>2, <5>2 DEF Finds, Leaves, CrashNeedsCause
        <5>3. CASE /\ controllers' = [controllers EXCEPT ![m + 1] = "starting"]
                   /\ pc' = [pc EXCEPT ![r] = "startNode"]
                   /\ UNCHANGED <<todo, shaken, vc, crashed, failure>>
          <6>1. Started(r, m)'
            BY <1>2, <4>0, <4>1, <4>2, <5>3 DEF Started
          <6>2. m \in 0..(conf.nodes - 1)
            BY <4>0, <4>2, <4>4
          <6> QED  BY <1>2, <5>3, <6>1, <6>2 DEF Finds, Running, CrashNeedsCause
        <5> QED  BY <3>5, <4>4, <5>1, <5>2, <5>3 DEF NextNode, Return
      <4> QED  BY <4>3, <4>4
    <3>6. CASE StartNode(r)
      <4>0. conf.nodes \in Nat
        BY ConstantsAssumption DEF Typed, Shape, Conf
      <4>1. PICK m \in 0..(conf.nodes - 1) : Started(r, m)
        BY <2>3, <3>6 DEF StartNode, Finds
      <4>2. /\ m \in Nat /\ conf.nodes - m \in Nat \ {0} /\ m + 1 \in 0..conf.nodes
            /\ conf.nodes - (m + 1) = (conf.nodes - m) - 1
        BY <4>0
      <4>3. At(r) = m + 1 /\ Tail(todo[r]) = From(m + 1, conf.nodes - (m + 1)) /\ m + 1 \in DOMAIN controllers
        <5>1. todo[r] = From(m, conf.nodes - m) /\ DOMAIN controllers = 1..conf.nodes
          BY <4>1 DEF Started
        <5>2. Head(todo[r]) = m + 1 /\ Tail(todo[r]) = From(m + 1, (conf.nodes - m) - 1)
          BY <4>2, <5>1, FromVisited
        <5> QED  BY <4>0, <4>2, <5>1, <5>2 DEF At
      <4>4. CASE failure' = "last" /\ UNCHANGED crashed /\ pc' = [pc EXCEPT ![r] = "off"]
        BY <1>2, <4>4 DEF Finds, Leaves, CrashNeedsCause
      <4>5. CASE /\ controllers' = [controllers EXCEPT ![m + 1] = "up"]
                 /\ todo' = [todo EXCEPT ![r] = Tail(todo[r])]
                 /\ pc' = [pc EXCEPT ![r] = "nextNode"]
                 /\ UNCHANGED <<shaken, vc, crashed, failure>>
        <5>1. Started(r, m + 1)'
          BY <1>2, <4>0, <4>1, <4>2, <4>3, <4>5 DEF Started, Serving, Typed, TodoOK
        <5> QED  BY <1>2, <4>2, <4>5, <5>1 DEF Finds, Running, CrashNeedsCause
      <4> QED  BY <3>6, <4>1, <4>3, <4>4, <4>5 DEF StartNode, Entry, Started, Typed, TodoOK
    <3> QED  BY <3>1, <3>2, <3>3, <3>4, <3>5, <3>6 DEF Step
  <2>5. Running(r)' => Leaves'
    BY DEF Leaves
  <2> QED  BY <2>1, <2>2, <2>4, <2>5 DEF OrderInv, Orderly
<1> QED  BY <1>3, <1>4

LEMMA OrderPoll ==
    ASSUME Typed, OrderInv, NEW i \in 1..NodeCount, PollDelNode(i) \/ PollAddNode(i)
    PROVE  OrderInv'
<1>1. PICK e \in Serving : controllers' = [controllers EXCEPT ![i] = e]
  BY PollMoves DEF Serving
<1>2. /\ i \in DOMAIN controllers
      /\ UNCHANGED <<conf, pc, todo, shaken, vc, crashed, failure, overlapped>> /\ crashed = "no"
  BY PollMoves
<1>3. /\ DOMAIN controllers' = DOMAIN controllers /\ controllers # <<>>
      /\ \A j \in DOMAIN controllers : controllers'[j] \in {controllers[j], e}
  BY <1>1, <1>2
<1>4. /\ AllServe => AllServe'
      /\ \A r \in Reloads, m \in 0..conf.nodes : Started(r, m) => Started(r, m)'
  <2>1. conf.nodes \in Nat
    BY ConstantsAssumption DEF Typed, Shape, Conf
  <2>2. \A m \in 0..conf.nodes : 1..m \subseteq 1..conf.nodes
    BY <2>1
  <2>3. \A j \in DOMAIN controllers : controllers[j] \in Serving => controllers'[j] \in Serving
    BY <1>3
  <2>4. ASSUME NEW r \in Reloads, NEW m \in 0..conf.nodes, Started(r, m) PROVE Started(r, m)'
    BY <1>2, <1>3, <2>2, <2>3, <2>4 DEF Started
  <2> QED  BY <1>3, <2>3, <2>4 DEF AllServe
<1>5. Leaves => Leaves'
  BY <1>2, <1>3, <1>4 DEF Leaves, Running
<1>6. conf.nodes \in Nat
  BY ConstantsAssumption DEF Typed, Shape, Conf
<1>7. ASSUME NEW r \in Reloads, Finds(r) PROVE Finds(r)'
  <2>1. \A m \in 0..(conf.nodes - 1) : m \in 0..conf.nodes
    BY <1>6
  <2> QED  BY <1>2, <1>3, <1>4, <1>7, <2>1 DEF Finds
<1> QED  BY <1>2, <1>5, <1>7 DEF OrderInv, Alone, Orderly, Running, CrashNeedsCause

LEMMA OrderNext == Typed /\ OrderInv /\ [Next]_vars => OrderInv'
<1> SUFFICES ASSUME Typed, OrderInv, [Next]_vars PROVE OrderInv'
  OBVIOUS
<1>1. CASE Edit \/ Drop \/ Elapse \/ UNCHANGED vars
  <2>1. UNCHANGED <<conf, pc, todo, shaken, vc, controllers, crashed, failure, overlapped>>
    BY <1>1 DEF Edit, Drop, Elapse, vars, history, panel
  <2> QED  BY <2>1 DEF OrderInv, Alone, Orderly, Leaves, Finds, Started, AllServe, Running, CrashNeedsCause, NodeMissing
<1>2. CASE Accept
  <2>1. PICK r \in Reloads : pc[r] = "off" /\ pc' = [pc EXCEPT ![r] = "sleep"]
    BY <1>2 DEF Accept
  <2>2. UNCHANGED <<conf, todo, shaken, vc, controllers, crashed, failure, overlapped>>
    BY <1>2 DEF Accept, history, panel
  <2>3. \A s \in Reloads : (Running(s)' <=> Running(s)) /\ (Finds(s) => Finds(s)')
    BY <2>1, <2>2 DEF Typed, Shape, Running, Finds, Started, AllServe
  <2> QED  BY <2>2, <2>3 DEF OrderInv, Alone, Orderly, Leaves, AllServe, CrashNeedsCause, NodeMissing
<1>3. ASSUME NEW r \in Reloads, Load(r) PROVE OrderInv'
  BY <1>3, OrderLoad
<1>4. ASSUME NEW r \in Reloads, Step(r) PROVE OrderInv'
  BY <1>4, OrderStep
<1>5. ASSUME NEW i \in 1..NodeCount, PollDelNode(i) \/ PollAddNode(i) PROVE OrderInv'
  BY <1>5, OrderPoll
<1> QED  BY <1>1, <1>2, <1>3, <1>4, <1>5 DEF Next

(* Reloading brings the program down only after a reload that returned      *)
(* early, while two overlap, or because of a node that a poll has taken out *)
(* of the core, for every number of nodes, polls and reloads (node.go,      *)
(* server.go); a failing Close of a server and a core that cannot be built  *)
(* are raised as panics of their own.                                       *)
THEOREM ReloadCrashNeedsCause == Spec => []CrashNeedsCause
<1>1. OrderInv => CrashNeedsCause
  BY DEF OrderInv
<1> QED  BY <1>1, TypedInit, TypedStep, OrderInit, OrderNext, PTL DEF Spec

\* After a reload that neither failed nor was overlapped the core runs and every configured
\* node has a controller that runs, for every number of nodes.
THEOREM ReloadIsServed == Spec => []ReloadedIsServed
<1>1. Typed /\ OrderInv => ReloadedIsServed
  <2> SUFFICES ASSUME Typed, OrderInv, crashed = "no", Idle, failure # "last", ~overlapped
               PROVE  /\ vc = "started" /\ DOMAIN controllers = 1..conf.nodes
                      /\ \A i \in 1..conf.nodes : controllers[i] \in {"up", "reloading", "lost"}
    BY DEF ReloadedIsServed
  <2>1. vc = "started" /\ AllServe /\ DOMAIN controllers = 1..conf.nodes
    BY DEF OrderInv, Orderly, Leaves, Idle, Running
  <2> QED  BY <2>1 DEF AllServe, Serving
<1> QED  BY <1>1, TypedInit, TypedStep, OrderInit, OrderNext, PTL DEF Spec
=============================================================================
