--------------------------- MODULE InboundProofs ---------------------------
(***************************************************************************)
(* What is proved of a connection in the dispatcher (Dispatch) and of the  *)
(* nodes that the two cores build (Inbound), for any sniffers, any data    *)
(* and any nodes.                                                          *)
(***************************************************************************)
EXTENDS Dispatch, Inbound, SequenceTheorems, TLAPS

Places == {"dispatch", "sniff", "route", "forward", "rejected"}

\* Two sequences of numbers joined: the second goes on where the first ends.
LEMMA Joined ==
    \A s, t \in Seq(Nat) :
        /\ s \o t \in Seq(Nat) /\ Len(s \o t) = Len(s) + Len(t)
        /\ \A i \in 1..Len(s) : (s \o t)[i] = s[i]
        /\ \A i \in 1..Len(t) : (s \o t)[Len(s) + i] = t[i]
<1> TAKE s, t \in Seq(Nat)
<1>1. /\ s \o t \in Seq(Nat) /\ Len(s \o t) = Len(s) + Len(t)
      /\ \A i \in 1..Len(s) + Len(t) : (s \o t)[i] = IF i <= Len(s) THEN s[i] ELSE t[i - Len(s)]
  BY ConcatProperties
<1>2. Len(s) \in Nat /\ Len(t) \in Nat OBVIOUS
<1>3. ASSUME NEW i \in 1..Len(s) PROVE (s \o t)[i] = s[i] BY <1>1, <1>2
<1>4. ASSUME NEW i \in 1..Len(t) PROVE (s \o t)[Len(s) + i] = t[i]
  <2>1. Len(s) + i \in 1..Len(s) + Len(t) /\ ~(Len(s) + i <= Len(s)) /\ (Len(s) + i) - Len(s) = i BY <1>2
  <2> QED BY <1>1, <2>1
<1> QED BY <1>1, <1>3, <1>4

(***************************************************************************)
(* The three places a piece can be in hold consecutive numbers: the        *)
(* outbound has the first ones, the cache goes on from there and the pipe  *)
(* from the end of the cache.  The pipe is part of it until the connection *)
(* is cut, the cache until it is rejected.                                 *)
(***************************************************************************)

ConnTyped ==
    /\ conn \in Connections
    /\ pipe \in Seq(Nat) /\ cache \in Seq(Nat) /\ out \in Seq(Nat)
    /\ sent \in 0..Pieces /\ pc \in Places /\ cut \in BOOLEAN

OutCounts == Len(out) <= sent /\ \A i \in 1..Len(out) : out[i] = i

CacheFollows ==
    pc # "rejected" =>
        /\ Len(out) + Len(cache) <= sent
        /\ \A i \in 1..Len(cache) : cache[i] = Len(out) + i

PipeFollows ==
    ~cut /\ pc # "rejected" =>
        /\ Len(out) + Len(cache) + Len(pipe) = sent
        /\ \A i \in 1..Len(pipe) : pipe[i] = Len(out) + Len(cache) + i

CutIsEmpty == cut => pipe = <<>>

FlowInv == ConnTyped /\ OutCounts /\ CacheFollows /\ PipeFollows /\ CutIsEmpty

\* Consecutive numbers: what is in order piece by piece is the sequence of all of them.
LEMMA FlowIsInOrder == FlowInv => InOrder
<1> SUFFICES ASSUME FlowInv PROVE InOrder OBVIOUS
<1> DEFINE all == [i \in 1..sent |-> i]
<1>0. /\ pipe \in Seq(Nat) /\ cache \in Seq(Nat) /\ out \in Seq(Nat) /\ sent \in Nat
  BY BoundsAssumption DEF FlowInv, ConnTyped
<1>1. all \in Seq(Nat) /\ Len(all) = sent BY <1>0
<1>2. IsPrefix(out, all)
  <2>1. Len(out) <= Len(all) BY <1>1 DEF FlowInv, OutCounts
  <2>2. SubSeq(out, 1, Len(out)) = SubSeq(all, 1, Len(out))
    BY <1>0, <1>1, <2>1 DEF FlowInv, OutCounts
  <2> QED BY <1>0, <1>1, <2>1, <2>2 DEF IsPrefix
<1>3. ASSUME ~cut, pc # "rejected" PROVE out \o cache \o pipe = all
  <2>1. /\ Len(out) + Len(cache) + Len(pipe) = sent
        /\ \A i \in 1..Len(pipe) : pipe[i] = Len(out) + Len(cache) + i
        /\ \A i \in 1..Len(cache) : cache[i] = Len(out) + i
        /\ \A i \in 1..Len(out) : out[i] = i
    BY <1>3 DEF FlowInv, PipeFollows, CacheFollows, OutCounts
  <2>2. PICK b \in Seq(Nat) : b = out \o cache BY <1>0, Joined
  <2>3. /\ Len(b) = Len(out) + Len(cache)
        /\ \A i \in 1..Len(out) : b[i] = out[i]
        /\ \A i \in 1..Len(cache) : b[Len(out) + i] = cache[i]
    BY <1>0, <2>2, Joined
  <2>4. PICK c \in Seq(Nat) : c = b \o pipe BY <1>0, Joined
  <2>5. /\ Len(c) = Len(b) + Len(pipe)
        /\ \A i \in 1..Len(b) : c[i] = b[i]
        /\ \A i \in 1..Len(pipe) : c[Len(b) + i] = pipe[i]
    BY <1>0, <2>4, Joined
  <2>6. Len(c) = sent /\ \A i \in 1..sent : c[i] = i
    <3>1. Len(c) = sent BY <1>0, <2>1, <2>3, <2>5
    <3>2. \A i \in 1..Len(b) : b[i] = i
      <4> SUFFICES ASSUME NEW i \in 1..Len(b) PROVE b[i] = i OBVIOUS
      <4>0. i \in Nat \ {0} /\ Len(out) \in Nat /\ Len(cache) \in Nat /\ i <= Len(out) + Len(cache)
        BY <1>0, <2>3
      <4>1. CASE i <= Len(out)
        <5>1. i \in 1..Len(out) BY <4>0, <4>1
        <5> QED BY <2>1, <2>3, <5>1
      <4>2. CASE i > Len(out)
        <5>1. i - Len(out) \in 1..Len(cache) /\ Len(out) + (i - Len(out)) = i BY <4>0, <4>2
        <5> QED BY <2>1, <2>3, <5>1
      <4>3. i <= Len(out) \/ i > Len(out) BY <4>0
      <4> QED BY <4>1, <4>2, <4>3
    <3>3. ASSUME NEW i \in 1..sent PROVE c[i] = i
      <4>1. CASE i <= Len(b)
        <5>1. i \in 1..Len(b) BY <1>0, <4>1
        <5> QED BY <2>5, <3>2, <5>1
      <4>2. CASE i > Len(b)
        <5>1. i - Len(b) \in 1..Len(pipe) /\ Len(b) + (i - Len(b)) = i BY <1>0, <2>1, <2>3, <4>2
        <5> QED BY <1>0, <2>1, <2>3, <2>5, <5>1
      <4> QED BY <1>0, <4>1, <4>2
    <3> QED BY <3>1, <3>3
  <2>7. c = all
    <3>1. c = [i \in 1..sent |-> c[i]] BY <1>0, <2>6
    <3> QED BY <2>6, <3>1, Zenon
  <2> QED BY <2>2, <2>4, <2>7, Zenon
<1> QED BY <1>2, <1>3 DEF InOrder

LEMMA FlowInit == Init => FlowInv
<1> SUFFICES ASSUME Init PROVE FlowInv OBVIOUS
<1>1. conn \in Connections /\ pipe = <<>> /\ cache = <<>> /\ out = <<>> /\ sent = 0 /\ pc = "dispatch"
  BY DEF Init
<1>2. cut = FALSE BY DEF Init
<1>3. pipe \in Seq(Nat) /\ cache \in Seq(Nat) /\ out \in Seq(Nat)
  BY <1>1, EmptySeq
<1>4. ConnTyped
  <2>1. sent \in 0..Pieces BY <1>1, BoundsAssumption
  <2>2. cut \in BOOLEAN BY <1>2, Zenon
  <2> QED BY <1>1, <1>3, <2>1, <2>2 DEF ConnTyped, Places
<1> QED BY <1>1, <1>2, <1>4 DEF FlowInv, OutCounts, CacheFollows, PipeFollows, CutIsEmpty

\* Found and NotFound only lead to the routing.
LEMMA SniffEnds ==
    ASSUME NotFound \/ (\E p : Found(p)) PROVE pc' = "route"
BY DEF NotFound, Found

LEMMA SniffMoves ==
    ASSUME Sniff PROVE pc' \in {"route", pc}
BY SniffEnds, Zenon DEF Sniff

\* Steps that move no piece.
LEMMA FlowStays ==
    ASSUME FlowInv, UNCHANGED <<conn, pipe, cache, out, sent, cut>>,
           pc' \in Places, pc # "rejected" \/ pc' = pc
    PROVE  FlowInv'
<1>1. ConnTyped' BY DEF FlowInv, ConnTyped
<1>2. OutCounts' BY DEF FlowInv, OutCounts
<1>3. CacheFollows' BY DEF FlowInv, CacheFollows
<1>4. PipeFollows' BY DEF FlowInv, PipeFollows
<1>5. CutIsEmpty' BY DEF FlowInv, CutIsEmpty
<1> QED BY <1>1, <1>2, <1>3, <1>4, <1>5 DEF FlowInv

LEMMA FlowStep == FlowInv /\ [Next]_vars => FlowInv'
<1> SUFFICES ASSUME FlowInv, [Next]_vars PROVE FlowInv' OBVIOUS
<1>0. /\ conn \in Connections /\ pipe \in Seq(Nat) /\ cache \in Seq(Nat) /\ out \in Seq(Nat)
      /\ sent \in Nat /\ sent <= Pieces /\ Pieces \in Nat /\ pc \in Places
      /\ Len(pipe) \in Nat /\ Len(cache) \in Nat /\ Len(out) \in Nat
  BY BoundsAssumption DEF FlowInv, ConnTyped
<1>t. cut \in BOOLEAN BY Zenon DEF FlowInv, ConnTyped
<1>o. OutCounts BY DEF FlowInv
<1>c. CacheFollows BY DEF FlowInv
<1>p. PipeFollows BY DEF FlowInv
<1>e. CutIsEmpty BY DEF FlowInv
<1>1. CASE Send
  <2>1. /\ sent < Pieces /\ ~cut /\ pc # "rejected" /\ sent' = sent + 1 /\ pipe' = Append(pipe, sent')
        /\ UNCHANGED <<conn, cache, out, pc, cut>>
    BY <1>1 DEF Send
  <2>2. /\ pipe' \in Seq(Nat) /\ Len(pipe') = Len(pipe) + 1
        /\ \A i \in 1..Len(pipe) : pipe'[i] = pipe[i]
        /\ pipe'[Len(pipe) + 1] = sent + 1
    <3>1. sent + 1 \in Nat BY <1>0
    <3> QED BY <1>0, <2>1, <3>1, AppendProperties
  <2>3. sent' \in 0..Pieces BY <1>0, <2>1
  <2>4. cut' \in BOOLEAN BY <1>t, <2>1, Zenon
  <2>5. ConnTyped' BY <1>0, <2>1, <2>2, <2>3, <2>4 DEF ConnTyped
  <2>6. OutCounts' BY <1>0, <1>o, <2>1 DEF OutCounts
  <2>7. CacheFollows' BY <1>0, <1>c, <2>1 DEF CacheFollows
  <2>8. PipeFollows'
    <3>1. /\ Len(out) + Len(cache) + Len(pipe) = sent
          /\ \A i \in 1..Len(pipe) : pipe[i] = Len(out) + Len(cache) + i
      BY <1>p, <2>1 DEF PipeFollows
    <3>2. Len(out') + Len(cache') + Len(pipe') = sent'
      <4>1. Len(out') = Len(out) /\ Len(cache') = Len(cache) BY <2>1
      <4>3. Len(out) + Len(cache) + (Len(pipe) + 1) = sent + 1
        <5>1. Len(out) + Len(cache) + Len(pipe) = sent BY <3>1
        <5>2. Len(out) \in Nat /\ Len(cache) \in Nat /\ Len(pipe) \in Nat /\ sent \in Nat BY <1>0
        <5>3. PICK a, b, c, d \in Nat : a = Len(out) /\ b = Len(cache) /\ c = Len(pipe) /\ d = sent
          BY <5>2, Zenon
        <5>4. a + b + c = d BY <5>1, <5>3, Zenon
        <5>5. a + b + (c + 1) = d + 1 BY <5>4
        <5> QED BY <5>3, <5>5, Zenon
      <4> QED BY <2>1, <2>2, <4>1, <4>3
    <3>3. ASSUME NEW i \in 1..Len(pipe') PROVE pipe'[i] = Len(out') + Len(cache') + i
      <4>1. i \in 1..Len(pipe) \/ i = Len(pipe) + 1 BY <1>0, <2>2
      <4> QED BY <1>0, <2>1, <2>2, <3>1, <4>1
    <3> QED BY <3>2, <3>3 DEF PipeFollows
  <2>9. CutIsEmpty' BY <2>1 DEF CutIsEmpty
  <2> QED BY <2>5, <2>6, <2>7, <2>8, <2>9 DEF FlowInv
<1>2. CASE CloseAll
  <2>1. cut' = TRUE /\ pipe' = <<>> /\ UNCHANGED <<conn, cache, out, sent, pc>>
    BY <1>2 DEF CloseAll
  <2>2. cut' \in BOOLEAN BY <2>1, Zenon
  <2>3. pipe' \in Seq(Nat) BY <2>1, EmptySeq
  <2>4. ConnTyped' BY <2>1, <2>2, <2>3 DEF FlowInv, ConnTyped
  <2> QED BY <1>o, <1>c, <2>1, <2>4 DEF FlowInv, OutCounts, CacheFollows, PipeFollows, CutIsEmpty
<1>3. CASE Begin
  <2>1. UNCHANGED <<conn, pipe, cache, out, sent, cut>> /\ pc = "dispatch" /\ pc' \in {"sniff", "route"}
    BY <1>3 DEF Begin
  <2> QED BY <2>1, FlowStays DEF Places
<1>4. CASE Tick
  <2>1. UNCHANGED <<conn, pipe, cache, out, sent, cut, pc>> BY <1>4 DEF Tick
  <2> QED BY <1>0, <2>1, FlowStays
<1>5. CASE ReadFails
  <2>1. UNCHANGED <<conn, pipe, cache, out, sent, cut>> /\ pc = "sniff" BY <1>5 DEF ReadFails
  <2>2. pc' = "route" BY <1>5, SniffEnds DEF ReadFails
  <2> QED BY <2>1, <2>2, FlowStays DEF Places
<1>6. CASE CacheAndSniff
  <2>1. /\ pc = "sniff" /\ pipe # <<>> /\ cache' = cache \o pipe /\ pipe' = <<>>
        /\ UNCHANGED <<conn, out, sent, cut>>
    BY <1>6 DEF CacheAndSniff, Cache
  <2>2. pc' \in {"route", "sniff"} BY <1>6, <2>1, SniffMoves DEF CacheAndSniff
  <2>3. /\ cache' \in Seq(Nat) /\ Len(cache') = Len(cache) + Len(pipe)
        /\ \A i \in 1..Len(cache) : cache'[i] = cache[i]
        /\ \A i \in 1..Len(pipe) : cache'[Len(cache) + i] = pipe[i]
    BY <1>0, <2>1, Joined
  <2>4. pipe' \in Seq(Nat) /\ Len(pipe') = 0 BY <2>1, EmptySeq
  <2>5. ~cut BY <1>e, <2>1 DEF CutIsEmpty
  <2>6. /\ Len(out) + Len(cache) + Len(pipe) = sent
        /\ \A i \in 1..Len(pipe) : pipe[i] = Len(out) + Len(cache) + i
        /\ \A i \in 1..Len(cache) : cache[i] = Len(out) + i
    BY <1>p, <1>c, <2>1, <2>5 DEF PipeFollows, CacheFollows
  <2>7. cut' \in BOOLEAN BY <1>t, <2>1, Zenon
  <2>8. ConnTyped'
    <3>1. sent' \in 0..Pieces BY <1>0, <2>1
    <3>2. pc' \in Places BY <2>2 DEF Places
    <3> QED BY <1>0, <2>1, <2>3, <2>4, <2>7, <3>1, <3>2 DEF ConnTyped
  <2>9. \A i \in 1..Len(cache') : cache'[i] = Len(out') + i
    <3> SUFFICES ASSUME NEW i \in 1..Len(cache') PROVE cache'[i] = Len(out') + i OBVIOUS
    <3>1. CASE i <= Len(cache)
      <4>1. i \in 1..Len(cache) BY <1>0, <3>1
      <4> QED BY <2>1, <2>3, <2>6, <4>1
    <3>2. CASE i > Len(cache)
      <4>1. i - Len(cache) \in 1..Len(pipe) /\ Len(cache) + (i - Len(cache)) = i BY <1>0, <2>3, <3>2
      <4>2. cache'[i] = pipe[i - Len(cache)] BY <2>3, <4>1
      <4>3. pipe[i - Len(cache)] = Len(out) + Len(cache) + (i - Len(cache)) BY <2>6, <4>1
      <4> QED BY <1>0, <2>1, <4>1, <4>2, <4>3
    <3> QED BY <1>0, <3>1, <3>2
  <2>10. CacheFollows' BY <1>0, <2>1, <2>3, <2>6, <2>9 DEF CacheFollows
  <2>11. PipeFollows' BY <1>0, <2>1, <2>3, <2>4, <2>6 DEF PipeFollows
  <2>12. OutCounts' /\ CutIsEmpty' BY <1>o, <2>1 DEF OutCounts, CutIsEmpty
  <2> QED BY <2>8, <2>10, <2>11, <2>12 DEF FlowInv
<1>7. CASE Route
  <2>1. UNCHANGED <<conn, pipe, out, sent, cut>> /\ pc = "route" BY <1>7 DEF Route
  <2>2. (pc' = "rejected" /\ cache' = <<>>) \/ (pc' = "forward" /\ cache' = cache)
    BY <1>7 DEF Route, Reject
  <2>3. CASE pc' = "forward" /\ cache' = cache BY <2>1, <2>3, FlowStays DEF Places
  <2>4. CASE pc' = "rejected" /\ cache' = <<>>
    <3>1. cache' \in Seq(Nat) BY <2>4, EmptySeq
    <3>2. ConnTyped' BY <2>1, <2>4, <3>1 DEF FlowInv, ConnTyped, Places
    <3> QED BY <1>o, <1>e, <2>1, <2>4, <3>2 DEF FlowInv, OutCounts, CacheFollows, PipeFollows, CutIsEmpty
  <2> QED BY <2>2, <2>3, <2>4
<1>8. CASE Forward
  <2>1. UNCHANGED <<conn, sent, pc, cut>> /\ pc = "forward" BY <1>8 DEF Forward
  <2>2. \/ out' = out \o cache /\ cache' = <<>> /\ pipe' = pipe
        \/ cache = <<>> /\ pipe # <<>> /\ out' = out \o pipe /\ pipe' = <<>> /\ cache' = <<>>
    BY <1>8 DEF Forward
  <2>3. cut' \in BOOLEAN BY <1>t, <2>1, Zenon
  <2>4. CASE out' = out \o cache /\ cache' = <<>> /\ pipe' = pipe
    <3>1. cache' \in Seq(Nat) /\ Len(cache') = 0 BY <2>4, EmptySeq
    <3>2. /\ out' \in Seq(Nat) /\ Len(out') = Len(out) + Len(cache)
          /\ \A i \in 1..Len(out) : out'[i] = out[i]
          /\ \A i \in 1..Len(cache) : out'[Len(out) + i] = cache[i]
      BY <1>0, <2>4, Joined
    <3>3. /\ Len(out) + Len(cache) <= sent
          /\ \A i \in 1..Len(cache) : cache[i] = Len(out) + i
      BY <1>c, <2>1 DEF CacheFollows
    <3>4. \A i \in 1..Len(out) : out[i] = i BY <1>o DEF OutCounts
    <3>5. ASSUME NEW i \in 1..Len(out') PROVE out'[i] = i
      <4>1. CASE i <= Len(out)
        <5>1. i \in 1..Len(out) BY <1>0, <4>1
        <5> QED BY <3>2, <3>4, <5>1
      <4>2. CASE i > Len(out)
        <5>1. i - Len(out) \in 1..Len(cache) /\ Len(out) + (i - Len(out)) = i BY <1>0, <3>2, <4>2
        <5> QED BY <3>2, <3>3, <5>1
      <4> QED BY <1>0, <4>1, <4>2
    <3>6. OutCounts' BY <1>0, <2>1, <3>2, <3>3, <3>5 DEF OutCounts
    <3>7. CacheFollows' BY <1>0, <2>1, <3>1, <3>2, <3>3 DEF CacheFollows
    <3>8. PipeFollows' BY <1>0, <1>p, <2>1, <2>4, <3>1, <3>2 DEF PipeFollows
    <3>9. CutIsEmpty' BY <1>e, <2>1, <2>4 DEF CutIsEmpty
    <3>10. ConnTyped' BY <2>1, <2>3, <2>4, <3>1, <3>2 DEF FlowInv, ConnTyped
    <3> QED BY <3>6, <3>7, <3>8, <3>9, <3>10 DEF FlowInv
  <2>5. CASE cache = <<>> /\ pipe # <<>> /\ out' = out \o pipe /\ pipe' = <<>> /\ cache' = <<>>
    <3>1. cache' \in Seq(Nat) /\ Len(cache') = 0 /\ pipe' \in Seq(Nat) /\ Len(pipe') = 0 /\ Len(cache) = 0
      BY <2>5, EmptySeq
    <3>2. /\ out' \in Seq(Nat) /\ Len(out') = Len(out) + Len(pipe)
          /\ \A i \in 1..Len(out) : out'[i] = out[i]
          /\ \A i \in 1..Len(pipe) : out'[Len(out) + i] = pipe[i]
      BY <1>0, <2>5, Joined
    <3>3. ~cut BY <1>e, <2>5 DEF CutIsEmpty
    <3>4. /\ Len(out) + Len(pipe) = sent
          /\ \A i \in 1..Len(pipe) : pipe[i] = Len(out) + i
      BY <1>0, <1>p, <2>1, <3>1, <3>3 DEF PipeFollows
    <3>5. \A i \in 1..Len(out) : out[i] = i BY <1>o DEF OutCounts
    <3>6. ASSUME NEW i \in 1..Len(out') PROVE out'[i] = i
      <4>1. CASE i <= Len(out)
        <5>1. i \in 1..Len(out) BY <1>0, <4>1
        <5> QED BY <3>2, <3>5, <5>1
      <4>2. CASE i > Len(out)
        <5>1. i - Len(out) \in 1..Len(pipe) /\ Len(out) + (i - Len(out)) = i BY <1>0, <3>2, <4>2
        <5> QED BY <3>2, <3>4, <5>1
      <4> QED BY <1>0, <4>1, <4>2
    <3>7. OutCounts' BY <1>0, <2>1, <3>2, <3>4, <3>6 DEF OutCounts
    <3>8. CacheFollows' BY <1>0, <2>1, <3>1, <3>2, <3>4 DEF CacheFollows
    <3>9. PipeFollows' BY <1>0, <2>1, <3>1, <3>2, <3>4 DEF PipeFollows
    <3>10. CutIsEmpty' BY <2>5 DEF CutIsEmpty
    <3>11. ConnTyped' BY <2>1, <2>3, <2>5, <3>1, <3>2 DEF FlowInv, ConnTyped
    <3> QED BY <3>7, <3>8, <3>9, <3>10, <3>11 DEF FlowInv
  <2> QED BY <2>2, <2>4, <2>5
<1>9. CASE UNCHANGED vars
  <2>1. UNCHANGED <<conn, pipe, cache, out, sent, cut, pc>> BY <1>9 DEF vars
  <2> QED BY <1>0, <2>1, FlowStays
<1> QED BY <1>1, <1>2, <1>3, <1>4, <1>5, <1>6, <1>7, <1>8, <1>9 DEF Next, Sniffing

\* What the outbound of the dispatcher reads is what the client sent: the cache that sniffing
\* leaves (cachedReader) is handed over first and once, whatever was read before the routing
\* and whenever the links of the user are closed.
THEOREM DispatchInOrder == Spec => []InOrder
<1>1. Spec => []FlowInv BY FlowInit, FlowStep, PTL DEF Spec
<1> QED BY <1>1, FlowIsInOrder, PTL

(***************************************************************************)
(* A connection that some sniffer recognises from the first piece as       *)
(* something that the rules of its node block, while no sniffer before it  *)
(* ever takes it for something else.  Until it is routed nothing was       *)
(* dropped from pending and the waiting is what the budget has lost, so a  *)
(* timeout cannot come before the budget is used up; whichever sniffer     *)
(* decides, its result is blocked.                                         *)
(***************************************************************************)

Tells == \E i \in DOMAIN Sniffers : FoundAtOnce(i) /\ \A j \in 1..(i - 1) : NeverMistakes(j)

InTime == conn.sniffing /\ Tells /\ budget > 0 /\ ~cut

BlockInv ==
    /\ budget \in Nat /\ waited \in Nat
    /\ InTime =>
        /\ pc # "forward" /\ out = <<>>
        /\ pc \in {"dispatch", "sniff"} => pending = ToSet(Sniffers) /\ waited + budget = Budget
        /\ pc = "route" => Blocked

\* Steps that leave the sniffing alone.
LEMMA BlockStays ==
    ASSUME BlockInv, UNCHANGED <<conn, pending, budget, waited, proto, dest, out>>, cut => cut',
           pc' = pc \/ (pc = "dispatch" /\ pc' = "sniff") \/ pc' = "rejected"
    PROVE  BlockInv'
BY DEF BlockInv, InTime, Tells, FoundAtOnce, NeverMistakes, Blocks, DestOf, Blocked

LEMMA BlockInit == Init => BlockInv
<1> SUFFICES ASSUME Init PROVE BlockInv OBVIOUS
<1>1. out = <<>> /\ pc = "dispatch" /\ pending = ToSet(Sniffers) /\ budget = Budget /\ waited = 0
  BY DEF Init
<1>2. budget \in Nat /\ waited \in Nat /\ waited + budget = Budget BY <1>1, BoundsAssumption
<1> QED BY <1>1, <1>2 DEF BlockInv

LEMMA BlockStep == FlowInv /\ BlockInv /\ [Next]_vars => BlockInv'
<1> SUFFICES ASSUME FlowInv, BlockInv, [Next]_vars PROVE BlockInv' OBVIOUS
<1>0. budget \in Nat /\ waited \in Nat /\ Budget \in Nat /\ Second \in Nat /\ Second > Budget
  BY BoundsAssumption DEF BlockInv
<1>1. CASE Send
  <2>1. UNCHANGED <<conn, pending, budget, waited, proto, dest, out, cut, pc>> BY <1>1 DEF Send, sniffing
  <2> QED BY <2>1, BlockStays
<1>2. CASE CloseAll
  <2>1. UNCHANGED <<conn, pending, budget, waited, proto, dest, out, pc>> /\ cut' BY <1>2 DEF CloseAll, sniffing
  <2> QED BY <2>1, BlockStays
<1>3. CASE Begin
  <2>1. UNCHANGED <<conn, pending, budget, waited, proto, dest, out, cut>> BY <1>3 DEF Begin, sniffing
  <2>2. pc = "dispatch" /\ pc' = IF conn.sniffing THEN "sniff" ELSE "route" BY <1>3 DEF Begin
  <2>3. CASE conn.sniffing BY <2>1, <2>2, <2>3, BlockStays
  <2>4. CASE ~conn.sniffing
    <3>1. ~InTime' BY <2>1, <2>4 DEF InTime
    <3> QED BY <1>0, <2>1, <3>1 DEF BlockInv
  <2> QED BY <2>3, <2>4
<1>4. CASE Tick
  <2>1. /\ UNCHANGED <<conn, pending, proto, dest, out, cut, pc>> /\ pc = "sniff"
        /\ waited' = waited + 1 /\ budget' = IF budget > 0 THEN budget - 1 ELSE 0
    BY <1>4 DEF Tick
  <2>2. budget' \in Nat /\ waited' \in Nat BY <1>0, <2>1
  <2>3. ASSUME InTime' PROVE InTime /\ waited' + budget' = waited + budget
    <3>1. budget > 0 BY <1>0, <2>1, <2>3 DEF InTime
    <3>2. InTime BY <2>1, <2>3, <3>1 DEF InTime, Tells, FoundAtOnce, NeverMistakes, Blocks, DestOf
    <3> QED BY <1>0, <2>1, <3>1, <3>2
  <2> QED BY <2>1, <2>2, <2>3 DEF BlockInv
<1>5. CASE ReadFails
  <2>1. /\ UNCHANGED <<conn, pending, budget, waited, out, cut>> /\ pc = "sniff"
        /\ Expired \/ cut
    BY <1>5 DEF ReadFails, sniffing
  <2>2. ~InTime'
    <3> SUFFICES ASSUME InTime' PROVE FALSE OBVIOUS
    <3>1. InTime /\ budget > 0 /\ Expired BY <2>1 DEF InTime, Tells, FoundAtOnce, NeverMistakes, Blocks, DestOf
    <3>2. waited + budget = Budget BY <2>1, <3>1 DEF BlockInv
    <3> QED BY <1>0, <3>1, <3>2 DEF Expired
  <2> QED BY <1>0, <2>1, <2>2 DEF BlockInv
<1>6. CASE CacheAndSniff
  <2>1. /\ pc = "sniff" /\ pipe # <<>> /\ cache' = cache \o pipe
        /\ UNCHANGED <<conn, out, sent, budget, cut>> /\ Sniff
    BY <1>6 DEF CacheAndSniff, Cache
  <2>2. waited' \in Nat
    <3>1. waited' = waited \/ waited' = 0 BY <2>1, Zenon DEF Sniff
    <3> QED BY <1>0, <3>1
  <2>3. ASSUME InTime' PROVE pc' = "route" /\ out' = <<>> /\ Blocked'
    <3>1. InTime BY <2>1, <2>3 DEF InTime, Tells, FoundAtOnce, NeverMistakes, Blocks, DestOf
    <3>2. pending = ToSet(Sniffers) /\ out = <<>> BY <2>1, <3>1 DEF BlockInv
    <3>3. Len(cache') \in 1..Pieces
      <4>1. /\ pipe \in Seq(Nat) /\ cache \in Seq(Nat) /\ out \in Seq(Nat)
            /\ sent \in 0..Pieces /\ Pieces \in Nat
        BY BoundsAssumption DEF FlowInv, ConnTyped
      <4>2. Len(cache') = Len(cache) + Len(pipe) BY <2>1, <4>1, Joined
      <4>3. Len(pipe) > 0 BY <2>1, <4>1, EmptySeq
      <4>4. Len(out) + Len(cache) + Len(pipe) = sent
        BY <2>1, <3>1 DEF FlowInv, PipeFollows, InTime
      <4>5. Len(out) \in Nat /\ Len(cache) \in Nat /\ Len(pipe) \in Nat BY <4>1
      <4>6. \A a, b, c \in Nat, d \in 0..Pieces : a + b + c = d /\ c > 0 => b + c \in 1..Pieces
        BY <4>1
      <4> QED BY <4>1, <4>2, <4>3, <4>4, <4>5, <4>6, Zenon
    <3>4. PICK i \in DOMAIN Sniffers : FoundAtOnce(i) /\ \A j \in 1..(i - 1) : NeverMistakes(j)
      BY <3>1 DEF InTime, Tells
    <3>5. Sniffers[i] \in pending /\ Says(Sniffers[i]) = "match"
      <4>1. Sniffers[i] \in ToSet(Sniffers) BY DEF ToSet
      <4> QED BY <2>1, <3>2, <3>3, <3>4, <4>1 DEF Says, FoundAtOnce
    <3>6. PICK k \in DOMAIN Sniffers :
            /\ Says(Sniffers[k]) = "match" /\ Found(Sniffers[k])
            /\ \A j \in 1..(k - 1) : ~(Sniffers[j] \in pending /\ Says(Sniffers[j]) = "match")
      BY <2>1, <3>5 DEF Sniff
    <3>7. Blocks(Sniffers[k], DestOf(Sniffers[k]))
      <4>1. i \in Nat /\ k \in Nat /\ i >= 1 /\ k >= 1 BY SniffersAssumption
      <4>2. ~(i \in 1..(k - 1)) BY <3>5, <3>6
      <4>3. k = i \/ k \in 1..(i - 1) BY <4>1, <4>2
      <4>4. CASE k = i BY <3>4, <4>4 DEF FoundAtOnce
      <4>5. CASE k \in 1..(i - 1)
        <5>1. ~(\A n \in 1..Pieces : conn.says[Sniffers[k]][n] # "match") BY <2>1, <3>3, <3>6 DEF Says
        <5> QED BY <3>4, <4>5, <5>1 DEF NeverMistakes
      <4> QED BY <4>3, <4>4, <4>5
    <3>8. pc' = "route" /\ proto' = Sniffers[k] /\ dest' = DestOf(Sniffers[k])
      BY <3>6 DEF Found
    <3>9. Blocked' BY <2>1, <3>7, <3>8 DEF Blocked, Blocks
    <3> QED BY <2>1, <3>2, <3>8, <3>9
  <2>4. budget' \in Nat BY <1>0, <2>1
  <2> QED BY <2>2, <2>3, <2>4 DEF BlockInv
<1>7. CASE Route
  <2>1. UNCHANGED <<conn, pending, budget, waited, proto, dest, out, cut>> /\ pc = "route"
    BY <1>7 DEF Route, sniffing
  <2>2. pc' = "rejected" \/ (~Blocked /\ pc' = "forward") BY <1>7 DEF Route, Reject
  <2>3. CASE pc' = "rejected" BY <2>1, <2>3, BlockStays
  <2>4. CASE ~Blocked
    <3>1. ~InTime BY <2>1, <2>4 DEF BlockInv
    <3>2. ~InTime' BY <2>1, <3>1 DEF InTime, Tells, FoundAtOnce, NeverMistakes, Blocks, DestOf
    <3> QED BY <1>0, <2>1, <3>2 DEF BlockInv
  <2> QED BY <2>2, <2>3, <2>4
<1>8. CASE Forward
  <2>1. UNCHANGED <<conn, budget, waited, cut>> /\ pc = "forward" BY <1>8 DEF Forward, sniffing
  <2>2. ~InTime' BY <2>1 DEF BlockInv, InTime, Tells, FoundAtOnce, NeverMistakes, Blocks, DestOf
  <2> QED BY <1>0, <2>1, <2>2 DEF BlockInv
<1>9. CASE UNCHANGED vars
  <2>1. UNCHANGED <<conn, pending, budget, waited, proto, dest, out, cut, pc>> BY <1>9 DEF vars
  <2> QED BY <2>1, BlockStays
<1> QED BY <1>1, <1>2, <1>3, <1>4, <1>5, <1>6, <1>7, <1>8, <1>9 DEF Next, Sniffing

\* A connection whose protocol the rules name (CheckProtocolRule), or whose domain or address
\* they block, sends nothing to an outbound as long as its sniffing is in time and no sniffer
\* asked earlier takes it for something else (Sniff returns the first match): for any number
\* of sniffers in any order and any course of their verdicts.
THEOREM DispatchBlockedStaysOut == Spec => []BlockedStaysOut
<1>1. FlowInv /\ BlockInv => BlockedStaysOut
  BY DEF BlockInv, BlockedStaysOut, InTime, Tells
<1>2. Spec => [](FlowInv /\ BlockInv)
  BY FlowInit, FlowStep, BlockInit, BlockStep, PTL DEF Spec
<1> QED BY <1>1, <1>2, PTL

-----------------------------------------------------------------------------
(***************************************************************************)
(* The two cores: each has built nothing yet or what its builder makes of  *)
(* the node.                                                               *)
(***************************************************************************)

BuiltInv ==
    /\ info \in Infos
    /\ xray \in {Pending, buildInbound(info, option)}
    /\ sing \in {Pending, getInboundOptions(info, option)}

\* A node of these types in the xray core.
LEMMA XrayIs ==
    ASSUME NEW i, NEW o, NEW b,
           \/ i.type = "trojan" /\ b = buildTrojan(i, o)
           \/ i.type \in {"vmess", "vless"} /\ b = buildV2ray(i, o)
    PROVE  buildInbound(i, o) =
             IF b.outcome = "error" THEN Error
             ELSE IF b.stream = "nil" THEN Panic
             ELSE IF i.security = Tls /\ o.certMode = "nil" THEN Error
             ELSE [outcome |-> "ok",
                   transport |-> IF b.network = "tcp" /\ i.header # "" THEN "http" ELSE b.network,
                   listener |-> Listener(b.network, o),
                   security |-> XraySecurity(i, o),
                   target |-> IF i.security = Reality THEN <<Dest(i), i.port, i.xver>> ELSE <<>>,
                   decryption |-> b.decryption,
                   password |-> "",
                   user |-> <<>>]
<1>1. (CASE i.type \in {"vmess", "vless"} -> buildV2ray(i, o)
         [] i.type = "trojan"             -> buildTrojan(i, o)
         [] i.type = "shadowsocks"        -> buildShadowsocks(i)
         [] OTHER                         -> Error) = b
  OBVIOUS
<1>2. i.type # "shadowsocks"
  OBVIOUS
<1> QED  BY <1>1, <1>2 DEF buildInbound

LEMMA TrojanSettings ==
    ASSUME NEW i, NEW o
    PROVE  LET network == IF i.network = "" THEN "tcp" ELSE i.network
               b == buildTrojan(i, o)
           IN  \/ b = Error
               \/ /\ network \in {"tcp", "ws", "grpc"}
                  /\ b = [outcome |-> "ok", stream |-> network, network |-> network, decryption |-> "none"]
<1> DEFINE network == IF i.network = "" THEN "tcp" ELSE i.network
           b == buildTrojan(i, o)
           bad == \/ o.fallback # "off" /\ FallbackFails(o)
                  \/ network \notin {"tcp", "ws", "grpc"}
                  \/ i.settings \in {"absent", "malformed"}
<1>1. b = IF bad THEN Error
          ELSE [outcome |-> "ok", stream |-> network, network |-> network, decryption |-> "none"]
  BY Zenon DEF buildTrojan
<1>2. ~bad => network \in {"tcp", "ws", "grpc"}
  OBVIOUS
<1> HIDE DEF bad, b, network
<1>3. \/ b = Error
      \/ /\ network \in {"tcp", "ws", "grpc"}
         /\ b = [outcome |-> "ok", stream |-> network, network |-> network, decryption |-> "none"]
  BY <1>1, <1>2
<1> QED  BY <1>3 DEF b, network

\* A trojan node that the xray core accepts.
LEMMA XrayTrojan ==
    ASSUME NEW i, NEW o, i.type = "trojan", NEW r, r = buildInbound(i, o), r.outcome = "ok"
    PROVE  LET network == IF i.network = "" THEN "tcp" ELSE i.network
           IN  /\ r.security = XraySecurity(i, o) /\ r.password = ""
               /\ r.target = IF i.security = Reality THEN <<Dest(i), i.port, i.xver>> ELSE <<>>
               /\ i.header = "" => r.transport = network
               /\ network \in {"tcp", "ws", "grpc"}
<1> DEFINE network == IF i.network = "" THEN "tcp" ELSE i.network
<1>1. PICK b : b = buildTrojan(i, o)
  OBVIOUS
<1>2. \/ b = Error
      \/ /\ network \in {"tcp", "ws", "grpc"}
         /\ b = [outcome |-> "ok", stream |-> network, network |-> network, decryption |-> "none"]
  BY <1>1, TrojanSettings, Zenon
<1> HIDE DEF network
<1> DEFINE x == [outcome |-> "ok",
                 transport |-> IF b.network = "tcp" /\ i.header # "" THEN "http" ELSE b.network,
                 listener |-> Listener(b.network, o),
                 security |-> XraySecurity(i, o),
                 target |-> IF i.security = Reality THEN <<Dest(i), i.port, i.xver>> ELSE <<>>,
                 decryption |-> b.decryption,
                 password |-> "",
                 user |-> <<>>]
<1>3. r = IF b.outcome = "error" THEN Error
          ELSE IF b.stream = "nil" THEN Panic
          ELSE IF i.security = Tls /\ o.certMode = "nil" THEN Error
          ELSE x
  BY <1>1, XrayIs, Zenon
<1>4. /\ x.security = XraySecurity(i, o) /\ x.password = ""
      /\ x.target = IF i.security = Reality THEN <<Dest(i), i.port, i.xver>> ELSE <<>>
      /\ x.transport = IF b.network = "tcp" /\ i.header # "" THEN "http" ELSE b.network
  OBVIOUS
<1> HIDE DEF x
<1>5. r = x /\ b.outcome # "error"
  BY <1>3 DEF Error, Panic
<1>6. network \in {"tcp", "ws", "grpc"} /\ b.network = network
  BY <1>2, <1>5 DEF Error
<1>7. i.header = "" => r.transport = network
  BY <1>4, <1>5, <1>6
<1> QED  BY <1>4, <1>5, <1>6, <1>7 DEF network

\* A vmess or vless node that the xray core accepts.
LEMMA XrayV2ray ==
    ASSUME NEW i, NEW o, i.type = "vmess" \/ i.type = "vless", NEW r, r = buildInbound(i, o), r.outcome = "ok"
    PROVE  /\ r.security = XraySecurity(i, o) /\ r.password = ""
           /\ r.target = IF i.security = Reality THEN <<Dest(i), i.port, i.xver>> ELSE <<>>
           /\ i.network = "tcp" /\ i.header # "" => r.transport = "http"
           /\ i.network # "tcp" \/ i.header = "" => r.transport = i.network
<1>1. PICK b : b = buildV2ray(i, o)
  OBVIOUS
<1> DEFINE d == Decryption(i, o)
           none == [outcome |-> "ok", stream |-> "nil", network |-> i.network, decryption |-> d]
           some == [outcome |-> "ok", stream |-> i.network, network |-> i.network, decryption |-> d]
<1>2. b \in {Error, none, some}
  <2> DEFINE wrong == i.type = "vless" /\ IF o.fallback = "off" THEN i.encryption = "unknown" ELSE FallbackFails(o)
             bad == \/ i.network \notin {"tcp", "ws", "grpc", "httpupgrade", "splithttp", "xhttp"}
                    \/ i.settings = "malformed"
  <2>1. b = IF wrong THEN Error
            ELSE IF i.settings = "absent" THEN none
            ELSE IF bad THEN Error ELSE some
    BY <1>1, Zenon DEF buildV2ray
  <2> HIDE DEF wrong, bad, none, some
  <2> QED  BY <2>1
<1>3. /\ none.stream = "nil"
      /\ some.network = i.network
  OBVIOUS
<1> HIDE DEF d, none, some
<1> DEFINE x == [outcome |-> "ok",
                 transport |-> IF b.network = "tcp" /\ i.header # "" THEN "http" ELSE b.network,
                 listener |-> Listener(b.network, o),
                 security |-> XraySecurity(i, o),
                 target |-> IF i.security = Reality THEN <<Dest(i), i.port, i.xver>> ELSE <<>>,
                 decryption |-> b.decryption,
                 password |-> "",
                 user |-> <<>>]
<1>4. r = IF b.outcome = "error" THEN Error
          ELSE IF b.stream = "nil" THEN Panic
          ELSE IF i.security = Tls /\ o.certMode = "nil" THEN Error
          ELSE x
  BY <1>1, XrayIs, Zenon
<1>5. /\ x.security = XraySecurity(i, o) /\ x.password = ""
      /\ x.target = IF i.security = Reality THEN <<Dest(i), i.port, i.xver>> ELSE <<>>
      /\ x.transport = IF b.network = "tcp" /\ i.header # "" THEN "http" ELSE b.network
  OBVIOUS
<1> HIDE DEF x
<1>6. r = x /\ b.outcome # "error" /\ b.stream # "nil"
  BY <1>4 DEF Error, Panic
<1>7. b = some
  BY <1>2, <1>3, <1>6 DEF Error
<1> QED  BY <1>3, <1>5, <1>6, <1>7

\* What a node that the xray core accepts is made of.
LEMMA XrayBuilds ==
    ASSUME NEW i, NEW o, Built(buildInbound(i, o))
    PROVE  LET r == buildInbound(i, o) IN
           /\ r.security = XraySecurity(i, o)
           /\ r.target = IF i.security = Reality THEN <<Dest(i), i.port, i.xver>> ELSE <<>>
           /\ r.password = IF i.type = "shadowsocks" THEN i.serverKey ELSE ""
           /\ i.type \in {"vmess", "vless", "trojan", "shadowsocks"}
           /\ i.type \in {"vmess", "vless"} =>
                r.transport = IF i.network = "tcp" /\ i.header # "" THEN "http" ELSE i.network
           /\ i.type = "trojan" /\ i.header = "" =>
                /\ r.transport = IF i.network = "" THEN "tcp" ELSE i.network
                /\ i.network \in {"", "tcp", "ws", "grpc"}
           /\ i.type = "shadowsocks" /\ i.header = "" => r.transport = "tcp"
<1> DEFINE r == buildInbound(i, o)
<1>0. r.outcome = "ok" BY DEF Built
<1>1. CASE i.type \in {"vmess", "vless"}
  <2>1. /\ r.security = XraySecurity(i, o) /\ r.password = ""
        /\ r.target = IF i.security = Reality THEN <<Dest(i), i.port, i.xver>> ELSE <<>>
        /\ i.network = "tcp" /\ i.header # "" => r.transport = "http"
        /\ i.network # "tcp" \/ i.header = "" => r.transport = i.network
    BY <1>0, <1>1, XrayV2ray, Zenon
  <2>2. i.type \notin {"trojan", "shadowsocks"}
    BY <1>1
  <2> HIDE DEF r
  <2> QED  BY <1>1, <2>1, <2>2 DEF r
<1>2. CASE i.type = "trojan"
  <2> DEFINE network == IF i.network = "" THEN "tcp" ELSE i.network
  <2>1. /\ r.security = XraySecurity(i, o) /\ r.password = ""
        /\ r.target = IF i.security = Reality THEN <<Dest(i), i.port, i.xver>> ELSE <<>>
        /\ i.header = "" => r.transport = network
        /\ network \in {"tcp", "ws", "grpc"}
    BY <1>0, <1>2, XrayTrojan, Zenon
  <2>2. i.network \in {"", "tcp", "ws", "grpc"}
    BY <2>1
  <2>3. i.type \in {"vmess", "vless", "trojan", "shadowsocks"} /\ i.type \notin {"vmess", "vless", "shadowsocks"}
    BY <1>2
  <2> HIDE DEF r
  <2> QED  BY <1>2, <2>1, <2>2, <2>3 DEF r
<1>3. CASE i.type = "shadowsocks"
  BY <1>0, <1>3 DEF buildInbound, buildShadowsocks, Error, Panic
<1>4. CASE i.type \notin {"vmess", "vless", "trojan", "shadowsocks"}
  BY <1>0, <1>4 DEF buildInbound, Error, Panic
<1> QED BY <1>1, <1>2, <1>3, <1>4

\* What a node that the sing core accepts is made of.
LEMMA SingBuilds ==
    ASSUME NEW i, NEW o, Built(getInboundOptions(i, o))
    PROVE  LET r == getInboundOptions(i, o) IN
           /\ r.security = singTls(i, o).security
           /\ r.target = singTls(i, o).target
           /\ r.password = IF i.type = "shadowsocks" /\ Is2022(i.cipher) THEN i.serverKey ELSE ""
           /\ i.type \in {"vmess", "vless"} =>
                r.transport = IF i.network = "tcp" /\ i.header # "" THEN "http" ELSE i.network
           /\ i.type = "trojan" => r.transport = IF i.network \in {"ws", "grpc"} THEN i.network ELSE "tcp"
           /\ i.type = "shadowsocks" => r.transport = "tcp"
<1> DEFINE r == getInboundOptions(i, o)
<1>0. r.outcome = "ok" BY DEF Built
<1>1. CASE i.type \in {"vmess", "vless"}
  BY <1>0, <1>1 DEF getInboundOptions, singV2ray, Error
<1>2. CASE i.type = "trojan"
  BY <1>0, <1>2 DEF getInboundOptions, singTrojan, Error
<1>3. CASE i.type = "shadowsocks"
  BY <1>0, <1>3 DEF getInboundOptions, singShadowsocks, Error
<1>4. CASE i.type \notin {"vmess", "vless", "trojan", "shadowsocks"}
  BY <1>0, <1>4 DEF getInboundOptions, Error
<1> QED BY <1>1, <1>2, <1>3, <1>4

\* The security layers agree; a port and an xver that fit are not cut.
LEMMA SecurityAgrees ==
    ASSUME NEW i, NEW o
    PROVE  /\ XraySecurity(i, o) = singTls(i, o).security
           /\ singTls(i, o).target = IF i.security = Reality THEN <<Dest(i), i.port % Ports, i.xver % 256>> ELSE <<>>
<1>1. CASE i.security = Reality BY <1>1 DEF XraySecurity, singTls, Reality, Tls
<1>2. CASE i.security = Tls /\ ~Plain(o) BY <1>2 DEF XraySecurity, singTls, Reality, Tls
<1>3. CASE i.security # Reality /\ ~(i.security = Tls /\ ~Plain(o))
  BY <1>3 DEF XraySecurity, singTls
<1> QED BY <1>1, <1>2, <1>3 DEF Reality, Tls

LEMMA Remainder ==
    ASSUME NEW m \in Nat \ {0}, NEW n \in 0..(m - 1) PROVE n % m = n
OBVIOUS

LEMMA NotCut == (\A n \in 0..(Ports - 1) : n % Ports = n) /\ (\A n \in 0..255 : n % 256 = n)
<1>1. \A n \in 0..(Ports - 1) : n % Ports = n
  <2>1. Ports \in Nat \ {0}
    BY DEF Ports
  <2> QED  BY <2>1, Remainder
<1>2. \A n \in 0..255 : n % 256 = n
  OBVIOUS
<1> QED  BY <1>1, <1>2

\* A node that both cores accept is the same node in both (buildInbound of the xray core and
\* getInboundOptions of the sing core): transport, security, reality target and, for a
\* Shadowsocks node whose key fits its cipher, the password.  For every node and all options.
THEOREM InboundCoresAgree == NodeSpec => []CoresAgree
<1>1. NodeInit => BuiltInv BY DEF NodeInit, BuiltInv
<1>2. BuiltInv /\ [NodeNext]_nodeVars => BuiltInv'
  BY DEF BuiltInv, NodeNext, nodeVars, AddToXray, AddToSing
<1>3. BuiltInv => CoresAgree
  <2> SUFFICES ASSUME BuiltInv PROVE CoresAgree OBVIOUS
  <2> DEFINE Fits == info.port \in 0..(Ports - 1) /\ info.xver \in 0..255
             Both == Built(xray) /\ Built(sing)
             SameTransport == xray.transport = sing.transport \/ (info.type = "trojan" /\ info.header # "")
             SameSecurity == xray.security = sing.security
             SameTarget == xray.target = sing.target
             Keyed == Is2022(info.cipher) <=> info.serverKey # ""
             SamePassword == xray.password = sing.password
  <2>1. ASSUME Both PROVE /\ xray = buildInbound(info, option) /\ sing = getInboundOptions(info, option)
                          /\ info \in Infos
    <3>1. Pending.outcome # "ok" BY DEF Pending
    <3>2. xray # Pending /\ sing # Pending BY <2>1, <3>1, Zenon DEF Built
    <3> QED BY <3>2, Zenon DEF BuiltInv
  <2>x. ASSUME Both
        PROVE  /\ xray.security = XraySecurity(info, option)
               /\ xray.target = IF info.security = Reality THEN <<Dest(info), info.port, info.xver>> ELSE <<>>
               /\ xray.password = IF info.type = "shadowsocks" THEN info.serverKey ELSE ""
               /\ info.type \in {"vmess", "vless", "trojan", "shadowsocks"}
               /\ info.type \in {"vmess", "vless"} =>
                    xray.transport = IF info.network = "tcp" /\ info.header # "" THEN "http" ELSE info.network
               /\ info.type = "trojan" /\ info.header = "" =>
                    /\ xray.transport = IF info.network = "" THEN "tcp" ELSE info.network
                    /\ info.network \in {"", "tcp", "ws", "grpc"}
               /\ info.type = "shadowsocks" /\ info.header = "" => xray.transport = "tcp"
    <3>1. xray = buildInbound(info, option) /\ Built(buildInbound(info, option)) BY <2>1, <2>x
    <3> QED BY <3>1, XrayBuilds
  <2>s. ASSUME Both
        PROVE  /\ sing.security = singTls(info, option).security
               /\ sing.target = singTls(info, option).target
               /\ sing.password = IF info.type = "shadowsocks" /\ Is2022(info.cipher) THEN info.serverKey ELSE ""
               /\ info.type \in {"vmess", "vless"} =>
                    sing.transport = IF info.network = "tcp" /\ info.header # "" THEN "http" ELSE info.network
               /\ info.type = "trojan" =>
                    sing.transport = IF info.network \in {"ws", "grpc"} THEN info.network ELSE "tcp"
               /\ info.type = "shadowsocks" => sing.transport = "tcp"
    <3>1. sing = getInboundOptions(info, option) /\ Built(getInboundOptions(info, option)) BY <2>1, <2>s
    <3> QED BY <3>1, SingBuilds
  <2>2. ASSUME Both PROVE SameTransport
    <3>1. info.type = "shadowsocks" => info.header = "" BY <2>1, <2>2, InfosAssumption
    <3> QED BY <2>2, <2>x, <2>s, <3>1
  <2>3. ASSUME Both PROVE SameSecurity
    <3>1. xray.security = XraySecurity(info, option) BY <2>3, <2>x
    <3>2. sing.security = singTls(info, option).security BY <2>3, <2>s
    <3>3. XraySecurity(info, option) = singTls(info, option).security BY SecurityAgrees
    <3> QED BY <3>1, <3>2, <3>3
  <2>4. ASSUME Both, Fits PROVE SameTarget
    <3>1. PICK p \in 0..(Ports - 1), v \in 0..255 : p = info.port /\ v = info.xver BY <2>4
    <3>2. p % Ports = p /\ v % 256 = v BY NotCut
    <3>3. xray.target = IF info.security = Reality THEN <<Dest(info), p, v>> ELSE <<>>
      BY <2>4, <2>x, <3>1
    <3>4. sing.target = singTls(info, option).target BY <2>4, <2>s
    <3>5. singTls(info, option).target
            = IF info.security = Reality THEN <<Dest(info), info.port % Ports, info.xver % 256>> ELSE <<>>
      BY SecurityAgrees
    <3> QED BY <3>1, <3>2, <3>3, <3>4, <3>5
  <2>5. ASSUME Both, Keyed PROVE SamePassword BY <2>5, <2>x, <2>s
  <2> QED BY <2>2, <2>3, <2>4, <2>5, PTL DEF CoresAgree
<1> QED BY <1>1, <1>2, <1>3, PTL DEF NodeSpec

=============================================================================
