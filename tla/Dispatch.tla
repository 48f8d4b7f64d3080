------------------------------ MODULE Dispatch ------------------------------
(***************************************************************************)
(* One connection in the dispatcher of the xray core                       *)
(* (core/xray/app/dispatcher): what the client sends first is read into a  *)
(* cache and sniffed, the rules of the node are applied to what was found, *)
(* and the outbound reads the cache before the link.  Dispatch hands over  *)
(* a pipe; DispatchLink the link itself behind a CounterReader, which      *)
(* waits a second whatever deadline it is given.  Pieces of data are       *)
(* numbered.  What a protocol's sniffer says to the first n pieces is      *)
(* external and any.  Limits and counters are in XrayUsers.                *)
(***************************************************************************)
EXTENDS Naturals, Sequences, SequencesExt

CONSTANTS
    Sniffers,    \* a sequence: the order in which they are asked
    Connections, \* the connections considered, see Connection
    Pieces,      \* bound: pieces the client sends
    Budget,      \* the 200 ms of sniffing, in ticks
    Second       \* the wait of CounterReader, in ticks

ASSUME SniffersAssumption == Sniffers \in Seq(STRING)

ASSUME BoundsAssumption == Pieces \in Nat \ {0} /\ Budget \in Nat \ {0}
                            /\ Second \in Nat /\ Second > Budget

Verdicts == {"no clue", "need more", "no", "match"}

\* What can be found, by the name of its protocol: by a sniffer, or by the fake DNS from the
\* address alone.
Results == ToSet(Sniffers) \cup {"fakedns"}

\* The rules of the node: whether it blocks the address asked for, the protocols it names, and
\* the results whose domain it blocks.  override: the results that shouldOverride accepts.
Connection ==
    [link : BOOLEAN, sniffing : BOOLEAN, fakeDNS : BOOLEAN, override : SUBSET Results,
     says : [ToSet(Sniffers) -> [1..Pieces -> Verdicts]],
     rules : [target : BOOLEAN, protocols : SUBSET Results, domains : SUBSET Results],
     route : {"default", "tag", "missing"}]

ASSUME ConnectionsAssumption == Connections \subseteq Connection

VARIABLES
    conn,
    pipe,     \* pieces sent and not read
    cache, out,
    sent,     \* number of pieces sent
    pc,
    pending,  \* sniffers still asked
    attempts, budget, waited,
    proto,    \* the protocol found, or ""
    dest,     \* "target", or the result whose domain has overridden it
    cut       \* CloseAll of the user's links

vars == <<conn, pipe, cache, out, sent, pc, pending, attempts, budget, waited, proto, dest, cut>>

Init ==
    /\ conn \in Connections
    /\ pipe = <<>> /\ cache = <<>> /\ out = <<>> /\ sent = 0
    /\ pc = "dispatch" /\ pending = ToSet(Sniffers)
    /\ attempts = 0 /\ budget = Budget /\ waited = 0
    /\ proto = "" /\ dest = "target" /\ cut = FALSE

sniffing == <<pending, attempts, budget, waited>>

\* The client.
Send ==
    /\ sent < Pieces /\ ~cut /\ pc # "rejected"
    /\ sent' = sent + 1 /\ pipe' = Append(pipe, sent')
    /\ UNCHANGED <<conn, cache, out, pc, sniffing, proto, dest, cut>>

\* CloseAll interrupts the pipe; what was cached is not in it any more.
CloseAll ==
    /\ ~conn.link /\ ~cut
    /\ cut' = TRUE /\ pipe' = <<>>
    /\ UNCHANGED <<conn, cache, out, sent, pc, sniffing, proto, dest>>

\* Dispatch, DispatchLink.
Begin ==
    /\ pc = "dispatch" /\ pc' = IF conn.sniffing THEN "sniff" ELSE "route"
    /\ UNCHANGED <<conn, pipe, cache, out, sent, sniffing, proto, dest, cut>>

----------------------------------------------------------------------------
(* sniffer                                                                 *)

\* The domain of the fake DNS goes before that of the content.
DestOf(p) ==
    LET d == IF conn.fakeDNS THEN "fakedns" ELSE p IN
    IF d \in conn.override THEN d ELSE "target"

Found(p) == pc' = "route" /\ proto' = p /\ dest' = DestOf(p)

\* Without a result of the content, that of the fake DNS counts.
NotFound == IF conn.fakeDNS THEN Found("fakedns") ELSE pc' = "route" /\ UNCHANGED <<proto, dest>>

\* Time passes while the reader waits for data.
Tick ==
    /\ pc = "sniff" /\ pipe = <<>> /\ ~cut
    /\ IF conn.link THEN waited < Second ELSE budget > 0
    /\ waited' = waited + 1 /\ budget' = IF budget > 0 THEN budget - 1 ELSE 0
    /\ UNCHANGED <<conn, pipe, cache, out, sent, pc, pending, attempts, proto, dest, cut>>

Expired == IF conn.link THEN waited = Second ELSE budget = 0

\* Mutant: only a client that has sent something is given up.
ReadFailsAfterData ==
    /\ pc = "sniff" /\ pipe = <<>> /\ cache # <<>> /\ (Expired \/ cut)
    /\ NotFound
    /\ UNCHANGED <<conn, pipe, cache, out, sent, sniffing, cut>>

\* The read ends without data: a timeout, or the pipe was interrupted.
ReadFails ==
    /\ pc = "sniff" /\ pipe = <<>> /\ (Expired \/ cut)
    /\ NotFound
    /\ UNCHANGED <<conn, pipe, cache, out, sent, sniffing, cut>>

Says(s) == conn.says[s][Len(cache')]

\* Mutant: only the first sniffer's word counts.
SniffFirst ==
    LET s == Head(SelectSeq(Sniffers, LAMBDA x : x \in pending)) IN
    /\ IF Says(s) = "match" THEN Found(s) ELSE NotFound
    /\ UNCHANGED <<pending, attempts, waited>>

\* Sniff: the first that matches wins.  Those without a clue are asked again, no others:
\* one that needs more data is dropped like one that does not match.
Sniff ==
    LET Matches(s) == s \in pending /\ Says(s) = "match"
        noClue == {s \in pending : Says(s) = "no clue"} IN
    \/ /\ \E i \in DOMAIN Sniffers :
            /\ Matches(Sniffers[i]) /\ \A j \in 1..(i - 1) : ~Matches(Sniffers[j])
            /\ Found(Sniffers[i])
       /\ UNCHANGED <<pending, attempts, waited>>
    \/ /\ \A s \in pending : ~Matches(s)
       /\ \/ noClue = {} /\ NotFound /\ UNCHANGED <<pending, attempts, waited>>
          \/ /\ noClue # {}
             /\ pending' = noClue /\ attempts' = attempts + 1 /\ waited' = 0
             /\ IF attempts' >= 2 \/ budget = 0 THEN NotFound ELSE UNCHANGED <<pc, proto, dest>>

\* Mutant: the data read last replaces the cache.
CacheLast == cache' = pipe

\* Cache: what was read is added to the cache, all of which is sniffed.
Cache == cache' = cache \o pipe

CacheAndSniff ==
    /\ pc = "sniff" /\ pipe # <<>>
    /\ Cache /\ pipe' = <<>>
    /\ Sniff
    /\ UNCHANGED <<conn, out, sent, budget, cut>>

----------------------------------------------------------------------------
(* routedDispatch                                                          *)

\* CheckDomainRule of the destination and CheckProtocolRule of what was sniffed, if anything.
Blocks(p, d) ==
    \/ IF d = "target" THEN conn.rules.target ELSE d \in conn.rules.domains
    \/ p \in conn.rules.protocols

Blocked == Blocks(proto, dest)

Reject == pc' = "rejected" /\ cache' = <<>>

\* A tag without an outbound does not fall back to the default one.
Route ==
    /\ pc = "route"
    /\ \/ (Blocked \/ conn.route = "missing") /\ Reject
       \/ ~Blocked /\ conn.route # "missing" /\ pc' = "forward" /\ UNCHANGED cache
    /\ UNCHANGED <<conn, pipe, out, sent, sniffing, proto, dest, cut>>

\* ReadMultiBuffer of the outbound: the cache first.
Forward ==
    /\ pc = "forward"
    /\ \/ cache # <<>> /\ out' = out \o cache /\ cache' = <<>> /\ UNCHANGED pipe
       \/ cache = <<>> /\ pipe # <<>> /\ out' = out \o pipe /\ pipe' = <<>> /\ UNCHANGED cache
    /\ UNCHANGED <<conn, sent, pc, sniffing, proto, dest, cut>>

Sniffing == Tick \/ ReadFails \/ CacheAndSniff

Next == Send \/ CloseAll \/ Begin \/ Sniffing \/ Route \/ Forward

\* The dispatcher's goroutine runs and time passes; the client need not send.
Fairness == WF_vars(Begin) /\ WF_vars(Sniffing) /\ WF_vars(Route) /\ WF_vars(Forward)

Spec == Init /\ [][Next]_vars /\ Fairness

----------------------------------------------------------------------------
(* The outbound gets what the client sent, in order, without a gap and      *)
(* without a repetition, however much of it was read for sniffing; what is  *)
(* missing is still in the cache or the pipe, unless the connection was     *)
(* rejected or cut.                                                         *)
InOrder ==
    LET all == [i \in 1..sent |-> i] IN
    /\ IsPrefix(out, all)
    /\ ~cut /\ pc # "rejected" => out \o cache \o pipe = all

\* What the i-th sniffer finds is blocked, and it finds it in the first piece already.
FoundAtOnce(i) ==
    /\ Blocks(Sniffers[i], DestOf(Sniffers[i]))
    /\ \A n \in 1..Pieces : conn.says[Sniffers[i]][n] = "match"

\* The i-th sniffer never takes the data for something that is not blocked.
NeverMistakes(i) ==
    \/ Blocks(Sniffers[i], DestOf(Sniffers[i]))
    \/ \A n \in 1..Pieces : conn.says[Sniffers[i]][n] # "match"

(* A protocol that the rules name, or one with a blocked domain or address, *)
(* does not get through if its sniffer recognises it from the first piece,  *)
(* the client sends that in time, and no sniffer asked before it takes the  *)
(* data for something else: the first that matches decides, and a rule      *)
(* blocks only the protocol it names.  Neither undecided sniffers before it *)
(* nor further data in the same read make it pass.                          *)
BlockedStaysOut ==
    LET tells == \E i \in DOMAIN Sniffers :
                    FoundAtOnce(i) /\ \A j \in 1..(i - 1) : NeverMistakes(j) IN
    conn.sniffing /\ tells /\ budget > 0 /\ ~cut => out = <<>>

(* Sniffing ends, with a silent client too, and the connection is routed    *)
(* or rejected.                                                             *)
Decided == pc = "dispatch" ~> pc \in {"forward", "rejected"}
=============================================================================
