----------------------------- MODULE Hy2Config -----------------------------
(***************************************************************************)
(* How the hysteria2 core turns a node's configuration file into the       *)
(* server's configuration (core/hy2/config.go, serverConfig.go), and the   *)
(* second validation the server itself makes (fill, in the vendored        *)
(* hysteria core).  Sizes are in KiB and durations in seconds; an address, *)
(* a file or a port list is kept as "", "good" or "bad", a name with       *)
(* aliases ("tls", "tcp-tls") as one of them, and a congestion control     *)
(* with a profile the server does not know as an unknown one.              *)
(***************************************************************************)
EXTENDS Naturals, Sequences, FiniteSets

CONSTANTS Configs, \* the configurations to build
          Unset    \* a nil *int

VARIABLES c,      \* the configuration being built
          stage,  \* "read", "built", "serving", "refused" by getHyConfig or "rejected" by NewServer
          hy      \* the server.Config built

vars == <<c, stage, hy>>

Error == [error |-> TRUE]

----------------------------------------------------------------------------
(* getQUICConfig.  The branch of a configured initStreamReceiveWindow      *)
(* assigns the connection window, so that the stream window stays zero.    *)

defaultStreamReceiveWindow == 8192

defaultConnReceiveWindow == 20480

\* Mutant: a limit below that of the server.
WindowTooSmallByHalf(w) == w # 0 /\ w < 8

WindowTooSmall(w) == w # 0 /\ w < 16

OrDefault(w, d) == IF w = 0 THEN d ELSE w

getQUICConfig(q) ==
    IF \/ \E w \in {q.initStream, q.maxStream, q.initConn, q.maxConn} : WindowTooSmall(w)
       \/ q.idle # 0 /\ (q.idle < 4 \/ q.idle > 120)
       \/ q.streams # 0 /\ q.streams < 8
    THEN Error
    ELSE [error |-> FALSE,
          initStream |-> IF q.initStream = 0 THEN defaultStreamReceiveWindow ELSE 0,
          maxStream |-> OrDefault(q.maxStream, defaultStreamReceiveWindow),
          initConn |-> OrDefault(q.initConn, defaultConnReceiveWindow),
          maxConn |-> OrDefault(q.maxConn, defaultConnReceiveWindow),
          idle |-> OrDefault(q.idle, 30),
          streams |-> OrDefault(q.streams, 4096)]

----------------------------------------------------------------------------
(* UDP forwarding redundancy.                                              *)

InvalidMultiplier(m) == m # Unset /\ (m < 1 \/ m > 100)

\* Invalid values are refused even when redundancy is disabled.
getUDPForwardingRedundancyMultipliers(r) ==
    LET legacy == IF r.multiplier = Unset THEN 1 ELSE r.multiplier IN
    IF \E m \in {r.multiplier, r.writeTo, r.sendMessage} : InvalidMultiplier(m) THEN Error
    ELSE IF ~r.enabled THEN [error |-> FALSE, WriteTo |-> 1, SendMessage |-> 1]
    ELSE [error |-> FALSE,
          WriteTo |-> IF r.writeTo = Unset THEN legacy ELSE r.writeTo,
          SendMessage |-> IF r.sendMessage = Unset THEN legacy ELSE r.sendMessage]

ExcludePortFails(r) == r.enabled /\ r.exclude = "bad"

----------------------------------------------------------------------------
(* Request hook, obfuscation, outbounds, access list, resolver.            *)

RequestHookFails(s) == s.enable /\ "bad" \in {s.tcpPorts, s.udpPorts}

\* Bytes per second.
getBandwidthConfig(mbps) == (mbps * 1000000) \div 8

DirectFails(o) ==
    \/ o.mode = "bad"
    \/ o.bindIP # "" /\ o.bindDevice # ""
    \/ "bad" \in {o.bindIP, o.bindDevice}

\* An entry needs a name, a known type and an address for the proxy types; that of an http proxy
\* is parsed at once.
OutboundFails(o) ==
    \/ o.name = ""
    \/ o.type = "direct" /\ DirectFails(o)
    \/ o.type \in {"socks5", "http"} /\ o.addr = ""
    \/ o.type = "http" /\ o.addr = "bad"
    \/ o.type \notin {"direct", "socks5", "http"}

\* Without an access list the outbounds resolve names themselves.
ResolverInFront(r, hasACL) ==
    CASE r.type = "system" /\ r.ipv4Only -> <<"ipv4 resolver">>
      [] r.type = "system" /\ ~r.ipv4Only /\ hasACL -> <<"resolver">>
      [] r.type = "system" /\ ~r.ipv4Only /\ ~hasACL -> <<>>
      [] OTHER -> <<"resolver">>

\* The chain Resolver(ACL(outbound)), outermost first.
getOutboundConfig(cf) ==
    LET hasACL == cf.aclFile # "" \/ cf.aclInline # "" IN
    IF \/ \E i \in DOMAIN cf.outbounds : OutboundFails(cf.outbounds[i])
       \/ cf.aclFile # "" /\ cf.aclInline # ""
       \/ "bad" \in {cf.aclFile, cf.aclInline}
       \/ cf.resolver.type \notin {"system", "tcp", "udp", "tls", "https"}
       \/ cf.resolver.type # "system" /\ cf.resolver.addr = ""
    THEN Error
    ELSE [error |-> FALSE,
          chain |-> ResolverInFront(cf.resolver, hasACL)
                    \o IF hasACL THEN <<"acl">>
                       ELSE IF cf.outbounds = <<>> THEN <<"direct">>
                       ELSE <<cf.outbounds[1].type>>]

----------------------------------------------------------------------------
(* The masquerade handler.                                                 *)

StatusFails(code) == code # 0 /\ (code < 200 \/ code > 599 \/ code = 233)

MasqHandlerFails(m) ==
    \/ m.type \notin {"404", "file", "proxy", "string"}
    \/ m.type \in {"file", "proxy", "string"} /\ m.value = ""
    \/ m.type = "proxy" /\ m.value = "bad"
    \/ m.type = "string" /\ StatusFails(m.status)
    \/ m.listenHTTP # "" /\ m.listenHTTPS = ""

----------------------------------------------------------------------------
TLSFails(cf) == cf.certMode = "none" \/ cf.cert = "bad"

getHyConfig(cf) ==
    LET q == getQUICConfig(cf.quic)
        o == getOutboundConfig(cf)
        m == getUDPForwardingRedundancyMultipliers(cf.redundancy) IN
    IF \/ TLSFails(cf) \/ q.error \/ cf.obfs = "bad" \/ RequestHookFails(cf.sniff)
       \/ o.error \/ MasqHandlerFails(cf.masq) \/ m.error \/ ExcludePortFails(cf.redundancy)
    THEN Error
    ELSE [error |-> FALSE, quic |-> q, chain |-> o.chain, multipliers |-> m,
          congestion |-> cf.congestion, udpIdle |-> cf.udpIdle,
          MaxTx |-> getBandwidthConfig(cf.up), MaxRx |-> getBandwidthConfig(cf.down)]

\* The server's fill: the windows again, and what getHyConfig passes on unchecked.
FillRejects(h) ==
    \/ \E w \in {h.quic.initStream, h.quic.maxStream, h.quic.initConn, h.quic.maxConn} : w # 0 /\ w < 16
    \/ h.quic.idle # 0 /\ (h.quic.idle < 4 \/ h.quic.idle > 120)
    \/ h.quic.streams # 0 /\ h.quic.streams < 8
    \/ h.congestion \notin {"bbr", "reno"}
    \/ h.MaxTx # 0 /\ h.MaxTx < 65536
    \/ h.MaxRx # 0 /\ h.MaxRx < 65536
    \/ h.udpIdle # 0 /\ (h.udpIdle < 2 \/ h.udpIdle > 600)
    \/ \E m \in {h.multipliers.WriteTo, h.multipliers.SendMessage} : m # 0 /\ (m < 1 \/ m > 100)

fill(h) ==
    [h EXCEPT !.quic = [@ EXCEPT !.initStream = OrDefault(@, defaultStreamReceiveWindow)],
              !.udpIdle = OrDefault(@, 60)]

Init ==
    /\ c \in Configs
    /\ stage = "read" /\ hy = Error

Build ==
    /\ stage = "read"
    /\ hy' = getHyConfig(c)
    /\ stage' = IF hy'.error THEN "refused" ELSE "built"
    /\ UNCHANGED c

NewServer ==
    /\ stage = "built"
    /\ IF FillRejects(hy) THEN stage' = "rejected" /\ UNCHANGED hy
                          ELSE stage' = "serving" /\ hy' = fill(hy)
    /\ UNCHANGED c

Next == Build \/ NewServer

Spec == Init /\ [][Next]_vars

----------------------------------------------------------------------------
(* Of what getHyConfig accepts, the server rejects only a congestion       *)
(* control it does not know or an idle timeout out of range: those two are *)
(* the fields config.go passes on unchecked, and the only way to reach the *)
(* NewServer error that leaves the node's socket open.                     *)
RejectedOnlyForUnchecked ==
    stage = "rejected" => c.congestion \notin {"bbr", "reno"} \/ c.udpIdle \notin {0} \cup 2..600

(* A receive window the user sets is the one the server runs with:         *)
(* defaults are only for what the user has not set (fill's comment).       *)
UserWindowsKept ==
    stage = "serving" =>
        \A w \in {"initStream", "maxStream", "initConn", "maxConn"} :
            c.quic[w] # 0 => hy.quic[w] = c.quic[w]
=============================================================================
