----------------------------- MODULE MCHy2Node -----------------------------
(***************************************************************************)
(* An instance of Hysteria2.  A behaviour is one of the part chosen at the *)
(* start, and the other two stay as they are.                              *)
(***************************************************************************)
EXTENDS Hysteria2, TLC

CONSTANTS n1, n2, p1, p2

VARIABLE part

ASSUME MachineAssumption

----------------------------------------------------------------------------
\* Two nodes with Mimic on one interface, whose administrator may run a Mimic that covers the
\* first one; two that share a configuration with masquerade ports; two with ports of their own,
\* of which another program may have one; and a node whose two masquerade ports are the same.
Masq(http, https) == [http |-> http, https |-> https]

Setup(masq1, masq2, mimic, filters, refused) ==
    [masq |-> n1 :> masq1 @@ n2 :> masq2, mimic |-> mimic, filters |-> filters, refused |-> refused]

MCSetups ==
    { Setup(Masq(None, None), Masq(None, None), {n1, n2}, {1}, {}),
      Setup(Masq(None, 443), Masq(None, 443), {n2}, {}, {}),
      Setup(Masq(80, 443), Masq(8080, 8443), {}, {}, {}),
      Setup(Masq(80, 443), Masq(None, 8443), {}, {}, {443}),
      Setup(Masq(443, 443), Masq(None, None), {}, {}, {}) }

MCUdpPort == n1 :> 1 @@ n2 :> 2

MCMaxAdds == n1 :> 2 @@ n2 :> 1

MachineAtRest ==
    /\ Machine!Init
    /\ setup.masq[n1] = Masq(443, 443) /\ proc[Outside] = "unused"

----------------------------------------------------------------------------
\* Configurations that differ from the default in one part at a time, each part with its
\* boundary values.  The parts are built independently of each other, so that covers every
\* error and every value built.
Default ==
    [certMode |-> "file", cert |-> "good", obfs |-> "", up |-> 0, down |-> 0,
     quic |-> [initStream |-> 0, maxStream |-> 0, initConn |-> 0, maxConn |-> 0, idle |-> 0, streams |-> 0],
     redundancy |-> [enabled |-> FALSE, multiplier |-> Unset, writeTo |-> Unset, sendMessage |-> Unset, exclude |-> ""],
     sniff |-> [enable |-> FALSE, tcpPorts |-> "", udpPorts |-> ""],
     outbounds |-> <<>>, aclFile |-> "", aclInline |-> "",
     resolver |-> [type |-> "system", ipv4Only |-> FALSE, addr |-> ""],
     masq |-> [type |-> "404", value |-> "", status |-> 0, listenHTTP |-> "", listenHTTPS |-> ""],
     congestion |-> "bbr", udpIdle |-> 0]

Windows == {0, 15, 16, 1024}

QUICs == [initStream: Windows, maxStream: Windows, initConn: {0, 15, 16}, maxConn: {0, 15, 16},
          idle: {0, 3, 4, 120, 121}, streams: {0, 7, 8}]

Texts == {"", "good", "bad"}

Redundancies == [enabled: BOOLEAN, multiplier: {Unset, 0, 1, 3}, writeTo: {Unset, 2, 100, 101},
                 sendMessage: {Unset, 1, 4}, exclude: Texts]

Outbounds == [name: {"", "a"}, type: {"direct", "socks5", "http", "other"}, mode: {"auto", "bad"},
              bindIP: Texts, bindDevice: Texts, addr: Texts]

Resolvers == [type: {"system", "tcp", "udp", "tls", "https", "other"}, ipv4Only: BOOLEAN, addr: {"", "good"}]

Masqs == [type: {"404", "file", "proxy", "string", "other"}, value: Texts, status: {0, 199, 200, 233, 599, 600},
          listenHTTP: {"", "good"}, listenHTTPS: {"", "good"}]

MCConfigs ==
    {[Default EXCEPT !.quic = q] : q \in QUICs}
    \cup {[Default EXCEPT !.redundancy = r] : r \in Redundancies}
    \cup {[Default EXCEPT !.sniff = s] : s \in [enable: BOOLEAN, tcpPorts: Texts, udpPorts: Texts]}
    \cup {[Default EXCEPT !.outbounds = <<o>>, !.aclFile = f] : o \in Outbounds, f \in {"", "good"}}
    \cup {[Default EXCEPT !.aclFile = f, !.aclInline = a, !.resolver = r] : f \in Texts, a \in Texts, r \in Resolvers}
    \cup {[Default EXCEPT !.masq = m] : m \in Masqs}
    \cup {[Default EXCEPT !.certMode = m, !.cert = f, !.obfs = o, !.up = u, !.down = d, !.congestion = g, !.udpIdle = t] :
            m \in {"none", "file"}, f \in {"good", "bad"}, o \in Texts, u \in {0, 1}, d \in {0, 100},
            g \in {"bbr", "reno", "cubic"}, t \in {0, 1, 2, 600, 601}}

ConfigAtRest == c = Default /\ stage = "read" /\ hy = Config!Error

----------------------------------------------------------------------------
\* A node draws a secret before it uses one, so that any will do at the start.
SecretInit == Init /\ drawn = [n \in Nodes |-> CHOOSE s \in Secrets : TRUE]

SecretAtRest == SecretInit /\ file = Absent

MCInit ==
    \/ part = "secret" /\ SecretInit /\ MachineAtRest /\ ConfigAtRest
    \/ part = "machine" /\ Machine!Init /\ SecretAtRest /\ ConfigAtRest
    \/ part = "config" /\ Config!Init /\ SecretAtRest /\ MachineAtRest

machineVars ==
    <<setup, ended, node, nodePc, bound, adds, failedOpen, masq, masqWait, inst, proc, owner, lock,
      stopped, exited, judged, warned>>

configVars == <<c, stage, hy>>

MCNext ==
    /\ UNCHANGED part
    /\ \/ part = "secret" /\ Next /\ UNCHANGED <<machineVars, configVars>>
       \/ part = "machine" /\ Machine!Next /\ UNCHANGED <<vars, configVars>>
       \/ part = "config" /\ Config!Next /\ UNCHANGED <<vars, machineVars>>

\* Nothing that is fair is enabled in a part at rest.
MCSpec ==
    MCInit /\ [][MCNext]_<<part, vars, machineVars, configVars>> /\ Machine!Fairness
=============================================================================
