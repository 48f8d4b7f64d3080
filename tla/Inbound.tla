------------------------------ MODULE Inbound -------------------------------
(***************************************************************************)
(* What the xray core (core/xray/inbound.go) and the sing core             *)
(* (core/sing/node.go) make of the same node: a listener with a transport, *)
(* a security layer and the protocol's own settings, an error, or a panic. *)
(* The panel's settings of a transport are "absent" (no such field),       *)
(* "null", an "object", one with a path that is no URL ("badPath"), or     *)
(* "malformed"; for tcp an object may ask for an http header.  The checks  *)
(* that the two libraries make of the result are not part of the module.   *)
(***************************************************************************)
EXTENDS Naturals

CONSTANTS Infos,   \* nodes as GetNodeInfo returns them
          Options  \* the options of the node

\* The settings of a transport are decoded for the types that have one only.
ASSUME InfosAssumption == \A i \in Infos : i.type = "shadowsocks" => i.header = ""

VARIABLES info, option,
          xray, sing \* what each core has built of them, or Pending

nodeVars == <<info, option, xray, sing>>

Pending == [outcome |-> "pending"]

Error == [outcome |-> "error"]

Panic == [outcome |-> "panic"]

None == 0

Tls == 1

Reality == 2

\* GetNodeInfo: only vmess and vless nodes have a security of their own.
SecurityOf(type, tls) ==
    CASE type \in {"vmess", "vless"} -> tls
      [] type = "shadowsocks"        -> None
      [] OTHER                       -> Tls

\* The certificate mode switches TLS off.
Plain(o) == o.certMode \in {"none", ""}

Dest(i) == IF i.dest = "" THEN i.serverName ELSE i.dest

----------------------------------------------------------------------------
(* The xray core.                                                          *)

\* buildVlessFallbacks and buildTrojanFallbacks.
FallbackFails(o) == o.fallback \in {"nil", "noDest"}

\* The branch of the fallbacks always sets "none".
Decryption(i, o) ==
    IF i.type = "vless" /\ o.fallback = "off" /\ i.encryption # "" THEN i.encryption ELSE "none"

\* Settings that are absent end the function before it sets StreamSetting.
buildV2ray(i, o) ==
    IF i.type = "vless" /\ IF o.fallback = "off" THEN i.encryption = "unknown" ELSE FallbackFails(o)
    THEN Error
    ELSE IF i.settings = "absent"
    THEN [outcome |-> "ok", stream |-> "nil", network |-> i.network, decryption |-> Decryption(i, o)]
    ELSE IF \/ i.network \notin {"tcp", "ws", "grpc", "httpupgrade", "splithttp", "xhttp"}
            \/ i.settings = "malformed"
    THEN Error
    ELSE [outcome |-> "ok", stream |-> i.network, network |-> i.network, decryption |-> Decryption(i, o)]

\* The settings are always unmarshalled: absent ones are an error here.
buildTrojan(i, o) ==
    LET network == IF i.network = "" THEN "tcp" ELSE i.network IN
    IF \/ o.fallback # "off" /\ FallbackFails(o)
       \/ network \notin {"tcp", "ws", "grpc"}
       \/ i.settings \in {"absent", "malformed"}
    THEN Error
    ELSE [outcome |-> "ok", stream |-> network, network |-> network, decryption |-> "none"]

\* A placeholder user keeps the inbound in multi-user mode.
buildShadowsocks(i) ==
    [outcome |-> "ok", stream |-> "tcp", network |-> "tcp", decryption |-> "none",
     password |-> i.serverKey,
     user |-> IF i.serverKey = "" THEN [cipher |-> i.cipher, base64 |-> FALSE]
                                  ELSE [cipher |-> "", base64 |-> TRUE]]

XraySecurity(i, o) ==
    CASE i.security = Reality             -> "reality"
      [] i.security = Tls /\ ~Plain(o)    -> "tls"
      [] OTHER                            -> "none"

\* Proxy protocol is set where the transport reads it; TCP fast open only in the socket options.
Listener(network, o) ==
    [proxyAt |-> IF network \in {"tcp", "ws"} THEN network ELSE "socket",
     proxyProtocol |-> o.proxyProtocol,
     tfo |-> network \notin {"tcp", "ws"} /\ o.tfo]

buildInbound(i, o) ==
    LET b == CASE i.type \in {"vmess", "vless"} -> buildV2ray(i, o)
               [] i.type = "trojan"             -> buildTrojan(i, o)
               [] i.type = "shadowsocks"        -> buildShadowsocks(i)
               [] OTHER                         -> Error
    IN IF b.outcome = "error" THEN Error
       ELSE IF b.stream = "nil" THEN Panic
       ELSE IF i.security = Tls /\ o.certMode = "nil" THEN Error
       ELSE [outcome |-> "ok",
             transport |-> IF b.network = "tcp" /\ i.header # "" THEN "http" ELSE b.network,
             listener |-> Listener(b.network, o),
             security |-> XraySecurity(i, o),
             target |-> IF i.security = Reality THEN <<Dest(i), i.port, i.xver>> ELSE <<>>,
             decryption |-> b.decryption,
             password |-> IF i.type = "shadowsocks" THEN b.password ELSE "",
             user |-> IF i.type = "shadowsocks" THEN b.user ELSE <<>>]

----------------------------------------------------------------------------
(* The sing core.                                                          *)

\* The values of a sixteen bit port.
Ports == 65536

\* xver is cut to eight bits and the port to sixteen.
singTls(i, o) ==
    CASE i.security = Reality          -> [security |-> "reality", target |-> <<Dest(i), i.port % Ports, i.xver % 256>>]
      [] i.security = Tls /\ ~Plain(o) -> [security |-> "tls", target |-> <<>>]
      [] OTHER                         -> [security |-> "none", target |-> <<>>]

\* Settings of a transport: "ok", "error" or "panic".  The first path of an http request is
\* taken without looking whether there is one.
Decode(i, network) ==
    CASE network \notin {"tcp", "ws", "grpc", "httpupgrade"} -> "ok"
      [] i.settings = "malformed"                            -> "error"
      [] network = "ws" /\ i.settings = "badPath"            -> "error"
      [] network = "tcp" /\ i.header = "httpNoPath"          -> "panic"
      [] OTHER                                               -> "ok"

\* No transport ("" in the options) is plain tcp.
singV2ray(i) ==
    [outcome |-> Decode(i, i.network),
     transport |-> IF i.network = "tcp" /\ i.header # "" THEN "http" ELSE i.network]

\* Mutant: the network is taken as the panel sends it.
singTrojanAsSent(i) ==
    [outcome |-> Decode(i, i.network), transport |-> i.network]

\* The settings of tcp are not looked at, and any other network is plain tcp.
singTrojan(i) ==
    [outcome |-> IF i.network \in {"ws", "grpc"} THEN Decode(i, i.network) ELSE "ok",
     transport |-> IF i.network \in {"ws", "grpc"} THEN i.network ELSE "tcp"]

Is2022(cipher) == cipher \in {"2022-aes-128", "2022-aes-256"}

singShadowsocks(i) ==
    [outcome |-> "ok", transport |-> "tcp",
     password |-> IF Is2022(i.cipher) THEN i.serverKey ELSE "",
     user |-> [keyLength |-> IF i.cipher = "2022-aes-256" THEN 32 ELSE 16, base64 |-> Is2022(i.cipher)]]

\* hysteria2: a panel that sends only one obfuscation field sends the password in it.
singObfs(i) ==
    CASE i.obfsType = ""     -> <<>>
      [] i.obfsPassword = "" -> <<"salamander", i.obfsType>>
      [] OTHER               -> <<i.obfsType, i.obfsPassword>>

\* A type that is not known is returned without options and without an error.
getInboundOptions(i, o) ==
    LET b == CASE i.type \in {"vmess", "vless"} -> singV2ray(i)
               [] i.type = "trojan"             -> singTrojan(i)
               [] i.type = "shadowsocks"        -> singShadowsocks(i)
               [] OTHER                         -> [outcome |-> "ok", transport |-> i.type]
    IN IF o.listenIP = "bad" \/ (i.security = Tls /\ o.certMode = "nil") THEN Error
       ELSE IF b.outcome # "ok" THEN [outcome |-> b.outcome]
       ELSE [outcome |-> "ok",
             transport |-> b.transport,
             security |-> singTls(i, o).security,
             target |-> singTls(i, o).target,
             decryption |-> "none",
             password |-> IF i.type = "shadowsocks" THEN b.password ELSE "",
             user |-> IF i.type = "shadowsocks" THEN b.user ELSE <<>>,
             obfs |-> IF i.type = "hysteria2" THEN singObfs(i) ELSE <<>>]

----------------------------------------------------------------------------
NodeInit ==
    /\ info \in Infos /\ option \in Options
    /\ xray = Pending /\ sing = Pending

AddToXray == xray = Pending /\ xray' = buildInbound(info, option) /\ UNCHANGED <<info, option, sing>>

AddToSing == sing = Pending /\ sing' = getInboundOptions(info, option) /\ UNCHANGED <<info, option, xray>>

NodeNext == AddToXray \/ AddToSing

NodeSpec == NodeInit /\ [][NodeNext]_nodeVars

----------------------------------------------------------------------------
Built(r) == r.outcome = "ok"

(* What a core serves does not depend on the core: a node that both can     *)
(* build has the same transport, security and reality target in both, as    *)
(* long as port and xver fit their types.  (Two things are xray's alone:    *)
(* the decryption of vless, and the http header of a trojan node; sing      *)
(* ignores both.)                                                           *)
CoresAgree ==
    Built(xray) /\ Built(sing) /\ info.port \in 0..(Ports - 1) /\ info.xver \in 0..255 =>
        /\ xray.transport = sing.transport \/ (info.type = "trojan" /\ info.header # "")
        /\ xray.security = sing.security /\ xray.target = sing.target
        /\ (Is2022(info.cipher) <=> info.serverKey # "") => xray.password = sing.password

=============================================================================
