----------------------------- MODULE MCInbound ------------------------------
(***************************************************************************)
(* From the text of the configuration to a connection, in three parts that *)
(* do not touch each other: how the text is read (TrimNode), what the two  *)
(* cores build of a node (Inbound), and what the dispatcher of the xray    *)
(* core does with a connection (Dispatch).  A behaviour is one of the part *)
(* chosen at the start; the other two stay as they are.                    *)
(***************************************************************************)
EXTENDS Dispatch, Inbound, TrimNode

VARIABLE part

----------------------------------------------------------------------------
\* Two sniffers with every course of verdicts on two pieces of data that a sniffer can
\* give: once it matches or does not, it stays with it.
MCSniffers == <<"http", "tls">>

Courses ==
    {f \in [1..Pieces -> Verdicts] :
        \A n \in 1..(Pieces - 1) : f[n] \in {"no", "match"} => f[n + 1] = f[n]}

\* No rule, the address, the protocol of either sniffer, the domain that each can give.
MCRules ==
    [target : {FALSE}, protocols : {{}, {"http"}, {"tls"}}, domains : {{}}]
    \cup [target : {FALSE}, protocols : {{}}, domains : {{"tls"}, {"fakedns"}}]
    \cup [target : {TRUE}, protocols : {{}}, domains : {{}}]

MCConnections ==
    {c \in [link : BOOLEAN, sniffing : BOOLEAN, fakeDNS : BOOLEAN, override : {{}, {"tls", "fakedns"}},
            says : [ToSet(MCSniffers) -> Courses], rules : MCRules, route : {"default", "missing"}] :
        ~c.sniffing => ~c.fakeDNS /\ c.override = {}}

SomeConnection == CHOOSE c \in MCConnections : TRUE

\* A rejected connection does nothing any more but close its pipe.
ConnAtRest ==
    /\ conn = SomeConnection /\ pc = "rejected"
    /\ pipe = <<>> /\ cache = <<>> /\ out = <<>> /\ sent = 0
    /\ pending = {} /\ attempts = 0 /\ budget = Budget /\ waited = 0
    /\ proto = "" /\ dest = "target" /\ cut = FALSE

----------------------------------------------------------------------------
\* Nodes of every type; each varies what its type reads.  An http header is only in the
\* settings of a tcp transport.
Default ==
    [type |-> "vless", security |-> None, network |-> "tcp", settings |-> "object", header |-> "",
     encryption |-> "", cipher |-> "", serverKey |-> "", serverName |-> "s", dest |-> "", port |-> 443,
     xver |-> 0, obfsType |-> "", obfsPassword |-> ""]

Networks == {"", "tcp", "ws", "grpc", "httpupgrade", "xhttp", "quic"}

Transports ==
    {t \in [network: Networks, settings: {"absent", "null", "object", "badPath", "malformed"},
            header: {"", "http", "httpNoPath"}] :
        /\ t.header # "" => t.network = "tcp" /\ t.settings = "object"
        /\ t.settings = "badPath" => t.network = "ws"}

With(type, tls, t) ==
    [Default EXCEPT !.type = type, !.security = SecurityOf(type, tls), !.network = t.network,
                    !.settings = t.settings, !.header = t.header]

MCInfos ==
    {[With(type, tls, t) EXCEPT !.encryption = e] :
        type \in {"vmess", "vless"}, tls \in {None, Tls, Reality}, t \in Transports,
        e \in {"", "mlkem", "unknown"}}
    \cup {[Default EXCEPT !.security = Reality, !.dest = d, !.port = p, !.xver = x] :
        d \in {"", "d"}, p \in {443, 65536 + 443}, x \in {0, 1, 2, 257}}
    \cup {With("trojan", None, t) : t \in Transports}
    \cup {[Default EXCEPT !.type = "shadowsocks", !.cipher = c, !.serverKey = k] :
        c \in {"aes-128", "2022-aes-128", "2022-aes-256"}, k \in {"", "key"}}
    \cup {[Default EXCEPT !.type = type, !.security = Tls, !.obfsType = a, !.obfsPassword = b] :
        type \in {"tuic", "anytls", "hysteria", "hysteria2"}, a \in {"", "t"}, b \in {"", "p"}}

MCOptions ==
    [certMode: {"nil", "none", "", "file", "dns"}, fallback: {"off", "good", "nil", "noDest"},
     listenIP: {"good", "bad"}, proxyProtocol: BOOLEAN, tfo: {FALSE}]
    \cup [certMode: {"file"}, fallback: {"off"}, listenIP: {"good"}, proxyProtocol: {TRUE}, tfo: {TRUE}]

NodeAtRest ==
    /\ info = Default
    /\ option = [certMode |-> "file", fallback |-> "off", listenIP |-> "good", proxyProtocol |-> FALSE, tfo |-> FALSE]
    /\ xray = Pending /\ sing = Pending

----------------------------------------------------------------------------
ReaderAtRest == text = <<>> /\ result = <<>> /\ done = FALSE

----------------------------------------------------------------------------
MCInit ==
    \/ part = "connection" /\ NodeAtRest /\ ReaderAtRest /\ Init
    \/ part = "node" /\ ConnAtRest /\ ReaderAtRest /\ NodeInit
    \/ part = "text" /\ ConnAtRest /\ NodeAtRest /\ TextInit

MCNext ==
    /\ UNCHANGED part
    /\ \/ part = "connection" /\ Next /\ UNCHANGED <<nodeVars, textVars>>
       \/ part = "node" /\ NodeNext /\ UNCHANGED <<vars, textVars>>
       \/ part = "text" /\ Read /\ UNCHANGED <<vars, nodeVars>>

\* Nothing that is fair is enabled in a connection at rest.
MCSpec == MCInit /\ [][MCNext]_<<part, vars, nodeVars, textVars>> /\ Fairness

=============================================================================
