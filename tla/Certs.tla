------------------------------- MODULE Certs --------------------------------
(***************************************************************************)
(* The certificate and key files of nodes that share them (node/cert.go,   *)
(* node/lego.go): requestCert before a node is added, renewCertTask of     *)
(* each controller while it serves, the account file of the ACME user, and *)
(* the loader of the hysteria2 core that reads the files again for each    *)
(* handshake (core/hy2/dynamic_cert.go).  Every file is written in two     *)
(* steps, created or truncated and then filled, and the process may stop   *)
(* between any two.  A file is 0 (absent), 1 (torn) or the number of the   *)
(* certificate it holds; a key has the number of its certificate.          *)
(***************************************************************************)
EXTENDS Naturals

CONSTANTS
    Nodes,     \* controllers that share the files and the account
    MaxIssued, \* [{"acme", "self"} -> bound on the numbers of certificates]
    MaxStops   \* [{"acme", "self"} -> bound on the stops of the process]

VARIABLES
    mode,      \* CertMode: "acme" (http, tls and dns) or "self"
    cert, key, \* the two files
    account,   \* the account file: "absent", "foreign", "torn" or "saved"
    pc,        \* per node
    mine,      \* per node: the certificate it is writing
    cached,    \* per node: the pair its loader serves, 0 when the node is not up
    reading,   \* per node: the certificate a handshake has read, 0 when none is under way
    issued,    \* the last certificate handed out
    due,       \* certificates up to this one have at most thirty days left
    stops,     \* bound: stops so far
    cut,       \* history: a write of a file was cut short, by a stop or an error
    overlapped \* history: two nodes wrote at the same time

vars == <<cert, key, account, pc, mine, cached, reading, issued, due, stops, cut, overlapped>>

Writing(n) == pc[n] \in {"openCert", "fillCert", "openKey", "fillKey"}

Saving(n) == pc[n] = "fillAccount"

Usable == cert = key /\ cert > 1

To(n, p) == pc' = [pc EXCEPT ![n] = p]

\* Where a node goes whose procedure ends: a renewal always goes back to serving.
Done(n) == To(n, IF cached[n] # 0 THEN "up" ELSE "addNode")

Fail(n) == To(n, IF cached[n] # 0 THEN "up" ELSE "failed")

Init ==
    /\ mode \in {"acme", "self"}
    /\ cert = 0 /\ key = 0
    /\ account \in {"absent", "foreign"}
    /\ pc = [n \in Nodes |-> "start"] /\ mine = [n \in Nodes |-> 0]
    /\ cached = [n \in Nodes |-> 0] /\ reading = [n \in Nodes |-> 0]
    /\ issued = 1 /\ due = 1 /\ stops = 0
    /\ cut = FALSE /\ overlapped = FALSE

----------------------------------------------------------------------------
(* requestCert and the renewal task.                                       *)

\* Two existing files are taken as they are.
requestCert ==
    CASE cert # 0 /\ key # 0 -> "addNode"
      [] mode = "self"       -> "issue"
      [] OTHER               -> "newLego"

\* The nodes are started one after the other.
Start(n) ==
    /\ pc[n] = "start"
    /\ \A m \in Nodes \ {n} : pc[m] = "start" \/ cached[m] # 0
    /\ To(n, requestCert)
    /\ UNCHANGED <<cert, key, account, mine, cached, reading, issued, due, stops, cut, overlapped>>

\* The node monitor of a controller adds a changed node again, in its own time.
ReloadNode(n) ==
    /\ pc[n] = "up"
    /\ To(n, requestCert)
    /\ cached' = [cached EXCEPT ![n] = 0] /\ reading' = [reading EXCEPT ![n] = 0]
    /\ UNCHANGED <<cert, key, account, mine, issued, due, stops, cut, overlapped>>

RenewCertTask(n) ==
    /\ pc[n] = "up" /\ mode = "acme"
    /\ To(n, "newLego")
    /\ UNCHANGED <<cert, key, account, mine, cached, reading, issued, due, stops, cut, overlapped>>

\* NewLegoUser: an account that loads is used, one of another address is registered again,
\* one that does not load is an error.
NewLegoUser(n) ==
    /\ pc[n] = "newLego"
    /\ \/ account = "saved" /\ To(n, IF cached[n] = 0 THEN "issue" ELSE "check") /\ UNCHANGED account
       \/ account = "torn" /\ Fail(n) /\ UNCHANGED account
       \* Register failed, or the account file could not be opened.
       \/ account \in {"absent", "foreign"} /\ Fail(n) /\ UNCHANGED account
       \/ account \in {"absent", "foreign"} /\ account' = "torn" /\ To(n, "fillAccount")
    /\ UNCHANGED <<cert, key, mine, cached, reading, issued, due, stops, cut, overlapped>>

\* The file was emptied when it was opened; an error of Encode leaves it so.
SaveUser(n) ==
    /\ pc[n] = "fillAccount"
    /\ \/ account' = "saved" /\ To(n, IF cached[n] = 0 THEN "issue" ELSE "check") /\ UNCHANGED cut
       \/ cut' = TRUE /\ Fail(n) /\ UNCHANGED account
    /\ UNCHANGED <<cert, key, mine, cached, reading, issued, due, stops, overlapped>>

\* Mutant: less than thirty days.
CheckCertLate == cert > 1 /\ cert < due

\* A file that does not parse is not due: RenewCert returns no error for it.
CheckCert == cert > 1 /\ cert <= due

RenewCert(n) ==
    /\ pc[n] = "check"
    /\ To(n, IF CheckCert THEN "issue" ELSE "up")
    /\ UNCHANGED <<cert, key, account, mine, cached, reading, issued, due, stops, cut, overlapped>>

\* Obtain and Renew, each with a new key, or the key and certificate made here.
Issue(n) ==
    /\ pc[n] = "issue"
    /\ \/ /\ issued < MaxIssued[mode]
          /\ issued' = issued + 1
          /\ mine' = [mine EXCEPT ![n] = issued + 1]
          /\ To(n, "openCert")
          /\ overlapped' = (overlapped \/ \E m \in Nodes : Writing(m))
       \/ mode = "acme" /\ Fail(n) /\ UNCHANGED <<issued, mine, overlapped>>
    /\ UNCHANGED <<cert, key, account, cached, reading, due, stops, cut>>

\* os.WriteFile truncates; the file of generateSelfSslCertificate is opened without O_TRUNC.
Opened(f) == IF mode = "acme" \/ f = 0 THEN 1 ELSE f

\* Mutant: a renewal keeps the key file.
writeKeyOnce(n) ==
    \/ pc[n] = "openCert" /\ cert' = Opened(cert) /\ To(n, "fillCert") /\ UNCHANGED <<key, cut, mine>>
    \/ /\ pc[n] = "fillCert" /\ cert' = mine[n]
       /\ IF cached[n] # 0 THEN Done(n) ELSE To(n, "openKey")
       /\ UNCHANGED <<key, cut, mine>>
    \/ pc[n] = "openKey" /\ key' = Opened(key) /\ To(n, "fillKey") /\ UNCHANGED <<cert, cut, mine>>
    \/ pc[n] = "fillKey" /\ key' = mine[n] /\ mine' = [mine EXCEPT ![n] = 0] /\ Done(n) /\ UNCHANGED <<cert, cut>>

\* The certificate goes first; an error leaves what was written.
writeCert(n) ==
    \/ pc[n] = "openCert" /\ cert' = Opened(cert) /\ To(n, "fillCert") /\ UNCHANGED <<key, cut, mine>>
    \/ pc[n] = "fillCert" /\ cert' = mine[n] /\ To(n, "openKey") /\ UNCHANGED <<key, cut, mine>>
    \/ pc[n] = "openKey" /\ key' = Opened(key) /\ To(n, "fillKey") /\ UNCHANGED <<cert, cut, mine>>
    \/ pc[n] = "fillKey" /\ key' = mine[n] /\ mine' = [mine EXCEPT ![n] = 0] /\ Done(n) /\ UNCHANGED <<cert, cut>>
    \/ /\ Writing(n)
       /\ cut' = TRUE
       /\ mine' = [mine EXCEPT ![n] = 0]
       /\ Fail(n)
       /\ UNCHANGED <<cert, key>>

Write(n) ==
    /\ writeCert(n)
    /\ UNCHANGED <<account, cached, reading, issued, due, stops, overlapped>>

----------------------------------------------------------------------------
(* The loader.  LoadX509KeyPair reads the certificate, then the key, and   *)
(* accepts them only if they belong together.                              *)

ReadCert(n) ==
    /\ pc[n] = "addNode" \/ cached[n] # 0
    /\ reading[n] = 0 /\ cert # 0
    /\ reading' = [reading EXCEPT ![n] = cert]
    /\ UNCHANGED <<cert, key, account, pc, mine, cached, issued, due, stops, cut, overlapped>>

Loaded(n) == reading[n] > 1 /\ key = reading[n]

\* Mutant: the cached pair is forgotten when the files cannot be loaded.
GetCertificateUncached(n) ==
    cached' = [cached EXCEPT ![n] = IF Loaded(n) THEN reading[n] ELSE 0]

\* newDynamicCertificateLoader and GetCertificate: an error falls back to the cached pair.
GetCertificate(n) ==
    cached' = [cached EXCEPT ![n] = IF Loaded(n) THEN reading[n] ELSE @]

Reload(n) ==
    /\ reading[n] # 0
    /\ GetCertificate(n)
    /\ reading' = [reading EXCEPT ![n] = 0]
    /\ pc' = IF pc[n] = "addNode" THEN [pc EXCEPT ![n] = IF Loaded(n) THEN "up" ELSE "rejected"] ELSE pc
    /\ UNCHANGED <<cert, key, account, mine, issued, due, stops, cut, overlapped>>

----------------------------------------------------------------------------
(* Time and the process.                                                   *)

\* The bound leaves a certificate to renew with.
Age ==
    /\ due < issued /\ issued < MaxIssued[mode]
    /\ due' = issued
    /\ UNCHANGED <<cert, key, account, pc, mine, cached, reading, issued, stops, cut, overlapped>>

\* The process is stopped and started again.
Stop ==
    /\ stops < MaxStops[mode]
    /\ stops' = stops + 1
    /\ cut' = (cut \/ \E n \in Nodes : Writing(n) \/ Saving(n))
    /\ pc' = [n \in Nodes |-> "start"] /\ mine' = [n \in Nodes |-> 0]
    /\ cached' = [n \in Nodes |-> 0] /\ reading' = [n \in Nodes |-> 0]
    /\ UNCHANGED <<cert, key, account, issued, due, overlapped>>

NodeStep(n) ==
    \/ Start(n) \/ ReloadNode(n) \/ RenewCertTask(n) \/ NewLegoUser(n) \/ SaveUser(n) \/ RenewCert(n)
    \/ Issue(n) \/ Write(n) \/ ReadCert(n) \/ Reload(n)

Next == UNCHANGED mode /\ (Age \/ Stop \/ \E n \in Nodes : NodeStep(n))

\* The daily task goes on, a call that was begun ends, and the issuer answers in the end.
Fairness ==
    \A n \in Nodes :
        /\ WF_vars(Start(n) \/ SaveUser(n) \/ RenewCert(n) \/ Write(n))
        /\ WF_vars(Reload(n) \/ (pc[n] = "addNode" /\ ReadCert(n)))
        /\ SF_vars(RenewCertTask(n))
        /\ SF_vars(NewLegoUser(n) /\ ~(pc'[n] \in {"up", "failed"}))
        /\ SF_vars(Issue(n) /\ pc'[n] = "openCert")

Spec == Init /\ [][Next]_<<mode, vars>> /\ Fairness

----------------------------------------------------------------------------
TypeOK ==
    /\ cert \in 0..MaxIssued[mode] /\ key \in 0..MaxIssued[mode]
    /\ account \in {"absent", "foreign", "torn", "saved"}
    /\ pc \in [Nodes -> {"start", "newLego", "fillAccount", "check", "issue", "openCert", "fillCert",
                         "openKey", "fillKey", "addNode", "up", "failed", "rejected"}]
    /\ mine \in [Nodes -> 0..MaxIssued[mode]] /\ cached \in [Nodes -> 0..MaxIssued[mode]]
    /\ reading \in [Nodes -> 0..MaxIssued[mode]] /\ issued \in 1..MaxIssued[mode] /\ due \in 1..MaxIssued[mode]
    /\ stops \in 0..MaxStops[mode] /\ cut \in BOOLEAN /\ overlapped \in BOOLEAN

(* requestCert takes two existing files as they are, so that a pair that does *)
(* not belong together keeps the nodes down for good.  Such a pair takes a    *)
(* write cut short (a stop, or an error between the two files) or two nodes   *)
(* that wrote at the same time; an ordinary renewal never leaves one.         *)
BrokenPairNeedsCause ==
    cert # 0 /\ key # 0 /\ ~Usable => cut \/ overlapped \/ \E n \in Nodes : Writing(n)

(* While the program runs a node that serves goes on serving: a renewal in    *)
(* progress, even one that leaves the files broken, is hidden by the pair     *)
(* that the loader has cached.                                                *)
RenewalKeepsServing ==
    [][\A n \in Nodes : cached[n] # 0 => cached'[n] # 0 \/ ReloadNode(n) \/ Stop]_vars

(* A certificate with at most thirty days left is replaced in time by the     *)
(* daily task, as long as no write of a file was cut short: a torn            *)
(* certificate is "not due" and a torn account file is an error, for ever.    *)
(* (Overlapping writes break the pair, and a node added meanwhile is gone.)   *)
DueIsRenewed ==
    \A n \in Nodes :
        (mode = "acme" /\ pc[n] = "up" /\ Usable /\ cert <= due) ~> (cert > due \/ cut \/ overlapped \/ pc[n] = "rejected")
=============================================================================
