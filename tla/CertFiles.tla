----------------------------- MODULE CertFiles -----------------------------
(***************************************************************************)
(* The certificate files that nodes share (Certs), with the nodes and the  *)
(* variables named apart from those of the modules that stand beside them. *)
(***************************************************************************)
EXTENDS Naturals

CONSTANTS Sharers, MaxIssued, MaxStops

VARIABLES
    mode, cert, keyFile, account, certPc, mine, cached, reading, issued, due, stops, cut, crossed

Pair == INSTANCE Certs WITH Nodes <- Sharers, key <- keyFile, pc <- certPc, overlapped <- crossed

\* The bounds are numbers, and there is a first certificate.
CertsAssumption ==
    MaxIssued \in [{"acme", "self"} -> Nat \ {0}] /\ MaxStops \in [{"acme", "self"} -> Nat]

----------------------------------------------------------------------------
(* A certificate and a key that do not belong together take a write cut     *)
(* short, or two nodes that wrote at the same time.                         *)
BrokenPairNeedsCause == Pair!BrokenPairNeedsCause

(* A node that serves goes on serving whatever a renewal does to the files. *)
RenewalKeepsServing == Pair!RenewalKeepsServing

(* A certificate with at most thirty days left is replaced by the daily     *)
(* task, as long as no write of a file was cut short.                       *)
DueIsRenewed == Pair!DueIsRenewed
=============================================================================
