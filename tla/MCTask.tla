------------------------------- MODULE MCTask -------------------------------
(***************************************************************************)
(* The periodic task by itself (Task), and what one of the tasks of a      *)
(* controller does to files that two nodes share: the daily renewal of     *)
(* their certificates (Certs).  A behaviour is one of the part chosen at   *)
(* the start; the other stays as it is.                                    *)
(***************************************************************************)
EXTENDS Task, CertFiles

VARIABLE part

ASSUME CertsAssumption

\* Without renewals a self-signed pair changes only at a start.
MCMaxIssued == [acme |-> 3, self |-> 4]

MCMaxStops == [acme |-> 1, self |-> 2]

certVars ==
    <<mode, cert, keyFile, account, certPc, mine, cached, reading, issued, due, stops, cut, crossed>>

----------------------------------------------------------------------------
\* The nodes have failed, which nothing but a stop ends.
PairAtRest ==
    /\ mode = "acme" /\ cert = 0 /\ keyFile = 0 /\ account = "absent"
    /\ certPc = [n \in Sharers |-> "failed"]
    /\ mine = [n \in Sharers |-> 0] /\ cached = mine /\ reading = mine
    /\ issued = 1 /\ due = 1 /\ stops = 0
    /\ cut = FALSE /\ crossed = FALSE

MCInit ==
    \/ part = "task" /\ Init /\ PairAtRest
    \/ part = "certs" /\ Pair!Init /\ Init

MCNext ==
    /\ UNCHANGED part
    /\ \/ part = "task" /\ Next /\ UNCHANGED certVars
       \/ part = "certs" /\ Pair!Next /\ UNCHANGED vars

\* Nothing that is fair is enabled in a part at rest.
MCSpec ==
    MCInit /\ [][MCNext]_<<part, vars, certVars>> /\ Fairness /\ Pair!Fairness
=============================================================================
