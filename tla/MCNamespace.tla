----------------------------- MODULE MCNamespace -----------------------------
(* Namespace with a peer that is created twice, and with a peer and an       *)
(* orderer that share their name or their CommonName.                        *)
EXTENDS Namespace

CaseOf(peer, orderer, peers, orderers, n) ==
    [named  |-> [k \in Nodes |-> IF k = "peer" THEN peer ELSE orderer],
     crs    |-> [k \in Nodes |-> IF k = "peer" THEN peers ELSE orderers],
     faults |-> n]

X(fqdn) == [name |-> "x", fqdn |-> fqdn]
Y(fqdn) == [name |-> "y", fqdn |-> fqdn]
Z(fqdn) == [name |-> "z", fqdn |-> fqdn]

Alone(n) == CaseOf(Z("f"), Y("g"), 2, 0, n)

\* The peer alone meets a fault, and reads that lag.
AllCases == {Alone(1), CaseOf(X("f"), X("g"), 1, 1, 0), CaseOf(X("f"), Y("f"), 1, 1, 0)}
LaggingAlone == {<<"z", "sts">>, <<"z", "svc">>}

OneCase == {Alone(0)}
=============================================================================
