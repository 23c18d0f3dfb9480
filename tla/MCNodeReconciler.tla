-------------------------- MODULE MCNodeReconciler --------------------------
(* NodeReconciler for a FabricPeer, with its two certificate Secrets, and    *)
(* small sets of specs.                                                      *)
EXTENDS NodeRefinement

PeerSecrets == <<"cacerts", "tlscacerts">>
OneSecret == <<"cacerts">>
NoSecrets == <<>>

SpecOf(r, t, c) == [replicas |-> r, template |-> t, certs |-> [o \in SecretNames |-> c]]

\* Two specs that differ in what the StatefulSet and the Secrets hold.
PeerSpecs == {SpecOf(1, "v1", "c1"), SpecOf(1, "v2", "c2"), SpecOf(0, "v1", "c1")}

\* Scaling down and up, and another image.
ScaleSpecs == {SpecOf(1, "v1", "c1"), SpecOf(0, "v1", "c1"), SpecOf(2, "v2", "c1")}

\* The StatefulSet, a Secret and the Service: each kind of object the code reads, and the pod.
LaggingSome == {"sts", "cacerts", "svc", "pod"}

LaggingSts == {"sts", "pod"}

OneSpec == {SpecOf(1, "v1", "c1")}
=============================================================================
