------------------------- MODULE MCSpecPropagation -------------------------
(* SpecPropagation with a base spec of each kind and specs that differ from  *)
(* it in a field or two.                                                     *)
EXTENDS SpecPropagation

Unset(kind) == [c \in Containers(kind) |-> "unset"]

Base(kind) ==
    [ kind |-> kind, replicas |-> 1,
      images |-> [Unset(kind) EXCEPT ![kind] = "i1"], limits |-> Unset(kind),
      name |-> "n1", nodeOUs |-> FALSE, size |-> "10Gi", svcType |-> "ClusterIP",
      certs |-> [s \in CertSecrets |-> <<"c1">>], genesis |-> "g1" ]

Edited(base) ==
    { base,
      [base EXCEPT !.replicas = 0],
      [base EXCEPT !.images[base.kind] = "i2"],
      [base EXCEPT !.images["metrics"] = "m2"],
      [base EXCEPT !.limits[base.kind] = "300m"],
      [base EXCEPT !.name = "n2"],
      [base EXCEPT !.nodeOUs = TRUE, !.images[base.kind] = "i2"],
      [base EXCEPT !.size = "20Gi", !.images[base.kind] = "i2"],
      [base EXCEPT !.svcType = "Headless"],
      [base EXCEPT !.certs["cacerts"] = <<"c1", "c2">>] }

EditedSpecs ==
    Edited(Base("peer")) \cup Edited(Base("orderer"))
        \cup { [Base("peer") EXCEPT !.images["couchdb"] = "d2"],
               [Base("orderer") EXCEPT !.genesis = "garbled"] }

\* A CommonName that changes.
Renamed == {Base("peer"), [Base("peer") EXCEPT !.name = "n2"],
            [Base("peer") EXCEPT !.replicas = 2]}

\* A limit that the API server writes in another way.
OtherWriting == {Base("peer"), [Base("peer") EXCEPT !.limits["peer"] = "1000m"]}
=============================================================================
