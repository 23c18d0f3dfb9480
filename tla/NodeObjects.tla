----------------------------- MODULE NodeObjects -----------------------------
(* What the builders of the two controllers make of the spec of a FabricPeer *)
(* or FabricOrderer: its StatefulSet, Secrets, Service, Gateway and          *)
(* VirtualService.                                                           *)
(*                                                                           *)
(* A spec is a record: kind, "peer" or "orderer", which is also the name of  *)
(* the node's own container; replicas; images, those the fields of the spec  *)
(* name, and limits, the cpu limits its containers list gives, "unset" where *)
(* there is none; name, its CommonName; nodeOUs; size, a volume's; svcType;  *)
(* certs, the lists of certificates; and for an orderer genesis.  A quantity *)
(* is the text that was written.                                             *)
EXTENDS Naturals, Sequences

Kinds == {"peer", "orderer"}

Containers(kind) ==
    {kind, "metrics"} \cup (IF kind = "peer" THEN {"dind", "couchdb"} ELSE {})
CertSecrets == {"cacerts", "tlscacerts"}
SecretsOf(kind) == CertSecrets \cup (IF kind = "orderer" THEN {"genesis"} ELSE {})

-----------------------------------------------------------------------------
(* The StatefulSet.                                                          *)

\* The image a field of the spec names, or the default.
Image(cr, c) == IF cr.images[c] = "unset" THEN "default" ELSE cr.images[c]

\* The cpu limit: the spec's containers list is merged into a copy of each
\* container, which shares nothing with it but the maps of its resources.
Limit(cr, c) == IF cr.limits[c] = "unset" THEN "200m" ELSE cr.limits[c]

\* A user and password are configured where CouchDB runs, and where the peer
\* connects to it, if an image for CouchDB was chosen.
Login(cr, c) == c \in {"couchdb", "peer"} /\ cr.images["couchdb"] # "unset"

DataVolume(kind) == IF kind = "peer" THEN "peerdata" ELSE "ordererdata"

VolumeClaimTemplates(kind) == {DataVolume(kind), "certificate"}

NodeOUs(cr) == IF cr.nodeOUs THEN {"node-ous"} ELSE {}

Volumes(cr) ==
    SecretsOf(cr.kind) \cup NodeOUs(cr) \cup (IF cr.kind = "peer" THEN {"run"} ELSE {})

Mount(volume, owner, dir) == [volume |-> volume, dir |-> <<owner, dir>>]

\* Where a node of a kind looks for its files: under /etc/hyperledger/fabric or
\* /etc/hyperledger/orderer.
CertificateMounts(kind) ==
    {Mount("certificate", kind, "msp"), Mount("certificate", kind, "tls")}

\* The certificate Secrets go under ordererMSPPath, in a peer too.
NodeMounts(cr) ==
    CertificateMounts(cr.kind)
        \cup {Mount(DataVolume(cr.kind), cr.kind, "production")}
        \cup {Mount(s, "orderer", s) : s \in SecretsOf(cr.kind)}
        \cup {Mount(v, cr.kind, "msp/config.yaml") : v \in NodeOUs(cr)}

VolumeMounts(cr, c) ==
    CASE c = cr.kind   -> NodeMounts(cr)
      [] c = "metrics" -> CertificateMounts(cr.kind)
      [] c = "couchdb" -> {Mount("peerdata", "peer", "couchdb")}
      [] OTHER         -> {}

\* The init containers: Vault's, and for a peer CouchDB's.
InitMounts(kind) == {"certificate"} \cup (IF kind = "peer" THEN {"peerdata"} ELSE {})

\* Directories of the files that the environment of the node's container names.
FilesNamed(kind) ==
    {<<kind, "msp">>, <<kind, "tls">>}
        \cup (IF kind = "orderer" THEN {<<kind, "genesis">>} ELSE {})

\* Mutant of newContainers: the limits asked for are lost with the copy as well.
newContainersUnmerged(cr) ==
    [c \in Containers(cr.kind) |->
        [ image |-> Image(cr, c), limit |-> "200m", name |-> cr.name,
          login |-> Login(cr, c), mounts |-> VolumeMounts(cr, c) ]]

newContainers(cr) ==
    [c \in Containers(cr.kind) |->
        [ image |-> Image(cr, c), limit |-> Limit(cr, c), name |-> cr.name,
          login |-> Login(cr, c), mounts |-> VolumeMounts(cr, c) ]]

newStatefulSet(cr) ==
    [ replicas   |-> cr.replicas,
      containers |-> newContainers(cr),
      volumes    |-> Volumes(cr),
      claims     |-> VolumeClaimTemplates(cr.kind), size |-> cr.size ]

-----------------------------------------------------------------------------
(* The Secrets.                                                              *)

\* Every certificate goes under the name of the Secret: the last one stays.
newCertificateSecret(certs) == IF certs = <<>> THEN "none" ELSE certs[Len(certs)]

\* The genesis block as far as it can be decoded: the error is dropped.
Decoded(genesis) == IF genesis = "garbled" THEN "partial" ELSE genesis

newSecrets(cr) ==
    [s \in SecretsOf(cr.kind) |-> IF s = "genesis" THEN Decoded(cr.genesis)
                                  ELSE newCertificateSecret(cr.certs[s])]

\* What of a spec the reconcile loop compares with the cluster.
Rendered(cr) ==
    [ replicas |-> cr.replicas,
      template |-> [c \in Containers(cr.kind) |-> <<Image(cr, c), Limit(cr, c)>>],
      certs    |-> newSecrets(cr) ]

-----------------------------------------------------------------------------
(* The way in: Gateway, VirtualService, Service and the node's ports.        *)

\* The ports the node's container declares, and the operations endpoint.
Listening(kind) ==
    {8080} \cup (IF kind = "peer" THEN {7051, 7052, 7053} ELSE {7050})

\* Ports that lead to the same number in the pod.
ServicePorts(kind) ==
    {8080} \cup (IF kind = "peer" THEN {7051, 7052} ELSE {7050})

\* Its selector, the kind and name of the CR, is that of the pods' labels.
newService(cr) ==
    [ type |-> IF cr.svcType = "Headless" THEN "None" ELSE cr.svcType,
      fqdn |-> cr.name, ports |-> ServicePorts(cr.kind) ]

GetServerPorts(kind) == IF kind = "peer" THEN {7051, 7052} ELSE {7050}

NewGateway(cr) == [host |-> cr.name, ports |-> GetServerPorts(cr.kind)]

\* Mutant of GetVirtualServiceSpec: the second route was copied from the first.
GetVirtualServiceSpecCopied(kind) ==
    IF kind = "peer" THEN {[port |-> 7051, to |-> 7051], [port |-> 7052, to |-> 7051]}
                     ELSE {[port |-> 7050, to |-> 7050]}

GetVirtualServiceSpec(kind) ==
    IF kind = "peer" THEN {[port |-> 7051, to |-> 7051], [port |-> 7052, to |-> 7052]}
                     ELSE {[port |-> 7050, to |-> 7050]}

NewVirtualService(cr) == [host |-> cr.name, routes |-> GetVirtualServiceSpec(cr.kind)]
=============================================================================
