----------------------- MODULE SpecPropagationProofs -----------------------
(* Theorems about SpecPropagation: objects that were made from different     *)
(* specs fit together, and what the reconcile loop compares is brought to    *)
(* the last one.                                                             *)
EXTENDS SpecPropagation, TLAPS

-----------------------------------------------------------------------------
(* Every StatefulSet was built from one spec, s, and later brought to the    *)
(* replicas, images and limits of another, t.                                *)

MadeContainer(s, image, limit, c) ==
    [ image |-> image, limit |-> limit, name |-> s.name,
      login |-> Login(s, c), mounts |-> VolumeMounts(s, c) ]

Composed(s, replicas, containers) ==
    [ replicas   |-> replicas, containers |-> containers,
      volumes    |-> Volumes(s),
      claims     |-> VolumeClaimTemplates(s.kind), size |-> s.size ]

\* As the API server stores it.
Made(s, t) ==
    Composed(s, t.replicas,
        [c \in Containers(s.kind) |->
            MadeContainer(s, Image(t, c), Canonical(Limit(t, c)), c)])

\* As the reconcile loop sends it.
Sent(s, t) ==
    Composed(s, t.replicas,
        [c \in Containers(s.kind) |-> MadeContainer(s, Image(t, c), Limit(t, c), c)])

LEMMA NoneIsNoObject ==
    /\ \A s, t : Made(s, t) # None
    /\ \A s : newService(s) # None
    /\ \A s : NewGateway(s) # None /\ NewVirtualService(s) # None
  <1>1. DOMAIN None = {"missing"}
    BY DEF None
  <1>2. ASSUME NEW s, NEW t PROVE Made(s, t) # None
    <2>1. "size" \in DOMAIN Made(s, t)
      BY DEF Made, Composed
    <2> QED
      BY <1>1, <2>1
  <1>3. ASSUME NEW s
        PROVE  newService(s) # None /\ NewGateway(s) # None /\ NewVirtualService(s) # None
    <2>1. "fqdn" \in DOMAIN newService(s)
      BY DEF newService
    <2>2. "host" \in DOMAIN NewGateway(s) /\ "host" \in DOMAIN NewVirtualService(s)
      BY DEF NewGateway, NewVirtualService
    <2> QED
      BY <1>1, <2>1, <2>2
  <1> QED
    BY <1>2, <1>3

LEMMA BuiltIsSent == ASSUME NEW s PROVE newStatefulSet(s) = Sent(s, s)
  BY DEF newStatefulSet, newContainers, Sent, Composed, MadeContainer

LEMMA StoredIsMade ==
    ASSUME NEW s, NEW t
    PROVE  Stored(Sent(s, t)) = Made(s, t)
  <1> DEFINE K == Containers(s.kind)
             sent == [c \in K |-> MadeContainer(s, Image(t, c), Limit(t, c), c)]
             made == [c \in K |-> MadeContainer(s, Image(t, c), Canonical(Limit(t, c)), c)]
             stored == [c \in DOMAIN sent |-> [sent[c] EXCEPT !.limit = Canonical(@)]]
  <1>1. ASSUME NEW c \in K
        PROVE  [sent[c] EXCEPT !.limit = Canonical(@)] = made[c]
    BY DEF MadeContainer
  <1>2. stored = made
    BY <1>1
  <1>3. Sent(s, t).containers = sent /\ Sent(s, t) = Composed(s, t.replicas, sent)
    BY DEF Sent, Composed
  <1>4. Stored(Sent(s, t)) = [Composed(s, t.replicas, sent) EXCEPT !.containers = stored]
    BY <1>3 DEF Stored
  <1>5. [Composed(s, t.replicas, sent) EXCEPT !.containers = made]
            = Composed(s, t.replicas, made)
    <2> HIDE DEF sent, made
    <2> QED
      BY DEF Composed
  <1> QED
    BY <1>2, <1>4, <1>5 DEF Made

LEMMA CandidateIsSent ==
    ASSUME NEW s \in Specs, NEW t \in Specs, NEW u \in Specs,
           s.kind = u.kind, sts = Made(s, t)
    PROVE  Candidate(newStatefulSet(u)) = Sent(s, u)
  <1> DEFINE K == Containers(s.kind)
             old == [c \in K |-> MadeContainer(s, Image(t, c), Canonical(Limit(t, c)), c)]
             new == [c \in K |-> MadeContainer(u, Image(u, c), Limit(u, c), c)]
             sent == [c \in K |-> MadeContainer(s, Image(u, c), Limit(u, c), c)]
             merged == [c \in DOMAIN old |-> [old[c] EXCEPT !.image = new[c].image,
                                                           !.limit = new[c].limit]]
  <1>1. ASSUME NEW c \in K
        PROVE  [old[c] EXCEPT !.image = new[c].image, !.limit = new[c].limit] = sent[c]
    <2>1. new[c].image = Image(u, c) /\ new[c].limit = Limit(u, c)
      BY DEF MadeContainer
    <2>2. /\ old[c] = MadeContainer(s, Image(t, c), Canonical(Limit(t, c)), c)
          /\ sent[c] = MadeContainer(s, Image(u, c), Limit(u, c), c)
      OBVIOUS
    <2>3. [MadeContainer(s, Image(t, c), Canonical(Limit(t, c)), c)
              EXCEPT !.image = Image(u, c), !.limit = Limit(u, c)]
              = MadeContainer(s, Image(u, c), Limit(u, c), c)
      <3> DEFINE i == Image(t, c)
                 l == Canonical(Limit(t, c))
                 j == Image(u, c)
                 m == Limit(u, c)
      <3> HIDE DEF i, l, j, m
      <3>1. [MadeContainer(s, i, l, c) EXCEPT !.image = j] = MadeContainer(s, j, l, c)
        BY DEF MadeContainer
      <3>2. [MadeContainer(s, j, l, c) EXCEPT !.limit = m] = MadeContainer(s, j, m, c)
        BY DEF MadeContainer
      <3>3. [MadeContainer(s, i, l, c) EXCEPT !.image = j, !.limit = m]
                = [[MadeContainer(s, i, l, c) EXCEPT !.image = j] EXCEPT !.limit = m]
        BY DEF MadeContainer
      <3>4. [MadeContainer(s, i, l, c) EXCEPT !.image = j, !.limit = m]
                = MadeContainer(s, j, m, c)
        BY <3>1, <3>2, <3>3
      <3> QED
        BY <3>4 DEF i, l, j, m
    <2> HIDE DEF old, new, sent
    <2> QED
      BY <2>1, <2>2, <2>3
  <1>2. merged = sent
    BY <1>1
  <1>3. /\ newStatefulSet(u).containers = new
        /\ newStatefulSet(u).replicas = u.replicas
    BY BuiltIsSent DEF Sent, Composed
  <1>4. sts = Composed(s, t.replicas, old) /\ sts.containers = old
    BY DEF Made, Composed
  <1>5. Candidate(newStatefulSet(u))
            = [Composed(s, t.replicas, old) EXCEPT !.replicas = u.replicas,
                                                   !.containers = merged]
    BY <1>3, <1>4 DEF Candidate
  <1>6. [Composed(s, t.replicas, old) EXCEPT !.replicas = u.replicas, !.containers = sent]
            = Composed(s, u.replicas, sent)
    <2> HIDE DEF old, sent
    <2> DEFINE q == t.replicas
               r == u.replicas
    <2> HIDE DEF q, r
    <2>1. [Composed(s, q, old) EXCEPT !.replicas = r] = Composed(s, r, old)
      BY DEF Composed
    <2>2. [Composed(s, r, old) EXCEPT !.containers = sent] = Composed(s, r, sent)
      BY DEF Composed
    <2>3. [Composed(s, q, old) EXCEPT !.replicas = r, !.containers = sent]
              = [[Composed(s, q, old) EXCEPT !.replicas = r] EXCEPT !.containers = sent]
      BY DEF Composed
    <2>4. [Composed(s, q, old) EXCEPT !.replicas = r, !.containers = sent]
              = Composed(s, r, sent)
      BY <2>1, <2>2, <2>3
    <2> QED
      BY <2>4 DEF q, r
  <1> QED
    BY <1>2, <1>5, <1>6 DEF Sent

LEMMA CanonicalTwice == \A q : Canonical(Canonical(q)) = Canonical(q)
  BY DEF Canonical

\* A StatefulSet that is not outdated has all that is compared, as it would be stored.
LEMMA KeptIsMade ==
    ASSUME NEW s \in Specs, NEW t \in Specs, NEW u \in Specs,
           s.kind = u.kind, sts = Made(s, t), ~Outdated(newStatefulSet(u))
    PROVE  sts = Made(s, u)
  <1>1. Made(s, t) = Sent(s, u)
    BY CandidateIsSent DEF Outdated
  <1>2. t.replicas = u.replicas
    BY <1>1 DEF Made, Sent, Composed
  <1>3. ASSUME NEW c \in Containers(s.kind)
        PROVE  Image(t, c) = Image(u, c) /\ Canonical(Limit(t, c)) = Limit(u, c)
    <2> DEFINE made == Made(s, t).containers
               sent == Sent(s, u).containers
    <2>1. made[c] = MadeContainer(s, Image(t, c), Canonical(Limit(t, c)), c)
      BY DEF Made, Composed
    <2>2. sent[c] = MadeContainer(s, Image(u, c), Limit(u, c), c)
      BY DEF Sent, Composed
    <2>3. MadeContainer(s, Image(t, c), Canonical(Limit(t, c)), c)
              = MadeContainer(s, Image(u, c), Limit(u, c), c)
      BY <1>1, <2>1, <2>2
    <2> QED
      BY <2>3 DEF MadeContainer
  <1>4. \A c \in Containers(s.kind) : Canonical(Limit(u, c)) = Limit(u, c)
    BY <1>3, CanonicalTwice
  <1>5. [c \in Containers(s.kind) |-> MadeContainer(s, Image(u, c), Limit(u, c), c)]
          = [c \in Containers(s.kind) |->
                MadeContainer(s, Image(u, c), Canonical(Limit(u, c)), c)]
    BY <1>4
  <1>6. Sent(s, u) = Made(s, u)
    BY <1>5 DEF Made, Sent
  <1> QED
    BY <1>1, <1>6

-----------------------------------------------------------------------------
(* The invariant.                                                            *)

\* Under a spec that was reconciled the StatefulSet is up to date.
StatefulSetInv ==
    sts # None =>
        \E s \in Specs, t \in Specs :
            /\ s.kind = cr.kind /\ t.kind = cr.kind
            /\ sts = Made(s, t)
            /\ passes > 0 => t = cr

ReconciledInv == passes > 0 => sts # None /\ secrets = newSecrets(cr)

\* The rest is of the CR's kind, and comes in order.
NetworkInv ==
    /\ svc # None => /\ sts # None /\ outcome # "refused"
                     /\ svc.ports = ServicePorts(cr.kind)
    /\ gw # None => svc # None /\ gw.ports = GetServerPorts(cr.kind)
    /\ vs # None => vs.routes = GetVirtualServiceSpec(cr.kind)

Inv == /\ cr \in Specs /\ passes \in 0 .. 2
       /\ StatefulSetInv /\ ReconciledInv /\ NetworkInv

LEMMA InitInv == Init => Inv
  BY DEF Init, Inv, StatefulSetInv, ReconciledInv, NetworkInv

LEMMA CreateInv == Inv /\ CreateObjects => Inv'
  <1> SUFFICES ASSUME Inv, CreateObjects PROVE Inv'
    OBVIOUS
  <1> USE DEF Inv
  <1>1. sts' = Made(cr, cr) /\ cr' = cr /\ cr \in Specs
    BY BuiltIsSent, StoredIsMade DEF CreateObjects
  <1>2. sts' # None
    BY <1>1, NoneIsNoObject
  <1>3. passes' \in 0 .. 2
    BY DEF CreateObjects, Pass
  <1>4. StatefulSetInv'
    BY <1>1 DEF StatefulSetInv
  <1>5. ReconciledInv'
    BY <1>1, <1>2 DEF CreateObjects, ReconciledInv
  <1>6. NetworkInv'
    BY <1>1 DEF CreateObjects, NetworkInv, network
  <1> QED
    BY <1>1, <1>3, <1>4, <1>5, <1>6

\* After the StatefulSet was looked at, it has what the spec asks for.
LEMMA UpdatedIsMade ==
    ASSUME Inv, UpdateObjects
    PROVE  /\ \E s \in Specs : s.kind = cr.kind /\ sts' = Made(s, cr)
           /\ \/ ~Outdated(newStatefulSet(cr)) /\ EnsureNetwork("kept")
              \/ Outdated(newStatefulSet(cr)) /\ EnsureNetwork("updated")
  <1>1. PICK s \in Specs, t \in Specs :
            s.kind = cr.kind /\ t.kind = cr.kind /\ sts = Made(s, t)
    BY DEF UpdateObjects, Inv, StatefulSetInv
  <1>2. cr \in Specs
    BY DEF Inv
  <1>3. Candidate(newStatefulSet(cr)) = Sent(s, cr)
    BY <1>1, <1>2, CandidateIsSent
  <1>4. AdmitsStatefulSet(Candidate(newStatefulSet(cr)))
    <2>1. Sent(s, cr).size = s.size /\ sts.size = s.size
      BY <1>1 DEF Sent, Made, Composed
    <2> QED
      BY <1>3, <2>1 DEF AdmitsStatefulSet
  <1>5. CASE ~Outdated(newStatefulSet(cr)) /\ EnsureNetwork("kept") /\ UNCHANGED sts
    BY <1>1, <1>2, <1>5, KeptIsMade
  <1>6. CASE /\ Outdated(newStatefulSet(cr)) /\ EnsureNetwork("updated")
             /\ sts' = Stored(Candidate(newStatefulSet(cr)))
    BY <1>1, <1>3, <1>6, StoredIsMade
  <1> QED
    BY <1>4, <1>5, <1>6 DEF UpdateObjects

LEMMA EnsureNetworkInv ==
    ASSUME Inv, sts # None, sts' # None, cr' = cr,
           NEW result \in {"kept", "updated"}, EnsureNetwork(result)
    PROVE  /\ NetworkInv'
           /\ svc # None => outcome' # "refused"
  <1> USE NoneIsNoObject DEF Inv, NetworkInv, EnsureNetwork, Ensured, network
  <1> DEFINE new == newService(cr)
  <1>0. new # None /\ new.ports = ServicePorts(cr.kind)
    BY DEF newService
  <1> HIDE DEF new
  <1>1. CASE UNCHANGED network /\ (svc = None \/ outcome' = "failed")
    BY <1>1
  <1>2. CASE /\ svc' = Ensured(svc, new)
             /\ outcome' # "refused"
             /\ gw' = gw \/ gw' = Ensured(gw, NewGateway(cr))
             /\ vs' = vs \/ vs' = Ensured(vs, NewVirtualService(cr))
    <2>1. outcome' # "refused"
      BY <1>2
    <2>3. svc' # None /\ svc'.ports = ServicePorts(cr.kind)
      BY <1>0, <1>2
    <2>4. gw' # None => gw'.ports = GetServerPorts(cr.kind)
      <3>1. NewGateway(cr).ports = GetServerPorts(cr.kind)
        BY DEF NewGateway
      <3>2. gw' = gw \/ gw' = Ensured(gw, NewGateway(cr))
        BY <1>2
      <3> QED
        BY <3>1, <3>2
    <2>5. vs' # None => vs'.routes = GetVirtualServiceSpec(cr.kind)
      <3>1. NewVirtualService(cr).routes = GetVirtualServiceSpec(cr.kind)
        BY DEF NewVirtualService
      <3>2. vs' = vs \/ vs' = Ensured(vs, NewVirtualService(cr))
        BY <1>2
      <3> QED
        BY <3>1, <3>2
    <2> QED
      BY <2>1, <2>3, <2>4, <2>5
  <1>3. EnsureNetwork(result)
    OBVIOUS
  <1>4. \/ UNCHANGED network /\ (svc = None \/ outcome' = "failed")
        \/ /\ svc' = Ensured(svc, new)
           /\ outcome' # "refused"
           /\ gw' = gw \/ gw' = Ensured(gw, NewGateway(cr))
           /\ vs' = vs \/ vs' = Ensured(vs, NewVirtualService(cr))
    BY <1>3 DEF new
  <1> QED
    BY <1>1, <1>2, <1>4

LEMMA UpdateInv == Inv /\ UpdateObjects => Inv'
  <1> SUFFICES ASSUME Inv, UpdateObjects PROVE Inv'
    OBVIOUS
  <1>1. cr' = cr /\ cr \in Specs /\ passes' \in 0 .. 2 /\ sts # None
        /\ secrets' = newSecrets(cr)
    BY DEF Inv, UpdateObjects, Pass
  <1>2. PICK s \in Specs : s.kind = cr.kind /\ sts' = Made(s, cr)
    BY UpdatedIsMade
  <1>3. sts' # None
    BY <1>2, NoneIsNoObject
  <1>4. NetworkInv'
    BY <1>1, <1>3, UpdatedIsMade, EnsureNetworkInv
  <1>5. StatefulSetInv'
    BY <1>1, <1>2 DEF StatefulSetInv
  <1>6. ReconciledInv'
    BY <1>1, <1>3 DEF ReconciledInv
  <1> QED
    BY <1>1, <1>4, <1>5, <1>6 DEF Inv

LEMMA EditInv == Inv /\ Edit => Inv'
  <1> SUFFICES ASSUME Inv, Edit PROVE Inv'
    OBVIOUS
  <1>1. cr' \in Specs /\ cr'.kind = cr.kind /\ passes' = 0
        /\ UNCHANGED <<sts, secrets, svc, gw, vs, outcome>>
    BY DEF Edit, network
  <1>2. StatefulSetInv'
    BY <1>1 DEF Inv, StatefulSetInv
  <1>3. NetworkInv'
    BY <1>1 DEF Inv, NetworkInv
  <1> QED
    BY <1>1, <1>2, <1>3 DEF Inv, ReconciledInv

LEMMA InvHolds == Spec => []Inv
  <1>1. Inv /\ [Next]_vars => Inv'
    <2>1. Inv /\ UNCHANGED vars => Inv'
      BY DEF Inv, StatefulSetInv, ReconciledInv, NetworkInv, vars
    <2> QED
      BY <2>1, CreateInv, UpdateInv, EditInv DEF Next
  <1> QED
    BY <1>1, InitInv, PTL DEF Spec

-----------------------------------------------------------------------------
(* What was made from one spec and updated from another.                     *)

LEMMA MadeContainers ==
    ASSUME NEW s, NEW t, NEW c \in Containers(s.kind)
    PROVE  LET made == Made(s, t).containers[c] IN
           /\ made.image = Image(t, c) /\ made.limit = Canonical(Limit(t, c))
           /\ made.login = Login(s, c) /\ made.mounts = VolumeMounts(s, c)
  <1>1. Made(s, t).containers[c] = MadeContainer(s, Image(t, c), Canonical(Limit(t, c)), c)
    BY DEF Made, Composed
  <1> QED
    BY <1>1 DEF MadeContainer

LEMMA MadeFields ==
    ASSUME NEW s, NEW t
    PROVE  /\ Made(s, t).volumes = Volumes(s)
           /\ Made(s, t).claims = VolumeClaimTemplates(s.kind)
           /\ Made(s, t).replicas = t.replicas
  BY DEF Made, Composed

\* Each volume a spec's containers mount is one that the same spec gives the pod.
LEMMA VolumesOfMounts ==
    ASSUME NEW s \in Specs, NEW c \in Containers(s.kind), NEW m \in VolumeMounts(s, c)
    PROVE  m.volume \in Volumes(s) \cup VolumeClaimTemplates(s.kind)
  <1>1. s.kind \in Kinds
    BY SpecsAssumption
  <1>2. \A v, o, d : Mount(v, o, d).volume = v
    BY DEF Mount
  <1>3. m \in CertificateMounts(s.kind) => m.volume = "certificate"
    BY <1>2 DEF CertificateMounts
  <1>4. CASE c = s.kind
    <2>1. m \in NodeMounts(s)
      BY <1>1, <1>4 DEF VolumeMounts, Kinds
    <2>2. \/ m \in CertificateMounts(s.kind)
          \/ m.volume = DataVolume(s.kind)
          \/ m.volume \in SecretsOf(s.kind)
          \/ m.volume \in NodeOUs(s)
      BY <1>2, <2>1 DEF NodeMounts
    <2> QED
      BY <1>3, <2>2 DEF Volumes, VolumeClaimTemplates
  <1>5. CASE c # s.kind /\ c = "metrics"
    BY <1>3, <1>5 DEF VolumeMounts, VolumeClaimTemplates
  <1>6. CASE c # s.kind /\ c = "couchdb"
    <2>1. s.kind = "peer"
      BY <1>1, <1>6 DEF Containers, Kinds
    <2>2. m.volume = "peerdata"
      BY <1>2, <1>6 DEF VolumeMounts
    <2> QED
      BY <2>1, <2>2 DEF VolumeClaimTemplates, DataVolume
  <1>7. CASE c # s.kind /\ c # "metrics" /\ c # "couchdb"
    BY <1>7 DEF VolumeMounts
  <1> QED
    BY <1>4, <1>5, <1>6, <1>7

\* The node's files are where its environment says.
LEMMA FilesMounted ==
    ASSUME NEW s \in Specs
    PROVE  FilesNamed(s.kind) \subseteq {m.dir : m \in VolumeMounts(s, s.kind)}
  <1>1. \A v, o, d : Mount(v, o, d).dir = <<o, d>>
    BY DEF Mount
  <1>2. VolumeMounts(s, s.kind) = NodeMounts(s)
    BY SpecsAssumption DEF VolumeMounts, Kinds
  <1>3. /\ Mount("certificate", s.kind, "msp") \in NodeMounts(s)
        /\ Mount("certificate", s.kind, "tls") \in NodeMounts(s)
    BY DEF NodeMounts, CertificateMounts
  <1>4. s.kind = "orderer" => Mount("genesis", "orderer", "genesis") \in NodeMounts(s)
    BY DEF NodeMounts, SecretsOf
  <1> QED
    BY <1>1, <1>2, <1>3, <1>4 DEF FilesNamed

-----------------------------------------------------------------------------
(* The theorems.                                                             *)

\* For any specs and any sequence of edits: what a successful reconcile
\* compared is as the spec asks for.
THEOREM ChangesApplied == Spec => []ChangesReachPods
  <1>1. Inv => ChangesReachPods
    <2> SUFFICES ASSUME Inv, passes > 0
                 PROVE  /\ sts.replicas = cr.replicas
                        /\ secrets = newSecrets(cr)
                        /\ \A c \in Containers(cr.kind) :
                              /\ cr.images[c] # "unset" =>
                                    sts.containers[c].image = cr.images[c]
                              /\ cr.limits[c] # "unset" =>
                                    sts.containers[c].limit = Canonical(cr.limits[c])
      BY DEF ChangesReachPods
    <2>1. PICK s \in Specs : s.kind = cr.kind /\ sts = Made(s, cr)
      BY DEF Inv, StatefulSetInv, ReconciledInv
    <2>2. \A c \in Containers(cr.kind) :
              /\ sts.containers[c].image = Image(cr, c)
              /\ sts.containers[c].limit = Canonical(Limit(cr, c))
      BY <2>1, MadeContainers
    <2>3. sts.replicas = cr.replicas /\ secrets = newSecrets(cr)
      BY <2>1, MadeFields DEF Inv, ReconciledInv
    <2> QED
      BY <2>2, <2>3 DEF Image, Limit
  <1> QED
    BY <1>1, InvHolds, PTL

\* The pods can be made and find their files, from whichever specs the
\* StatefulSet was made and updated.
THEOREM MountsCorrect == Spec => []MountsResolve
  <1>1. Inv => MountsResolve
    <2> SUFFICES ASSUME Inv, sts # None
                 PROVE  LET there == sts.volumes \cup sts.claims IN
                        /\ InitMounts(cr.kind) \subseteq there
                        /\ \A c \in Containers(cr.kind) :
                              \A m \in sts.containers[c].mounts : m.volume \in there
                        /\ FilesNamed(cr.kind)
                              \subseteq {m.dir : m \in sts.containers[cr.kind].mounts}
      BY DEF MountsResolve
    <2>1. PICK s \in Specs, t \in Specs : s.kind = cr.kind /\ sts = Made(s, t)
      BY DEF Inv, StatefulSetInv
    <2>2. /\ sts.volumes = Volumes(s) /\ sts.claims = VolumeClaimTemplates(s.kind)
          /\ \A c \in Containers(s.kind) : sts.containers[c].mounts = VolumeMounts(s, c)
      BY <2>1, MadeFields, MadeContainers
    <2>3. InitMounts(s.kind) \subseteq VolumeClaimTemplates(s.kind)
      BY DEF InitMounts, VolumeClaimTemplates, DataVolume
    <2>4. s.kind \in Containers(s.kind)
      BY DEF Containers
    <2> QED
      BY <2>1, <2>2, <2>3, <2>4, VolumesOfMounts, FilesMounted
  <1> QED
    BY <1>1, InvHolds, PTL

\* Peer and CouchDB agree, from whichever specs they were made and updated.
THEOREM LoginsCorrect == Spec => []LoginsAgree
  <1>1. Inv => LoginsAgree
    <2> SUFFICES ASSUME Inv, sts # None, cr.kind = "peer"
                 PROVE  sts.containers["peer"].login = sts.containers["couchdb"].login
      BY DEF LoginsAgree
    <2>1. PICK s \in Specs, t \in Specs : s.kind = "peer" /\ sts = Made(s, t)
      BY DEF Inv, StatefulSetInv
    <2>2. {"peer", "couchdb"} \subseteq Containers(s.kind)
      BY <2>1 DEF Containers
    <2>3. /\ sts.containers["peer"].login = Login(s, "peer")
          /\ sts.containers["couchdb"].login = Login(s, "couchdb")
      BY <2>1, <2>2, MadeContainers
    <2> QED
      BY <2>3 DEF Login
  <1> QED
    BY <1>1, InvHolds, PTL

\* The way in leads to the node's port, whichever reconciles made its parts.
THEOREM TrafficCorrect == Spec => []TrafficArrives
  <1>1. Inv => TrafficArrives
    <2> SUFFICES ASSUME Inv, gw # None, vs # None
                 PROVE  \A p \in gw.ports :
                            /\ \E r \in vs.routes : r.port = p
                            /\ \A r \in vs.routes : r.port = p => r.to = p
                            /\ p \in svc.ports \cap Listening(cr.kind)
      BY DEF TrafficArrives
    <2>1. /\ gw.ports = GetServerPorts(cr.kind) /\ vs.routes = GetVirtualServiceSpec(cr.kind)
          /\ svc.ports = ServicePorts(cr.kind)
      BY DEF Inv, NetworkInv
    <2>4. CASE cr.kind = "peer"
      <3>1. gw.ports = {7051, 7052}
            /\ vs.routes = {[port |-> 7051, to |-> 7051], [port |-> 7052, to |-> 7052]}
        BY <2>1, <2>4 DEF GetServerPorts, GetVirtualServiceSpec
      <3>2. {7051, 7052} \subseteq svc.ports \cap Listening(cr.kind)
        BY <2>1, <2>4 DEF ServicePorts, Listening
      <3> QED
        BY <2>1, <3>1, <3>2
    <2>5. CASE cr.kind # "peer"
      <3>1. gw.ports = {7050} /\ vs.routes = {[port |-> 7050, to |-> 7050]}
        BY <2>1, <2>5 DEF GetServerPorts, GetVirtualServiceSpec
      <3>2. 7050 \in svc.ports \cap Listening(cr.kind)
        BY <2>1, <2>5 DEF ServicePorts, Listening
      <3> QED
        BY <2>1, <3>1, <3>2
    <2> QED
      BY <2>4, <2>5
  <1> QED
    BY <1>1, InvHolds, PTL

\* No edit leaves the operator with a StatefulSet that the API server refuses.
THEOREM NeverWedgedHolds == Spec => NeverWedged
  <1>1. Inv /\ [Next]_vars => [sts # None /\ svc # None => outcome' # "refused"]_vars
    <2> SUFFICES ASSUME Inv, Next, sts # None, svc # None
                 PROVE  outcome' # "refused"
      OBVIOUS
    <2>1. CASE UpdateObjects
      <3>1. \E result \in {"kept", "updated"} : EnsureNetwork(result)
        BY <2>1, UpdatedIsMade
      <3> QED
        BY <3>1 DEF EnsureNetwork
    <2>2. CASE Edit
      BY <2>2 DEF Edit, Inv, NetworkInv
    <2> QED
      BY <2>1, <2>2 DEF Next, CreateObjects
  <1> QED
    BY <1>1, InvHolds, PTL DEF Spec, NeverWedged

\* Quantities are written the way the API server stores them.
CanonicalLimits ==
    \A s \in Specs : \A c \in Containers(s.kind) : Canonical(Limit(s, c)) = Limit(s, c)

\* If they are, the second reconcile of a spec finds nothing to update.
THEOREM SettlesCorrect == ASSUME CanonicalLimits PROVE Spec => []Settles
  <1> DEFINE I == passes = 2 => outcome # "updated"
  <1>1. Init => I
    BY DEF Init
  <1>2. Inv /\ I /\ [Next]_vars => I'
    <2> SUFFICES ASSUME Inv, I, [Next]_vars PROVE I'
      OBVIOUS
    <2>1. CASE CreateObjects
      BY <2>1 DEF CreateObjects
    <2>2. CASE UpdateObjects
      <3> SUFFICES ASSUME passes' = 2 PROVE outcome' # "updated"
        OBVIOUS
      <3>1. passes > 0
        BY <2>2 DEF UpdateObjects, Pass, Inv
      <3>2. PICK s \in Specs : s.kind = cr.kind /\ sts = Made(s, cr)
        BY <2>2, <3>1 DEF UpdateObjects, Inv, StatefulSetInv
      <3>3. \A c \in Containers(s.kind) : Canonical(Limit(cr, c)) = Limit(cr, c)
        BY <3>2, CanonicalLimits DEF CanonicalLimits, Inv
      <3>4. [c \in Containers(s.kind) |->
                MadeContainer(s, Image(cr, c), Canonical(Limit(cr, c)), c)]
            = [c \in Containers(s.kind) |-> MadeContainer(s, Image(cr, c), Limit(cr, c), c)]
        BY <3>3
      <3>5. Made(s, cr) = Sent(s, cr)
        BY <3>4 DEF Made, Sent
      <3>6. ~Outdated(newStatefulSet(cr))
        BY <3>2, <3>5, CandidateIsSent DEF Outdated, Inv
      <3>7. EnsureNetwork("kept")
        BY <2>2, <3>6, UpdatedIsMade
      <3> QED
        BY <3>7 DEF EnsureNetwork
    <2>3. CASE Edit
      BY <2>3 DEF Edit
    <2>4. CASE UNCHANGED vars
      BY <2>4 DEF vars
    <2> QED
      BY <2>1, <2>2, <2>3, <2>4 DEF Next
  <1>3. I => Settles
    BY DEF Settles, Succeeded
  <1> QED
    BY <1>1, <1>2, <1>3, InvHolds, PTL DEF Spec
-----------------------------------------------------------------------------
(* One name for the three objects that are never changed.                    *)

\* A CommonName is given once.
NamesAreKept == \A s, t \in Specs : s.kind = t.kind => s.name = t.name

\* All that is there is called by it, and all of it is there in the end.
Called ==
    /\ svc # None => svc.fqdn = cr.name
    /\ gw # None => gw.host = cr.name
    /\ vs # None => vs.host = cr.name
    /\ Succeeded => svc # None /\ gw # None /\ vs # None

LEMMA CalledStep ==
    ASSUME NamesAreKept, Inv, Called, [Next]_vars PROVE Called'
  <1>1. CASE CreateObjects
    BY <1>1 DEF CreateObjects, Called, Succeeded, network
  <1>2. CASE UpdateObjects
    <2>1. cr' = cr
      BY <1>2 DEF UpdateObjects
    <2>2. PICK result \in {"kept", "updated"} : EnsureNetwork(result)
      BY <1>2, UpdatedIsMade
    <2> DEFINE new == newService(cr)
    <2>3. new.fqdn = cr.name /\ NewGateway(cr).host = cr.name
          /\ NewVirtualService(cr).host = cr.name
      BY DEF newService, NewGateway, NewVirtualService
    <2>4. new # None /\ NewGateway(cr) # None /\ NewVirtualService(cr) # None
      BY NoneIsNoObject
    <2>5. /\ svc' = svc \/ svc' = Ensured(svc, new)
          /\ gw' = gw \/ gw' = Ensured(gw, NewGateway(cr))
          /\ vs' = vs \/ vs' = Ensured(vs, NewVirtualService(cr))
      BY <2>2 DEF EnsureNetwork, network
    <2>6. outcome' \in {"kept", "updated"} =>
              /\ svc' = Ensured(svc, new) /\ gw' = Ensured(gw, NewGateway(cr))
              /\ vs' = Ensured(vs, NewVirtualService(cr))
      BY <2>2 DEF EnsureNetwork
    <2> HIDE DEF new
    <2> QED
      BY <2>1, <2>3, <2>4, <2>5, <2>6 DEF Called, Succeeded, Ensured
  <1>3. CASE Edit
    <2>1. cr'.name = cr.name /\ UNCHANGED <<svc, gw, vs, outcome>>
      BY <1>3 DEF Edit, NamesAreKept, Inv, network
    <2> QED
      BY <2>1 DEF Called, Succeeded
  <1>4. CASE UNCHANGED vars
    BY <1>4 DEF vars, Called, Succeeded
  <1> QED
    BY <1>1, <1>2, <1>3, <1>4 DEF Next

\* The name a node is published under is one the ingress accepts, as long as its
\* CommonName is not edited: the three objects that are never changed agree
\* even if different reconciles made them.
THEOREM PublishedRoutedUnrenamed == ASSUME NamesAreKept PROVE Spec => []PublishedIsRouted
  <1>1. Init => Called
    BY DEF Init, Called, Succeeded
  <1>2. Inv /\ Called /\ [Next]_vars => Called'
    BY CalledStep, NamesAreKept
  <1>3. Called => PublishedIsRouted
    BY DEF Called, PublishedIsRouted
  <1> QED
    BY <1>1, <1>2, <1>3, InvHolds, PTL DEF Spec

=============================================================================
