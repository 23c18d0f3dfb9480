--------------------------- MODULE SpecPropagation ---------------------------
(* Which edits of a spec reach the objects of the node, and whether the      *)
(* objects, which were made from different specs, still fit together.  Here  *)
(* a reconcile is one step, and its reads are current: stale reads and most  *)
(* failures are NodeReconciler's concern.  A reconcile that ends between the *)
(* objects that are never changed, though, leaves those after it to another  *)
(* spec.                                                                     *)
EXTENDS NodeObjects

CONSTANTS
    Specs,      \* the specs a user may ask for
    MaxEdits    \* bound: number of edits

ASSUME SpecsAssumption == \A s \in Specs : s.kind \in Kinds
ASSUME MaxEditsAssumption == MaxEdits \in Nat

VARIABLES
    cr,        \* the spec of the CR
    sts,       \* the StatefulSet
    secrets,   \* the Secrets' data
    svc,       \* the Service
    gw,        \* the Gateway
    vs,        \* the VirtualService
    outcome,   \* of the last reconcile: refused by the API server, failed by
               \* chance, StatefulSet updated or kept
    passes,    \* reconciles since the last edit, as far as two
    edits      \* edits so far

network == <<svc, gw, vs>>
vars == <<cr, sts, secrets, svc, gw, vs, outcome, passes, edits>>

None == [missing |-> TRUE]

Init ==
    /\ cr \in Specs
    /\ sts = None /\ secrets = [s \in SecretsOf(cr.kind) |-> "missing"]
    /\ svc = None /\ gw = None /\ vs = None
    /\ outcome = "none" /\ passes = 0
    /\ edits = 0

-----------------------------------------------------------------------------
(* The API server.                                                           *)

\* It keeps a quantity in its canonical form.
Canonical(q) == IF q = "1000m" THEN "1" ELSE q

Stored(s) ==
    [s EXCEPT !.containers =
        [c \in DOMAIN s.containers |-> [s.containers[c] EXCEPT !.limit = Canonical(@)]]]

\* It refuses a StatefulSet whose volume claims change, and an unknown type of
\* Service.
AdmitsStatefulSet(new) == sts # None => new.size = sts.size
AdmitsService(new) == new.type # "None"

-----------------------------------------------------------------------------
(* The reconcile loop.                                                       *)

\* Mutant of Candidate: the new StatefulSet as it was built.
CandidateWhole(new) == new

\* Mutant of Candidate: whole containers are taken over, for their environment.
CandidateContainers(new) ==
    [sts EXCEPT !.replicas = new.replicas, !.containers = new.containers]

\* Mutant of Candidate: the environment of the node's own container is taken over too.
CandidateLogin(new) ==
    [sts EXCEPT
        !.replicas = new.replicas,
        !.containers = [c \in DOMAIN sts.containers |->
            [sts.containers[c] EXCEPT !.image = new.containers[c].image,
                                      !.limit = new.containers[c].limit,
                                      !.login = IF c = cr.kind THEN new.containers[c].login
                                                               ELSE @]]]

\* The stored StatefulSet with the replicas, images and resources of new.
Candidate(new) ==
    [sts EXCEPT
        !.replicas = new.replicas,
        !.containers = [c \in DOMAIN sts.containers |->
            [sts.containers[c] EXCEPT !.image = new.containers[c].image,
                                      !.limit = new.containers[c].limit]]]

\* Mutant of Outdated: the StatefulSet as built is compared, not the candidate.
OutdatedAsBuilt(new) == new # sts

Outdated(new) == Candidate(new) # sts

\* An object is created if it is not there, and never changed.
Ensured(object, new) == IF object = None THEN new ELSE object

\* Service, DNS, Gateway and VirtualService, in this order; a call that fails
\* ends the reconcile.
EnsureNetwork(result) ==
    LET new == newService(cr) IN
    \/ outcome' = "failed" /\ UNCHANGED network
    \/ /\ svc = None /\ ~AdmitsService(new)
       /\ outcome' = "refused"
       /\ UNCHANGED network
    \/ /\ svc = None => AdmitsService(new)
       /\ svc' = Ensured(svc, new)
       /\ \/ outcome' = "failed" /\ UNCHANGED <<gw, vs>>
          \/ outcome' = "failed" /\ gw' = Ensured(gw, NewGateway(cr)) /\ UNCHANGED vs
          \/ /\ gw' = Ensured(gw, NewGateway(cr))
             /\ vs' = Ensured(vs, NewVirtualService(cr))
             /\ outcome' = result

Pass == passes' = IF passes = 2 THEN 2 ELSE passes + 1

\* A StatefulSet is created, and the update that follows it is refused.
CreateObjects ==
    /\ sts = None
    /\ secrets' = newSecrets(cr)
    /\ sts' = Stored(newStatefulSet(cr))
    /\ outcome' = "refused" /\ Pass
    /\ UNCHANGED <<cr, network, edits>>

UpdateObjects ==
    LET new == newStatefulSet(cr) IN
    /\ sts # None
    /\ secrets' = newSecrets(cr)
    /\ \/ /\ ~Outdated(new)
          /\ EnsureNetwork("kept")
          /\ UNCHANGED sts
       \/ /\ Outdated(new) /\ AdmitsStatefulSet(Candidate(new))
          /\ sts' = Stored(Candidate(new))
          /\ EnsureNetwork("updated")
       \/ /\ Outdated(new) /\ ~AdmitsStatefulSet(Candidate(new))
          /\ outcome' = "refused"
          /\ UNCHANGED <<sts, network>>
    /\ Pass
    /\ UNCHANGED <<cr, edits>>

\* Another spec for the same CR.
Edit ==
    /\ edits < MaxEdits
    /\ cr' \in {s \in Specs \ {cr} : s.kind = cr.kind}
    /\ passes' = 0 /\ edits' = edits + 1
    /\ UNCHANGED <<sts, secrets, network, outcome>>

Next == CreateObjects \/ UpdateObjects \/ Edit

Spec == Init /\ [][Next]_vars

-----------------------------------------------------------------------------
(* Properties.                                                               *)

Succeeded == outcome \in {"kept", "updated"}

\* After a reconcile of the current spec that succeeded, whatever was edited
\* before, the pods run the images and limits the spec asks for, in the number
\* it asks for, and the Secrets hold its certificates.
ChangesReachPods ==
    passes > 0 /\ Succeeded =>
        /\ sts.replicas = cr.replicas
        /\ secrets = newSecrets(cr)
        /\ \A c \in Containers(cr.kind) :
              /\ cr.images[c] # "unset" => sts.containers[c].image = cr.images[c]
              /\ cr.limits[c] # "unset" =>
                    sts.containers[c].limit = Canonical(cr.limits[c])

\* No sequence of edits, be it of a field that cannot be changed, leaves the
\* operator with a StatefulSet it fails to update for ever.
NeverWedged == [][sts # None /\ svc # None => outcome' # "refused"]_vars

\* One reconcile is enough: the next one of the same spec finds nothing to
\* update, so that the CR does not become Updating again and again.
Settles == passes = 2 /\ Succeeded => outcome = "kept"

\* A pod can be made of the StatefulSet, which was built from one spec and
\* updated from others: each volume a container mounts is one of the pod's or
\* of its claims, and each file the node's environment names is mounted.
MountsResolve ==
    sts # None =>
        LET there == sts.volumes \cup sts.claims IN
        /\ InitMounts(cr.kind) \subseteq there
        /\ \A c \in Containers(cr.kind) : \A m \in sts.containers[c].mounts : m.volume \in there
        /\ FilesNamed(cr.kind) \subseteq {m.dir : m \in sts.containers[cr.kind].mounts}

\* The peer logs in to CouchDB as CouchDB asks for, whatever images are chosen
\* and taken back after the pods were first made.
LoginsAgree ==
    sts # None /\ cr.kind = "peer" =>
        sts.containers["peer"].login = sts.containers["couchdb"].login

\* What the ingress lets in is handed, by a VirtualService and a Service that
\* may have been made by other reconciles, to a port of that number on which
\* the node listens.
TrafficArrives ==
    gw # None /\ vs # None =>
        \A p \in gw.ports :
            /\ \E r \in vs.routes : r.port = p
            /\ \A r \in vs.routes : r.port = p => r.to = p
            /\ p \in svc.ports \cap Listening(cr.kind)

\* Once a reconcile succeeded, the name that the Service is published under is
\* one that the ingress accepts.
PublishedIsRouted == Succeeded => svc.fqdn = gw.host /\ svc.fqdn = vs.host
=============================================================================
