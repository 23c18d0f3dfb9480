--------------------------- MODULE NodeReconciler ---------------------------
(* The reconcile loop of one FabricPeer custom resource (CR), together with  *)
(* what it talks to: the API server, the informer cache its reads come from, *)
(* the work queue that starts it, the StatefulSet controller and kubelet     *)
(* that run the pod, and the garbage collector.                              *)
(*                                                                           *)
(* An object is represented by the generation of the CR spec it was rendered *)
(* from: api[o] = 0 says that object o does not exist, api[o] = g that its   *)
(* content is what the builders of the controller make of hist[g].  What the *)
(* code compares (replicas, images and resources of the StatefulSet, Data of *)
(* a Secret) is Content(o, g); everything else in an object is never         *)
(* compared, and never changed once the object exists.                       *)
(*                                                                           *)
(* Reads go to the cache, writes to the API server: every object has a copy  *)
(* in both, and the copies are brought together by actions of their own.     *)
EXTENDS Naturals, Sequences, FiniteSets

CONSTANTS
    Secrets,      \* the certificate Secrets, in the order the code visits them
    Specs,        \* the CR specs a user may ask for
    MaxGen,       \* bound: number of specs a CR goes through
    MaxFaults,    \* bound: number of API errors, lost replies, restarts, crashes
    MayRevert,    \* may a user go back to a content given before?
    MayDelete,    \* may a user delete the CR?
    Lagging       \* bound: the objects whose informer may lag (the others never do)

SecretNames == {Secrets[i] : i \in 1 .. Len(Secrets)}
Objects == {"sa", "sts", "svc", "gw", "vs"} \cup SecretNames
Owned == Objects \ {"sa"}     \* the ServiceAccount gets no owner reference

ASSUME SecretsAssumption ==
    /\ Secrets \in Seq(STRING)
    /\ SecretNames \cap {"sa", "sts", "svc", "gw", "vs"} = {}
    /\ \A i, j \in 1 .. Len(Secrets) : Secrets[i] = Secrets[j] => i = j
ASSUME SpecsAssumption ==
    \A s \in Specs : /\ s.replicas \in Nat
                     /\ DOMAIN s.certs = SecretNames
ASSUME BoundsAssumption ==
    /\ MaxGen \in Nat \ {0} /\ MaxFaults \in Nat
    /\ MayRevert \in BOOLEAN /\ MayDelete \in BOOLEAN
    /\ Lagging \subseteq Objects \cup {"pod"}

\* The states api/v1alpha1/common.go declares, and no state ("").
NodeLists == {"none", "pod"}    \* Status.Nodes: not set, or the pod's name
States == {"Unset", "Creating", "Running", "Updating", "Error", "Suspended"}

\* Pod <name>-0: not there; phase other than Running; phase Running with the
\* peer container not started yet, running, or down after a restart.
PodPhases == {"absent", "Pending", "Starting", "Up", "Down"}
PhaseRunning == {"Starting", "Up", "Down"}

PCs == {"idle", "reset", "sa", "secrets", "sts", "mark", "svc", "svcRead",
        "dns", "gw", "vs", "poll", "state", "nodes"}

VARIABLES
    hist,      \* the specs of the CR, one per generation
    cr,        \* the CR at the API server
    seenCR,    \* the CR in the informer cache
    synced,    \* seenCR carries the CR's current resourceVersion
    api,       \* the objects at the API server
    cache,     \* the objects in the informer cache
    pod,       \* pod <name>-0 and the template it was made from
    cachePod,  \* its phase in the informer cache
    dns,       \* the service address is published under its fqdn
    pc,        \* where the reconciler stands
    idx,       \* the loop variable over Secrets
    inst,      \* the local variable instance
    fresh,     \* inst carries the CR's current resourceVersion
    podRead,   \* the local variable pod
    queued,    \* the CR's key is in the work queue
    retry,     \* the CR's key is to be added to the work queue later
    faults     \* faults so far

crVars == <<hist, cr, seenCR, synced>>
objVars == <<api, cache>>
podVars == <<pod, cachePod>>
locals == <<idx, inst, fresh, podRead>>
queueVars == <<queued, retry>>
vars == <<hist, cr, seenCR, synced, api, cache, pod, cachePod, dns, pc, idx,
          inst, fresh, podRead, queued, retry, faults>>

-----------------------------------------------------------------------------
(* What the code compares.                                                   *)

Replicas(g) == hist[g].replicas
Template(g) == hist[g].template

\* What of object o, rendered from spec h[g], the code compares: replicas and
\* template of the StatefulSet, data of a Secret, nothing of the others.
ContentIn(h, o, g) ==
    [ scale |-> IF o = "sts" THEN h[g].replicas ELSE 0,
      data  |-> IF o = "sts" THEN h[g].template
                ELSE IF o \in SecretNames THEN h[g].certs[o] ELSE "created once" ]

Content(o, g) == ContentIn(hist, o, g)
Desired(o) == Content(o, inst.gen)

\* Mutant of PodState: the pod's phase is taken for a state.
PodStateIsPhase(phase) == phase

\* The state the poll loop derives from the pod it read.
PodState(phase) ==
    CASE phase = "Up"       -> "Running"
      [] phase = "Down"     -> "Error"
      [] phase = "Starting" -> "Unset"
      [] OTHER              -> "Creating"

\* A Client.Update of the CR drops the status it is given (the CRD has a status
\* subresource); decoding the reply into instance restores a stored state, and
\* leaves the one in memory alone when the stored one is empty and so omitted.
AfterUpdate(mine, stored) == IF stored = "Unset" THEN mine ELSE stored

-----------------------------------------------------------------------------
NoObjects == [o \in Objects |-> 0]
NoPod == [phase |-> "absent", template |-> "none"]
NoInst == [gen |-> 0, state |-> "Unset", nodes |-> "none"]

Init ==
    /\ \E s \in Specs : hist = <<s>>
    /\ cr = [alive |-> TRUE, gen |-> 1, state |-> "Unset", nodes |-> "none"]
    /\ seenCR = cr
    /\ synced = TRUE
    /\ api = NoObjects /\ cache = NoObjects
    /\ pod = NoPod /\ cachePod = "absent"
    /\ dns = FALSE
    /\ pc = "idle" /\ idx = 1 /\ inst = NoInst
    /\ fresh = FALSE /\ podRead = "absent"
    /\ queued = TRUE /\ retry = FALSE
    /\ faults = 0

-----------------------------------------------------------------------------
(* How a reconcile ends or goes on.                                          *)

Return(again) ==
    /\ pc' = "idle" /\ idx' = 1 /\ inst' = NoInst
    /\ fresh' = FALSE /\ podRead' = "absent"
    /\ retry' = IF again THEN TRUE ELSE retry
    /\ UNCHANGED queued

\* return ctrl.Result{}, err or ctrl.Result{RequeueAfter: ...}
Requeue == Return(TRUE)

\* return ctrl.Result{}, nil
Done == Return(FALSE)

Continue(next, i, instance) ==
    /\ pc' = next /\ idx' = i /\ inst' = instance
    /\ UNCHANGED <<fresh, podRead, queueVars>>

Goto(next) == Continue(next, idx, inst)

Fault == faults < MaxFaults /\ faults' = faults + 1

\* The outcome of a write that took effect: the reply arrives and the code goes
\* on, or it is lost and the code sees an error.
Reply(GoOn) == \/ GoOn /\ UNCHANGED faults
               \/ Fault /\ Requeue

\* o becomes g at the API server, and in the cache at once if its informer
\* never lags.
Write(o, g) ==
    /\ api' = [api EXCEPT ![o] = g]
    /\ cache' = IF o \in Lagging THEN cache ELSE [cache EXCEPT ![o] = g]

-----------------------------------------------------------------------------
(* One reconcile, call by call.                                              *)

\* The work queue hands out the key; the CR is not in the cache.
FetchGone ==
    /\ pc = "idle" /\ queued /\ ~seenCR.alive
    /\ queued' = FALSE
    /\ UNCHANGED <<crVars, objVars, podVars, dns, pc, locals, retry, faults>>

\* Mutant of Fetch: NotFound is not looked at, and the last known CR is used.
FetchIgnoringNotFound ==
    /\ pc = "idle" /\ queued
    /\ queued' = FALSE
    /\ inst' = [gen |-> seenCR.gen, state |-> seenCR.state, nodes |-> seenCR.nodes]
    /\ fresh' = synced
    /\ pc' = "reset"
    /\ UNCHANGED <<crVars, objVars, podVars, dns, idx, podRead, retry, faults>>

\* The work queue hands out the key and the CR is read from the cache.
Fetch ==
    /\ pc = "idle" /\ queued /\ seenCR.alive
    /\ queued' = FALSE
    /\ inst' = [gen |-> seenCR.gen, state |-> seenCR.state, nodes |-> seenCR.nodes]
    /\ fresh' = synced
    /\ pc' = "reset"
    /\ UNCHANGED <<crVars, objVars, podVars, dns, idx, podRead, retry, faults>>

\* Mutant of Stored: a copy of instance is sent, and the reply is in the copy.
StoredInCopy(st) == [inst EXCEPT !.state = st]

\* The instance in memory after Client.Update(instance) with the state st.
Stored(st) == [inst EXCEPT !.state = AfterUpdate(st, cr.state)]

\* Client.Update(instance), refused when instance is not current.
UpdateCR(GoOn) ==
    \/ fresh /\ Reply(GoOn)
    \/ ~fresh /\ Requeue /\ UNCHANGED faults

\* An Updating CR is to become Running before the loop at the end polls it.
ResetUpdating ==
    /\ pc = "reset"
    /\ IF inst.state = "Updating" THEN UpdateCR(Continue("sa", idx, Stored("Running")))
       ELSE Goto("sa") /\ UNCHANGED faults
    /\ UNCHANGED <<crVars, objVars, podVars, dns>>

\* Mutant of EnsureExists: AlreadyExists is taken for a success.
EnsureExistsIgnoringConflict(o, GoOn) ==
    \/ /\ cache[o] # 0 \/ api[o] # 0
       /\ GoOn
       /\ UNCHANGED <<objVars, faults>>
    \/ /\ cache[o] = 0 /\ api[o] = 0
       /\ Write(o, inst.gen)
       /\ Reply(GoOn)

\* Create o unless the cache has it; an error when only the cache lacks it.
EnsureExists(o, GoOn) ==
    \/ /\ cache[o] # 0
       /\ GoOn
       /\ UNCHANGED <<objVars, faults>>
    \/ /\ cache[o] = 0 /\ api[o] # 0
       /\ Requeue
       /\ UNCHANGED <<objVars, faults>>
    \/ /\ cache[o] = 0 /\ api[o] = 0
       /\ Write(o, inst.gen)
       /\ Reply(GoOn)

AfterServiceAccount == IF Len(Secrets) = 0 THEN "sts" ELSE "secrets"

EnsureServiceAccount ==
    /\ pc = "sa"
    /\ EnsureExists("sa", Continue(AfterServiceAccount, 1, inst))
    /\ UNCHANGED <<crVars, podVars, dns>>

\* Mutant of NextSecret: the loop is left after its first round.
NextSecretLeaving == Continue("sts", 1, inst)

NextSecret ==
    IF idx = Len(Secrets) THEN Continue("sts", 1, inst)
                          ELSE Continue("secrets", idx + 1, inst)

\* One round of the loop over the Secrets.  A Secret is created, and then
\* updated with the same data, as currentSecret is still empty: the second call
\* changes nothing, and its failure is the lost reply.  An existing Secret with
\* other data is overwritten whatever its resourceVersion.
EnsureSecret ==
    LET o == Secrets[idx]
        outdated == cache[o] # 0 /\ Content(o, cache[o]) # Desired(o)
    IN
    /\ pc = "secrets"
    /\ \/ ~outdated /\ EnsureExists(o, NextSecret)
       \/ outdated /\ api[o] # 0 /\ Write(o, inst.gen) /\ Reply(NextSecret)
       \/ outdated /\ api[o] = 0 /\ Requeue /\ UNCHANGED <<objVars, faults>>
    /\ UNCHANGED <<crVars, podVars, dns>>

\* The StatefulSet is created.  currentSts is still empty then, so the candidate
\* made from it differs and has no name: the update that follows always fails.
CreateStatefulSet ==
    /\ pc = "sts" /\ cache["sts"] = 0
    /\ IF api["sts"] = 0 THEN Write("sts", inst.gen) ELSE UNCHANGED objVars
    /\ Requeue
    /\ UNCHANGED <<crVars, podVars, dns, faults>>

\* Mutant of UpdateStatefulSet: a conflict is taken for a success.
UpdateStatefulSetIgnoringConflict ==
    /\ pc = "sts" /\ cache["sts"] # 0
    /\ Content("sts", cache["sts"]) # Desired("sts")
    /\ IF api["sts"] = cache["sts"] THEN Write("sts", inst.gen) ELSE UNCHANGED objVars
    /\ Reply(Goto("svc"))
    /\ UNCHANGED <<crVars, podVars, dns>>

\* The candidate is the cached StatefulSet with the replicas, images and
\* resources of the CR; it is written if that changed something, and refused if
\* the cached copy is not the current one.
UpdateStatefulSet ==
    /\ pc = "sts" /\ cache["sts"] # 0
    /\ Content("sts", cache["sts"]) # Desired("sts")
    /\ \/ /\ api["sts"] = cache["sts"]
          /\ Write("sts", inst.gen)
          /\ Reply(Goto("mark"))
       \/ /\ api["sts"] # cache["sts"]
          /\ Requeue
          /\ UNCHANGED <<objVars, faults>>
    /\ UNCHANGED <<crVars, podVars, dns>>

\* Nothing to update.
KeepStatefulSet ==
    /\ pc = "sts" /\ cache["sts"] # 0
    /\ Content("sts", cache["sts"]) = Desired("sts")
    /\ Goto("svc")
    /\ UNCHANGED <<crVars, objVars, podVars, dns, faults>>

\* instance.Status.State = Updating; Client.Update(instance)
MarkUpdating ==
    /\ pc = "mark"
    /\ UpdateCR(Continue("svc", idx, Stored("Updating")))
    /\ UNCHANGED <<crVars, objVars, podVars, dns>>

EnsureService ==
    /\ pc = "svc"
    /\ EnsureExists("svc", Goto("svcRead"))
    /\ UNCHANGED <<crVars, podVars, dns>>

\* The Service is read again, from the cache: a new one may not be there yet.
ReadService ==
    /\ pc = "svcRead"
    /\ IF cache["svc"] = 0 THEN Requeue ELSE Goto("dns")
    /\ UNCHANGED <<crVars, objVars, podVars, dns, faults>>

\* Mutant of CheckDNS: an error of etcd is logged and not returned.
CheckDNSIgnoringErrors ==
    /\ pc = "dns"
    /\ \/ dns' = TRUE /\ UNCHANGED faults
       \/ dns' = dns /\ Fault
    /\ Goto("gw")
    /\ UNCHANGED <<crVars, objVars, podVars>>

CheckDNS ==
    /\ pc = "dns"
    /\ dns' = TRUE
    /\ Reply(Goto("gw"))
    /\ UNCHANGED <<crVars, objVars, podVars>>

EnsureGateway ==
    /\ pc = "gw"
    /\ EnsureExists("gw", Goto("vs"))
    /\ UNCHANGED <<crVars, podVars, dns>>

EnsureVirtualService ==
    /\ pc = "vs"
    /\ EnsureExists("vs", Goto("poll"))
    /\ UNCHANGED <<crVars, podVars, dns>>

\* The poll loop reads the pod over and over while instance is Updating and the
\* pod's phase is Running.
Spinning == pc = "poll" /\ inst.state = "Updating" /\ cachePod \in PhaseRunning

\* The poll loop is left with the pod it read.
PollPod ==
    /\ pc = "poll" /\ cachePod # "absent" /\ ~Spinning
    /\ podRead' = cachePod
    /\ pc' = "state"
    /\ UNCHANGED <<crVars, objVars, podVars, dns, idx, inst, fresh, queueVars, faults>>

\* No pod although there should be one.
PodMissing ==
    /\ pc = "poll" /\ cachePod = "absent" /\ Replicas(inst.gen) # 0
    /\ Requeue
    /\ UNCHANGED <<crVars, objVars, podVars, dns, faults>>

\* No pod and none wanted: Status.State = Suspended; Client.Update(instance)
Suspend ==
    /\ pc = "poll" /\ cachePod = "absent" /\ Replicas(inst.gen) = 0
    /\ UpdateCR(Done)
    /\ UNCHANGED <<crVars, objVars, podVars, dns>>

\* Mutant of UpdateStatus: written whatever instance's resourceVersion.
UpdateStatusUnconditionally(st, nodes, GoOn) ==
    /\ cr' = [cr EXCEPT !.state = st, !.nodes = nodes]
    /\ synced' = IF cr' = cr THEN synced ELSE FALSE
    /\ Reply(GoOn)
    /\ UNCHANGED <<hist, seenCR>>

\* Status().Update(instance) with the status st, then go on at next; refused
\* when instance is not current.
UpdateStatus(st, nodes, GoOn) ==
    \/ /\ fresh
       /\ cr' = [cr EXCEPT !.state = st, !.nodes = nodes]
       /\ synced' = IF cr' = cr THEN synced ELSE FALSE
       /\ Reply(GoOn)
       /\ UNCHANGED <<hist, seenCR>>
    \/ /\ ~fresh
       /\ Requeue
       /\ UNCHANGED <<crVars, faults>>

\* The state the pod tells goes to the CR when it is not the one in memory.
WriteState ==
    LET peerState == PodState(podRead)
        ToNodes == Continue("nodes", idx, [inst EXCEPT !.state = peerState])
    IN
    /\ pc = "state"
    /\ \/ /\ peerState # inst.state
          /\ UpdateStatus(peerState, inst.nodes, ToNodes)
       \/ /\ peerState = inst.state
          /\ Goto("nodes")
          /\ UNCHANGED <<crVars, faults>>
    /\ UNCHANGED <<objVars, podVars, dns>>

\* Mutant of Finish: nothing looks again at a node that is not Running yet.
FinishForGood == Return(FALSE)

\* A Running node is left alone, any other is looked at again.
Finish == Return(inst.state # "Running")

\* The pod's name goes to the CR when it is not there.
WriteNodes ==
    /\ pc = "nodes"
    /\ \/ /\ inst.nodes = "none"
          /\ UpdateStatus(inst.state, "pod", Finish)
       \/ /\ inst.nodes = "pod"
          /\ Finish
          /\ UNCHANGED <<crVars, faults>>
    /\ UNCHANGED <<objVars, podVars, dns>>

\* Any call fails without having had an effect.
ApiError ==
    /\ pc \notin {"idle", "poll"}
    /\ Fault
    /\ Requeue
    /\ UNCHANGED <<crVars, objVars, podVars, dns>>

\* Mutant of Restart: the first list may be an old one.
RestartFromOldList ==
    /\ Fault
    /\ pc' = "idle" /\ idx' = 1 /\ inst' = NoInst
    /\ fresh' = FALSE /\ podRead' = "absent"
    /\ \E g \in 1 .. cr.gen : seenCR' = [cr EXCEPT !.gen = g] /\ synced' = (g = cr.gen)
    /\ cache' = api /\ cachePod' = pod.phase
    /\ queued' = cr.alive /\ retry' = FALSE
    /\ UNCHANGED <<hist, cr, api, pod, dns>>

\* The process is killed; the next one lists everything and enqueues the CR.
Restart ==
    /\ Fault
    /\ pc' = "idle" /\ idx' = 1 /\ inst' = NoInst
    /\ fresh' = FALSE /\ podRead' = "absent"
    /\ seenCR' = cr /\ synced' = TRUE
    /\ cache' = api /\ cachePod' = pod.phase
    /\ queued' = cr.alive /\ retry' = FALSE
    /\ UNCHANGED <<hist, cr, api, pod, dns>>

-----------------------------------------------------------------------------
(* The work queue and the informers.                                         *)

RetryFires ==
    /\ retry
    /\ retry' = FALSE /\ queued' = TRUE
    /\ UNCHANGED <<crVars, objVars, podVars, dns, pc, locals, faults>>

\* The informer's periodic resync.
Resync ==
    /\ ~queued /\ seenCR.alive
    /\ queued' = TRUE
    /\ UNCHANGED <<crVars, objVars, podVars, dns, pc, locals, retry, faults>>

\* The informer learns of the CR's change: the only event that starts a reconcile.
CacheCR ==
    /\ ~synced
    /\ seenCR' = cr /\ synced' = TRUE
    /\ queued' = TRUE
    /\ UNCHANGED <<hist, cr, objVars, podVars, dns, pc, locals, retry, faults>>

CacheObject(o) ==
    /\ cache[o] # api[o]
    /\ cache' = [cache EXCEPT ![o] = api[o]]
    /\ UNCHANGED <<crVars, api, podVars, dns, pc, locals, queueVars, faults>>

CachePod ==
    /\ cachePod # pod.phase
    /\ cachePod' = pod.phase
    /\ UNCHANGED <<crVars, objVars, pod, dns, pc, locals, queueVars, faults>>

-----------------------------------------------------------------------------
(* The user and the cluster.                                                 *)

\* Nothing compared in h goes back to a content it had before.
RevertFree(h) ==
    \A o \in Objects : \A i, j, k \in 1 .. Len(h) :
        i < j /\ j < k /\ ContentIn(h, o, i) = ContentIn(h, o, k)
            => ContentIn(h, o, j) = ContentIn(h, o, i)

UserEdit ==
    /\ cr.alive /\ cr.gen < MaxGen
    /\ \E s \in Specs \ {hist[cr.gen]} :
          /\ hist' = Append(hist, s)
          /\ MayRevert \/ RevertFree(hist')
    /\ cr' = [cr EXCEPT !.gen = cr.gen + 1]
    /\ synced' = FALSE /\ fresh' = FALSE
    /\ UNCHANGED <<seenCR, objVars, podVars, dns, pc, idx, inst, podRead, queueVars, faults>>

UserDelete ==
    /\ MayDelete /\ cr.alive
    /\ cr' = [cr EXCEPT !.alive = FALSE]
    /\ synced' = FALSE /\ fresh' = FALSE
    /\ UNCHANGED <<hist, seenCR, objVars, podVars, dns, pc, idx, inst, podRead, queueVars, faults>>

\* An object whose owner is gone is removed.
GarbageCollect(o) ==
    /\ ~cr.alive /\ api[o] # 0
    /\ Write(o, 0)
    /\ UNCHANGED <<crVars, podVars, dns, pc, locals, queueVars, faults>>

PodWanted == api["sts"] # 0 /\ Replicas(api["sts"]) # 0

SetPod(p) ==
    /\ pod' = p
    /\ cachePod' = IF "pod" \in Lagging THEN cachePod ELSE p.phase
    /\ UNCHANGED <<crVars, objVars, dns, pc, locals, queueVars>>

CreatePod ==
    /\ PodWanted /\ pod.phase = "absent"
    /\ SetPod([phase |-> "Pending", template |-> Template(api["sts"])])
    /\ UNCHANGED faults

\* The pod gets on: scheduled, container up, container up again.
StartPod ==
    /\ pod.phase \in {"Pending", "Starting", "Down"}
    /\ SetPod([pod EXCEPT !.phase = IF pod.phase = "Pending" THEN "Starting" ELSE "Up"])
    /\ UNCHANGED faults

\* Scaled to zero, StatefulSet gone, or another template to be rolled out.
DeletePod ==
    /\ pod.phase # "absent"
    /\ PodWanted => pod.template # Template(api["sts"])
    /\ SetPod(NoPod)
    /\ UNCHANGED faults

\* The container dies, or the pod is lost with its machine.
PodFails ==
    /\ pod.phase \in PhaseRunning /\ Fault
    /\ \/ SetPod([pod EXCEPT !.phase = "Down"])
       \/ SetPod(NoPod)

-----------------------------------------------------------------------------
Reconcile ==
    \/ FetchGone \/ Fetch \/ ResetUpdating \/ EnsureServiceAccount \/ EnsureSecret
    \/ CreateStatefulSet \/ UpdateStatefulSet \/ KeepStatefulSet \/ MarkUpdating
    \/ EnsureService \/ ReadService \/ CheckDNS \/ EnsureGateway
    \/ EnsureVirtualService \/ PollPod \/ PodMissing \/ Suspend
    \/ WriteState \/ WriteNodes

Informers ==
    \/ CacheCR \/ CachePod
    \/ \E o \in Objects : CacheObject(o)

PodController == CreatePod \/ StartPod \/ DeletePod

Next ==
    \/ Reconcile \/ Informers \/ PodController
    \/ RetryFires \/ Resync
    \/ UserEdit \/ UserDelete
    \/ \E o \in Owned : GarbageCollect(o)
    \/ PodFails \/ ApiError \/ Restart

Spec == Init /\ [][Next]_vars

\* The worker goroutine runs, watches deliver, delayed retries fire and the
\* cluster's own controllers work; nothing makes users act or calls fail.
Fairness ==
    /\ WF_vars(Reconcile) /\ WF_vars(RetryFires)
    /\ WF_vars(CacheCR) /\ WF_vars(CachePod)
    /\ \A o \in Objects : WF_vars(CacheObject(o))
    /\ WF_vars(PodController)
    /\ \A o \in Owned : WF_vars(GarbageCollect(o))

FairSpec == Spec /\ Fairness

-----------------------------------------------------------------------------
(* Properties.                                                               *)

CRs == [alive : BOOLEAN, gen : 1 .. MaxGen, state : States, nodes : NodeLists]
Templates == {s.template : s \in Specs}

Insts == [gen : 0 .. MaxGen, state : States, nodes : NodeLists]
Pods == [phase : PodPhases, template : Templates \cup {"none"}]

\* The types of the variables.
CRType == hist \in Seq(Specs) /\ cr \in CRs /\ seenCR \in CRs
ObjType == /\ api \in [Objects -> 0 .. MaxGen]
           /\ cache \in [Objects -> 0 .. MaxGen]
PodType == pod \in Pods /\ cachePod \in PodPhases
LocalType == /\ pc \in PCs /\ idx \in 1 .. (Len(Secrets) + 1)
             /\ inst \in Insts /\ podRead \in PodPhases
FlagType == /\ synced \in BOOLEAN /\ dns \in BOOLEAN /\ fresh \in BOOLEAN
            /\ queued \in BOOLEAN /\ retry \in BOOLEAN

TypeOK == /\ CRType /\ ObjType /\ PodType /\ LocalType /\ FlagType
          /\ faults \in 0 .. MaxFaults

\* A CR that says Running has everything its node needs, whatever calls failed
\* on the way and however late the cache was: every object exists and the
\* service is published in DNS.
ReadyMeansComplete ==
    cr.alive /\ cr.state = "Running" => dns /\ \A o \in Objects : api[o] # 0

\* What object o holds, the spec g or a later one asks for.
AtLeast(o, g) == api[o] # 0 /\ \E h \in g .. cr.gen : Content(o, api[o]) = Content(o, h)

\* Pods are never made from a template that is ahead of what they mount and run
\* as: while the CR is there and its StatefulSet holds a spec, the
\* ServiceAccount exists and every Secret holds that spec's data or later data,
\* whatever calls failed and however late the Secrets are read.
SecretsFirst ==
    cr.alive /\ api["sts"] # 0 =>
        api["sa"] # 0 /\ \A o \in SecretNames : AtLeast(o, api["sts"])

\* No object is ever given an older spec than it has, not even a Secret, which
\* is overwritten whatever its resourceVersion, and not even while the CR is
\* being deleted.
NeverRolledBack ==
    [][\A o \in Objects : api'[o] # 0 => api'[o] >= api[o]]_vars

\* The poll loop can only hang on a CR that never had a state: an update of the
\* CR brings any state it has back into memory, over the Updating just set.
SpinsOnlyUnset == inst.state = "Updating" => cr.state = "Unset"

Applied(o) == api[o] # 0 /\ Content(o, api[o]) = Content(o, cr.gen)

\* Nothing is going on and nothing is going to start a reconcile.
Quiet == pc = "idle" /\ ~queued /\ ~retry /\ synced

\* No edit is lost: when the operator comes to rest, the StatefulSet and the
\* Secrets hold what the CR asks for, and the CR says Running unless the node
\* is scaled to zero.
QuietMeansApplied ==
    Quiet /\ cr.alive =>
        /\ \A o \in Objects : Applied(o)
        /\ cr.state = "Running" \/ Replicas(cr.gen) = 0

\* The status is only changed by a reconcile that worked from the current spec.
StatusFromCurrentSpec == [][cr'.state # cr.state => inst.gen = cr.gen]_vars

\* Whatever the user does, the operator ends up having applied the last spec,
\* unless the poll loop holds it.
Converged == /\ \A o \in Objects : Applied(o)
             /\ cr.state = "Running" \/ Replicas(cr.gen) = 0
Converges == <>[](~cr.alive \/ Spinning \/ Converged)

\* The objects of a deleted CR go, and a reconcile under way cannot bring them
\* back for good.
DeletedIsCollected == [](~cr.alive => <>[](\A o \in Owned : api[o] = 0))

\* The poll loop is left: "Change state to Running when enters in Updating to
\* prevent infinite loop".
ReconcileReturns == [](pc = "poll" => <>(pc # "poll"))

\* A node whose reconcile found it scaled to zero says so.
SuspendedReported ==
    [][pc = "poll" /\ pc' = "idle" /\ ~retry' => cr'.state = "Suspended"]_vars
=============================================================================
