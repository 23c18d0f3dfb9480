------------------------ MODULE NodeReconcilerProofs ------------------------
(* What TLAPS proves of NodeReconciler, for every list of Secrets, every set *)
(* of specs and every bound.                                                 *)
EXTENDS NodeReconciler, TLAPS

-----------------------------------------------------------------------------
(* Type correctness.  Generations only come from the history of specs, and   *)
(* the loop over the Secrets stays inside it.                                *)

CRBound == Len(hist) = cr.gen /\ seenCR.gen <= cr.gen
ObjBound == \A o \in Objects : api[o] <= cr.gen
LocalBound == inst.gen <= cr.gen /\ (pc = "secrets" => idx <= Len(Secrets))
FaultType == faults \in 0 .. MaxFaults

Types == /\ CRType /\ ObjType /\ PodType /\ LocalType /\ FaultType
         /\ CRBound /\ ObjBound /\ LocalBound

\* The Secrets are finitely many.
LEMMA SecretsLength == Len(Secrets) \in Nat
  BY SecretsAssumption

\* What the reconcile names are objects.
LEMMA InObjects ==
  /\ {"sa", "sts", "svc", "gw", "vs"} \subseteq Objects
  /\ \A i \in 1 .. Len(Secrets) : Secrets[i] \in Objects
  BY DEF Objects, SecretNames

\* Leaving the reconcile resets its locals.
LEMMA ReturnType ==
  ASSUME Types, cr'.gen = cr.gen, NEW again, Return(again)
  PROVE  LocalType' /\ LocalBound'
  BY SecretsLength, BoundsAssumption
  DEF Types, CRType, CRs, Return, LocalType, LocalBound, PCs, Insts, NoInst, States,
      NodeLists, PodPhases

\* The instance a Client.Update leaves in memory is one.
LEMMA StoredType ==
  ASSUME Types, NEW st \in States
  PROVE  Stored(st) \in Insts /\ Stored(st).gen = inst.gen
  BY DEF Types, Stored, AfterUpdate, LocalType, Insts, CRType, CRs

\* Whatever the pod's phase, the poll derives a state from it.
LEMMA PodStateType == \A phase : PodState(phase) \in States
  BY DEF PodState, States

\* The initial states are typed.
LEMMA TypesInit == Init => Types
<1> SUFFICES ASSUME Init PROVE Types
  OBVIOUS
<1>1. CRType /\ Len(hist) = 1
  BY BoundsAssumption DEF Init, CRType, CRs, States, NodeLists
<1>2. ObjType
  BY BoundsAssumption DEF Init, ObjType, NoObjects
<1>3. LocalType
  BY SecretsLength, BoundsAssumption
  DEF Init, LocalType, NoInst, Insts, States, NodeLists, PCs, PodPhases
<1>4. PodType
  BY DEF Init, PodType, NoPod, Pods, PodPhases
<1>5. FaultType
  BY BoundsAssumption DEF Init, FaultType
<1>6. CRBound /\ ObjBound /\ LocalBound
  BY <1>1, BoundsAssumption DEF Init, CRBound, ObjBound, LocalBound, NoObjects, NoInst
<1> QED
  BY <1>1, <1>2, <1>3, <1>4, <1>5, <1>6 DEF Types

(* The writes to the CR.                                                     *)

\* A status written leaves a CR, of the same generation.
LEMMA UpdateStatusType ==
  ASSUME Types, NEW st \in States, NEW n \in NodeLists,
         cr' = [cr EXCEPT !.state = st, !.nodes = n], UNCHANGED <<hist, seenCR>>
  PROVE  CRType' /\ CRBound' /\ cr'.gen = cr.gen
  BY DEF Types, CRType, CRBound, CRs

\* The state is written to the CR, or nothing is.
LEMMA WriteStateCR ==
  ASSUME Types, WriteState
  PROVE  CRType' /\ CRBound' /\ cr'.gen = cr.gen
<1>1. CASE UNCHANGED <<hist, cr, seenCR>>
  BY <1>1 DEF Types, CRType, CRBound
<1>2. CASE /\ cr' = [cr EXCEPT !.state = PodState(podRead), !.nodes = inst.nodes]
           /\ UNCHANGED <<hist, seenCR>>
  BY <1>2, UpdateStatusType, PodStateType DEF Types, LocalType, Insts
<1> QED
  BY <1>1, <1>2 DEF WriteState, UpdateStatus, crVars

\* The pod's name is written to the CR, or nothing is.
LEMMA WriteNodesCR ==
  ASSUME Types, WriteNodes
  PROVE  CRType' /\ CRBound' /\ cr'.gen = cr.gen
<1>1. CASE UNCHANGED <<hist, cr, seenCR>>
  BY <1>1 DEF Types, CRType, CRBound
<1>2. CASE /\ cr' = [cr EXCEPT !.state = inst.state, !.nodes = "pod"]
           /\ UNCHANGED <<hist, seenCR>>
  <2>1. inst.state \in States
    BY DEF Types, LocalType, Insts
  <2>2. "pod" \in NodeLists
    BY DEF NodeLists
  <2> QED
    BY <1>2, <2>1, <2>2, UpdateStatusType
<1> QED
  BY <1>1, <1>2 DEF WriteNodes, UpdateStatus, crVars

\* An edit appends a spec and counts the generation up.
LEMMA UserEditType ==
  ASSUME Types, UserEdit
  PROVE  CRType' /\ CRBound' /\ cr'.gen = cr.gen + 1
<1>1. PICK s \in Specs : hist' = Append(hist, s)
  BY DEF UserEdit
<1>2. hist' \in Seq(Specs) /\ Len(hist') = Len(hist) + 1
  BY <1>1 DEF Types, CRType
<1>3. cr' \in CRs /\ cr'.gen = cr.gen + 1 /\ seenCR' = seenCR
  BY BoundsAssumption DEF UserEdit, Types, CRType, CRs
<1> QED
  BY <1>2, <1>3 DEF Types, CRType, CRBound, CRs

\* A deletion leaves the generation alone.
LEMMA UserDeleteType ==
  ASSUME Types, UserDelete
  PROVE  CRType' /\ CRBound' /\ cr'.gen = cr.gen
  BY DEF UserDelete, Types, CRType, CRBound, CRs

(* One lemma for each step of the reconcile: the locals after it.            *)

\* The locals after the state is reset.
LEMMA ResetUpdatingLocals == ASSUME Types, ResetUpdating PROVE LocalType' /\ LocalBound'
<1>1. cr' = cr
  BY DEF ResetUpdating, crVars
<1>2. Requeue \/ Continue("sa", idx, Stored("Running")) \/ Goto("sa")
  BY DEF ResetUpdating, EnsureExists, UpdateCR, Reply
<1>3. CASE Requeue
  BY <1>1, <1>3, ReturnType DEF Requeue
<1>4. CASE Continue("sa", idx, Stored("Running"))
  BY <1>1, <1>4, StoredType DEF Types, Continue, LocalType, LocalBound, PCs, States
<1>5. CASE Goto("sa")
  BY <1>1, <1>5 DEF Types, Goto, Continue, LocalType, LocalBound, PCs
<1> QED
  BY <1>2, <1>3, <1>4, <1>5

\* The locals after the ServiceAccount: the loop over the Secrets begins, or is passed over.
LEMMA EnsureServiceAccountLocals == ASSUME Types, EnsureServiceAccount PROVE LocalType' /\ LocalBound'
<1>1. cr' = cr
  BY DEF EnsureServiceAccount, crVars
<1>2. Requeue \/ Continue(AfterServiceAccount, 1, inst)
  BY DEF EnsureServiceAccount, EnsureExists, UpdateCR, Reply
<1>3. CASE Requeue
  BY <1>1, <1>3, ReturnType DEF Requeue
<1>4. CASE Continue(AfterServiceAccount, 1, inst)
  BY <1>1, <1>4, SecretsLength DEF Types, AfterServiceAccount, Continue, LocalType, LocalBound, PCs
<1> QED
  BY <1>2, <1>3, <1>4

\* The locals after a round of the loop: the next Secret, or the StatefulSet.
LEMMA EnsureSecretLocals == ASSUME Types, EnsureSecret PROVE LocalType' /\ LocalBound'
<1>1. cr' = cr
  BY DEF EnsureSecret, crVars
<1>2. Requeue \/ NextSecret
  BY DEF EnsureSecret, EnsureExists, UpdateCR, Reply
<1>3. CASE Requeue
  BY <1>1, <1>3, ReturnType DEF Requeue
<1>4. CASE NextSecret
  BY <1>1, <1>4, SecretsLength DEF Types, NextSecret, EnsureSecret, Continue, LocalType, LocalBound, PCs
<1> QED
  BY <1>2, <1>3, <1>4

\* The locals after the StatefulSet is created: the reconcile has ended.
LEMMA CreateStatefulSetLocals == ASSUME Types, CreateStatefulSet PROVE LocalType' /\ LocalBound'
  BY ReturnType DEF CreateStatefulSet, Requeue, crVars

\* The locals after the StatefulSet is updated.
LEMMA UpdateStatefulSetLocals == ASSUME Types, UpdateStatefulSet PROVE LocalType' /\ LocalBound'
<1>1. cr' = cr
  BY DEF UpdateStatefulSet, crVars
<1>2. Requeue \/ Goto("mark")
  BY DEF UpdateStatefulSet, EnsureExists, UpdateCR, Reply
<1>3. CASE Requeue
  BY <1>1, <1>3, ReturnType DEF Requeue
<1>4. CASE Goto("mark")
  BY <1>1, <1>4 DEF Types, Goto, Continue, LocalType, LocalBound, PCs
<1> QED
  BY <1>2, <1>3, <1>4

\* The locals after instance became Updating.
LEMMA MarkUpdatingLocals == ASSUME Types, MarkUpdating PROVE LocalType' /\ LocalBound'
<1>1. cr' = cr
  BY DEF MarkUpdating, crVars
<1>2. Requeue \/ Continue("svc", idx, Stored("Updating"))
  BY DEF MarkUpdating, EnsureExists, UpdateCR, Reply
<1>3. CASE Requeue
  BY <1>1, <1>3, ReturnType DEF Requeue
<1>4. CASE Continue("svc", idx, Stored("Updating"))
  BY <1>1, <1>4, StoredType DEF Types, Continue, LocalType, LocalBound, PCs, States
<1> QED
  BY <1>2, <1>3, <1>4

\* The locals after the Service.
LEMMA EnsureServiceLocals == ASSUME Types, EnsureService PROVE LocalType' /\ LocalBound'
<1>1. cr' = cr
  BY DEF EnsureService, crVars
<1>2. Requeue \/ Goto("svcRead")
  BY DEF EnsureService, EnsureExists, UpdateCR, Reply
<1>3. CASE Requeue
  BY <1>1, <1>3, ReturnType DEF Requeue
<1>4. CASE Goto("svcRead")
  BY <1>1, <1>4 DEF Types, Goto, Continue, LocalType, LocalBound, PCs
<1> QED
  BY <1>2, <1>3, <1>4

\* The locals after the Service is read again.
LEMMA ReadServiceLocals == ASSUME Types, ReadService PROVE LocalType' /\ LocalBound'
<1>1. cr' = cr
  BY DEF ReadService, crVars
<1>2. Requeue \/ Goto("dns")
  BY DEF ReadService, EnsureExists, UpdateCR, Reply
<1>3. CASE Requeue
  BY <1>1, <1>3, ReturnType DEF Requeue
<1>4. CASE Goto("dns")
  BY <1>1, <1>4 DEF Types, Goto, Continue, LocalType, LocalBound, PCs
<1> QED
  BY <1>2, <1>3, <1>4

\* The locals after the record is checked.
LEMMA CheckDNSLocals == ASSUME Types, CheckDNS PROVE LocalType' /\ LocalBound'
<1>1. cr' = cr
  BY DEF CheckDNS, crVars
<1>2. Requeue \/ Goto("gw")
  BY DEF CheckDNS, EnsureExists, UpdateCR, Reply
<1>3. CASE Requeue
  BY <1>1, <1>3, ReturnType DEF Requeue
<1>4. CASE Goto("gw")
  BY <1>1, <1>4 DEF Types, Goto, Continue, LocalType, LocalBound, PCs
<1> QED
  BY <1>2, <1>3, <1>4

\* The locals after the Gateway.
LEMMA EnsureGatewayLocals == ASSUME Types, EnsureGateway PROVE LocalType' /\ LocalBound'
<1>1. cr' = cr
  BY DEF EnsureGateway, crVars
<1>2. Requeue \/ Goto("vs")
  BY DEF EnsureGateway, EnsureExists, UpdateCR, Reply
<1>3. CASE Requeue
  BY <1>1, <1>3, ReturnType DEF Requeue
<1>4. CASE Goto("vs")
  BY <1>1, <1>4 DEF Types, Goto, Continue, LocalType, LocalBound, PCs
<1> QED
  BY <1>2, <1>3, <1>4

\* The locals after the VirtualService.
LEMMA EnsureVirtualServiceLocals == ASSUME Types, EnsureVirtualService PROVE LocalType' /\ LocalBound'
<1>1. cr' = cr
  BY DEF EnsureVirtualService, crVars
<1>2. Requeue \/ Goto("poll")
  BY DEF EnsureVirtualService, EnsureExists, UpdateCR, Reply
<1>3. CASE Requeue
  BY <1>1, <1>3, ReturnType DEF Requeue
<1>4. CASE Goto("poll")
  BY <1>1, <1>4 DEF Types, Goto, Continue, LocalType, LocalBound, PCs
<1> QED
  BY <1>2, <1>3, <1>4

\* The locals after a suspension: the reconcile has ended.
LEMMA SuspendLocals == ASSUME Types, Suspend PROVE LocalType' /\ LocalBound'
<1>1. cr' = cr
  BY DEF Suspend, crVars
<1>2. Requeue \/ Done
  BY DEF Suspend, EnsureExists, UpdateCR, Reply
<1>3. CASE Requeue
  BY <1>1, <1>3, ReturnType DEF Requeue
<1>4. CASE Done
  BY <1>1, <1>4, ReturnType DEF Done
<1> QED
  BY <1>2, <1>3, <1>4

\* The locals after the state is written: that of the pod in memory.
LEMMA WriteStateLocals == ASSUME Types, WriteState PROVE LocalType' /\ LocalBound'
<1> DEFINE next == [inst EXCEPT !.state = PodState(podRead)]
<1>1. cr'.gen = cr.gen
  BY WriteStateCR
<1>2. Requeue \/ Continue("nodes", idx, next) \/ Goto("nodes")
  BY DEF WriteState, UpdateStatus, Reply
<1>3. CASE Requeue
  BY <1>1, <1>3, ReturnType DEF Requeue
<1>4. CASE Continue("nodes", idx, next)
  <2>1. next \in Insts /\ next.gen = inst.gen
    BY PodStateType DEF Types, LocalType, Insts
  <2> QED
    BY <1>1, <1>4, <2>1 DEF Types, Continue, LocalType, LocalBound, PCs
<1>5. CASE Goto("nodes")
  BY <1>1, <1>5 DEF Types, Goto, Continue, LocalType, LocalBound, PCs
<1> QED
  BY <1>2, <1>3, <1>4, <1>5

\* The locals after the last write: the reconcile has ended.
LEMMA WriteNodesLocals == ASSUME Types, WriteNodes PROVE LocalType' /\ LocalBound'
<1>1. cr'.gen = cr.gen
  BY WriteNodesCR
<1>2. Requeue \/ Finish
  BY DEF WriteNodes, UpdateStatus, Reply
<1> QED
  BY <1>1, <1>2, ReturnType DEF Requeue, Finish

(* The objects and the pod.                                                  *)

\* A write of a generation that exists keeps the objects' types.
LEMMA WriteType ==
  ASSUME Types, NEW o \in Objects, NEW g \in 0 .. MaxGen, g <= cr.gen, Write(o, g), cr' = cr
  PROVE  ObjType' /\ ObjBound'
<1>1. api' = [api EXCEPT ![o] = g] /\ (cache' = cache \/ cache' = [cache EXCEPT ![o] = g])
  BY DEF Write
<1> QED
  BY <1>1 DEF Types, ObjType, ObjBound

\* The objects keep their types in every step of the reconcile.
LEMMA ReconcileObjects ==
  ASSUME Types,
         \/ EnsureServiceAccount \/ EnsureSecret \/ CreateStatefulSet \/ UpdateStatefulSet
         \/ EnsureService \/ EnsureGateway \/ EnsureVirtualService
  PROVE  ObjType' /\ ObjBound'
<1>1. inst.gen \in 0 .. MaxGen /\ inst.gen <= cr.gen
  BY DEF Types, LocalType, LocalBound, Insts
<1>2. cr' = cr
  BY DEF EnsureServiceAccount, EnsureSecret, CreateStatefulSet, UpdateStatefulSet,
         EnsureService, EnsureGateway, EnsureVirtualService, crVars
<1>3. UNCHANGED objVars \/ \E o \in Objects : Write(o, inst.gen)
  <2>1. CASE EnsureSecret
    <3>1. Secrets[idx] \in Objects
      BY <2>1, InObjects DEF EnsureSecret, Types, LocalType, LocalBound
    <3> QED
      BY <2>1, <3>1 DEF EnsureSecret, EnsureExists
  <2>2. CASE ~EnsureSecret
    BY <2>2, InObjects DEF EnsureServiceAccount, CreateStatefulSet, UpdateStatefulSet,
       EnsureService, EnsureGateway, EnsureVirtualService, EnsureExists
  <2> QED
    BY <2>1, <2>2
<1>4. CASE UNCHANGED objVars
  BY <1>2, <1>4 DEF Types, ObjType, ObjBound, objVars
<1>5. CASE \E o \in Objects : Write(o, inst.gen)
  BY <1>1, <1>2, <1>5, WriteType
<1> QED
  BY <1>3, <1>4, <1>5

\* The pod keeps its type, whoever changes it.
LEMMA PodStepType ==
  ASSUME Types, CreatePod \/ StartPod \/ DeletePod \/ PodFails
  PROVE  PodType'
<1>1. PICK p \in Pods : SetPod(p)
  <2>1. NoPod \in Pods
    BY DEF NoPod, Pods, PodPhases
  <2>2. CASE CreatePod
    <3>1. hist[api["sts"]] \in Specs
      BY <2>2, InObjects DEF CreatePod, PodWanted, Types, CRType, CRBound, ObjType, ObjBound, CRs
    <3>2. Template(api["sts"]) \in Templates
      BY <3>1 DEF Template, Templates
    <3>3. [phase |-> "Pending", template |-> Template(api["sts"])] \in Pods
      BY <3>2 DEF Pods, PodPhases
    <3> QED
      BY <2>2, <3>3 DEF CreatePod
  <2>3. CASE StartPod
    <3>1. \A ph \in {"Starting", "Up"} : [pod EXCEPT !.phase = ph] \in Pods
      BY DEF Types, PodType, Pods, PodPhases
    <3> QED
      BY <2>3, <3>1 DEF StartPod
  <2>4. CASE DeletePod
    BY <2>1, <2>4 DEF DeletePod
  <2>5. CASE PodFails
    <3>1. [pod EXCEPT !.phase = "Down"] \in Pods
      BY DEF Types, PodType, Pods, PodPhases
    <3> QED
      BY <2>1, <2>5, <3>1 DEF PodFails
  <2> QED
    BY <2>2, <2>3, <2>4, <2>5
<1> QED
  BY <1>1 DEF SetPod, Types, PodType, Pods
(* The flags, by a prover of their own.                                      *)

\* An update of the CR keeps the flags Booleans.
LEMMA UpdateFlags ==
  ASSUME FlagType, WriteState \/ WriteNodes
  PROVE  FlagType'
  BY Zenon DEF FlagType, WriteState, WriteNodes, Finish, Requeue, Return, Goto, Continue,
     UpdateStatus, Reply, crVars, queueVars

\* The calls of a reconcile keep the flags Booleans.
LEMMA CallFlags ==
  ASSUME FlagType,
         \/ ResetUpdating \/ EnsureServiceAccount \/ EnsureSecret \/ CreateStatefulSet
         \/ UpdateStatefulSet \/ KeepStatefulSet \/ MarkUpdating \/ EnsureService
         \/ ReadService \/ CheckDNS \/ EnsureGateway \/ EnsureVirtualService
         \/ PodMissing \/ Suspend
  PROVE  FlagType'
<1>1. synced' \in BOOLEAN /\ dns' \in BOOLEAN
  BY Zenon DEF FlagType, ResetUpdating, EnsureServiceAccount, EnsureSecret, CreateStatefulSet,
     UpdateStatefulSet, KeepStatefulSet, MarkUpdating, EnsureService, ReadService,
     CheckDNS, EnsureGateway, EnsureVirtualService, PodMissing, Suspend, crVars
<1>2. \/ Requeue \/ Done
      \/ \E next, i, instance : Continue(next, i, instance)
  BY Zenon DEF ResetUpdating, EnsureServiceAccount, EnsureSecret, CreateStatefulSet,
     UpdateStatefulSet, KeepStatefulSet, MarkUpdating, EnsureService, ReadService,
     CheckDNS, EnsureGateway, EnsureVirtualService, PodMissing, Suspend,
     EnsureExists, NextSecret, UpdateCR, Reply, Goto
<1> QED
  BY Zenon, <1>1, <1>2 DEF FlagType, Requeue, Done, Return, Continue, queueVars

\* The other steps keep the flags Booleans.
LEMMA OtherFlags ==
  ASSUME FlagType, CRType,
         \/ FetchGone \/ Fetch \/ PollPod \/ Informers \/ PodController
         \/ RetryFires \/ Resync \/ UserEdit \/ UserDelete
         \/ (\E o \in Owned : GarbageCollect(o))
         \/ PodFails \/ ApiError \/ Restart
  PROVE  FlagType'
<1>1. CASE FetchGone \/ Fetch \/ PollPod
  BY Zenon, <1>1 DEF FlagType, FetchGone, Fetch, PollPod, crVars, locals, queueVars
<1>2. CASE Informers \/ PodController
  BY Zenon, <1>2 DEF FlagType, Informers, CacheCR, CachePod, CacheObject, PodController,
     CreatePod, StartPod, DeletePod, SetPod, crVars, locals, queueVars
<1>3. CASE RetryFires \/ Resync \/ UserEdit \/ UserDelete
  BY Zenon, <1>3 DEF FlagType, RetryFires, Resync, UserEdit, UserDelete, crVars, locals, queueVars
<1>4. CASE \E o \in Owned : GarbageCollect(o)
  BY Zenon, <1>4 DEF FlagType, GarbageCollect, crVars, locals, queueVars
<1>5. CASE PodFails \/ ApiError
  BY Zenon, <1>5 DEF FlagType, PodFails, SetPod, ApiError, Requeue, Return, crVars, locals, queueVars
<1>6. CASE Restart
  <2>1. cr.alive \in BOOLEAN
    BY DEF CRType, CRs
  <2> QED
    BY Zenon, <1>6, <2>1 DEF FlagType, Restart
<1> QED
  BY <1>1, <1>2, <1>3, <1>4, <1>5, <1>6

\* Every step keeps the flags Booleans.
LEMMA FlagsStep == FlagType /\ CRType /\ [Next]_vars => FlagType'
<1>1. FlagType /\ UNCHANGED vars => FlagType'
  BY DEF vars, FlagType
<1> QED
  BY <1>1, UpdateFlags, CallFlags, OtherFlags DEF Next, Reconcile

(* Every step.                                                               *)

\* Every step of the reconcile keeps the types.
LEMMA ReconcileTypes == ASSUME Types, Reconcile PROVE Types'
<1>1. CASE FetchGone
  BY <1>1 DEF FetchGone, Types, CRType, ObjType, PodType, LocalType, FaultType, CRBound,
     ObjBound, LocalBound, crVars, objVars, podVars, locals
<1>2. CASE Fetch
  BY <1>2 DEF Fetch, Types, CRType, ObjType, PodType, LocalType, FaultType, CRBound,
     ObjBound, LocalBound, crVars, objVars, podVars, CRs, Insts, PCs
<1>3. CASE PollPod
  BY <1>3 DEF PollPod, Types, CRType, ObjType, PodType, LocalType, FaultType, CRBound,
     ObjBound, LocalBound, crVars, objVars, podVars, PCs
<1>4. CASE WriteState \/ WriteNodes
  <2>1. CRType' /\ CRBound' /\ cr'.gen = cr.gen
    BY <1>4, WriteStateCR, WriteNodesCR
  <2>2. LocalType' /\ LocalBound'
    BY <1>4, WriteStateLocals, WriteNodesLocals
  <2>3. ObjType' /\ ObjBound' /\ PodType'
    BY <1>4, <2>1 DEF WriteState, WriteNodes, objVars, podVars, Types, ObjType, ObjBound, PodType
  <2>4. FaultType'
    <3>1. UNCHANGED faults \/ Fault
      BY <1>4 DEF WriteState, WriteNodes, UpdateStatus, Reply
    <3> QED
      BY <3>1, BoundsAssumption DEF Fault, Types, FaultType
  <2> QED
    BY <2>1, <2>2, <2>3, <2>4 DEF Types
<1>5. CASE \/ ResetUpdating \/ EnsureServiceAccount \/ EnsureSecret \/ CreateStatefulSet
           \/ UpdateStatefulSet \/ KeepStatefulSet \/ MarkUpdating \/ EnsureService
           \/ ReadService \/ CheckDNS \/ EnsureGateway \/ EnsureVirtualService
           \/ PodMissing \/ Suspend
  <2>1. UNCHANGED crVars /\ UNCHANGED podVars
    BY <1>5 DEF ResetUpdating, EnsureServiceAccount, EnsureSecret, CreateStatefulSet,
       UpdateStatefulSet, KeepStatefulSet, MarkUpdating, EnsureService, ReadService,
       CheckDNS, EnsureGateway, EnsureVirtualService, PodMissing, Suspend
  <2>2. CRType' /\ CRBound' /\ PodType'
    BY <2>1 DEF crVars, podVars, Types, CRType, CRBound, PodType
  <2>3. ObjType' /\ ObjBound'
    <3>1. CASE UNCHANGED objVars
      BY <2>1, <3>1 DEF crVars, objVars, Types, ObjType, ObjBound
    <3>2. CASE \/ EnsureServiceAccount \/ EnsureSecret \/ CreateStatefulSet
               \/ UpdateStatefulSet \/ EnsureService \/ EnsureGateway \/ EnsureVirtualService
      BY <3>2, ReconcileObjects
    <3> QED
      BY <1>5, <3>1, <3>2 DEF ResetUpdating, KeepStatefulSet, MarkUpdating, ReadService,
         CheckDNS, PodMissing, Suspend
  <2>4. LocalType' /\ LocalBound'
    <3>1. CASE KeepStatefulSet
      BY <3>1 DEF KeepStatefulSet, Goto, Continue, Types, LocalType, LocalBound, PCs, crVars
    <3>2. CASE PodMissing
      BY <3>2, ReturnType DEF PodMissing, Requeue, crVars
    <3> QED
      BY <1>5, <3>1, <3>2, ResetUpdatingLocals, EnsureServiceAccountLocals, EnsureSecretLocals,
         CreateStatefulSetLocals, UpdateStatefulSetLocals, MarkUpdatingLocals,
         EnsureServiceLocals, ReadServiceLocals, CheckDNSLocals, EnsureGatewayLocals,
         EnsureVirtualServiceLocals, SuspendLocals
  <2>5. UNCHANGED faults \/ Fault
    BY <1>5 DEF ResetUpdating, EnsureServiceAccount, EnsureSecret, CreateStatefulSet,
       UpdateStatefulSet, KeepStatefulSet, MarkUpdating, EnsureService, ReadService,
       CheckDNS, EnsureGateway, EnsureVirtualService, PodMissing, Suspend, UpdateCR,
       EnsureExists, Reply
  <2>6. FaultType'
    BY <2>5, BoundsAssumption DEF Fault, Types, FaultType
  <2> QED
    BY <2>2, <2>3, <2>4, <2>6 DEF Types
<1> QED
  BY <1>1, <1>2, <1>3, <1>4, <1>5 DEF Reconcile

\* Every step keeps the types.
LEMMA TypesStep == ASSUME Types, [Next]_vars PROVE Types'
<1> USE DEF Types
<1>1. CASE Reconcile
  BY <1>1, ReconcileTypes
<1>2. CASE CacheCR \/ CachePod \/ RetryFires \/ Resync
  BY <1>2 DEF CacheCR, CachePod, RetryFires, Resync, CRType, ObjType, PodType, LocalType,
     FaultType, CRBound, ObjBound, LocalBound, crVars, objVars, podVars, locals, CRs, Pods
<1>3. ASSUME NEW o \in Objects, CacheObject(o) PROVE Types'
  BY <1>3 DEF CacheObject, CRType, ObjType, PodType, LocalType, FaultType, CRBound,
     ObjBound, LocalBound, crVars, podVars, locals
<1>4. ASSUME NEW o \in Owned, GarbageCollect(o) PROVE Types'
  <2>1. ObjType' /\ ObjBound'
    BY <1>4, WriteType, BoundsAssumption DEF GarbageCollect, Owned, CRType, CRs, crVars
  <2> QED
    BY <1>4, <2>1 DEF GarbageCollect, CRType, PodType, LocalType, FaultType, CRBound,
       LocalBound, crVars, podVars, locals
<1>5. CASE CreatePod \/ StartPod \/ DeletePod \/ PodFails
  <2>1. /\ UNCHANGED <<crVars, objVars, pc, locals>>
        /\ UNCHANGED faults \/ Fault
    BY <1>5 DEF CreatePod, StartPod, DeletePod, PodFails, SetPod
  <2>2. FaultType'
    BY <2>1, BoundsAssumption DEF Fault, FaultType
  <2> QED
    BY <1>5, <2>1, <2>2, PodStepType DEF CRType, ObjType, LocalType, CRBound,
       ObjBound, LocalBound, crVars, objVars, locals
<1>6. CASE UserEdit \/ UserDelete
  <2>1. CRType' /\ CRBound' /\ cr'.gen \in {cr.gen, cr.gen + 1}
    BY <1>6, UserEditType, UserDeleteType
  <2>2. UNCHANGED <<objVars, podVars, pc, idx, inst, podRead, faults>>
    BY <1>6 DEF UserEdit, UserDelete
  <2>3. ObjType' /\ ObjBound'
    BY <2>1, <2>2 DEF ObjType, ObjBound, objVars, CRType, CRs
  <2>4. PodType' /\ LocalType' /\ LocalBound' /\ FaultType'
    BY <2>1, <2>2 DEF PodType, LocalType, LocalBound, FaultType, podVars, Insts, CRType, CRs
  <2> QED
    BY <2>1, <2>3, <2>4
<1>7. CASE ApiError
  <2>1. LocalType' /\ LocalBound'
    BY <1>7, ReturnType DEF ApiError, Requeue, crVars
  <2>2. FaultType'
    BY <1>7, BoundsAssumption DEF ApiError, Fault, FaultType
  <2> QED
    BY <1>7, <2>1, <2>2 DEF ApiError, CRType, ObjType, PodType, CRBound, ObjBound,
       crVars, objVars, podVars
<1>8. CASE Restart
  <2>1. LocalType' /\ LocalBound'
    BY <1>8, SecretsLength, BoundsAssumption
    DEF Restart, LocalType, LocalBound, PCs, Insts, NoInst, States, NodeLists, PodPhases, CRType, CRs
  <2>2. FaultType'
    BY <1>8, BoundsAssumption DEF Restart, Fault, FaultType
  <2>3. ObjType' /\ ObjBound' /\ PodType' /\ CRType' /\ CRBound'
    BY <1>8 DEF Restart, CRType, ObjType, PodType, Pods, CRBound, ObjBound, CRs
  <2> QED
    BY <2>1, <2>2, <2>3
<1>9. CASE UNCHANGED vars
  BY <1>9 DEF vars, CRType, ObjType, PodType, LocalType, FaultType, CRBound,
     ObjBound, LocalBound
<1> QED
  BY <1>1, <1>2, <1>3, <1>4, <1>5, <1>6, <1>7, <1>8, <1>9 DEF Next, Informers, PodController

TypeInv == Types /\ FlagType

\* The types hold throughout.
LEMMA TypeInvInvariant == Spec => []TypeInv
<1>1. Init => TypeInv
  <2>1. Init => FlagType
    BY Zenon DEF Init, FlagType
  <2> QED
    BY <2>1, TypesInit DEF TypeInv
<1>2. TypeInv /\ [Next]_vars => TypeInv'
  BY TypesStep, FlagsStep DEF TypeInv, Types
<1> QED
  BY <1>1, <1>2, PTL DEF Spec

\* Every variable keeps its type.
THEOREM TypeCorrect == Spec => []TypeOK
<1>1. TypeInv => TypeOK
  BY DEF TypeInv, Types, TypeOK, FaultType
<1> QED
  BY <1>1, TypeInvInvariant, PTL

-----------------------------------------------------------------------------
(* The strengthening that the safety properties need.                        *)

FromSts == {"sts", "mark", "svc", "svcRead", "dns", "gw", "vs", "poll", "state", "nodes"}
FromMark == FromSts \ {"sts"}
FromSvcRead == {"svcRead", "dns", "gw", "vs", "poll", "state", "nodes"}
FromGW == {"gw", "vs", "poll", "state", "nodes"}
FromVS == FromGW \ {"gw"}
FromPoll == FromVS \ {"vs"}

\* The reconcile under way has passed the call that ensures o.
Past(o) ==
    \/ o = "sa" /\ pc \in FromSts \cup {"secrets"}
    \/ o \in SecretNames /\ pc \in FromSts
    \/ pc = "secrets" /\ \E j \in 1 .. (idx - 1) : o = Secrets[j]
    \/ o = "sts" /\ pc \in FromMark
    \/ o = "svc" /\ pc \in FromSvcRead
    \/ o = "gw" /\ pc \in FromVS
    \/ o = "vs" /\ pc \in FromPoll

\* A late copy is taken for the original only after an edit was taken back.
NeverMisled == ~MayRevert \/ Lagging \cap (SecretNames \cup {"sts"}) = {}

\* o exists and, copies not misleading, holds what this reconcile wants.
Placed(o) == api[o] # 0 /\ (NeverMisled => Content(o, api[o]) = Desired(o))

\* A copy never runs ahead of what it is a copy of.
Ages ==
    cr.alive => /\ \A o \in Objects : cache[o] <= api[o] /\ api[o] <= seenCR.gen
                /\ pc # "idle" => /\ 1 <= inst.gen /\ inst.gen <= seenCR.gen
                                  /\ \A o \in Objects : api[o] <= inst.gen

\* What the flags say of the copies of the CR.
Copies == /\ synced => seenCR = cr
          /\ fresh => pc # "idle" /\ inst.gen = cr.gen
          /\ fresh /\ pc = "reset" => inst.state = cr.state
          /\ seenCR.alive \/ ~cr.alive

Chain == cr.alive => /\ \A o \in Objects : Past(o) => Placed(o)
                     /\ pc \in FromGW => dns

\* Until something queues the CR, the reconcile works from the cached CR.
Current ==
    pc # "idle" /\ ~queued =>
        /\ inst.gen = seenCR.gen
        /\ synced /\ pc # "nodes" => inst.state \in {cr.state, "Updating"}
        /\ synced /\ pc = "nodes" => inst.state = cr.state

NoReversal == MayRevert \/ RevertFree(hist)

\* An informer that does not lag shows what is there.
Prompt == \A o \in Objects \ Lagging : cache[o] = api[o]

Applies == NeverMisled => QuietMeansApplied

Safe == /\ Ages /\ Copies /\ Chain /\ Current /\ NoReversal /\ Prompt
        /\ ReadyMeansComplete /\ Applies

\* At first nothing exists, and nothing is claimed.
LEMMA SafeInit == ASSUME Init PROVE Safe
<1>1. Types
  BY TypesInit
<1>2. Ages /\ Copies /\ Chain /\ Current
  BY DEF Init, Ages, Copies, Chain, Current, NoObjects, Past, FromSts, FromMark, FromSvcRead,
     FromGW, FromVS, FromPoll
<1>3. NoReversal
  <2>1. Len(hist) = 1
    BY DEF Init
  <2> QED
    BY <2>1 DEF NoReversal, RevertFree
<1>4. Prompt
  BY DEF Init, Prompt
<1>5. ReadyMeansComplete /\ Applies
  BY DEF Init, ReadyMeansComplete, Applies, QuietMeansApplied, Quiet
<1> QED
  BY <1>2, <1>3, <1>4, <1>5 DEF Safe

(* The steps of a reconcile after Fetch: what they have in common.           *)

Call == \/ ResetUpdating \/ EnsureServiceAccount \/ EnsureSecret \/ CreateStatefulSet
        \/ UpdateStatefulSet \/ KeepStatefulSet \/ MarkUpdating \/ EnsureService
        \/ ReadService \/ CheckDNS \/ EnsureGateway \/ EnsureVirtualService
        \/ PodMissing \/ Suspend

\* A write of the object the reconcile stands at, or none.
LEMMA CallWrites ==
  ASSUME Types, Call
  PROVE  UNCHANGED objVars \/ \E o \in Objects : Write(o, inst.gen)
<1>1. CASE EnsureSecret
  <2>1. Secrets[idx] \in Objects
    BY <1>1, InObjects DEF EnsureSecret, Types, LocalType, LocalBound
  <2> QED
    BY <1>1, <2>1 DEF EnsureSecret, EnsureExists
<1>2. CASE ~EnsureSecret
  BY <1>2, InObjects
  DEF Call, ResetUpdating, EnsureServiceAccount, CreateStatefulSet, UpdateStatefulSet,
      KeepStatefulSet, MarkUpdating, EnsureService, ReadService, CheckDNS,
      EnsureGateway, EnsureVirtualService, PodMissing, Suspend, EnsureExists
<1> QED
  BY <1>1, <1>2

\* Where a call leaves pc, inst and the queue.
Leaves == pc' = "idle" /\ fresh' = FALSE /\ UNCHANGED queued
GoesOn == /\ pc' # "idle" /\ inst'.gen = inst.gen
          /\ UNCHANGED <<fresh, queued>>

\* A return ends the reconcile.
LEMMA ReturnLeaves == ASSUME NEW again, Return(again) PROVE Leaves
  BY DEF Return, Leaves

\* Continue leads to the next call with the same generation.
LEMMA ContinueGoesOn ==
  ASSUME NEW next, next # "idle", NEW i, NEW instance, instance.gen = inst.gen,
         Continue(next, i, instance)
  PROVE  GoesOn
  BY DEF Continue, GoesOn, queueVars

\* A call ends the reconcile or leads to the next one.
LEMMA CallMoves == ASSUME Types, Call PROVE Leaves \/ GoesOn
<1>1. \/ Requeue \/ Done \/ Goto("sa") \/ Goto("mark") \/ Goto("svc") \/ Goto("svcRead")
      \/ Goto("dns") \/ Goto("gw") \/ Goto("vs") \/ Goto("poll") \/ NextSecret
      \/ Continue(AfterServiceAccount, 1, inst)
      \/ Continue("sa", idx, Stored("Running"))
      \/ Continue("svc", idx, Stored("Updating"))
  BY Zenon DEF Call, ResetUpdating, EnsureServiceAccount, EnsureSecret, CreateStatefulSet,
     UpdateStatefulSet, KeepStatefulSet, MarkUpdating, EnsureService, ReadService,
     CheckDNS, EnsureGateway, EnsureVirtualService, PodMissing, Suspend,
     EnsureExists, UpdateCR, Reply
<1>2. Requeue \/ Done => Leaves
  BY ReturnLeaves DEF Requeue, Done
<1>3. (\/ Goto("sa") \/ Goto("mark") \/ Goto("svc") \/ Goto("svcRead")
       \/ Goto("dns") \/ Goto("gw") \/ Goto("vs") \/ Goto("poll") \/ NextSecret) => GoesOn
  BY ContinueGoesOn DEF Goto, NextSecret
<1>4. Continue(AfterServiceAccount, 1, inst) => GoesOn
  BY ContinueGoesOn DEF AfterServiceAccount
<1>5. Continue("sa", idx, Stored("Running")) \/ Continue("svc", idx, Stored("Updating"))
        => GoesOn
  <2>1. Stored("Running").gen = inst.gen /\ Stored("Updating").gen = inst.gen
    BY StoredType DEF States
  <2> QED
    BY <2>1, ContinueGoesOn
<1> QED
  BY <1>1, <1>2, <1>3, <1>4, <1>5

\* A call leaves the CR and its copy in the cache alone.
LEMMA CallFrame ==
  ASSUME Call
  PROVE  /\ UNCHANGED <<hist, cr, seenCR, synced>> /\ pc # "idle"
         /\ UNCHANGED dns \/ dns' = TRUE
  BY DEF Call, ResetUpdating, EnsureServiceAccount, EnsureSecret, CreateStatefulSet,
     UpdateStatefulSet, KeepStatefulSet, MarkUpdating, EnsureService, ReadService,
     CheckDNS, EnsureGateway, EnsureVirtualService, PodMissing, Suspend, crVars

\* The steps that write the status.
LEMMA StatusFrame ==
  ASSUME Types, WriteState \/ WriteNodes
  PROVE  /\ UNCHANGED <<hist, seenCR, api, cache, dns>>
         /\ cr'.alive = cr.alive /\ cr'.gen = cr.gen /\ cr' \in CRs
         /\ synced' => synced /\ cr' = cr
         /\ pc # "idle" /\ pc \in FromPoll
  <1>1. \/ UNCHANGED crVars
        \/ /\ UNCHANGED <<hist, seenCR>>
           /\ \E st, n : cr' = [cr EXCEPT !.state = st, !.nodes = n]
           /\ synced' = IF cr' = cr THEN synced ELSE FALSE
    BY DEF WriteState, WriteNodes, UpdateStatus
  <1>2. UNCHANGED <<api, cache, dns>> /\ pc \in {"state", "nodes"}
    BY DEF WriteState, WriteNodes, objVars
  <1>3. cr' \in CRs
    BY WriteStateCR, WriteNodesCR DEF CRType
  <1>4. CASE UNCHANGED crVars
    BY <1>2, <1>3, <1>4 DEF crVars, FromPoll, FromVS, FromGW
  <1>5. CASE ~UNCHANGED crVars
    <2>1. PICK st, n : cr' = [cr EXCEPT !.state = st, !.nodes = n]
      BY <1>1, <1>5
    <2>2. cr'.alive = cr.alive /\ cr'.gen = cr.gen
      BY <2>1 DEF Types, CRType, CRs
    <2>3. synced' => synced /\ cr' = cr
      BY <1>1, <1>5
    <2> QED
      BY <1>1, <1>2, <1>3, <1>5, <2>2, <2>3 DEF FromPoll, FromVS, FromGW
  <1> QED
    BY <1>4, <1>5

\* A write of the status ends the reconcile or leads to the next one.
LEMMA StatusMoves == ASSUME Types, WriteState \/ WriteNodes PROVE Leaves \/ GoesOn
<1> DEFINE next == [inst EXCEPT !.state = PodState(podRead)]
<1>1. \/ Requeue \/ Finish \/ Goto("nodes") \/ Continue("nodes", idx, next)
  BY DEF WriteState, WriteNodes, UpdateStatus, Reply
<1>2. Requeue \/ Finish => Leaves
  BY ReturnLeaves DEF Requeue, Finish
<1>3. next.gen = inst.gen
  BY DEF Types, LocalType, Insts
<1>4. Goto("nodes") \/ Continue("nodes", idx, next) => GoesOn
  BY <1>3, ContinueGoesOn DEF Goto
<1> QED
  BY <1>1, <1>2, <1>4

(* Ages.                                                                     *)

\* A write of inst.gen keeps the ages, whatever the reconcile does next.
LEMMA WriteAges ==
  ASSUME Types, Ages, cr.alive, pc # "idle", Leaves \/ GoesOn,
         UNCHANGED seenCR, cr'.alive = cr.alive,
         UNCHANGED objVars \/ \E o \in Objects : Write(o, inst.gen)
  PROVE  Ages'
<1>1. \A o \in Objects : /\ cache'[o] <= api'[o] /\ api'[o] <= seenCR.gen
                         /\ api'[o] <= inst.gen
  <2>1. CASE UNCHANGED objVars
    BY <2>1 DEF Ages, objVars
  <2>2. CASE \E o \in Objects : Write(o, inst.gen)
    <3>1. PICK p \in Objects : Write(p, inst.gen)
      BY <2>2
    <3>2. api' = [api EXCEPT ![p] = inst.gen]
          /\ (cache' = cache \/ cache' = [cache EXCEPT ![p] = inst.gen])
      BY <3>1 DEF Write
    <3> QED
      BY <3>2 DEF Ages, Types, ObjType, LocalType, Insts
  <2> QED
    BY <2>1, <2>2
<1> QED
  BY <1>1 DEF Ages, Leaves, GoesOn

\* No copy gets younger than what it is a copy of.
LEMMA AgesStep == ASSUME Types, Types', Safe, [Next]_vars PROVE Ages'
<1> USE DEF Safe
<1> SUFFICES ASSUME cr'.alive PROVE Ages'
  BY DEF Ages
<1>1. CASE Call
  BY <1>1, CallWrites, CallMoves, CallFrame, WriteAges
<1>2. CASE WriteState \/ WriteNodes
  BY <1>2, StatusFrame, StatusMoves, WriteAges DEF objVars
<1>3. CASE FetchGone \/ RetryFires \/ Resync \/ CachePod \/ PodController \/ PodFails
           \/ UNCHANGED vars
  BY <1>3 DEF FetchGone, RetryFires, Resync, CachePod, PodController, CreatePod, StartPod,
     DeletePod, PodFails, SetPod, crVars, objVars, locals, vars, Ages
<1>4. CASE Fetch
  BY <1>4 DEF Fetch, crVars, objVars, Ages, Types, CRType, CRs
<1>5. CASE PollPod
  BY <1>5 DEF PollPod, crVars, objVars, Ages
<1>6. CASE CacheCR
  BY <1>6 DEF CacheCR, objVars, locals, Ages, Types, ObjType, CRBound, CRType, CRs, LocalType, Insts
<1>7. ASSUME NEW o \in Objects, CacheObject(o) PROVE Ages'
  BY <1>7 DEF CacheObject, crVars, locals, Ages, Types, ObjType
<1>8. CASE UserEdit
  BY <1>8 DEF UserEdit, objVars, Ages, Types, CRType, CRs
<1>9. CASE UserDelete \/ \E o \in Owned : GarbageCollect(o)
  BY <1>9 DEF UserDelete, GarbageCollect, crVars, Types, CRType, CRs
<1>10. CASE ApiError
  BY <1>10 DEF ApiError, Requeue, Return, crVars, objVars, Ages
<1>11. CASE Restart
  BY <1>11 DEF Restart, Ages, Types, ObjType, ObjBound, CRType, CRs
<1> QED
  BY <1>1, <1>2, <1>3, <1>4, <1>5, <1>6, <1>7, <1>8, <1>9, <1>10, <1>11
  DEF Next, Reconcile, Informers, Call

(* Copies.                                                                   *)

\* The flags keep telling whether the copies of the CR are current.
LEMMA CopiesStep == ASSUME Types, Types', Safe, [Next]_vars PROVE Copies'
<1> USE DEF Safe
<1>1. CASE Call
  <2>1. CASE Leaves
    BY <1>1, <2>1, CallFrame DEF Leaves, Copies
  <2>2. CASE GoesOn
    <3>1. pc' # "reset"
      <4>1. \A st : Stored(st).gen = inst.gen
        BY DEF Stored, Types, LocalType, Insts
      <4> QED
        BY <1>1, <2>2
        DEF GoesOn, Call, ResetUpdating, EnsureServiceAccount, EnsureSecret, CreateStatefulSet,
          UpdateStatefulSet, KeepStatefulSet, MarkUpdating, EnsureService, ReadService,
          CheckDNS, EnsureGateway, EnsureVirtualService, PodMissing, Suspend, EnsureExists,
          UpdateCR, Reply, Goto, NextSecret, Continue, AfterServiceAccount, Requeue, Done,
          Return
    <3> QED
      BY <1>1, <2>2, <3>1, CallFrame DEF GoesOn, Copies
  <2> QED
    BY <1>1, <2>1, <2>2, CallMoves
<1>2. CASE WriteState \/ WriteNodes
  <2>1. pc' # "reset"
    BY <1>2 DEF WriteState, WriteNodes, UpdateStatus, Reply, Goto, Continue, Finish, Requeue,
       Return
  <2>2. /\ synced' => seenCR' = cr'
        /\ seenCR'.alive \/ ~cr'.alive
    BY <1>2, StatusFrame DEF Copies
  <2>3. fresh' => pc' # "idle" /\ inst'.gen = cr'.gen
    BY <1>2, StatusFrame, StatusMoves DEF Leaves, GoesOn, Copies
  <2> QED
    BY <2>1, <2>2, <2>3 DEF Copies
<1>3. CASE FetchGone \/ RetryFires \/ Resync \/ CachePod \/ PodController \/ PodFails
           \/ UNCHANGED vars
  BY <1>3 DEF FetchGone, RetryFires, Resync, CachePod, PodController, CreatePod, StartPod,
     DeletePod, PodFails, SetPod, crVars, locals, vars, Copies
<1>4. CASE Fetch
  BY <1>4 DEF Fetch, crVars, Copies
<1>5. CASE PollPod
  BY <1>5 DEF PollPod, crVars, Copies
<1>6. CASE CacheCR
  BY <1>6 DEF CacheCR, locals, Copies
<1>7. CASE \/ \E o \in Objects : CacheObject(o)
           \/ \E o \in Owned : GarbageCollect(o)
  BY <1>7 DEF CacheObject, GarbageCollect, crVars, locals, Copies
<1>8. CASE UserEdit \/ UserDelete
  <2>1. cr'.alive => cr.alive
    BY <1>8 DEF UserEdit, UserDelete, Types, CRType, CRs
  <2> QED
    BY <1>8, <2>1 DEF UserEdit, UserDelete, Copies
<1>9. CASE ApiError
  BY <1>9 DEF ApiError, Requeue, Return, crVars, Copies
<1>10. CASE Restart
  BY <1>10 DEF Restart, Copies
<1> QED
  BY <1>1, <1>2, <1>3, <1>4, <1>5, <1>6, <1>7, <1>8, <1>9, <1>10
  DEF Next, Reconcile, Informers, Call

(* NoReversal.                                                               *)

\* An appended spec leaves the older ones alone.
LEMMA ContentKept ==
  ASSUME Types, UserEdit, NEW o, NEW g \in 1 .. cr.gen
  PROVE  Content(o, g)' = Content(o, g)
<1>1. PICK s \in Specs : hist' = Append(hist, s)
  BY DEF UserEdit
<1>2. hist'[g] = hist[g]
  BY <1>1 DEF Types, CRType, CRBound
<1> QED
  BY <1>2 DEF Content, ContentIn

\* Unless it is allowed, no edit goes back to an earlier content.
LEMMA NoReversalStep == ASSUME Types, NoReversal, [Next]_vars PROVE NoReversal'
<1>1. CASE UserEdit
  BY <1>1 DEF UserEdit, NoReversal
<1>2. CASE ~UserEdit
  <2>1. hist' = hist
    BY <1>2, CallFrame, StatusFrame
    DEF Next, Reconcile, Call, Informers, PodController, FetchGone, Fetch, PollPod, CacheCR,
        CachePod, CacheObject, CreatePod, StartPod, DeletePod, SetPod, RetryFires, Resync,
        UserDelete, GarbageCollect, PodFails, ApiError, Restart, crVars, vars
  <2> QED
    BY <2>1 DEF NoReversal
<1> QED
  BY <1>1, <1>2

\* What of the objects created once is compared never changes.
LEMMA CreatedOnce ==
  \A o \in {"sa", "svc", "gw", "vs"} : \A g, h : Content(o, g) = Content(o, h)
  BY SecretsAssumption DEF Content, ContentIn

\* An informer that never lags shows every step.
LEMMA PromptStep == ASSUME Types, Prompt, [Next]_vars PROVE Prompt'
<1>1. ASSUME NEW o \in Objects, NEW g, Write(o, g) PROVE Prompt'
  BY <1>1 DEF Write, Prompt, Types, ObjType
<1>2. CASE UNCHANGED objVars
  BY <1>2 DEF Prompt, objVars
<1>3. CASE Call
  BY <1>1, <1>2, <1>3, CallWrites
<1>4. CASE WriteState \/ WriteNodes
  BY <1>4, StatusFrame DEF Prompt
<1>5. CASE \/ FetchGone \/ Fetch \/ PollPod \/ RetryFires \/ Resync \/ CacheCR \/ CachePod
           \/ PodController \/ PodFails \/ ApiError \/ UserEdit \/ UserDelete \/ UNCHANGED vars
  BY <1>2, <1>5
  DEF FetchGone, Fetch, PollPod, RetryFires, Resync, CacheCR, CachePod, PodController, CreatePod,
      StartPod, DeletePod, SetPod, PodFails, ApiError, UserEdit, UserDelete, objVars, vars
<1>6. CASE Restart
  BY <1>6 DEF Restart, Prompt
<1>7. CASE \E o \in Objects : CacheObject(o)
  BY <1>7 DEF CacheObject, Prompt, Types, ObjType
<1>8. CASE \E o \in Owned : GarbageCollect(o)
  BY <1>1, <1>8, InObjects DEF GarbageCollect, Owned, Objects
<1> QED
  BY <1>3, <1>4, <1>5, <1>6, <1>7, <1>8 DEF Next, Reconcile, Informers, Call

\* What the cache holds of an object is what the CR asks for: so does the
\* object itself, which can only be younger.
LEMMA CachedIsPlaced ==
  ASSUME Types, Ages, NoReversal, Prompt, cr.alive, pc # "idle", NEW o \in Objects,
         cache[o] # 0, Content(o, cache[o]) = Desired(o)
  PROVE  Placed(o)
<1>1. /\ cache[o] \in 1 .. Len(hist) /\ api[o] \in 1 .. Len(hist)
      /\ inst.gen \in 1 .. Len(hist)
      /\ cache[o] <= api[o] /\ api[o] <= inst.gen
  BY DEF Types, ObjType, LocalType, Insts, Ages, CRBound, ObjBound, LocalBound, CRType, CRs
<1>2. CASE MayRevert
  <2>1. CASE Lagging \cap (SecretNames \cup {"sts"}) # {}
    BY <1>1, <1>2, <2>1 DEF Placed, NeverMisled
  <2>2. CASE o \in (SecretNames \cup {"sts"}) \ Lagging
    BY <1>1, <2>2 DEF Placed, Prompt
  <2>3. CASE o \in {"sa", "svc", "gw", "vs"}
    BY <1>1, <2>3, CreatedOnce DEF Placed, Desired
  <2> QED
    BY <2>1, <2>2, <2>3 DEF Objects
<1>3. CASE RevertFree(hist)
  <2>1. CASE cache[o] = api[o] \/ api[o] = inst.gen
    BY <1>1, <2>1 DEF Placed, Desired
  <2>2. CASE cache[o] < api[o] /\ api[o] < inst.gen
    BY <1>1, <1>3, <2>2 DEF RevertFree, Content, Desired, Placed
  <2> QED
    BY <1>1, <2>1, <2>2
<1> QED
  BY <1>2, <1>3 DEF NoReversal

(* Chain.                                                                    *)

\* At rest nothing is claimed.
LEMMA IdleChain == ASSUME pc' = "idle" PROVE Chain'
  BY DEF Chain, Past, FromSts, FromMark, FromSvcRead, FromGW, FromVS, FromPoll

\* A step that changes none of it keeps what the reconcile has ensured.
LEMMA SameChain ==
  ASSUME Chain, UNCHANGED <<hist, api, pc, idx, dns>>, inst'.gen = inst.gen,
         cr'.alive => cr.alive
  PROVE  Chain'
<1>1. \A o : Past(o)' = Past(o)
  BY DEF Past
<1>2. \A o : Placed(o)' = Placed(o)
  BY DEF Placed, Desired, Content, ContentIn
<1> QED
  BY <1>1, <1>2 DEF Chain

\* Writes of inst.gen place the object and leave the others placed.
LEMMA WritePlaces ==
  ASSUME Types, Ages, cr.alive, pc # "idle", UNCHANGED hist, inst'.gen = inst.gen,
         NEW p \in Objects, Write(p, inst.gen)
  PROVE  Placed(p)' /\ \A o \in Objects : Placed(o) => Placed(o)'
<1>1. api' = [api EXCEPT ![p] = inst.gen]
  BY DEF Write
<1>2. api'[p] = inst.gen /\ inst.gen # 0 /\ \A o \in Objects \ {p} : api'[o] = api[o]
  BY <1>1 DEF Types, ObjType, LocalType, Insts, Ages
<1>3. \A o : Desired(o)' = Desired(o)
  BY DEF Desired, Content, ContentIn
<1>4. \A o \in Objects : Content(o, api[o])' = ContentIn(hist, o, api'[o])
  BY DEF Content, ContentIn
<1>5. Placed(p)'
  BY <1>2, <1>3, <1>4 DEF Placed, Desired, Content
<1>6. \A o \in Objects \ {p} : Placed(o) => Placed(o)'
  BY <1>2, <1>3, <1>4 DEF Placed, Content
<1> QED
  BY <1>5, <1>6

\* The outcome of EnsureExists that goes on: o is placed, and nothing else lost.
LEMMA EnsurePlaces ==
  ASSUME Types, Ages, NoReversal, Prompt, cr.alive, pc # "idle", UNCHANGED hist,
         inst'.gen = inst.gen, NEW p \in Objects,
         cache[p] # 0 => Content(p, cache[p]) = Desired(p),
         \/ cache[p] # 0 /\ UNCHANGED objVars
         \/ Write(p, inst.gen)
  PROVE  Placed(p)' /\ \A o \in Objects : Placed(o) => Placed(o)'
<1>1. CASE Write(p, inst.gen)
  BY <1>1, WritePlaces
<1>2. CASE cache[p] # 0 /\ UNCHANGED objVars
  <2>1. Placed(p)
    BY <1>2, CachedIsPlaced
  <2>2. \A o : Placed(o)' = Placed(o)
    BY <1>2 DEF objVars, Placed, Desired, Content, ContentIn
  <2> QED
    BY <2>1, <2>2
<1> QED
  BY <1>1, <1>2

\* A step on to pc' keeps the chain if it keeps what was placed and places what
\* it passes.
LEMMA PassChain ==
  ASSUME Chain, cr'.alive = cr.alive,
         cr.alive => /\ \A o \in Objects : Placed(o) => Placed(o)'
                     /\ \A o \in Objects : Past(o)' => Past(o) \/ Placed(o)'
                     /\ pc' \in FromGW => dns'
  PROVE  Chain'
  BY DEF Chain

\* The steps that ensure an object created once.
LEMMA ChainOnce ==
  ASSUME Types, Ages, NoReversal, Prompt, Chain, UNCHANGED <<hist, cr, dns>>, pc # "idle",
         NEW p \in {"sa", "svc", "gw", "vs"},
         NEW next \in PCs, NEW i, EnsureExists(p, Continue(next, i, inst)),
         \A o \in Objects : Past(o)' => pc' = "idle" \/ Past(o) \/ o = p,
         next \in FromGW => pc \in FromGW
  PROVE  Chain'
<1>1. CASE pc' = "idle"
  BY <1>1, IdleChain
<1>2. CASE pc' # "idle"
  <2>1. \/ cache[p] # 0 /\ UNCHANGED objVars
        \/ Write(p, inst.gen)
    BY <1>2 DEF EnsureExists, Requeue, Return
  <2>2. inst' = inst /\ pc' = next
    BY <1>2 DEF EnsureExists, Reply, Requeue, Return, Continue
  <2>3. p \in Objects
    BY InObjects
  <2>4. Content(p, cache[p]) = Desired(p)
    BY CreatedOnce DEF Desired
  <2>5. cr.alive => Placed(p)' /\ \A o \in Objects : Placed(o) => Placed(o)'
    BY <2>1, <2>2, <2>3, <2>4, EnsurePlaces
  <2>6. cr.alive /\ pc' \in FromGW => dns'
    BY <2>2 DEF Chain
  <2> QED
    BY <1>2, <2>5, <2>6, PassChain
<1> QED
  BY <1>1, <1>2

\* The ServiceAccount is ensured before the reconcile passes it.
LEMMA ChainServiceAccount ==
  ASSUME Types, Safe, EnsureServiceAccount PROVE Chain'
<1>1. CASE pc' = "idle"
  BY <1>1, IdleChain
<1>2. CASE pc' # "idle"
  <2>1. pc' = AfterServiceAccount /\ idx' = 1
    BY <1>2 DEF EnsureServiceAccount, EnsureExists, Reply, Requeue, Return, Continue
  <2>2. \A o \in SecretNames : AfterServiceAccount # "sts"
    BY SecretsLength DEF AfterServiceAccount, SecretNames
  <2>3. \A o \in Objects : Past(o)' => o = "sa"
    BY <2>1, <2>2
    DEF Past, AfterServiceAccount, FromSts, FromMark, FromSvcRead, FromGW, FromVS, FromPoll
  <2>4. AfterServiceAccount \in PCs /\ AfterServiceAccount \notin FromGW
    BY DEF AfterServiceAccount, PCs, FromGW
  <2> QED
    BY <2>3, <2>4, ChainOnce DEF EnsureServiceAccount, Safe, crVars
<1> QED
  BY <1>1, <1>2

\* The objects after the StatefulSet are ensured one by one.
LEMMA ChainServices ==
  ASSUME Types, Safe, EnsureService \/ EnsureGateway \/ EnsureVirtualService PROVE Chain'
<1> USE DEF Safe
<1>1. CASE EnsureService
  <2>1. pc' \in {"idle", "svcRead"} /\ pc = "svc"
    BY <1>1 DEF EnsureService, EnsureExists, Reply, Requeue, Return, Goto, Continue
  <2>2. \A o \in Objects : Past(o)' => pc' = "idle" \/ Past(o) \/ o = "svc"
    BY <2>1 DEF Past, FromSts, FromMark, FromSvcRead, FromGW, FromVS, FromPoll
  <2> QED
    BY <1>1, <2>1, <2>2, ChainOnce DEF EnsureService, Goto, crVars, PCs, FromGW
<1>2. CASE EnsureGateway
  <2>1. pc' \in {"idle", "vs"} /\ pc = "gw"
    BY <1>2 DEF EnsureGateway, EnsureExists, Reply, Requeue, Return, Goto, Continue
  <2>2. \A o \in Objects : Past(o)' => pc' = "idle" \/ Past(o) \/ o = "gw"
    BY <2>1 DEF Past, FromSts, FromMark, FromSvcRead, FromGW, FromVS, FromPoll
  <2> QED
    BY <1>2, <2>1, <2>2, ChainOnce DEF EnsureGateway, Goto, crVars, PCs, FromGW
<1>3. CASE EnsureVirtualService
  <2>1. pc' \in {"idle", "poll"} /\ pc = "vs"
    BY <1>3 DEF EnsureVirtualService, EnsureExists, Reply, Requeue, Return, Goto, Continue
  <2>2. \A o \in Objects : Past(o)' => pc' = "idle" \/ Past(o) \/ o = "vs"
    BY <2>1 DEF Past, FromSts, FromMark, FromSvcRead, FromGW, FromVS, FromPoll
  <2> QED
    BY <1>3, <2>1, <2>2, ChainOnce DEF EnsureVirtualService, Goto, crVars, PCs, FromGW
<1> QED
  BY <1>1, <1>2, <1>3

\* A round of the loop ensures its Secret, with its data.
LEMMA ChainSecret == ASSUME Types, Safe, EnsureSecret PROVE Chain'
<1> USE DEF Safe
<1>p. PICK p \in Objects : pc = "secrets" => p = Secrets[idx]
  <2>1. CASE pc = "secrets"
    BY <2>1, InObjects DEF Types, LocalType, LocalBound
  <2> QED
    BY <2>1, InObjects
<1>1. CASE pc' = "idle"
  BY <1>1, IdleChain
<1>2. CASE pc' # "idle"
  <2>1. pc = "secrets" /\ p = Secrets[idx] /\ UNCHANGED <<hist, cr>>
        /\ Len(Secrets) \in Nat /\ idx \in 1 .. Len(Secrets)
    BY <1>p, SecretsLength DEF EnsureSecret, Types, LocalType, LocalBound, crVars
  <2>2. NextSecret
    BY <1>2 DEF EnsureSecret, EnsureExists, Reply, Requeue, Return
  <2>3. inst' = inst /\ pc' \in {"sts", "secrets"}
    BY <2>2 DEF NextSecret, Continue
  <2>4. \/ /\ cache[p] # 0 => Content(p, cache[p]) = Desired(p)
           /\ \/ cache[p] # 0 /\ UNCHANGED objVars
              \/ Write(p, inst.gen)
        \/ Write(p, inst.gen)
    BY <1>2, <2>1 DEF EnsureSecret, EnsureExists, Requeue, Return
  <2>5. ASSUME cr.alive
        PROVE  Placed(p)' /\ \A o \in Objects : Placed(o) => Placed(o)'
    <3>1. inst'.gen = inst.gen /\ hist' = hist /\ pc # "idle"
      BY <2>1, <2>3
    <3>2. CASE Write(p, inst.gen)
      BY <2>1, <2>5, <3>1, <3>2, WritePlaces
    <3>3. CASE ~Write(p, inst.gen)
      BY <2>1, <2>4, <2>5, <3>1, <3>3, EnsurePlaces
    <3> QED
      BY <3>2, <3>3
  <2>6. \A o \in Objects : Past(o)' => Past(o) \/ o = p
    <3>1. CASE idx = Len(Secrets)
      <4>1. pc' = "sts"
        BY <2>2, <3>1 DEF NextSecret, Continue
      <4>2. \A o \in SecretNames : o = p \/ \E j \in 1 .. (idx - 1) : o = Secrets[j]
        BY <2>1, <3>1 DEF SecretNames
      <4> QED
        BY <2>1, <4>1, <4>2
        DEF Past, FromSts, FromMark, FromSvcRead, FromGW, FromVS, FromPoll
    <3>2. CASE idx # Len(Secrets)
      <4>1. pc' = "secrets" /\ idx' = idx + 1
        BY <2>2, <3>2 DEF NextSecret, Continue
      <4>2. \A j \in 1 .. (idx' - 1) : j = idx \/ j \in 1 .. (idx - 1)
        BY <2>1, <4>1
      <4> QED
        BY <2>1, <4>1, <4>2
        DEF Past, FromSts, FromMark, FromSvcRead, FromGW, FromVS, FromPoll
    <3> QED
      BY <3>1, <3>2
  <2>7. pc' \notin FromGW
    BY <2>3 DEF FromGW
  <2> QED
    BY <2>1, <2>5, <2>6, <2>7, PassChain
<1> QED
  BY <1>1, <1>2

\* The StatefulSet is ensured, with what is compared of it.
LEMMA ChainStatefulSet ==
  ASSUME Types, Safe, UpdateStatefulSet \/ KeepStatefulSet PROVE Chain'
<1> USE DEF Safe
<1>1. CASE pc' = "idle"
  BY <1>1, IdleChain
<1>2. CASE pc' # "idle"
  <2>1. pc = "sts" /\ UNCHANGED <<hist, cr>> /\ "sts" \in Objects /\ cache["sts"] # 0
    BY InObjects DEF UpdateStatefulSet, KeepStatefulSet, crVars
  <2>2. inst' = inst /\ pc' \in {"mark", "svc"}
    BY <1>2 DEF UpdateStatefulSet, KeepStatefulSet, Reply, Requeue, Return, Goto, Continue
  <2>3. \/ /\ Content("sts", cache["sts"]) = Desired("sts")
           /\ UNCHANGED objVars
        \/ Write("sts", inst.gen)
    BY <1>2 DEF UpdateStatefulSet, KeepStatefulSet, Requeue, Return
  <2>4. cr.alive => Placed("sts")' /\ \A o \in Objects : Placed(o) => Placed(o)'
    BY <2>1, <2>2, <2>3, EnsurePlaces, WritePlaces
  <2>5. \A o \in Objects : Past(o)' => Past(o) \/ o = "sts"
    BY <2>1, <2>2 DEF Past, FromSts, FromMark, FromSvcRead, FromGW, FromVS, FromPoll
  <2>6. pc' \notin FromGW
    BY <2>2 DEF FromGW
  <2> QED
    BY <2>1, <2>4, <2>5, <2>6, PassChain
<1> QED
  BY <1>1, <1>2

\* The steps that write no object.
LEMMA ChainNoWrite ==
  ASSUME Types, Safe, UNCHANGED <<hist, api>>, cr'.alive = cr.alive, inst'.gen = inst.gen,
         \A o \in Objects : Past(o)' => Past(o),
         pc' \in FromGW => dns'
  PROVE  Chain'
<1>1. \A o : Placed(o)' = Placed(o)
  BY DEF Placed, Desired, Content, ContentIn
<1> QED
  BY <1>1, PassChain DEF Safe

\* Every call ensures its object before the reconcile passes it.
LEMMA ChainCalls ==
  ASSUME Types, Safe,
         ResetUpdating \/ MarkUpdating \/ ReadService \/ CheckDNS \/ PodMissing \/ Suspend
  PROVE  Chain'
<1>1. CASE pc' = "idle"
  BY <1>1, IdleChain
<1>2. CASE pc' # "idle"
  <2>1. UNCHANGED <<hist, api, cr>>
    BY DEF ResetUpdating, MarkUpdating, ReadService, CheckDNS, PodMissing, Suspend, crVars, objVars
  <2>2. inst'.gen = inst.gen
    BY <1>2, CallMoves DEF Call, Leaves, GoesOn
  <2>3. \/ pc = "reset" /\ pc' = "sa"
        \/ pc = "mark" /\ pc' = "svc"
        \/ pc = "svcRead" /\ pc' = "dns"
        \/ pc = "dns" /\ pc' = "gw" /\ dns'
    BY <1>2 DEF ResetUpdating, MarkUpdating, ReadService, CheckDNS, PodMissing, Suspend,
       UpdateCR, Reply, Requeue, Done, Return, Goto, Continue
  <2>4. \A o \in Objects : Past(o)' => Past(o)
    BY <2>3 DEF Past, FromSts, FromMark, FromSvcRead, FromGW, FromVS, FromPoll
  <2>5. pc' \in FromGW => dns'
    BY <2>3 DEF FromGW
  <2> QED
    BY <2>1, <2>2, <2>4, <2>5, ChainNoWrite
<1> QED
  BY <1>1, <1>2

\* A status written takes nothing back of what was ensured.
LEMMA ChainStatus ==
  ASSUME Types, Safe, WriteState \/ WriteNodes
  PROVE  Chain'
<1>1. CASE pc' = "idle"
  BY <1>1, IdleChain
<1>2. CASE pc' # "idle"
  <2>1. inst'.gen = inst.gen
    BY <1>2, StatusMoves DEF Leaves, GoesOn
  <2>2. pc \in FromPoll /\ pc' = "nodes"
    BY <1>2 DEF WriteState, WriteNodes, UpdateStatus, Reply, Requeue, Finish, Return, Goto,
       Continue, FromPoll, FromVS, FromGW
  <2>3. \A o \in Objects : Past(o)' => Past(o)
    BY <2>2 DEF Past, FromSts, FromMark, FromSvcRead, FromGW, FromVS, FromPoll
  <2>4. cr.alive => dns
    BY <2>2 DEF Safe, Chain, FromPoll, FromVS
  <2>5. CASE cr.alive
    BY <2>1, <2>3, <2>4, <2>5, StatusFrame, ChainNoWrite
  <2>6. CASE ~cr.alive
    BY <2>6, StatusFrame DEF Chain
  <2> QED
    BY <2>5, <2>6
<1> QED
  BY <1>1, <1>2

\* What the reconcile has ensured stays so, whatever happens meanwhile.
LEMMA ChainStep == ASSUME Types, Types', Safe, [Next]_vars PROVE Chain'
<1>1. CASE Call
  <2>1. CASE CreateStatefulSet
    BY <2>1, IdleChain DEF CreateStatefulSet, Requeue, Return
  <2> QED
    BY <1>1, <2>1, ChainServiceAccount, ChainServices, ChainSecret, ChainStatefulSet, ChainCalls
    DEF Call
<1>2. CASE WriteState \/ WriteNodes
  BY <1>2, ChainStatus
<1>3. CASE \/ FetchGone \/ RetryFires \/ Resync \/ CacheCR \/ CachePod \/ PodController
           \/ PodFails \/ UNCHANGED vars \/ \E o \in Objects : CacheObject(o)
  <2>1. UNCHANGED <<hist, api, pc, idx, inst, dns, cr>>
    BY <1>3 DEF FetchGone, RetryFires, Resync, CacheCR, CachePod, CacheObject, PodController,
       CreatePod, StartPod, DeletePod, PodFails, SetPod, crVars, objVars, locals, vars
  <2> QED
    BY <2>1, SameChain DEF Safe
<1>4. CASE Fetch
  <2>1. pc' = "reset"
    BY <1>4 DEF Fetch
  <2> QED
    BY <2>1 DEF Chain, Past, FromSts, FromMark, FromSvcRead, FromGW, FromVS, FromPoll
<1>5. CASE PollPod
  <2>1. UNCHANGED <<hist, api, idx, inst, dns, cr>> /\ pc = "poll" /\ pc' = "state"
    BY <1>5 DEF PollPod, crVars, objVars
  <2>2. \A o \in Objects : Past(o)' => Past(o)
    BY <2>1 DEF Past, FromSts, FromMark, FromSvcRead, FromGW, FromVS, FromPoll
  <2>3. cr.alive => dns
    BY <2>1 DEF Safe, Chain, FromGW
  <2>4. CASE cr.alive
    BY <2>1, <2>2, <2>3, <2>4, ChainNoWrite
  <2>5. CASE ~cr.alive
    BY <2>1, <2>5 DEF Chain
  <2> QED
    BY <2>4, <2>5
<1>6. CASE UserEdit
  <2>1. /\ UNCHANGED <<api, pc, idx, inst, dns>>
        /\ cr'.alive = cr.alive
    BY <1>6 DEF UserEdit, objVars, Types, CRType, CRs
  <2>2. \A o : Past(o)' = Past(o)
    BY <2>1 DEF Past
  <2>3. ASSUME cr.alive, NEW o \in Objects, Past(o) PROVE Placed(o)'
    <3>1. pc # "idle"
      BY <2>3 DEF Past, FromSts, FromMark, FromSvcRead, FromGW, FromVS, FromPoll
    <3>2. Placed(o)
      BY <2>3 DEF Safe, Chain
    <3>3. api[o] \in 1 .. cr.gen /\ inst.gen \in 1 .. cr.gen
      BY <2>3, <3>1, <3>2 DEF Safe, Ages, Placed, Types, ObjType, ObjBound, LocalType, Insts,
         LocalBound, CRType, CRs
    <3>4. Content(o, api[o])' = Content(o, api[o]) /\ Desired(o)' = Desired(o)
      <4>1. \A g \in 1 .. cr.gen : Content(o, g)' = Content(o, g)
        BY <1>6, ContentKept
      <4>2. ContentIn(hist', o, api[o]) = ContentIn(hist, o, api[o])
        BY <3>3, <4>1 DEF Content
      <4>3. ContentIn(hist', o, inst.gen) = ContentIn(hist, o, inst.gen)
        BY <3>3, <4>1 DEF Content
      <4> QED
        BY <2>1, <4>2, <4>3 DEF Content, Desired
    <3> QED
      BY <2>1, <3>2, <3>4 DEF Placed
  <2> QED
    BY <2>1, <2>2, <2>3 DEF Safe, Chain
<1>7. CASE UserDelete \/ \E o \in Owned : GarbageCollect(o)
  <2>1. ~cr'.alive
    BY <1>7 DEF UserDelete, GarbageCollect, crVars, Types, CRType, CRs
  <2> QED
    BY <2>1 DEF Chain
<1>8. CASE ApiError \/ Restart
  BY <1>8, IdleChain DEF ApiError, Restart, Requeue, Return
<1> QED
  BY <1>1, <1>2, <1>3, <1>4, <1>5, <1>6, <1>7, <1>8
  DEF Next, Reconcile, Informers, Call

(* Current.                                                                  *)

\* What the reconcile works from stays the cached CR until the CR is queued.
LEMMA CurrentStep == ASSUME Types, Types', Safe, [Next]_vars PROVE Current'
<1> USE DEF Safe
<1>1. CASE Call
  <2>1. CASE Leaves
    BY <2>1 DEF Leaves, Current
  <2>2. CASE GoesOn
    <3>1. pc' # "nodes" /\ pc # "nodes"
      BY <1>1, <2>2
      DEF GoesOn, Call, ResetUpdating, EnsureServiceAccount, EnsureSecret, CreateStatefulSet,
          UpdateStatefulSet, KeepStatefulSet, MarkUpdating, EnsureService, ReadService,
          CheckDNS, EnsureGateway, EnsureVirtualService, PodMissing, Suspend, EnsureExists,
          UpdateCR, Reply, Goto, NextSecret, Continue, AfterServiceAccount, Requeue, Done, Return
    <3>2. \/ inst' = inst
          \/ fresh /\ pc = "reset" /\ inst.state = "Updating" /\ inst' = Stored("Running")
          \/ inst' = Stored("Updating")
      BY <1>1, <2>2
      DEF GoesOn, Call, ResetUpdating, EnsureServiceAccount, EnsureSecret, CreateStatefulSet,
          UpdateStatefulSet, KeepStatefulSet, MarkUpdating, EnsureService, ReadService,
          CheckDNS, EnsureGateway, EnsureVirtualService, PodMissing, Suspend, EnsureExists,
          UpdateCR, Reply, Goto, NextSecret, Continue, Requeue, Done, Return
    <3>3. \A st : Stored(st).state = AfterUpdate(st, cr.state)
      BY DEF Stored, Types, LocalType, Insts
    <3>4. inst'.state \in {inst.state, cr.state, "Updating"}
      BY <3>2, <3>3 DEF AfterUpdate, Copies
    <3>5. UNCHANGED <<cr, seenCR, synced>> /\ pc # "idle"
      BY <1>1, CallFrame
    <3> QED
      BY <2>2, <3>1, <3>4, <3>5 DEF GoesOn, Current
  <2> QED
    BY <1>1, <2>1, <2>2, CallMoves
<1>2. CASE WriteState
  <2>1. CASE Leaves
    BY <2>1 DEF Leaves, Current
  <2>2. CASE GoesOn
    <3>1. pc' = "nodes" /\ pc = "state"
      BY <1>2, <2>2 DEF GoesOn, WriteState, UpdateStatus, Reply, Goto, Continue, Requeue, Return
    <3>2. \/ /\ cr' = [cr EXCEPT !.state = PodState(podRead), !.nodes = inst.nodes]
             /\ inst' = [inst EXCEPT !.state = PodState(podRead)]
          \/ /\ PodState(podRead) = inst.state
             /\ inst' = inst /\ cr' = cr
      BY <1>2, <2>2 DEF GoesOn, WriteState, UpdateStatus, Reply, Goto, Continue, Requeue,
         Return, crVars
    <3>3. PodState(podRead) # "Updating"
      BY DEF PodState
    <3>4. CASE cr' = [cr EXCEPT !.state = PodState(podRead), !.nodes = inst.nodes]
               /\ inst' = [inst EXCEPT !.state = PodState(podRead)]
      <4>1. inst'.state = cr'.state
        BY <3>4 DEF Types, CRType, CRs, LocalType, Insts
      <4> QED
        BY <1>2, <2>2, <3>1, <4>1, StatusFrame DEF GoesOn, Current
    <3>5. CASE PodState(podRead) = inst.state /\ inst' = inst /\ cr' = cr
      BY <1>2, <2>2, <3>1, <3>3, <3>5, StatusFrame DEF GoesOn, Current
    <3> QED
      BY <3>2, <3>4, <3>5
  <2> QED
    BY <1>2, <2>1, <2>2, StatusMoves
<1>3. CASE WriteNodes
  BY <1>3 DEF WriteNodes, UpdateStatus, Reply, Requeue, Finish, Return, Current
<1>4. CASE FetchGone \/ CachePod \/ PodController \/ PodFails \/ UNCHANGED vars
  BY <1>4 DEF FetchGone, CachePod, PodController, CreatePod, StartPod, DeletePod, PodFails,
     SetPod, crVars, locals, queueVars, vars, Current
<1>5. CASE Fetch
  BY <1>5 DEF Fetch, crVars, Copies, Current
<1>6. CASE PollPod
  BY <1>6 DEF PollPod, crVars, queueVars, Current
<1>7. CASE CacheCR \/ RetryFires \/ Resync
  BY <1>7 DEF CacheCR, RetryFires, Resync, Current
<1>8. CASE \/ \E o \in Objects : CacheObject(o)
           \/ \E o \in Owned : GarbageCollect(o)
  BY <1>8 DEF CacheObject, GarbageCollect, crVars, locals, queueVars, Current
<1>9. CASE UserEdit \/ UserDelete
  BY <1>9 DEF UserEdit, UserDelete, queueVars, Current
<1>10. CASE ApiError \/ Restart
  BY <1>10 DEF ApiError, Restart, Requeue, Return, Current
<1> QED
  BY <1>1, <1>2, <1>3, <1>4, <1>5, <1>6, <1>7, <1>8, <1>9, <1>10
  DEF Next, Reconcile, Informers, Call

(* ReadyMeansComplete.                                                       *)

\* At the poll and after it, everything has been ensured.
LEMMA PollPast == ASSUME pc \in FromPoll PROVE \A o \in Objects : Past(o)
  BY DEF FromPoll, FromVS, FromGW, FromSvcRead, FromMark, FromSts, Past, Objects

\* A reconcile's write removes no object.
LEMMA WritesKeep ==
  ASSUME Types, Ages, cr.alive, pc # "idle",
         UNCHANGED objVars \/ \E o \in Objects : Write(o, inst.gen)
  PROVE  \A o \in Objects : api[o] # 0 => api'[o] # 0
<1>1. CASE UNCHANGED objVars
  BY <1>1 DEF objVars
<1>2. CASE \E o \in Objects : Write(o, inst.gen)
  <2>1. PICK p \in Objects : api' = [api EXCEPT ![p] = inst.gen]
    BY <1>2 DEF Write
  <2> QED
    BY <2>1 DEF Ages, Types, ObjType, LocalType, Insts
<1> QED
  BY <1>1, <1>2

\* No step makes a CR say Running before everything exists.
LEMMA ReadyStep == ASSUME Types, Safe, [Next]_vars PROVE ReadyMeansComplete'
<1> USE DEF Safe
<1> SUFFICES ASSUME cr'.alive, cr'.state = "Running"
             PROVE  dns' /\ \A o \in Objects : api'[o] # 0
  BY DEF ReadyMeansComplete
<1>1. CASE Call
  BY <1>1, CallFrame, CallWrites, WritesKeep DEF ReadyMeansComplete
<1>2. CASE WriteState \/ WriteNodes
  <2>1. cr.alive /\ pc \in FromPoll /\ pc \in FromGW /\ UNCHANGED <<api, dns>>
    BY <1>2, StatusFrame DEF FromPoll, FromVS
  <2> QED
    BY <2>1, PollPast DEF Chain, Placed
<1>3. CASE \/ FetchGone \/ Fetch \/ PollPod \/ RetryFires \/ Resync \/ CacheCR \/ CachePod
           \/ PodController \/ PodFails \/ ApiError \/ Restart \/ UNCHANGED vars
           \/ \E o \in Objects : CacheObject(o)
  <2>1. UNCHANGED <<cr, api, dns>>
    BY <1>3 DEF FetchGone, Fetch, PollPod, RetryFires, Resync, CacheCR, CachePod, CacheObject,
       PodController, CreatePod, StartPod, DeletePod, PodFails, SetPod, ApiError, Restart,
       crVars, objVars, vars
  <2> QED
    BY <2>1 DEF ReadyMeansComplete
<1>4. CASE UserEdit
  BY <1>4 DEF UserEdit, objVars, ReadyMeansComplete, Types, CRType, CRs
<1>5. CASE UserDelete \/ \E o \in Owned : GarbageCollect(o)
  BY <1>5 DEF UserDelete, GarbageCollect, crVars, Types, CRType, CRs
<1> QED
  BY <1>1, <1>2, <1>3, <1>4, <1>5 DEF Next, Reconcile, Informers, Call

(* QuietMeansApplied.                                                        *)

\* Coming to rest after the poll, with nothing queued: all is applied.
LEMMA RestApplied ==
  ASSUME Types, Safe, NeverMisled, cr.alive, pc \in FromPoll, ~queued, synced
  PROVE  inst.gen = cr.gen /\ \A o \in Objects : Applied(o)
<1>1. inst.gen = cr.gen /\ pc # "idle"
  BY DEF Safe, Copies, Current, FromPoll, FromVS, FromGW
<1>2. \A o \in Objects : Placed(o)
  BY PollPast DEF Safe, Chain
<1> QED
  BY <1>1, <1>2 DEF Placed, Applied, Desired

\* No step comes to rest with an edit not applied.
LEMMA AppliesStep == ASSUME Types, Safe, [Next]_vars PROVE Applies'
<1> USE DEF Safe
<1> SUFFICES ASSUME NeverMisled, Quiet', cr'.alive
             PROVE  /\ \A o \in Objects : Applied(o)'
                    /\ cr'.state = "Running" \/ Replicas(cr.gen)' = 0
  BY DEF Applies, QuietMeansApplied
<1>1. pc' = "idle" /\ ~queued' /\ ~retry' /\ synced'
  BY DEF Quiet
<1>2. ASSUME UNCHANGED <<hist, cr, api>>, Quiet
      PROVE  /\ \A o \in Objects : Applied(o)'
             /\ cr'.state = "Running" \/ Replicas(cr.gen)' = 0
  BY <1>2 DEF Applies, QuietMeansApplied, Applied, Content, ContentIn, Replicas
<1>3. CASE Suspend
  <2>1. /\ UNCHANGED <<hist, cr, api, queued, synced>>
        /\ pc \in FromPoll /\ Replicas(inst.gen) = 0
    BY <1>1, <1>3 DEF Suspend, UpdateCR, Reply, Done, Requeue, Return, crVars, objVars,
       FromPoll, FromVS, FromGW
  <2>2. inst.gen = cr.gen /\ \A o \in Objects : Applied(o)
    BY <1>1, <2>1, RestApplied
  <2> QED
    BY <2>1, <2>2 DEF Applied, Content, ContentIn, Replicas
<1>4. CASE WriteNodes
  <2>1. /\ UNCHANGED <<hist, cr, api, queued>> /\ synced
        /\ pc = "nodes" /\ pc \in FromPoll
    BY <1>1, <1>4, StatusFrame, StatusMoves DEF Leaves, GoesOn, WriteNodes
  <2>2. inst.state = "Running"
    BY <1>1, <1>4 DEF WriteNodes, UpdateStatus, Reply, Finish, Requeue, Return
  <2>3. cr.state = "Running"
    BY <1>1, <2>1, <2>2 DEF Current
  <2>4. \A o \in Objects : Applied(o)
    BY <1>1, <2>1, RestApplied
  <2> QED
    BY <2>1, <2>3, <2>4 DEF Applied, Content, ContentIn
<1>5. CASE Call /\ ~Suspend
  <2>1. pc' # "idle" \/ retry'
    <3>1. CASE GoesOn
      BY <3>1 DEF GoesOn
    <3>2. CASE Leaves
      BY <1>5, <3>2
      DEF Leaves, Call, ResetUpdating, EnsureServiceAccount, EnsureSecret, CreateStatefulSet,
          UpdateStatefulSet, KeepStatefulSet, MarkUpdating, EnsureService, ReadService,
          CheckDNS, EnsureGateway, EnsureVirtualService, PodMissing, EnsureExists,
          UpdateCR, Reply, Goto, NextSecret, Continue, AfterServiceAccount, Requeue, Return
    <3> QED
      BY <1>5, <3>1, <3>2, CallMoves
  <2> QED
    BY <1>1, <2>1
<1>6. CASE WriteState
  BY <1>1, <1>6 DEF WriteState, UpdateStatus, Reply, Goto, Continue, Requeue, Return
<1>7. CASE FetchGone
  BY <1>7 DEF FetchGone, Copies, crVars
<1>8. CASE Fetch \/ PollPod \/ CacheCR \/ RetryFires \/ Resync \/ UserEdit \/ ApiError \/ Restart
  BY <1>1, <1>8 DEF Fetch, PollPod, CacheCR, RetryFires, Resync, UserEdit, ApiError, Restart,
     Requeue, Return
<1>9. CASE \/ CachePod \/ PodController \/ PodFails \/ UNCHANGED vars
           \/ \E o \in Objects : CacheObject(o)
  <2>1. UNCHANGED <<hist, cr, api, pc, queued, retry, synced>>
    BY <1>9 DEF CachePod, CacheObject, PodController, CreatePod, StartPod, DeletePod, PodFails,
       SetPod, crVars, objVars, queueVars, vars
  <2> QED
    BY <1>1, <1>2, <2>1 DEF Quiet
<1>10. CASE UserDelete \/ \E o \in Owned : GarbageCollect(o)
  BY <1>10 DEF UserDelete, GarbageCollect, crVars, Types, CRType, CRs
<1> QED
  BY <1>3, <1>4, <1>5, <1>6, <1>7, <1>8, <1>9, <1>10 DEF Next, Reconcile, Informers, Call

-----------------------------------------------------------------------------
(* The theorems.                                                             *)

Inv == Types /\ Safe

\* The inductive invariant holds throughout.
LEMMA InvInvariant == Spec => []Inv
<1>1. Init => Inv
  BY TypesInit, SafeInit DEF Inv
<1>2. Inv /\ [Next]_vars => Inv'
  <2> SUFFICES ASSUME Types, Safe, [Next]_vars PROVE Types' /\ Safe'
    BY DEF Inv
  <2>1. Types'
    BY TypesStep
  <2>2. Ages' /\ Copies' /\ Chain' /\ Current'
    BY <2>1, AgesStep, CopiesStep, ChainStep, CurrentStep
  <2>3. NoReversal' /\ Prompt' /\ ReadyMeansComplete' /\ Applies'
    BY NoReversalStep, PromptStep, ReadyStep, AppliesStep DEF Safe
  <2> QED
    BY <2>1, <2>2, <2>3 DEF Safe
<1> QED
  BY <1>1, <1>2, PTL DEF Spec

\* A CR that says Running has every object, and its service is in DNS.
THEOREM ReadyCorrect == Spec => []ReadyMeansComplete
<1>1. Inv => ReadyMeansComplete
  BY DEF Inv, Safe
<1> QED
  BY <1>1, InvInvariant, PTL

\* Unless users go back to earlier contents while what they had edited is read
\* late, no edit is lost: the operator only rests with the last spec applied.
THEOREM QuietCorrect == ASSUME NeverMisled PROVE Spec => []QuietMeansApplied
<1>1. Inv => QuietMeansApplied
  BY DEF Inv, Safe, Applies
<1> QED
  BY <1>1, InvInvariant, PTL

\* No status is written that was found from an outdated spec.
THEOREM StatusCorrect == Spec => StatusFromCurrentSpec
<1>1. Inv /\ [Next]_vars => [cr'.state # cr.state => inst.gen = cr.gen]_vars
  <2> SUFFICES ASSUME Inv, Next, cr'.state # cr.state PROVE inst.gen = cr.gen
    BY DEF vars
  <2>1. WriteState \/ WriteNodes
    BY CallFrame DEF Next, Reconcile, Call, Informers, PodController, FetchGone, Fetch, PollPod,
       CacheCR, CachePod, CacheObject, CreatePod, StartPod, DeletePod, SetPod, RetryFires,
       Resync, UserEdit, UserDelete, GarbageCollect, PodFails, ApiError, Restart, crVars,
       Inv, Types, CRType, CRs
  <2>2. fresh
    BY <2>1 DEF WriteState, WriteNodes, UpdateStatus, crVars
  <2> QED
    BY <2>2 DEF Inv, Safe, Copies
<1> QED
  BY <1>1, InvInvariant, PTL DEF Spec, StatusFromCurrentSpec
=============================================================================
