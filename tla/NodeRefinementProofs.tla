------------------------ MODULE NodeRefinementProofs ------------------------
(* The reconcile loop implements NodePromise, for any Secrets and specs, any *)
(* number of edits and faults and any lag of the informers, if users do not  *)
(* go back to a content given before.                                        *)
EXTENDS NodeRefinement, NodeReconcilerProofs

\* A reconcile works from a spec, and only of a CR that is there while it is
\* the current one.
Sound == /\ pc # "idle" => inst.gen >= 1
         /\ fresh => cr.alive

LEMMA SoundInit == ASSUME Init PROVE Sound
  BY DEF Init, Sound

LEMMA SoundStep == ASSUME Inv, Sound, [Next]_vars PROVE Sound'
<1> USE DEF Inv
<1>1. CASE Call
  <2>1. Leaves \/ GoesOn
    BY <1>1, CallMoves
  <2>2. UNCHANGED cr /\ pc # "idle"
    BY <1>1, CallFrame
  <2>3. QED
    BY <2>1, <2>2 DEF Leaves, GoesOn, Sound
<1>2. CASE WriteState \/ WriteNodes
  <2>1. Leaves \/ GoesOn
    BY <1>2, StatusMoves
  <2>2. cr'.alive = cr.alive /\ pc # "idle"
    BY <1>2, StatusFrame
  <2>3. QED
    BY <2>1, <2>2 DEF Leaves, GoesOn, Sound
<1>3. CASE Fetch
  <2>1. inst'.gen = seenCR.gen /\ UNCHANGED cr /\ seenCR.gen >= 1
    BY <1>3 DEF Fetch, crVars, Types, CRType, CRs
  <2>2. fresh' => cr.alive
    BY <1>3 DEF Fetch, Safe, Copies
  <2>3. QED
    BY <2>1, <2>2 DEF Sound
<1>4. CASE \/ FetchGone \/ PollPod \/ CachePod \/ PodController \/ PodFails \/ RetryFires
           \/ Resync \/ CacheCR \/ UNCHANGED vars \/ (\E o \in Objects : CacheObject(o))
  <2>1. UNCHANGED <<cr, inst, fresh>> /\ (pc' # "idle" => pc # "idle")
    BY <1>4 DEF FetchGone, PollPod, CachePod, PodController, CreatePod, StartPod, DeletePod,
       PodFails, SetPod, RetryFires, Resync, CacheCR, CacheObject, crVars, locals, vars
  <2>2. QED
    BY <2>1 DEF Sound
<1>5. CASE UserEdit \/ UserDelete
  BY <1>5 DEF UserEdit, UserDelete, Sound
<1>6. CASE ApiError \/ Restart
  BY <1>6 DEF ApiError, Restart, Requeue, Return, Sound
<1>7. CASE \E o \in Owned : GarbageCollect(o)
  BY <1>7 DEF GarbageCollect, Sound, crVars, locals
<1>8. QED
  BY <1>1, <1>2, <1>3, <1>4, <1>5, <1>6, <1>7 DEF Next, Reconcile, Informers, Call

-----------------------------------------------------------------------------
\* What NodePromise speaks of is left alone.
LEMMA Stutters ==
    ASSUME UNCHANGED <<hist, cr, api, dns>>
    PROVE  UNCHANGED Promise!vars
  BY DEF Promise!vars, Exist, AppliedObjects, Applied, Content, ContentIn

\* Only the object written changes.
LEMMA WriteOthers ==
    ASSUME Types, UNCHANGED <<hist, cr>>, NEW o \in Objects, NEW g \in Nat, Write(o, g)
    PROVE  /\ api'[o] = g
           /\ \A p \in Objects \ {o} : api'[p] = api[p] /\ (Applied(p)' <=> Applied(p))
<1>1. api' = [api EXCEPT ![o] = g] /\ api \in [Objects -> 0 .. MaxGen]
  BY DEF Write, Types, ObjType
<1>2. QED
  BY <1>1 DEF Applied, Content, ContentIn

\* While the CR is there, a write brings an object on, and never back.
LEMMA WriteApplies ==
    ASSUME Inv, Sound, ~MayRevert, cr.alive, pc # "idle", UNCHANGED <<hist, cr, dns>>,
           NEW o \in Objects, Write(o, inst.gen)
    PROVE  Promise!Apply(o)
<1>1. inst.gen \in Nat /\ inst.gen >= 1 /\ inst.gen <= cr.gen /\ Len(hist) = cr.gen
  BY DEF Inv, Types, LocalType, Insts, LocalBound, CRBound, Sound
<1>2. /\ api'[o] = inst.gen
      /\ \A p \in Objects \ {o} : api'[p] = api[p] /\ (Applied(p)' <=> Applied(p))
  BY <1>1, WriteOthers DEF Inv
<1>3. Applied(o) => Applied(o)'
  <2> SUFFICES ASSUME Applied(o) PROVE Applied(o)'
    OBVIOUS
  <2>1. api[o] # 0 /\ Content(o, api[o]) = Content(o, cr.gen)
    BY DEF Applied
  <2>2. api[o] \in Nat /\ api[o] >= 1 /\ api[o] <= inst.gen
    BY <2>1 DEF Inv, Types, ObjType, Safe, Ages
  <2>3. Content(o, inst.gen) = Content(o, cr.gen)
    <3>1. RevertFree(hist) /\ cr.gen \in Nat
      BY <1>1 DEF Inv, Safe, NoReversal, Types, CRType, CRs
    <3>2. CASE api[o] = inst.gen \/ inst.gen = cr.gen
      BY <2>1, <3>2
    <3>3. CASE api[o] < inst.gen /\ inst.gen < cr.gen
      BY <1>1, <2>1, <2>2, <3>1, <3>3 DEF RevertFree, Content
    <3>4. api[o] = inst.gen \/ inst.gen = cr.gen \/ (api[o] < inst.gen /\ inst.gen < cr.gen)
      BY <1>1, <2>2, <3>1
    <3>5. QED
      BY <3>2, <3>3, <3>4
  <2>4. api'[o] # 0 /\ Content(o, api'[o]) = Content(o, cr.gen)
    BY <1>1, <1>2, <2>3
  <2>5. QED
    BY <2>4 DEF Applied, Content
<1>4. Exist' = Exist \cup {o}
  BY <1>1, <1>2 DEF Exist
<1>5. AppliedObjects' \in {AppliedObjects, AppliedObjects \cup {o}}
  BY <1>2, <1>3 DEF AppliedObjects
<1>6. QED
  BY <1>4, <1>5 DEF Promise!Apply

\* After the CR has gone a reconcile may still write an object.
LEMMA WriteDisturbs ==
    ASSUME Inv, Sound, ~cr.alive, pc # "idle", UNCHANGED <<hist, cr, dns>>,
           NEW o \in Objects, Write(o, inst.gen)
    PROVE  Promise!Disturb(o)
<1>1. inst.gen \in Nat /\ inst.gen >= 1
  BY DEF Inv, Types, LocalType, Insts, Sound
<1>2. /\ api'[o] = inst.gen
      /\ \A p \in Objects \ {o} : api'[p] = api[p] /\ (Applied(p)' <=> Applied(p))
  BY <1>1, WriteOthers DEF Inv
<1>3. Exist' = Exist \cup {o}
  BY <1>1, <1>2 DEF Exist
<1>4. AppliedObjects' \in {AppliedObjects \ {o}, AppliedObjects \cup {o}}
  <2>1. CASE Applied(o)'
    BY <1>2, <2>1 DEF AppliedObjects
  <2>2. CASE ~Applied(o)'
    BY <1>2, <2>2 DEF AppliedObjects
  <2>3. QED
    BY <2>1, <2>2
<1>5. QED
  BY <1>3, <1>4 DEF Promise!Disturb

LEMMA CallPromise ==
    ASSUME Inv, Sound, ~MayRevert, Call
    PROVE  [Promise!Next]_(Promise!vars)
<1>1. UNCHANGED <<hist, cr>> /\ pc # "idle" /\ (UNCHANGED dns \/ dns' = TRUE)
  BY CallFrame
<1>2. CASE CheckDNS
  <2>1. UNCHANGED objVars
    BY <1>2 DEF CheckDNS
  <2>2. CASE UNCHANGED dns
    BY <1>1, <2>1, <2>2, Stutters DEF objVars
  <2>3. CASE dns' = TRUE
    <3>1. Promise!Publish
      BY <1>1, <2>1, <2>3
      DEF Promise!Publish, Exist, AppliedObjects, Applied, Content, ContentIn, objVars
    <3>2. QED
      BY <3>1 DEF Promise!Next
  <2>4. QED
    BY <1>1, <2>2, <2>3
<1>3. CASE ~CheckDNS
  <2>1. UNCHANGED dns
    BY <1>3 DEF Call, ResetUpdating, EnsureServiceAccount, EnsureSecret, CreateStatefulSet,
       UpdateStatefulSet, KeepStatefulSet, MarkUpdating, EnsureService, ReadService,
       EnsureGateway, EnsureVirtualService, PodMissing, Suspend
  <2>2. CASE UNCHANGED objVars
    BY <1>1, <2>1, <2>2, Stutters DEF objVars
  <2>3. ASSUME NEW o \in Objects, Write(o, inst.gen)
        PROVE  Promise!Next
    BY <1>1, <2>1, <2>3, WriteApplies, WriteDisturbs DEF Promise!Next
  <2>4. QED
    BY <2>2, <2>3, CallWrites DEF Inv
<1>4. QED
  BY <1>2, <1>3

\* A status is only written of the CR's present spec, after everything was
\* placed.
LEMMA StatusPromise ==
    ASSUME Inv, Sound, ~MayRevert, WriteState \/ WriteNodes
    PROVE  [Promise!Next]_(Promise!vars)
<1>1. UNCHANGED <<hist, api, dns>> /\ cr'.alive = cr.alive /\ cr'.gen = cr.gen /\ cr' \in CRs
      /\ pc # "idle" /\ pc \in FromPoll
  BY StatusFrame DEF Inv
<1>2. UNCHANGED Exist /\ UNCHANGED AppliedObjects
  BY <1>1 DEF Exist, AppliedObjects, Applied, Content, ContentIn
<1>3. CASE UNCHANGED cr
  BY <1>1, <1>3, Stutters
<1>4. CASE ~UNCHANGED cr
  <2>1. fresh
    BY <1>4 DEF WriteState, WriteNodes, UpdateStatus, crVars
  <2>2. cr.alive /\ inst.gen = cr.gen
    BY <2>1 DEF Sound, Inv, Safe, Copies
  <2>3. \A o \in Objects : Placed(o)
    BY <1>1, <2>2, PollPast DEF Inv, Safe, Chain
  <2>4. \A o \in Objects : Applied(o)
    BY <2>2, <2>3 DEF Placed, NeverMisled, Applied, Desired
  <2>5. dns /\ AppliedObjects = Objects
    BY <1>1, <2>2, <2>4 DEF AppliedObjects, Inv, Safe, Chain, FromPoll, FromVS
  <2>6. cr'.state \in States
    BY <1>1 DEF CRs
  <2>7. Promise!Report(cr'.state)
    BY <1>1, <1>2, <2>2, <2>5 DEF Promise!Report
  <2>8. QED
    BY <2>6, <2>7 DEF Promise!Next
<1>5. QED
  BY <1>3, <1>4

\* What a new spec wants as it is, the one before wanted as well.
LEMMA EditPromise ==
    ASSUME Inv, ~MayRevert, UserEdit
    PROVE  Promise!Ask
<1>1. cr.alive /\ cr'.alive = cr.alive /\ cr'.state = cr.state /\ cr'.gen = cr.gen + 1
      /\ UNCHANGED <<api, dns>> /\ RevertFree(hist')
  BY DEF UserEdit, objVars, Inv, Types, CRType, CRs
<1>2. Len(hist') = cr.gen + 1 /\ cr.gen \in Nat /\ cr.gen >= 1
  <2>1. PICK s \in Specs : hist' = Append(hist, s)
    BY DEF UserEdit
  <2>2. QED
    BY <2>1 DEF Inv, Types, CRType, CRBound, CRs
<1>3. ASSUME NEW o \in Objects, Applied(o)' PROVE Applied(o)
  <2>1. api[o] # 0 /\ ContentIn(hist', o, api[o]) = ContentIn(hist', o, cr.gen + 1)
    BY <1>1, <1>3 DEF Applied, Content
  <2>2. api[o] \in 1 .. cr.gen
    BY <1>2, <2>1 DEF Inv, Types, ObjType, ObjBound
  <2>3. ContentIn(hist', o, cr.gen) = ContentIn(hist', o, api[o])
    <3>1. CASE api[o] = cr.gen
      BY <3>1
    <3>2. CASE api[o] < cr.gen
      BY <1>1, <1>2, <2>1, <2>2, <3>2 DEF RevertFree
    <3>3. QED
      BY <1>2, <2>2, <3>1, <3>2
  <2>4. \A g \in 1 .. cr.gen : ContentIn(hist', o, g) = ContentIn(hist, o, g)
    BY ContentKept DEF Inv, Content
  <2>5. QED
    BY <1>2, <2>1, <2>2, <2>3, <2>4 DEF Applied, Content
<1>4. AppliedObjects' \in SUBSET AppliedObjects
  BY <1>3 DEF AppliedObjects
<1>5. UNCHANGED Exist
  BY <1>1 DEF Exist
<1>6. QED
  BY <1>1, <1>4, <1>5 DEF Promise!Ask

LEMMA DeletionPromise ==
    ASSUME Inv, UserDelete \/ \E o \in Owned : GarbageCollect(o)
    PROVE  Promise!Next
<1>1. CASE UserDelete
  <2>1. cr.alive /\ ~cr'.alive /\ cr'.alive \in BOOLEAN /\ cr'.state = cr.state
        /\ cr'.gen = cr.gen /\ UNCHANGED <<hist, api, dns>>
    BY <1>1 DEF UserDelete, objVars, Inv, Types, CRType, CRs
  <2>2. UNCHANGED <<Exist, AppliedObjects>>
    BY <2>1 DEF Exist, AppliedObjects, Applied, Content, ContentIn
  <2>3. QED
    BY <2>1, <2>2 DEF Promise!Delete, Promise!Next
<1>2. ASSUME NEW o \in Owned, GarbageCollect(o) PROVE Promise!Next
  <2>1. ~cr.alive /\ Write(o, 0) /\ UNCHANGED <<hist, cr, dns>> /\ o \in Objects
    BY <1>2 DEF GarbageCollect, crVars, Owned
  <2>2. /\ api'[o] = 0
        /\ \A p \in Objects \ {o} : api'[p] = api[p] /\ (Applied(p)' <=> Applied(p))
    BY <2>1, WriteOthers DEF Inv
  <2>3. Exist' = Exist \ {o} /\ AppliedObjects' = AppliedObjects \ {o}
    BY <2>2 DEF Exist, AppliedObjects, Applied
  <2>4. QED
    BY <2>1, <2>3, <1>2 DEF Promise!Collect, Promise!Next
<1>3. QED
  BY <1>1, <1>2

LEMMA NextPromise ==
    ASSUME Inv, Sound, ~MayRevert, [Next]_vars
    PROVE  [Promise!Next]_(Promise!vars)
<1>1. CASE \/ FetchGone \/ Fetch \/ PollPod \/ RetryFires \/ Resync \/ CacheCR \/ CachePod
           \/ PodController \/ PodFails \/ ApiError \/ Restart \/ UNCHANGED vars
           \/ \E o \in Objects : CacheObject(o)
  <2>1. UNCHANGED <<hist, cr, api, dns>>
    BY <1>1 DEF FetchGone, Fetch, PollPod, RetryFires, Resync, CacheCR, CachePod, CacheObject,
       PodController, CreatePod, StartPod, DeletePod, PodFails, SetPod, ApiError, Restart,
       crVars, objVars, vars
  <2>2. QED
    BY <2>1, Stutters
<1>2. CASE UserEdit
  BY <1>2, EditPromise DEF Promise!Next
<1>3. QED
  BY <1>1, <1>2, CallPromise, StatusPromise, DeletionPromise
  DEF Next, Reconcile, Informers, Call

LEMMA InitPromise == ASSUME Init PROVE Promise!Init
<1>1. \A o \in Objects : api[o] = 0
  BY DEF Init, NoObjects
<1>2. Exist = {} /\ AppliedObjects = {}
  BY <1>1 DEF Exist, AppliedObjects, Applied
<1>3. QED
  BY <1>2 DEF Init, Promise!Init

\* Unless users go back to earlier contents, the reconcile loop implements
\* NodePromise: objects are brought to the last spec and never taken back from
\* it, none goes while the CR is there, and a CR is told Running only when all
\* are as its present spec wants them and its name is in DNS.
THEOREM PromiseKept == ASSUME ~MayRevert PROVE Spec => KeepsPromise
<1>1. Init => Promise!Init
  BY InitPromise
<1>2. Spec => []Sound
  <2>1. Inv /\ Sound /\ [Next]_vars => Sound'
    BY SoundStep
  <2>2. QED
    BY <2>1, SoundInit, InvInvariant, PTL DEF Spec
<1>3. Inv /\ Sound /\ [Next]_vars => [Promise!Next]_(Promise!vars)
  BY NextPromise
<1>4. QED
  BY <1>1, <1>2, <1>3, InvInvariant, PTL DEF Spec, KeepsPromise, Promise!Spec
=============================================================================
