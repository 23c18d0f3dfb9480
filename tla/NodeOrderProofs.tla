--------------------------- MODULE NodeOrderProofs ---------------------------
(* In which order the reconcile loop brings the objects on, and what it has  *)
(* in memory meanwhile: for every list of Secrets, every set of specs, every *)
(* bound and any lag of the informers.                                       *)
EXTENDS NodeReconcilerProofs

\* The steps that change no object at the API server.
Elsewhere ==
    \/ FetchGone \/ Fetch \/ PollPod \/ WriteState \/ WriteNodes \/ RetryFires \/ Resync
    \/ CacheCR \/ CachePod \/ PodController \/ PodFails \/ ApiError \/ Restart
    \/ UserEdit \/ UserDelete \/ UNCHANGED vars \/ \E o \in Objects : CacheObject(o)

\* They leave the objects alone.
LEMMA ElsewhereFrame == ASSUME Elsewhere PROVE UNCHANGED api
  BY DEF Elsewhere, FetchGone, Fetch, PollPod, WriteState, WriteNodes, RetryFires, Resync,
     CacheCR, CachePod, PodController, CreatePod, StartPod, DeletePod, SetPod, PodFails,
     ApiError, Restart, UserEdit, UserDelete, CacheObject, objVars, vars

\* Every step is a call of the reconcile, a removal, or leaves the objects alone.
LEMMA Steps ==
  ASSUME [Next]_vars
  PROVE  Call \/ (\E o \in Owned : GarbageCollect(o)) \/ Elsewhere
  BY DEF Next, Reconcile, Informers, Call, Elsewhere

\* One object changes at the API server.
LEMMA WriteOne ==
  ASSUME Types, NEW o \in Objects, NEW g, Write(o, g)
  PROVE  api'[o] = g /\ \A p \in Objects \ {o} : api'[p] = api[p]
  BY DEF Write, Types, ObjType

-----------------------------------------------------------------------------
(* NeverRolledBack.  Generations come from the cached CR, which only gets    *)
(* younger, and one reconcile at a time takes them to the objects: so no     *)
(* object is ahead of the reconcile that writes it, be the CR there or not.  *)

Younger ==
    /\ \A o \in Objects : api[o] <= seenCR.gen
    /\ pc # "idle" => inst.gen <= seenCR.gen /\ \A o \in Objects : api[o] <= inst.gen

LEMMA YoungerInit == ASSUME Init PROVE Younger
  BY DEF Init, Younger, NoObjects

\* A call writes the generation in memory, which no object is ahead of.
LEMMA CallYounger ==
  ASSUME Types, Younger, Call
  PROVE  /\ \A o \in Objects : api[o] <= api'[o] /\ api'[o] <= inst.gen
         /\ inst.gen <= seenCR.gen
<1>1. pc # "idle"
  BY CallFrame
<1>2. inst.gen <= seenCR.gen /\ \A o \in Objects : api[o] <= inst.gen
  BY <1>1 DEF Younger
<1>3. inst.gen \in Nat /\ \A o \in Objects : api[o] \in Nat
  BY DEF Types, LocalType, Insts, ObjType
<1>4. CASE UNCHANGED objVars
  BY <1>2, <1>3, <1>4 DEF objVars
<1>5. CASE \E o \in Objects : Write(o, inst.gen)
  BY <1>2, <1>3, <1>5, WriteOne
<1> QED
  BY <1>2, <1>4, <1>5, CallWrites

LEMMA YoungerStep == ASSUME Types, Types', Younger, [Next]_vars PROVE Younger'
<1>1. CASE Call
  <2>1. UNCHANGED seenCR /\ (Leaves \/ GoesOn)
    BY <1>1, CallFrame, CallMoves
  <2>2. \A o \in Objects : api'[o] <= inst.gen /\ api'[o] <= seenCR.gen
    BY <1>1, CallYounger DEF Types, Types, ObjType, LocalType, Insts, CRType, CRs
  <2> QED
    BY <1>1, <2>1, <2>2, CallYounger DEF Younger, Leaves, GoesOn
<1>2. ASSUME NEW o \in Owned, GarbageCollect(o) PROVE Younger'
  <2>1. Write(o, 0) /\ o \in Objects /\ UNCHANGED <<seenCR, pc, inst>>
    BY <1>2 DEF GarbageCollect, Owned, crVars, locals
  <2>2. \A p \in Objects : api'[p] = api[p] \/ api'[p] = 0
    BY <2>1, WriteOne
  <2>3. seenCR.gen \in Nat /\ inst.gen \in Nat
    BY DEF Types, CRType, CRs, LocalType, Insts
  <2> QED
    BY <2>1, <2>2, <2>3 DEF Younger
<1>3. CASE Elsewhere
  <2>1. UNCHANGED api
    BY <1>3, ElsewhereFrame
  <2>2. CASE WriteState \/ WriteNodes
    BY <2>1, <2>2, StatusFrame, StatusMoves DEF Younger, Leaves, GoesOn
  <2>3. CASE Fetch
    BY <2>1, <2>3 DEF Fetch, Younger, crVars, Types, CRType, CRs
  <2>4. CASE CacheCR \/ Restart
    <3>1. seenCR' = cr /\ cr.gen \in Nat /\ seenCR.gen \in Nat /\ seenCR.gen <= cr.gen
      BY <2>4 DEF CacheCR, Restart, Types, CRType, CRs, CRBound
    <3>2. inst.gen \in Nat /\ \A o \in Objects : api[o] \in Nat
      BY DEF Types, LocalType, Insts, ObjType
    <3>3. pc' # "idle" => UNCHANGED <<pc, inst>>
      BY <2>4 DEF CacheCR, Restart, locals
    <3> QED
      BY <2>1, <3>1, <3>2, <3>3 DEF Younger
  <2>5. CASE ApiError
    BY <2>1, <2>5 DEF ApiError, Requeue, Return, Younger, crVars
  <2>6. CASE ~(WriteState \/ WriteNodes \/ Fetch \/ CacheCR \/ Restart \/ ApiError)
    <3>1. UNCHANGED <<seenCR, inst>> /\ (pc' # "idle" => pc # "idle")
      BY <1>3, <2>6 DEF Elsewhere, FetchGone, PollPod, RetryFires, Resync, CachePod,
         PodController, CreatePod, StartPod, DeletePod, SetPod, PodFails, UserEdit,
         UserDelete, CacheObject, crVars, locals, vars
    <3> QED
      BY <2>1, <3>1 DEF Younger
  <2> QED
    BY <2>2, <2>3, <2>4, <2>5, <2>6
<1> QED
  BY <1>1, <1>2, <1>3, Steps

\* No object is ever given an older spec than it has.
THEOREM NeverRolledBackHolds == Spec => NeverRolledBack
<1>1. Spec => []Younger
  <2>1. Inv /\ Inv' /\ Younger /\ [Next]_vars => Younger'
    BY YoungerStep DEF Inv
  <2> QED
    BY <2>1, YoungerInit, InvInvariant, PTL DEF Spec
<1>2. Inv /\ Younger /\ [Next]_vars
        => [\A o \in Objects : api'[o] # 0 => api'[o] >= api[o]]_vars
  <2> SUFFICES ASSUME Inv, Younger, [Next]_vars, NEW o \in Objects, api'[o] # 0
               PROVE  api'[o] >= api[o]
    OBVIOUS
  <2>1. api[o] \in Nat
    BY DEF Inv, Types, ObjType
  <2>2. CASE Call
    BY <2>1, <2>2, CallYounger DEF Inv
  <2>3. CASE \E p \in Owned : GarbageCollect(p)
    BY <2>1, <2>3, WriteOne DEF GarbageCollect, Owned, Inv
  <2>4. CASE Elsewhere
    BY <2>1, <2>4, ElsewhereFrame
  <2> QED
    BY <2>2, <2>3, <2>4, Steps
<1> QED
  BY <1>1, <1>2, InvInvariant, PTL DEF Spec, NeverRolledBack

-----------------------------------------------------------------------------
(* SpinsOnlyUnset.  No Updating is ever stored, so none is ever read: the    *)
(* only one there is, is the one MarkUpdating leaves in memory.              *)

Unstored ==
    /\ cr.state # "Updating" /\ seenCR.state # "Updating"
    /\ pc \in {"reset", "nodes"} => inst.state # "Updating"
    /\ SpinsOnlyUnset

LEMMA UnstoredInit == ASSUME Init PROVE Unstored
  BY DEF Init, Unstored, SpinsOnlyUnset, NoInst

\* A reconcile that has ended has nothing in memory.
LEMMA ReturnUnstored ==
  ASSUME Unstored, NEW again, Return(again), cr'.state # "Updating", UNCHANGED seenCR
  PROVE  Unstored'
  BY DEF Unstored, Return, NoInst, SpinsOnlyUnset

\* A call that does not touch the state in memory.
LEMMA ContinueUnstored ==
  ASSUME Unstored, NEW next \in PCs \ {"reset", "nodes"}, NEW i, Continue(next, i, inst),
         UNCHANGED <<cr, seenCR>>
  PROVE  Unstored'
  BY DEF Unstored, Continue, SpinsOnlyUnset

\* The calls that do not update the CR.
LEMMA PlainCallUnstored ==
  ASSUME Unstored, Call, ~ResetUpdating, ~MarkUpdating PROVE Unstored'
<1>1. UNCHANGED <<cr, seenCR>> /\ cr.state # "Updating"
  BY CallFrame DEF Unstored
<1>2. \/ \E again : Return(again)
      \/ \E next \in PCs \ {"reset", "nodes"} : \E i : Continue(next, i, inst)
  BY DEF Call, EnsureServiceAccount, EnsureSecret, CreateStatefulSet, UpdateStatefulSet,
     KeepStatefulSet, EnsureService, ReadService, CheckDNS, EnsureGateway,
     EnsureVirtualService, PodMissing, Suspend, EnsureExists, UpdateCR, Reply, Goto,
     NextSecret, AfterServiceAccount, Requeue, Done, PCs
<1> QED
  BY <1>1, <1>2, ReturnUnstored, ContinueUnstored

LEMMA CallUnstored == ASSUME Types, Unstored, Call PROVE Unstored'
<1>1. UNCHANGED <<cr, seenCR>> /\ cr.state # "Updating"
  BY CallFrame DEF Unstored
<1>2. CASE ResetUpdating
  <2>1. Goto("sa")
    BY <1>2 DEF ResetUpdating, Unstored
  <2> QED
    BY <1>1, <2>1, ContinueUnstored DEF Goto, PCs
<1>3. CASE MarkUpdating
  <2>1. Requeue \/ Continue("svc", idx, Stored("Updating"))
    BY <1>3 DEF MarkUpdating, UpdateCR, Reply
  <2>2. CASE Requeue
    BY <1>1, <2>2, ReturnUnstored DEF Requeue
  <2>3. CASE Continue("svc", idx, Stored("Updating"))
    <3>1. inst'.state = AfterUpdate("Updating", cr.state) /\ pc' = "svc"
      BY <2>3 DEF Continue, Stored, Types, LocalType, Insts
    <3> QED
      BY <1>1, <3>1 DEF AfterUpdate, Unstored, SpinsOnlyUnset
  <2> QED
    BY <2>1, <2>2, <2>3
<1> QED
  BY <1>2, <1>3, PlainCallUnstored

\* A state found from the pod is never Updating, and takes its place.
LEMMA StatusUnstored ==
  ASSUME Types, Unstored, WriteState \/ WriteNodes PROVE Unstored'
<1> DEFINE next == [inst EXCEPT !.state = PodState(podRead)]
<1>0. /\ \A phase : PodState(phase) # "Updating"
      /\ next.state = PodState(podRead)
      /\ UNCHANGED seenCR
  BY StatusFrame DEF PodState, Types, LocalType, Insts
<1>1. \A st, n : st # "Updating" /\ cr' = [cr EXCEPT !.state = st, !.nodes = n]
                 => cr'.state # "Updating" /\ cr'.state = st
  BY DEF Types, CRType, CRs
<1>2. CASE WriteState
  <2>1. cr'.state # "Updating"
    BY <1>0, <1>1, <1>2 DEF WriteState, UpdateStatus, crVars, Unstored
  <2>2. \/ Requeue
        \/ Continue("nodes", idx, next)
        \/ Goto("nodes") /\ PodState(podRead) = inst.state
    BY <1>2 DEF WriteState, UpdateStatus, Reply
  <2>3. CASE Requeue
    BY <1>0, <2>1, <2>3, ReturnUnstored DEF Requeue
  <2>4. CASE \/ Continue("nodes", idx, next)
             \/ Goto("nodes") /\ PodState(podRead) = inst.state
    <3>1. inst'.state = PodState(podRead)
      BY <1>0, <2>4 DEF Goto, Continue
    <3>2. inst'.state # "Updating"
      BY <1>0, <3>1
    <3> QED
      BY <1>0, <2>1, <3>2 DEF Unstored, SpinsOnlyUnset
  <2> QED
    BY <2>2, <2>3, <2>4
<1>3. CASE WriteNodes
  <2>1. inst.state # "Updating"
    BY <1>3 DEF WriteNodes, Unstored
  <2>2. cr'.state # "Updating"
    BY <1>1, <1>3, <2>1 DEF WriteNodes, UpdateStatus, crVars, Unstored
  <2>3. Requeue \/ Finish
    BY <1>3 DEF WriteNodes, UpdateStatus, Reply
  <2> QED
    BY <1>0, <2>2, <2>3, ReturnUnstored DEF Requeue, Finish
<1> QED
  BY <1>2, <1>3

LEMMA UnstoredStep == ASSUME Types, Unstored, [Next]_vars PROVE Unstored'
<1>1. CASE Call
  BY <1>1, CallUnstored
<1>2. CASE WriteState \/ WriteNodes
  BY <1>2, StatusUnstored
<1>3. CASE Fetch
  BY <1>3 DEF Fetch, crVars, Unstored, SpinsOnlyUnset
<1>4. CASE ApiError
  BY <1>4, ReturnUnstored DEF ApiError, Requeue, crVars, Unstored
<1>5. CASE CacheCR \/ Restart
  BY <1>5 DEF CacheCR, Restart, locals, NoInst, Unstored, SpinsOnlyUnset
<1>6. CASE UserEdit \/ UserDelete
  <2>1. cr'.state = cr.state /\ UNCHANGED <<seenCR, pc, inst>>
    BY <1>6 DEF UserEdit, UserDelete, Types, CRType, CRs
  <2> QED
    BY <2>1 DEF Unstored, SpinsOnlyUnset
<1>7. CASE \/ FetchGone \/ PollPod \/ RetryFires \/ Resync \/ CachePod \/ PodController
           \/ PodFails \/ UNCHANGED vars \/ (\E o \in Objects : CacheObject(o))
           \/ \E o \in Owned : GarbageCollect(o)
  <2>1. UNCHANGED <<cr, seenCR, inst>> /\ (pc' = pc \/ pc' = "state")
    BY <1>7 DEF FetchGone, PollPod, RetryFires, Resync, CachePod, PodController, CreatePod,
       StartPod, DeletePod, SetPod, PodFails, CacheObject, GarbageCollect, crVars, locals, vars
  <2> QED
    BY <2>1 DEF Unstored, SpinsOnlyUnset
<1> QED
  BY <1>1, <1>2, <1>3, <1>4, <1>5, <1>6, <1>7 DEF Next, Reconcile, Informers, Call

\* The poll loop can only hang on a CR that never had a state.
THEOREM SpinsCorrect == Spec => []SpinsOnlyUnset
<1>1. Spec => []Unstored
  <2>1. Inv /\ Unstored /\ [Next]_vars => Unstored'
    BY UnstoredStep DEF Inv
  <2> QED
    BY <2>1, UnstoredInit, InvInvariant, PTL DEF Spec
<1>2. Unstored => SpinsOnlyUnset
  BY DEF Unstored
<1> QED
  BY <1>1, <1>2, PTL

-----------------------------------------------------------------------------
(* SecretsFirst.                                                             *)

LEMMA SecretsFirstInit == ASSUME Init PROVE SecretsFirst
  BY DEF Init, SecretsFirst, NoObjects, Objects

\* At the StatefulSet, everything it needs holds what the reconcile wants.
LEMMA NeededPlaced ==
  ASSUME Inv, cr.alive, pc = "sts"
  PROVE  Placed("sa") /\ \A o \in SecretNames : Placed(o)
<1>1. \A o \in SecretNames \cup {"sa"} : o \in Objects /\ Past(o)
  BY DEF Objects, Past, FromSts
<1> QED
  BY <1>1 DEF Inv, Safe, Chain

\* The StatefulSet is only written where the reconcile has come to it.
LEMMA WritesInOrder ==
  ASSUME Types, Call
  PROVE  \/ UNCHANGED objVars
         \/ pc = "sts" /\ Write("sts", inst.gen)
         \/ \E o \in Objects \ {"sts"} : Write(o, inst.gen)
<1>1. CASE EnsureSecret
  <2>1. Secrets[idx] \in SecretNames
    BY <1>1 DEF EnsureSecret, Types, LocalType, LocalBound, SecretNames
  <2>2. Secrets[idx] \in Objects \ {"sts"}
    BY <2>1, SecretsAssumption DEF Objects
  <2> QED
    BY <1>1, <2>2 DEF EnsureSecret, EnsureExists
<1>2. CASE CreateStatefulSet \/ UpdateStatefulSet
  BY <1>2 DEF CreateStatefulSet, UpdateStatefulSet
<1>3. CASE ~(EnsureSecret \/ CreateStatefulSet \/ UpdateStatefulSet)
  <2>1. {"sa", "svc", "gw", "vs"} \subseteq Objects \ {"sts"}
    BY InObjects
  <2> QED
    BY <1>3, <2>1
    DEF Call, ResetUpdating, EnsureServiceAccount, KeepStatefulSet, MarkUpdating, EnsureService,
        ReadService, CheckDNS, EnsureGateway, EnsureVirtualService, PodMissing, Suspend,
        EnsureExists
<1> QED
  BY <1>1, <1>2, <1>3

\* Contents compared do not change while no edit is made.
LEMMA SameAtLeast ==
  ASSUME UNCHANGED <<hist, cr>>, NEW o, api'[o] = api[o], NEW g, AtLeast(o, g)
  PROVE  api'[o] # 0 /\ \E h \in g .. cr'.gen : Content(o, api[o])' = Content(o, h)'
  BY DEF AtLeast, Content, ContentIn

LEMMA CallSecretsFirst ==
  ASSUME NeverMisled, Inv, SecretsFirst, Call PROVE SecretsFirst'
<1> SUFFICES ASSUME cr.alive PROVE SecretsFirst'
  BY CallFrame DEF SecretsFirst
<1>0. UNCHANGED <<hist, cr>> /\ pc # "idle"
  BY CallFrame
<1>1. inst.gen \in Nat /\ inst.gen # 0 /\ inst.gen <= cr.gen /\ cr.gen \in Nat
  BY <1>0 DEF Inv, Types, LocalType, Insts, LocalBound, CRType, CRs, Safe, Ages
<1>2. \A o \in Objects : api[o] \in Nat /\ api[o] <= inst.gen
  BY <1>0 DEF Inv, Types, ObjType, Safe, Ages
<1>3. SecretNames \subseteq Objects /\ "sa" \in Objects /\ "sts" \in Objects
  BY DEF Objects
<1>4. "sts" \notin SecretNames /\ "sa" \notin SecretNames
  BY SecretsAssumption
<1>5. CASE UNCHANGED objVars
  BY <1>0, <1>5 DEF objVars, SecretsFirst, AtLeast, Content, ContentIn
<1>6. CASE pc = "sts" /\ Write("sts", inst.gen)
  <2>1. api'["sts"] = inst.gen /\ \A o \in Objects \ {"sts"} : api'[o] = api[o]
    BY <1>3, <1>6, WriteOne DEF Inv
  <2>2. api["sa"] # 0 /\ \A o \in SecretNames : Placed(o)
    BY <1>6, NeededPlaced DEF Placed
  <2>3. \A o \in SecretNames : api[o] # 0 /\ Content(o, api[o]) = Content(o, inst.gen)
    BY <2>2 DEF Placed, Desired
  <2>4. \A o \in SecretNames : AtLeast(o, inst.gen)
    BY <1>1, <2>3 DEF AtLeast
  <2>5. \A o \in SecretNames : api'[o] = api[o]
    BY <1>3, <1>4, <2>1
  <2>6. \A o \in SecretNames : AtLeast(o, api["sts"])'
    BY <1>0, <2>1, <2>4, <2>5 DEF AtLeast, Content, ContentIn
  <2> QED
    BY <1>3, <2>1, <2>2, <2>6 DEF SecretsFirst, AtLeast
<1>7. ASSUME NEW p \in Objects \ {"sts"}, Write(p, inst.gen) PROVE SecretsFirst'
  <2>1. api'[p] = inst.gen /\ \A o \in Objects \ {p} : api'[o] = api[o]
    BY <1>7, WriteOne DEF Inv
  <2> SUFFICES ASSUME api["sts"] # 0
               PROVE  api'["sa"] # 0 /\ \A o \in SecretNames : AtLeast(o, api["sts"])'
    BY <1>3, <2>1 DEF SecretsFirst, AtLeast
  <2>2. api["sa"] # 0 /\ \A o \in SecretNames : AtLeast(o, api["sts"])
    BY DEF SecretsFirst
  <2>3. api'["sa"] # 0
    BY <1>1, <1>3, <2>1, <2>2
  <2>4. ASSUME NEW o \in SecretNames PROVE AtLeast(o, api["sts"])'
    <3>1. CASE o = p
      <4>1. inst.gen \in api["sts"] .. cr.gen
        BY <1>1, <1>2, <1>3
      <4> QED
        BY <1>0, <1>1, <1>3, <2>1, <3>1, <4>1 DEF AtLeast, Content
    <3>2. CASE o # p
      BY <1>0, <1>3, <2>1, <2>2, <3>2, SameAtLeast DEF AtLeast
    <3> QED
      BY <3>1, <3>2
  <2> QED
    BY <2>3, <2>4
<1> QED
  BY <1>5, <1>6, <1>7, WritesInOrder DEF Inv

\* An edit adds a spec, and leaves what there was of the others.
LEMMA EditSecretsFirst == ASSUME Inv, SecretsFirst, UserEdit PROVE SecretsFirst'
<1> SUFFICES ASSUME cr'.alive, api'["sts"] # 0
             PROVE  api'["sa"] # 0 /\ \A o \in SecretNames : AtLeast(o, api["sts"])'
  BY DEF SecretsFirst
<1>1. UNCHANGED api /\ cr.alive /\ cr'.gen = cr.gen + 1 /\ cr.gen \in Nat
  BY DEF UserEdit, objVars, Inv, Types, CRType, CRs
<1>2. api["sa"] # 0 /\ \A o \in SecretNames : AtLeast(o, api["sts"])
  BY <1>1 DEF SecretsFirst
<1>3. ASSUME NEW o \in SecretNames PROVE AtLeast(o, api["sts"])'
  <2>1. o \in Objects /\ "sts" \in Objects
    BY DEF Objects
  <2>2. api[o] \in 1 .. cr.gen /\ api["sts"] \in 1 .. cr.gen
    BY <1>1, <1>2, <2>1 DEF AtLeast, Inv, Types, ObjType, ObjBound
  <2>3. PICK h \in api["sts"] .. cr.gen : Content(o, api[o]) = Content(o, h)
    BY <1>2 DEF AtLeast
  <2>4. h \in 1 .. cr.gen /\ h \in api["sts"] .. cr'.gen
    BY <1>1, <2>2
  <2>5. \A g \in 1 .. cr.gen : ContentIn(hist', o, g) = ContentIn(hist, o, g)
    BY ContentKept DEF Inv, Content
  <2>6. ContentIn(hist', o, api'[o]) = ContentIn(hist', o, h)
    BY <1>1, <2>2, <2>3, <2>4, <2>5 DEF Content
  <2> QED
    BY <1>1, <2>2, <2>4, <2>6 DEF AtLeast, Content
<1> QED
  BY <1>1, <1>2, <1>3

LEMMA SecretsFirstStep ==
  ASSUME NeverMisled, Inv, SecretsFirst, [Next]_vars PROVE SecretsFirst'
<1>1. CASE Call
  BY <1>1, CallSecretsFirst
<1>2. CASE UserEdit
  BY <1>2, EditSecretsFirst
<1>3. CASE UserDelete \/ \E o \in Owned : GarbageCollect(o)
  <2>1. ~cr'.alive
    BY <1>3 DEF UserDelete, GarbageCollect, crVars, Inv, Types, CRType, CRs
  <2> QED
    BY <2>1 DEF SecretsFirst
<1>4. CASE Elsewhere /\ ~UserEdit /\ ~UserDelete
  <2>1. UNCHANGED <<api, hist>> /\ cr'.alive = cr.alive /\ cr'.gen = cr.gen
    <3>1. CASE WriteState \/ WriteNodes
      BY <3>1, StatusFrame DEF Inv
    <3>2. CASE ~(WriteState \/ WriteNodes)
      BY <1>4, <3>2 DEF Elsewhere, FetchGone, Fetch, PollPod, RetryFires, Resync, CacheCR,
         CachePod, PodController, CreatePod, StartPod, DeletePod, SetPod, PodFails, ApiError,
         Restart, CacheObject, crVars, objVars, vars
    <3> QED
      BY <3>1, <3>2
  <2> QED
    BY <2>1 DEF SecretsFirst, AtLeast, Content, ContentIn
<1> QED
  BY <1>1, <1>2, <1>3, <1>4, Steps

\* Unless users go back to earlier contents while what they had edited is read
\* late, a StatefulSet is never ahead of the ServiceAccount and the Secrets its
\* pods need.
THEOREM SecretsFirstHolds == ASSUME NeverMisled PROVE Spec => []SecretsFirst
<1>1. Inv /\ SecretsFirst /\ [Next]_vars => SecretsFirst'
  BY SecretsFirstStep
<1> QED
  BY <1>1, SecretsFirstInit, InvInvariant, PTL DEF Spec
=============================================================================
