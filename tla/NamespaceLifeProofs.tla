------------------------- MODULE NamespaceLifeProofs -------------------------
(* A node that shares nothing and was never deleted is served, whatever the  *)
(* other nodes, the faults and the lag of the informers are.                 *)
EXTENDS NamespaceProofs

\* A uid is the uid of the node it was given to.
UidKnown == \A n \in Nodes : uid[n] # 0 => created[uid[n]] = n

\* The node has not been created yet.
Unborn(n) == \A i \in Uids : created[i] # n

\* Before the node is created there is nothing of it.
Blank(n) ==
    Unborn(n) =>
        /\ at[n].pc = "idle" /\ ~running[n]
        /\ \A t \in {Sts(n), Svc(n)} : ~api[t].there /\ ~cache[t].there
        /\ \A a \in Addresses : annotated[a] # named[n].fqdn

\* What is there of the node, in either copy, is its own.
OwnThings(n) ==
    /\ \A t \in {Sts(n), Svc(n)} : /\ api[t].there => api[t].owner = uid[n]
                                   /\ cache[t].there => cache[t] = api[t]
    /\ \A a \in Addresses :
           annotated[a] = named[n].fqdn <=> api[Svc(n)].there /\ a = api[Svc(n)].ip

\* The worker has ensured what it has passed, and read what is there.
Passed(n) ==
    /\ at[n].pc # "idle" => at[n].uid = uid[n]
    /\ at[n].pc \in {"svc", "svcRead", "get", "put", "poll"} => api[Sts(n)].there
    /\ at[n].pc \in {"svcRead", "get", "put", "poll"} => api[Svc(n)].there
    /\ at[n].pc \in {"get", "put"} => at[n].ip = api[Svc(n)].ip
    /\ at[n].pc = "poll" => record[named[n].fqdn] # 0

\* A node that says Running has all it needs, and one that does not is looked at.
Said(n) ==
    /\ running[n] => /\ api[Sts(n)].there /\ api[Svc(n)].there
                     /\ record[named[n].fqdn] # 0
    /\ at[n].pc = "idle" /\ ~queued[n] => running[n]

Served(n) == uid[n] # 0 => OwnThings(n) /\ Passed(n) /\ Said(n)

Life == /\ UidKnown
        /\ \A n \in Nodes : Single(n) /\ FirstLife(n) => Blank(n) /\ Served(n)

-----------------------------------------------------------------------------
(* What every step leaves alone.                                             *)

\* A published name stays published.
LEMMA RecordStays ==
  ASSUME Inv, [Next]_vars
  PROVE  \A f \in Fqdns : record[f] # 0 => record'[f] # 0
<1>1. CASE UNCHANGED record
  BY <1>1
<1>2. ASSUME NEW k \in Nodes, PutRecord(k), record' = [record EXCEPT ![FqdnRead(k)] = at[k].ip]
      PROVE  \A f \in Fqdns : record[f] # 0 => record'[f] # 0
  <2>1. at[k].ip # 0
    BY <1>2 DEF Inv, AtType, PutRecord
  <2> QED
    BY <1>2, <2>1 DEF Inv, DNSType
<1>3. CASE LatePut
  <2>1. PICK p \in late : record' \in {record, [record EXCEPT ![p.fqdn] = p.ip]}
    BY <1>3 DEF LatePut
  <2>2. p.ip # 0
    BY DEF Inv, DNSType, Addresses
  <2> QED
    BY <2>1, <2>2 DEF Inv, DNSType
<1> QED
  BY <1>1, <1>2, <1>3
  DEF Next, Work, Take, EnsureStatefulSet, EnsureService, ReadService, GetRecord, PutRecord,
      PollPod, Resync, UserDelete, UserCreate, CacheThing, GarbageCollect, MovePod, Restart,
      vars, dnsVars

\* The names are given for good, and uids only added.
LEMMA CreatedGrows ==
  ASSUME Inv, [Next]_vars
  PROVE  /\ UNCHANGED named
         /\ \/ UNCHANGED created
            \/ \E k \in Nodes : UserCreate(k)
  BY DEF Next, Work, Take, EnsureStatefulSet, EnsureService, ReadService, GetRecord, PutRecord,
      PollPod, Resync, UserDelete, UserCreate, CacheThing, GarbageCollect, MovePod, Restart,
      LatePut, vars, crVars

\* A uid handed out: the others stay whose they are.
LEMMA NewUid ==
  ASSUME Inv, NEW k \in Nodes, UserCreate(k)
  PROVE  /\ Len(created) \in Nat /\ Uids' = Uids \cup {Len(created) + 1}
         /\ Len(created) + 1 \notin Uids
         /\ created'[Len(created) + 1] = k
         /\ \A i \in Uids : created'[i] = created[i]
<1>1. created \in Seq(Nodes) /\ Len(created) \in Nat /\ created' = Append(created, k)
  BY LenProperties DEF Inv, UidType, UserCreate
<1>2. Len(created') = Len(created) + 1
  BY <1>1, AppendProperties
<1> QED
  BY <1>1, <1>2, AppendProperties DEF Uids

\* A second life stays one.
LEMMA FirstLifeBefore ==
  ASSUME Inv, [Next]_vars, NEW n \in Nodes, FirstLife(n)'
  PROVE  FirstLife(n)
<1>1. CASE UNCHANGED created
  BY <1>1 DEF FirstLife, Uids
<1>2. ASSUME NEW k \in Nodes, UserCreate(k) PROVE FirstLife(n)
  BY <1>2, NewUid DEF FirstLife
<1> QED
  BY <1>1, <1>2, CreatedGrows

LEMMA UidKnownStep == ASSUME Inv, UidKnown, [Next]_vars PROVE UidKnown'
<1>1. uid \in [Nodes -> Uids \cup {0}]
  BY DEF Inv, UidType
<1>2. ASSUME NEW k \in Nodes, UserCreate(k) PROVE UidKnown'
  <2>1. uid' = [uid EXCEPT ![k] = Len(created')] /\ created' = Append(created, k)
    BY <1>2 DEF UserCreate
  <2>2. Len(created') = Len(created) + 1
    BY <2>1, AppendProperties DEF Inv, UidType
  <2>3. ASSUME NEW n \in Nodes, uid'[n] # 0 PROVE created'[uid'[n]] = n
    <3>1. CASE n = k
      BY <1>1, <1>2, <2>1, <2>2, <3>1, NewUid
    <3>2. CASE n # k
      BY <1>1, <1>2, <2>1, <2>3, <3>2, NewUid DEF UidKnown
    <3> QED
      BY <3>1, <3>2
  <2> QED
    BY <2>3 DEF UidKnown
<1>3. ASSUME NEW k \in Nodes, UserDelete(k) PROVE UidKnown'
  BY <1>1, <1>3 DEF UserDelete, UidKnown
<1>4. CASE UNCHANGED <<uid, created>>
  BY <1>4 DEF UidKnown
<1> QED
  BY <1>2, <1>3, <1>4
  DEF Next, Work, Take, EnsureStatefulSet, EnsureService, ReadService, GetRecord, PutRecord,
      PollPod, Resync, CacheThing, GarbageCollect, MovePod, Restart, LatePut, vars, crVars

-----------------------------------------------------------------------------
(* Steps that do not touch the node.                                         *)

\* The addresses given to a name are those it had.
SameAddresses(f) ==
    \A a : a \in Addresses' /\ annotated'[a] = f <=> a \in Addresses /\ annotated[a] = f

LEMMA Undisturbed ==
  ASSUME Inv, NEW n \in Nodes, Blank(n), Served(n),
         UNCHANGED named, Unborn(n)' => Unborn(n),
         uid'[n] = uid[n], at'[n] = at[n], running'[n] = running[n],
         queued'[n] = queued[n] \/ queued'[n] = TRUE,
         \A t \in {Sts(n), Svc(n)} : /\ api'[t] = api[t]
                                     /\ cache'[t] = cache[t] \/ cache'[t] = api[t],
         SameAddresses(named[n].fqdn),
         record[named[n].fqdn] # 0 => record'[named[n].fqdn] # 0
  PROVE  Blank(n)' /\ Served(n)'
<1>1. Sts(n)' = Sts(n) /\ Svc(n)' = Svc(n) /\ named'[n].fqdn = named[n].fqdn
  BY DEF Sts, Svc
<1>2. Blank(n)'
  BY <1>1 DEF Blank, SameAddresses
<1>3. uid[n] # 0 => OwnThings(n)'
  <2> SUFFICES ASSUME uid[n] # 0 PROVE OwnThings(n)'
    OBVIOUS
  <2>1. OwnThings(n)
    BY DEF Served
  <2>2. \A t \in {Sts(n), Svc(n)} : /\ api'[t].there => api'[t].owner = uid'[n]
                                    /\ cache'[t].there => cache'[t] = api'[t]
    BY <2>1 DEF OwnThings
  <2>3. ASSUME NEW a \in Addresses'
        PROVE  annotated'[a] = named[n].fqdn <=> api[Svc(n)].there /\ a = api[Svc(n)].ip
    <3>1. api[Svc(n)].ip \in Addresses \cup {0}
      BY Keys DEF Inv, ThingsType, ThingType
    <3>2. a # 0
      BY DEF Addresses
    <3> QED
      BY <2>1, <2>3, <3>1, <3>2 DEF OwnThings, SameAddresses
  <2> QED
    BY <1>1, <2>2, <2>3 DEF OwnThings
<1>4. uid[n] # 0 => Passed(n)'
  BY <1>1 DEF Served, Passed
<1>5. uid[n] # 0 => Said(n)'
  BY <1>1 DEF Served, Said
<1> QED
  BY <1>2, <1>3, <1>4, <1>5 DEF Served

\* The addresses given to a name, unless a Service is given it.
LEMMA SameAnnotated == ASSUME UNCHANGED annotated, NEW f PROVE SameAddresses(f)
  BY DEF SameAddresses, Addresses

LEMMA OtherAnnotated ==
  ASSUME Inv, NEW g \in Fqdns, NEW f, f # g, annotated' = Append(annotated, g)
  PROVE  SameAddresses(f)
<1>1. annotated \in Seq(Fqdns) /\ Len(annotated) \in Nat
  BY LenProperties DEF Inv, DNSType
<1>2. /\ Len(annotated') = Len(annotated) + 1
      /\ annotated'[Len(annotated) + 1] = g
      /\ \A i \in 1 .. Len(annotated) : annotated'[i] = annotated[i]
  BY <1>1, AppendProperties
<1> QED
  BY <1>1, <1>2 DEF SameAddresses, Addresses

\* Another node's worker touches neither the node nor its objects.
LEMMA OtherWork ==
  ASSUME Inv, FlagType, NEW n \in Nodes, Single(n), NEW k \in Nodes \ {n}, Work(k)
  PROVE  /\ UNCHANGED <<named, created, uid>>
         /\ at'[n] = at[n] /\ running'[n] = running[n] /\ queued'[n] = queued[n]
         /\ \A t \in {Sts(n), Svc(n)} : api'[t] = api[t] /\ cache'[t] = cache[t]
         /\ SameAddresses(named[n].fqdn)
<1>1. UNCHANGED <<named, created, uid>>
  BY DEF Work, Take, EnsureStatefulSet, EnsureService, ReadService, GetRecord, PutRecord,
     PollPod, crVars
<1>2. at'[n] = at[n]
  BY DEF Work, Take, EnsureStatefulSet, EnsureService, EnsureExists, ReadService, GetRecord,
     PutRecord, PollPod, Goto, Continue, Requeue, Return, Inv, AtType
<1>3. queued'[n] = queued[n]
  <2>1. UNCHANGED queued \/ \E b : queued' = [queued EXCEPT ![k] = b]
    BY DEF Work, Take, EnsureStatefulSet, EnsureService, EnsureExists, ReadService, GetRecord,
       PutRecord, PollPod, Goto, Continue, Requeue, Return
  <2> QED
    BY Zenon, <2>1 DEF FlagType
<1>4. running'[n] = running[n]
  <2>1. UNCHANGED running \/ \E b : running' = [running EXCEPT ![k] = b]
    BY DEF Work, Take, EnsureStatefulSet, EnsureService, ReadService, GetRecord,
       PutRecord, PollPod, crVars
  <2> QED
    BY Zenon, <2>1 DEF FlagType
<1>5. \A t \in {Sts(n), Svc(n)} : t \in Things /\ t # Sts(k) /\ t # Svc(k)
  <2>1. Sts(n) \in Things /\ Svc(n) \in Things
    BY Keys DEF Inv
  <2>2. named[k].name # named[n].name
    BY DEF Single
  <2> QED
    BY <2>1, <2>2 DEF Sts, Svc
<1>6. UNCHANGED <<api, cache>> \/ \E t \in {Sts(k), Svc(k)} : \E o : Write(t, o)
  BY DEF Work, Take, EnsureStatefulSet, EnsureService, EnsureExists, ReadService, GetRecord,
     PutRecord, PollPod, objVars
<1>7. \A t \in {Sts(n), Svc(n)} : api'[t] = api[t] /\ cache'[t] = cache[t]
  BY <1>5, <1>6 DEF Write, Inv, ThingsType
<1>8. UNCHANGED annotated \/ annotated' = Append(annotated, named[k].fqdn)
  BY DEF Work, Take, EnsureStatefulSet, EnsureService, ReadService, GetRecord, PutRecord,
     PollPod, objVars
<1>9. SameAddresses(named[n].fqdn)
  BY <1>8, Keys, SameAnnotated, OtherAnnotated DEF Inv, Single
<1> QED
  BY <1>1, <1>2, <1>3, <1>4, <1>7, <1>9

\* The steps of the cluster and of other nodes' users.
Around(n) ==
    \/ Resync(n) \/ LatePut \/ UNCHANGED vars
    \/ \E k \in Nodes \ {n} : Resync(k) \/ UserCreate(k) \/ UserDelete(k)
    \/ \E m \in Names : MovePod(m)
    \/ \E t \in Things : CacheThing(t)
    \/ \E t \in Things \ {Sts(n), Svc(n)} : GarbageCollect(t)

LEMMA AroundFrame ==
  ASSUME Inv, FlagType, NEW n \in Nodes, Around(n)
  PROVE  /\ UNCHANGED <<named, at, annotated>>
         /\ uid'[n] = uid[n] /\ running'[n] = running[n]
         /\ queued'[n] = queued[n] \/ queued'[n] = TRUE
         /\ \A t \in {Sts(n), Svc(n)} : /\ api'[t] = api[t]
                                        /\ cache'[t] = cache[t] \/ cache'[t] = api[t]
         /\ Unborn(n)' => Unborn(n)
<1>1. UNCHANGED <<named, at, annotated>>
  BY DEF Around, Resync, LatePut, vars, UserCreate, UserDelete, MovePod, CacheThing,
     GarbageCollect, crVars, objVars
<1>2. uid'[n] = uid[n]
  BY DEF Around, Resync, LatePut, vars, UserCreate, UserDelete, MovePod, CacheThing,
     GarbageCollect, crVars, objVars, Inv, UidType
<1>3. running'[n] = running[n]
  <2>1. UNCHANGED running \/ \E k \in Nodes \ {n} : \E b : running' = [running EXCEPT ![k] = b]
    BY DEF Around, Resync, LatePut, vars, UserCreate, UserDelete, MovePod, CacheThing,
       GarbageCollect, crVars, objVars
  <2> QED
    BY Zenon, <2>1 DEF FlagType
<1>4. queued'[n] = queued[n] \/ queued'[n] = TRUE
  <2>1. UNCHANGED queued \/ \E k \in Nodes : queued' = [queued EXCEPT ![k] = TRUE]
    BY DEF Around, Resync, LatePut, vars, UserCreate, UserDelete, MovePod, CacheThing,
       GarbageCollect, crVars, objVars
  <2> QED
    BY Zenon, <2>1 DEF FlagType
<1>5. \A t \in {Sts(n), Svc(n)} : t \in Things
  BY Keys DEF Inv
<1>6. \/ UNCHANGED <<api, cache>>
      \/ UNCHANGED api /\ \E t \in Things : cache' = [cache EXCEPT ![t] = api[t]]
      \/ \E t \in Things \ {Sts(n), Svc(n)} : Write(t, Absent)
  BY DEF Around, Resync, LatePut, vars, UserCreate, UserDelete, MovePod, CacheThing,
     GarbageCollect, crVars, objVars
<1>7. \A t \in {Sts(n), Svc(n)} : /\ api'[t] = api[t]
                                  /\ cache'[t] = cache[t] \/ cache'[t] = api[t]
  BY <1>5, <1>6 DEF Write, Inv, ThingsType
<1>8. UNCHANGED created \/ \E k \in Nodes \ {n} : UserCreate(k)
  BY DEF Around, Resync, LatePut, vars, UserCreate, UserDelete, MovePod, CacheThing,
     GarbageCollect, crVars, objVars
<1>9. Unborn(n)' => Unborn(n)
  <2>1. CASE UNCHANGED created
    BY <2>1 DEF Unborn, Uids
  <2>2. ASSUME NEW k \in Nodes \ {n}, UserCreate(k) PROVE Unborn(n)' => Unborn(n)
    BY <2>2, NewUid DEF Unborn
  <2> QED
    BY <1>8, <2>1, <2>2
<1> QED
  BY <1>1, <1>2, <1>3, <1>4, <1>7, <1>9

-----------------------------------------------------------------------------
(* The node's own reconcile.                                                 *)

\* The keys of its objects do not change, and are two.
LEMMA OwnKeys ==
  ASSUME Inv, NEW n \in Nodes, UNCHANGED named
  PROVE  /\ Sts(n)' = Sts(n) /\ Svc(n)' = Svc(n) /\ named'[n].fqdn = named[n].fqdn
         /\ Sts(n) \in Things /\ Svc(n) \in Things /\ Sts(n) # Svc(n)
         /\ named[n].fqdn \in Fqdns
  BY Keys DEF Inv, Sts, Svc

\* A reconcile of this node leaves the CR alone.
LEMMA OwnFrame ==
  ASSUME NEW n \in Nodes, Work(n)
  PROVE  UNCHANGED <<named, created, uid, crs>>
  BY DEF Work, Take, EnsureStatefulSet, EnsureService, ReadService, GetRecord, PutRecord,
     PollPod, crVars

\* It reconciles nothing before it is created.
LEMMA OwnBlank ==
  ASSUME NEW n \in Nodes, Blank(n), UidKnown, Inv, Work(n) PROVE Blank(n)'
<1>1. UNCHANGED <<named, created, uid>>
  BY OwnFrame
<1>2. CASE Unborn(n)
  <2>1. uid[n] = 0
    BY <1>2 DEF UidKnown, Unborn, Inv, UidType
  <2>2. at[n].pc = "idle"
    BY <1>2 DEF Blank
  <2>3. Take(n)
    BY <2>2 DEF Work, EnsureStatefulSet, EnsureService, ReadService, GetRecord, PutRecord, PollPod
  <2>4. UNCHANGED <<at, running, api, cache, annotated>>
    BY <2>1, <2>3 DEF Take, crVars, objVars
  <2> QED
    BY <1>1, <2>4 DEF Blank, Unborn, Uids, Sts, Svc, Addresses
<1>3. CASE ~Unborn(n)
  BY <1>1, <1>3 DEF Blank, Unborn, Uids
<1> QED
  BY <1>2, <1>3

\* A worker that is to look again.
LEMMA RequeuedServed ==
  ASSUME Inv, FlagType, NEW n \in Nodes, uid[n] # 0, Served(n),
         UNCHANGED <<named, uid, running, record>>, Requeue(n),
         OwnThings(n)', \A t \in {Sts(n), Svc(n)} : api[t].there => api'[t].there
  PROVE  Served(n)'
<1>1. Sts(n)' = Sts(n) /\ Svc(n)' = Svc(n) /\ named'[n].fqdn = named[n].fqdn
  BY OwnKeys
<1>2. at'[n] = Idle
  BY DEF Requeue, Return, Inv, AtType
<1>3. queued'[n] = TRUE
  <2>1. queued' = [queued EXCEPT ![n] = queued[n] \/ TRUE]
    BY DEF Requeue, Return
  <2> QED
    BY Zenon, <2>1 DEF FlagType
<1>4. Passed(n)'
  BY <1>2 DEF Passed, Idle
<1>5. Said(n)'
  BY <1>1, <1>3 DEF Served, Said
<1> QED
  BY <1>4, <1>5 DEF Served

\* A worker that goes on.
LEMMA ContinuedServed ==
  ASSUME Inv, NEW n \in Nodes, uid[n] # 0, Served(n), at[n].pc # "idle",
         UNCHANGED <<named, uid, running>>,
         NEW next \in PCs \ {"idle"}, NEW ip, Continue(n, next, ip),
         OwnThings(n)', \A t \in {Sts(n), Svc(n)} : api[t].there => api'[t].there,
         record[named[n].fqdn] # 0 => record'[named[n].fqdn] # 0,
         next \in {"svc", "svcRead", "get", "put", "poll"} => api'[Sts(n)].there,
         next \in {"svcRead", "get", "put", "poll"} => api'[Svc(n)].there,
         next \in {"get", "put"} => ip = api'[Svc(n)].ip,
         next = "poll" => record'[named[n].fqdn] # 0
  PROVE  Served(n)'
<1>1. Sts(n)' = Sts(n) /\ Svc(n)' = Svc(n) /\ named'[n].fqdn = named[n].fqdn
  BY OwnKeys
<1>2. at'[n].pc = next /\ at'[n].ip = ip /\ at'[n].uid = at[n].uid
  BY DEF Continue, Inv, AtType, Workers
<1>3. at[n].uid = uid[n]
  BY DEF Served, Passed
<1>4. Passed(n)'
  BY <1>1, <1>2, <1>3 DEF Passed
<1>5. Said(n)'
  BY <1>1, <1>2 DEF Served, Said
<1> QED
  BY <1>4, <1>5 DEF Served

\* Objects no step touches.
LEMMA SameThings ==
  ASSUME NEW n \in Nodes, OwnThings(n), UNCHANGED <<named, uid, api, cache, annotated>>
  PROVE  OwnThings(n)'
  BY DEF OwnThings, Sts, Svc, Addresses

LEMMA TakeServed ==
  ASSUME Inv, NEW n \in Nodes, uid[n] # 0, Served(n), Take(n) PROVE Served(n)'
<1>1. UNCHANGED <<named, uid, running, api, cache, annotated, record>>
  BY DEF Take, crVars, objVars, dnsVars
<1>2. at'[n] = [pc |-> "sts", uid |-> uid[n], ip |-> 0]
  BY DEF Take, Inv, AtType
<1>3. OwnThings(n)'
  BY <1>1, SameThings DEF Served
<1>4. Passed(n)'
  BY <1>1, <1>2 DEF Passed
<1>5. Said(n)'
  BY <1>1, <1>2 DEF Served, Said, Sts, Svc
<1> QED
  BY <1>3, <1>4, <1>5 DEF Served

LEMMA StatefulSetServed ==
  ASSUME Inv, FlagType, NEW n \in Nodes, uid[n] # 0, Served(n), EnsureStatefulSet(n)
  PROVE  Served(n)'
<1>1. UNCHANGED <<named, uid, running, record, annotated>> /\ at[n].pc = "sts"
  BY DEF EnsureStatefulSet, crVars, dnsVars
<1>2. Sts(n)' = Sts(n) /\ Svc(n)' = Svc(n) /\ Sts(n) \in Things /\ Svc(n) \in Things
      /\ Sts(n) # Svc(n)
  BY <1>1, OwnKeys
<1>3. CASE UNCHANGED <<api, cache>>
  <2>1. OwnThings(n)'
    BY <1>1, <1>3, SameThings DEF Served
  <2>2. CASE Requeue(n)
    BY <1>1, <1>3, <2>1, <2>2, RequeuedServed
  <2>3. CASE cache[Sts(n)].there /\ Goto(n, "svc")
    <3>1. api[Sts(n)].there
      BY <2>3 DEF Served, OwnThings
    <3> QED
      BY <1>1, <1>3, <2>1, <2>3, <3>1, ContinuedServed DEF Goto, PCs
  <2> QED
    BY <2>2, <2>3 DEF EnsureStatefulSet, EnsureExists
<1>4. CASE ~api[Sts(n)].there /\ Write(Sts(n), Object(at[n].uid, 0)) /\ Requeue(n)
  <2>1. at[n].uid = uid[n]
    BY <1>1 DEF Served, Passed
  <2>2. /\ api'[Sts(n)] = Object(uid[n], 0) /\ api'[Svc(n)] = api[Svc(n)]
        /\ cache'[Sts(n)] \in {cache[Sts(n)], Object(uid[n], 0)}
        /\ cache'[Svc(n)] = cache[Svc(n)]
    BY <1>2, <1>4, <2>1 DEF Write, Inv, ThingsType
  <2>3. Object(uid[n], 0).there /\ Object(uid[n], 0).owner = uid[n]
    BY DEF Object
  <2>4. ~cache[Sts(n)].there
    BY <1>4 DEF Served, OwnThings
  <2>5. OwnThings(n)'
    BY <1>1, <1>2, <2>2, <2>3, <2>4 DEF Served, OwnThings, Addresses
  <2> QED
    BY <1>1, <1>4, <2>2, <2>3, <2>5, RequeuedServed
<1>5. UNCHANGED <<api, cache>>
      \/ (~api[Sts(n)].there /\ Write(Sts(n), Object(at[n].uid, 0)) /\ Requeue(n))
  BY DEF EnsureStatefulSet, EnsureExists
<1> QED
  BY <1>3, <1>4, <1>5
\* A Service that is made is the only one that was ever given the name.
LEMMA ServiceServed ==
  ASSUME Inv, FlagType, NEW n \in Nodes, uid[n] # 0, Served(n), EnsureService(n)
  PROVE  Served(n)'
<1> DEFINE o == Object(at[n].uid, Len(annotated) + 1)
<1>1. UNCHANGED <<named, uid, running, record>> /\ at[n].pc = "svc"
  BY DEF EnsureService, crVars, dnsVars
<1>2. Sts(n)' = Sts(n) /\ Svc(n)' = Svc(n) /\ Sts(n) \in Things /\ Svc(n) \in Things
      /\ Sts(n) # Svc(n) /\ named[n].fqdn \in Fqdns /\ named'[n].fqdn = named[n].fqdn
  BY <1>1, OwnKeys
<1>3. api[Sts(n)].there
  BY <1>1 DEF Served, Passed
<1>4. CASE UNCHANGED <<api, cache>>
  <2>1. UNCHANGED annotated
    BY <1>4 DEF EnsureService
  <2>2. OwnThings(n)'
    BY <1>1, <1>4, <2>1, SameThings DEF Served
  <2>3. CASE Requeue(n)
    BY <1>1, <1>4, <2>2, <2>3, RequeuedServed
  <2>4. CASE cache[Svc(n)].there /\ Goto(n, "svcRead")
    <3>1. api[Svc(n)].there
      BY <2>4 DEF Served, OwnThings
    <3> QED
      BY <1>1, <1>3, <1>4, <2>2, <2>4, <3>1, ContinuedServed DEF Goto, PCs
  <2>5. cache[Svc(n)].there => Goto(n, "svcRead") \/ Requeue(n)
    BY DEF EnsureService, EnsureExists
  <2>6. ~cache[Svc(n)].there /\ ~api[Svc(n)].there => FALSE
    <3> SUFFICES ASSUME ~cache[Svc(n)].there, ~api[Svc(n)].there PROVE FALSE
      OBVIOUS
    <3>1. Write(Svc(n), o)
      BY DEF EnsureService, EnsureExists
    <3>2. api'[Svc(n)] = o
      BY <1>2, <3>1 DEF Write, Inv, ThingsType
    <3> QED
      BY <1>4, <3>2 DEF Object
  <2> QED
    BY <2>3, <2>4, <2>5, <2>6 DEF EnsureService, EnsureExists
<1>5. CASE ~api[Svc(n)].there /\ Write(Svc(n), o) /\ (Goto(n, "svcRead") \/ Requeue(n))
  <2>1. at[n].uid = uid[n]
    BY <1>1 DEF Served, Passed
  <2>2. /\ api'[Svc(n)] = o /\ api'[Sts(n)] = api[Sts(n)]
        /\ cache'[Svc(n)] \in {cache[Svc(n)], o}
        /\ cache'[Sts(n)] = cache[Sts(n)]
    BY <1>2, <1>5 DEF Write, Inv, ThingsType
  <2>3. o.there /\ o.owner = uid[n] /\ o.ip = Len(annotated) + 1
    BY <2>1 DEF Object
  <2>4. ~cache[Svc(n)].there
    BY <1>5 DEF Served, OwnThings
  <2>5. annotated' = Append(annotated, named[n].fqdn)
    BY <1>5, <2>2, <2>3 DEF EnsureService
  <2>6. /\ Len(annotated) \in Nat /\ Addresses' = Addresses \cup {Len(annotated) + 1}
        /\ Len(annotated) + 1 \notin Addresses
        /\ annotated'[Len(annotated) + 1] = named[n].fqdn
        /\ \A i \in Addresses : annotated'[i] = annotated[i]
    BY <1>2, <2>5, Annotate, AppendProperties, LenProperties DEF Inv, DNSType, Addresses
  <2>7. \A a \in Addresses' :
            annotated'[a] = named[n].fqdn <=> api'[Svc(n)].there /\ a = api'[Svc(n)].ip
    BY <1>5, <2>2, <2>3, <2>6 DEF Served, OwnThings
  <2>8. OwnThings(n)'
    BY <1>1, <1>2, <2>2, <2>3, <2>4, <2>7 DEF Served, OwnThings
  <2>9. CASE Requeue(n)
    BY <1>1, <1>5, <2>2, <2>3, <2>8, <2>9, RequeuedServed
  <2>10. CASE Goto(n, "svcRead")
    BY <1>1, <1>3, <1>5, <2>2, <2>3, <2>8, <2>10, ContinuedServed DEF Goto, PCs
  <2> QED
    BY <1>5, <2>9, <2>10
<1>6. \/ UNCHANGED <<api, cache>>
      \/ ~api[Svc(n)].there /\ Write(Svc(n), o) /\ (Goto(n, "svcRead") \/ Requeue(n))
  BY DEF EnsureService, EnsureExists
<1> QED
  BY <1>4, <1>5, <1>6

LEMMA ReadServiceServed ==
  ASSUME Inv, FlagType, NEW n \in Nodes, uid[n] # 0, Served(n), ReadService(n)
  PROVE  Served(n)'
<1>1. UNCHANGED <<named, uid, running, record, api, cache, annotated>> /\ at[n].pc = "svcRead"
  BY DEF ReadService, crVars, objVars, dnsVars
<1>2. OwnThings(n)'
  BY <1>1, SameThings DEF Served
<1>3. api[Sts(n)].there /\ api[Svc(n)].there
  BY <1>1 DEF Served, Passed
<1>4. CASE cache[Svc(n)].there /\ Continue(n, "get", cache[Svc(n)].ip)
  <2>1. cache[Svc(n)].ip = api[Svc(n)].ip
    BY <1>4 DEF Served, OwnThings
  <2> QED
    BY <1>1, <1>2, <1>3, <1>4, <2>1, ContinuedServed DEF PCs
<1>5. CASE Requeue(n)
  BY <1>1, <1>2, <1>5, RequeuedServed
<1> QED
  BY <1>4, <1>5 DEF ReadService

\* The name read with the Service is the node's own.
LEMMA OwnFqdnRead ==
  ASSUME Inv, NEW n \in Nodes, uid[n] # 0, Served(n), at[n].pc \in {"get", "put"}
  PROVE  /\ api[Sts(n)].there /\ api[Svc(n)].there /\ at[n].ip = api[Svc(n)].ip
         /\ FqdnRead(n) = named[n].fqdn
<1>1. api[Sts(n)].there /\ api[Svc(n)].there /\ at[n].ip = api[Svc(n)].ip
  BY DEF Served, Passed
<1>2. at[n].ip \in Addresses
  BY ReadIsNamed DEF Inv
<1> QED
  BY <1>1, <1>2 DEF Served, OwnThings, FqdnRead

LEMMA GetRecordServed ==
  ASSUME Inv, FlagType, NEW n \in Nodes, uid[n] # 0, Served(n), GetRecord(n)
  PROVE  Served(n)'
<1>1. UNCHANGED <<named, uid, running, record, api, cache, annotated>> /\ at[n].pc = "get"
  BY DEF GetRecord, crVars, objVars, dnsVars
<1>2. OwnThings(n)'
  BY <1>1, SameThings DEF Served
<1>3. /\ api[Sts(n)].there /\ api[Svc(n)].there /\ at[n].ip = api[Svc(n)].ip
      /\ FqdnRead(n) = named[n].fqdn
  BY <1>1, OwnFqdnRead
<1>4. CASE record[FqdnRead(n)] = at[n].ip /\ Continue(n, "poll", 0)
  <2>1. record[named[n].fqdn] # 0
    BY <1>1, <1>3, <1>4 DEF Inv, AtType
  <2> QED
    BY <1>1, <1>2, <1>3, <1>4, <2>1, ContinuedServed DEF PCs
<1>5. CASE Continue(n, "put", at[n].ip)
  BY <1>1, <1>2, <1>3, <1>5, ContinuedServed DEF PCs
<1> QED
  BY <1>4, <1>5 DEF GetRecord, Goto

LEMMA PutRecordServed ==
  ASSUME Inv, FlagType, NEW n \in Nodes, uid[n] # 0, Served(n), PutRecord(n)
  PROVE  Served(n)'
<1>1. UNCHANGED <<named, uid, running, api, cache, annotated>> /\ at[n].pc = "put"
  BY DEF PutRecord, crVars, objVars
<1>2. OwnThings(n)'
  BY <1>1, SameThings DEF Served
<1>3. /\ api[Sts(n)].there /\ api[Svc(n)].there /\ at[n].ip = api[Svc(n)].ip
      /\ FqdnRead(n) = named[n].fqdn /\ at[n].ip # 0 /\ named[n].fqdn \in Fqdns
  BY <1>1, OwnFqdnRead, OwnKeys DEF Inv, AtType
<1>4. CASE record' = [record EXCEPT ![FqdnRead(n)] = at[n].ip] /\ Continue(n, "poll", 0)
  <2>1. record'[named[n].fqdn] # 0
    BY <1>3, <1>4 DEF Inv, DNSType
  <2> QED
    BY <1>1, <1>2, <1>3, <1>4, <2>1, ContinuedServed DEF PCs
<1>5. CASE UNCHANGED record /\ Requeue(n)
  BY <1>1, <1>2, <1>5, RequeuedServed
<1> QED
  BY <1>4, <1>5 DEF PutRecord, Goto

\* The status is written once all is there; a node that is not up, or has just
\* come up, is looked at again.
LEMMA PollPodServed ==
  ASSUME Inv, FlagType, NEW n \in Nodes, uid[n] # 0, Served(n), PollPod(n)
  PROVE  Served(n)'
<1>1. UNCHANGED <<named, uid, record, api, cache, annotated>> /\ at[n].pc = "poll"
  BY DEF PollPod, objVars, dnsVars
<1>2. OwnThings(n)'
  BY <1>1, SameThings DEF Served
<1>3. CASE Requeue(n) /\ UNCHANGED running
  BY <1>1, <1>2, <1>3, RequeuedServed
<1>4. CASE /\ running' = [running EXCEPT ![n] = IsUp(n)]
           /\ Return(n, ~IsUp(n) \/ running' # running)
  <2>1. api[Sts(n)].there /\ api[Svc(n)].there /\ record[named[n].fqdn] # 0
    BY <1>1 DEF Served, Passed
  <2>2. Sts(n)' = Sts(n) /\ Svc(n)' = Svc(n) /\ named'[n].fqdn = named[n].fqdn
    BY <1>1, OwnKeys
  <2>3. at'[n] = Idle
    BY <1>4 DEF Return, Inv, AtType
  <2>4. ~queued'[n] => running'[n]
    <3>1. queued' = [queued EXCEPT ![n] = queued[n] \/ (~IsUp(n) \/ running' # running)]
      BY <1>4 DEF Return
    <3>2. queued'[n] = (queued[n] \/ (~IsUp(n) \/ running' # running))
      BY Zenon, <3>1 DEF FlagType
    <3>3. running'[n] = IsUp(n)
      BY Zenon, <1>4 DEF FlagType
    <3> QED
      BY Zenon, <3>2, <3>3
  <2>5. Passed(n)'
    BY <2>3 DEF Passed, Idle
  <2>6. Said(n)'
    BY <1>1, <2>1, <2>2, <2>4 DEF Said
  <2> QED
    BY <1>2, <2>5, <2>6 DEF Served
<1> QED
  BY <1>3, <1>4 DEF PollPod

LEMMA OwnWork ==
  ASSUME Inv, FlagType, UidKnown, NEW n \in Nodes, Blank(n), Served(n), Work(n)
  PROVE  Blank(n)' /\ Served(n)'
<1>1. Blank(n)'
  BY OwnBlank
<1>2. uid'[n] = uid[n]
  BY OwnFrame
<1>3. uid[n] = 0 => Served(n)'
  BY <1>2 DEF Served
<1>4. uid[n] # 0 => Served(n)'
  BY TakeServed, StatefulSetServed, ServiceServed, ReadServiceServed, GetRecordServed,
     PutRecordServed, PollPodServed DEF Work
<1> QED
  BY <1>1, <1>3, <1>4

-----------------------------------------------------------------------------
(* The node's CR, its garbage and the process.                               *)

\* The first CR of a node finds nothing.
LEMMA BornServed ==
  ASSUME Inv, FlagType, NEW n \in Nodes, FirstLife(n)', Blank(n), UserCreate(n)
  PROVE  Blank(n)' /\ Served(n)'
<1>1. UNCHANGED <<named, running, api, cache, annotated, at>>
  BY DEF UserCreate, objVars
<1>2. Sts(n)' = Sts(n) /\ Svc(n)' = Svc(n) /\ named'[n].fqdn = named[n].fqdn
  BY <1>1, OwnKeys
<1>3. ~Unborn(n)'
  BY NewUid DEF Unborn
<1>4. Unborn(n)
  <2> SUFFICES ASSUME NEW i \in Uids, created[i] = n PROVE FALSE
    BY DEF Unborn
  <2> QED
    BY NewUid DEF FirstLife, Uids
<1>5. /\ at[n].pc = "idle" /\ ~running[n]
      /\ \A t \in {Sts(n), Svc(n)} : ~api[t].there /\ ~cache[t].there
      /\ \A a \in Addresses : annotated[a] # named[n].fqdn
  BY <1>4 DEF Blank
<1>6. OwnThings(n)'
  BY <1>1, <1>2, <1>5 DEF OwnThings, Addresses
<1>7. Passed(n)'
  BY <1>1, <1>5 DEF Passed
<1>8. Said(n)'
  <2>1. queued'[n]
    BY Zenon DEF UserCreate, FlagType
  <2> QED
    BY <1>1, <1>5, <2>1 DEF Said
<1> QED
  BY <1>3, <1>6, <1>7, <1>8 DEF Blank, Served

\* A CR that is deleted was created.
LEMMA DeletedServed ==
  ASSUME Inv, UidKnown, NEW n \in Nodes, UserDelete(n)
  PROVE  Blank(n)' /\ Served(n)'
<1>1. uid'[n] = 0 /\ uid[n] # 0 /\ UNCHANGED created
  BY DEF UserDelete, Inv, UidType
<1>2. ~Unborn(n)'
  BY <1>1 DEF Unborn, UidKnown, Inv, UidType, Uids
<1> QED
  BY <1>1, <1>2 DEF Blank, Served

\* What belongs to the CR is no garbage.
LEMMA OwnGarbage ==
  ASSUME Inv, UidKnown, NEW n \in Nodes, Blank(n), Served(n),
         NEW t \in {Sts(n), Svc(n)}, GarbageCollect(t)
  PROVE  Blank(n)' /\ Served(n)'
<1>1. UNCHANGED <<uid, created>> /\ api[t].there /\ Orphan(api[t])
  BY DEF GarbageCollect, crVars
<1>2. uid[n] = 0
  BY <1>1 DEF Served, OwnThings, Orphan
<1>3. ~Unborn(n)'
  BY <1>1 DEF Unborn, Uids, Blank
<1> QED
  BY <1>1, <1>2, <1>3 DEF Blank, Served

\* A new process knows what is there, and looks at every CR.
LEMMA RestartServed ==
  ASSUME Inv, FlagType, UidKnown, NEW n \in Nodes, Blank(n), Served(n), Restart
  PROVE  Blank(n)' /\ Served(n)'
<1>1. UNCHANGED <<named, uid, created, running, api, annotated, record>> /\ cache' = api
  BY DEF Restart, crVars
<1>2. Sts(n)' = Sts(n) /\ Svc(n)' = Svc(n) /\ named'[n].fqdn = named[n].fqdn
  BY <1>1, OwnKeys
<1>3. at'[n] = Idle
  BY DEF Restart
<1>4. Blank(n)'
  BY <1>1, <1>2, <1>3 DEF Blank, Unborn, Uids, Addresses, Idle
<1>5. ASSUME uid[n] # 0 PROVE OwnThings(n)' /\ Passed(n)' /\ Said(n)'
  <2>1. OwnThings(n)'
    BY <1>1, <1>2, <1>5 DEF Served, OwnThings, Addresses
  <2>2. Passed(n)'
    BY <1>3 DEF Passed, Idle
  <2>3. queued'[n]
    BY Zenon, <1>5 DEF Restart
  <2>4. Said(n)'
    BY <1>1, <1>2, <1>5, <2>3 DEF Served, Said
  <2> QED
    BY <2>1, <2>2, <2>4
<1> QED
  BY <1>1, <1>4, <1>5 DEF Served

-----------------------------------------------------------------------------
LEMMA LifeInit == ASSUME Init PROVE Life
<1>1. UidKnown
  BY DEF Init, UidKnown
<1>2. ASSUME NEW n \in Nodes PROVE Blank(n) /\ Served(n)
  <2>1. Sts(n) \in Things /\ Svc(n) \in Things
    BY InitInv, Keys DEF Inv
  <2>2. Addresses = {}
    BY DEF Init, Addresses
  <2> QED
    BY <2>1, <2>2 DEF Init, Blank, Served, Absent, Idle
<1> QED
  BY <1>1, <1>2 DEF Life

\* Every step is one of the node, of its user, or around it.
LEMMA StepsOfNode ==
  ASSUME Inv, [Next]_vars, NEW n \in Nodes
  PROVE  \/ Work(n) \/ UserCreate(n) \/ UserDelete(n) \/ Restart
         \/ \E t \in {Sts(n), Svc(n)} : GarbageCollect(t)
         \/ \E k \in Nodes \ {n} : Work(k)
         \/ Around(n)
  BY DEF Next, Around

LEMMA LifeStep == ASSUME Inv, FlagType, Life, [Next]_vars PROVE Life'
<1>1. UidKnown'
  BY UidKnownStep DEF Life
<1>2. ASSUME NEW n \in Nodes, Single(n)', FirstLife(n)' PROVE Blank(n)' /\ Served(n)'
  <2>1. UNCHANGED named
    BY CreatedGrows
  <2>2. Single(n) /\ FirstLife(n)
    BY <1>2, <2>1, FirstLifeBefore DEF Single
  <2>3. UidKnown /\ Blank(n) /\ Served(n)
    BY <2>2 DEF Life
  <2>4. named[n].fqdn \in Fqdns
    BY Keys DEF Inv
  <2>5. record[named[n].fqdn] # 0 => record'[named[n].fqdn] # 0
    BY <2>4, RecordStays
  <2>6. ASSUME NEW k \in Nodes \ {n}, Work(k) PROVE Blank(n)' /\ Served(n)'
    <3>1. Unborn(n)' => Unborn(n)
      BY <2>2, <2>6, OtherWork DEF Unborn, Uids
    <3> QED
      BY <2>1, <2>2, <2>3, <2>5, <2>6, <3>1, OtherWork, Undisturbed
  <2>7. CASE Around(n)
    <3>1. SameAddresses(named[n].fqdn)
      BY <2>7, AroundFrame, SameAnnotated
    <3> QED
      BY <2>1, <2>3, <2>5, <2>7, <3>1, AroundFrame, Undisturbed
  <2> QED
    BY <1>2, <2>3, <2>6, <2>7, StepsOfNode, OwnWork, BornServed, DeletedServed, OwnGarbage,
       RestartServed
<1> QED
  BY <1>1, <1>2 DEF Life

LEMMA LifeHolds == Spec => []Life
<1>1. Spec => []FlagType
  BY FlagInit, FlagNext, PTL DEF Spec
<1> QED
  BY <1>1, LifeInit, LifeStep, InvHolds, PTL DEF Spec

\* Whichever nodes there are and however they interfere, whatever is lost, late
\* or stale: a node that shares no name and was created once, when it says
\* Running or nothing is going to look at it, is Running, has its own objects,
\* and its CommonName leads to its Service.
THEOREM FirstLifeServedHolds == Spec => []FirstLifeServed
<1>1. ASSUME Inv, Life PROVE FirstLifeServed
  <2> SUFFICES ASSUME NEW n \in Nodes, uid[n] # 0, Single(n), FirstLife(n),
                      running[n] \/ (at[n].pc = "idle" /\ ~queued[n])
               PROVE  Complete(n) /\ Resolves(named[n].fqdn)
    BY DEF FirstLifeServed
  <2>1. OwnThings(n) /\ Said(n)
    BY <1>1 DEF Life, Served
  <2>2. /\ running[n] /\ api[Sts(n)].there /\ api[Svc(n)].there
        /\ record[named[n].fqdn] # 0
    BY <2>1 DEF Said
  <2>3. Complete(n)
    BY <2>1, <2>2 DEF Complete, OwnThings
  <2>4. named[n].fqdn \in Fqdns
    BY <1>1, Keys DEF Inv
  <2>5. /\ record[named[n].fqdn] \in Addresses
        /\ annotated[record[named[n].fqdn]] = named[n].fqdn
    BY <1>1, <2>2, <2>4 DEF Inv, DNSType, AddressesMatch
  <2>6. record[named[n].fqdn] = api[Svc(n)].ip
    BY <2>1, <2>5 DEF OwnThings
  <2> QED
    BY <2>3, <2>6 DEF Resolves
<1> QED
  BY <1>1, InvHolds, LifeHolds, PTL

==============================================================================
