--------------------------- MODULE NamespaceProofs ---------------------------
(* What holds for any nodes, names and CommonNames, any number of CRs and    *)
(* faults, and any lag of the informers: the types, and that no address is   *)
(* published under a name that its Service was not given.                    *)
EXTENDS Namespace, SequenceTheorems, TLAPS

Workers == [pc : PCs, uid : Uids \cup {0}, ip : Addresses \cup {0}]

\* TypeOK but for the flags, which are proved by themselves, part by part.
NameType == named \in [Nodes -> [name : Names, fqdn : Fqdns]]
BoundType == crs \in [Nodes -> Nat] /\ faults \in Nat
UidType == created \in Seq(Nodes) /\ uid \in [Nodes -> Uids \cup {0}]
PodType == pods \in [Names -> Uids \cup {0}]
ThingsType == api \in [Things -> ThingType] /\ cache \in [Things -> ThingType]
AtType == /\ at \in [Nodes -> Workers]
          /\ \A n \in Nodes : at[n].pc \in {"get", "put"} => at[n].ip # 0

FlagType == running \in [Nodes -> BOOLEAN] /\ queued \in [Nodes -> BOOLEAN]

\* A Service that is there has an address, at the API server and in the cache.
Addressed == \A m \in Names :
    /\ api[<<m, "svc">>].there => api[<<m, "svc">>].ip # 0
    /\ cache[<<m, "svc">>].there => cache[<<m, "svc">>].ip # 0

\* A put still on its way is one of an address and its name.
LateMatch == \A p \in late : annotated[p.ip] = p.fqdn

\* The inductive invariant.
Inv == /\ NameType /\ BoundType /\ UidType /\ PodType /\ ThingsType /\ AtType
       /\ DNSType /\ Addressed /\ LateMatch /\ AddressesMatch

-----------------------------------------------------------------------------
\* A Service that is appended changes neither the names of those before nor
\* the kind of the list.
LEMMA Annotate ==
    ASSUME DNSType, NEW f \in Fqdns, annotated' = Append(annotated, f)
    PROVE  /\ annotated' \in Seq(Fqdns)
           /\ Len(annotated') = Len(annotated) + 1
           /\ \A i \in Addresses : i \in Addresses' /\ annotated'[i] = annotated[i]
  BY AppendProperties, LenProperties DEF DNSType, Addresses

\* The name a worker publishes is the one of a Service.
LEMMA ReadIsNamed ==
    ASSUME AtType, DNSType, NEW n \in Nodes, at[n].pc \in {"get", "put"}
    PROVE  at[n].ip \in Addresses /\ FqdnRead(n) \in Fqdns
<1>1. at[n].ip \in Addresses
  BY DEF AtType, Workers
<1>2. QED
  BY <1>1, ElementOfSeq DEF DNSType, Addresses, FqdnRead

\* Keys of a node's own objects.
LEMMA Keys ==
    ASSUME NameType, NEW n \in Nodes
    PROVE  /\ named[n].fqdn \in Fqdns /\ named[n].name \in Names
           /\ Sts(n) \in Things /\ Svc(n) \in Things
  BY DEF NameType, Things, Sts, Svc

-----------------------------------------------------------------------------
\* A worker that goes on, returns or is requeued stays a worker.
LEMMA WorkerMoves ==
    ASSUME AtType, NEW n \in Nodes, UNCHANGED <<created, annotated>>,
           NEW next \in PCs, NEW ip \in Addresses \cup {0},
           next \in {"get", "put"} => ip # 0,
           \/ at' = [at EXCEPT ![n].pc = next, ![n].ip = ip]
           \/ at' = [at EXCEPT ![n] = Idle]
    PROVE  AtType'
  BY DEF AtType, Workers, Idle, PCs, Uids, Addresses

\* What a step leaves as it is when it neither makes a Service nor touches DNS.
LEMMA SameDNS ==
    ASSUME Inv, UNCHANGED <<annotated, record, late>>
    PROVE  DNSType' /\ LateMatch' /\ AddressesMatch'
  BY DEF Inv, DNSType, LateMatch, AddressesMatch, Addresses

\* The same for the objects.
LEMMA SameObjects ==
    ASSUME Inv, UNCHANGED <<created, annotated, api, cache, pods>>
    PROVE  ThingsType' /\ PodType' /\ Addressed'
  BY DEF Inv, ThingsType, ThingType, PodType, Addressed, Uids, Addresses

\* The same for the CRs.
LEMMA SameCRs ==
    ASSUME Inv, UNCHANGED <<named, created, uid, crs>>,
           faults' = faults \/ Fault
    PROVE  NameType' /\ UidType' /\ BoundType'
  BY DEF Inv, NameType, UidType, BoundType, Uids, Fault

\* An object that is written, and that the cache may learn of.
LEMMA ObjectWritten ==
    ASSUME ThingsType, Addressed, NEW t \in Things, NEW o \in ThingType,
           o.there /\ t[2] = "svc" => o.ip # 0, Write(t, o),
           UNCHANGED <<created, annotated>>
    PROVE  ThingsType' /\ Addressed'
<1>1. api' \in [Things -> ThingType] /\ cache' \in [Things -> ThingType]
  BY DEF ThingsType, Write
<1>2. ThingType' = ThingType
  BY DEF ThingType, Uids, Addresses
<1>3. ASSUME NEW m \in Names PROVE Addressed!(m)'
  <2>1. <<m, "svc">> \in Things
    BY DEF Things
  <2>2. QED
    BY <2>1 DEF Addressed, Write, ThingsType
<1>4. QED
  BY <1>1, <1>2, <1>3 DEF ThingsType, Addressed

\* The set of objects grows with the addresses and uids.
LEMMA ThingsGrow ==
    ASSUME DNSType, UidType,
           Len(annotated') \in Nat, Len(annotated') >= Len(annotated),
           Len(created') \in Nat, Len(created') >= Len(created)
    PROVE  /\ Uids \subseteq Uids' /\ Addresses \subseteq Addresses'
           /\ ThingType \subseteq ThingType' /\ Workers \subseteq Workers'
<1>1. Len(annotated) \in Nat /\ Len(created) \in Nat
  BY LenProperties DEF DNSType, UidType
<1>2. Uids \subseteq Uids' /\ Addresses \subseteq Addresses'
  BY <1>1 DEF Uids, Addresses
<1>3. QED
  BY <1>2 DEF ThingType, Workers

-----------------------------------------------------------------------------
(* The steps, one by one.                                                    *)

LEMMA TakeInv == ASSUME Inv, NEW n \in Nodes, Take(n) PROVE Inv'
<1>1. AtType'
  BY DEF Inv, AtType, UidType, Workers, Take, PCs, Uids, Addresses, crVars, objVars
<1>2. QED
  BY <1>1, SameDNS, SameObjects, SameCRs DEF Inv, Take, crVars, objVars, dnsVars

\* Whatever a step of EnsureExists is given to go on with, its worker moves.
LEMMA StatefulSetInv == ASSUME Inv, NEW n \in Nodes, EnsureStatefulSet(n) PROVE Inv'
<1>1. NameType /\ AtType /\ ThingsType /\ Addressed
  BY DEF Inv
<1>2. UNCHANGED <<named, created, uid, running, crs, pods, annotated, record, late>>
  BY DEF EnsureStatefulSet, crVars, dnsVars
<1>3. faults' = faults \/ Fault
  BY DEF EnsureStatefulSet, EnsureExists
<1>4. \/ at' = [at EXCEPT ![n].pc = "svc", ![n].ip = 0]
      \/ at' = [at EXCEPT ![n] = Idle]
  BY DEF EnsureStatefulSet, EnsureExists, Requeue, Return, Goto, Continue
<1>5. AtType'
  BY <1>1, <1>2, <1>4, WorkerMoves, "svc" \in PCs, "svc" \notin {"get", "put"} DEF PCs
<1>6. Object(at[n].uid, 0) \in ThingType
  BY <1>1 DEF AtType, Workers, Object, ThingType
<1>7. Sts(n) \in Things /\ Sts(n)[2] # "svc"
  BY <1>1, Keys DEF Sts
<1>8. UNCHANGED <<api, cache>> \/ Write(Sts(n), Object(at[n].uid, 0))
  BY DEF EnsureStatefulSet, EnsureExists
<1>9. ThingsType' /\ Addressed'
  <2>1. CASE UNCHANGED <<api, cache>>
    BY <2>1, <1>2, SameObjects
  <2>2. CASE Write(Sts(n), Object(at[n].uid, 0))
    BY <2>2, <1>1, <1>2, <1>6, <1>7, ObjectWritten
  <2>3. QED
    BY <2>1, <2>2, <1>8
<1>10. PodType'
  BY <1>2 DEF Inv, PodType, Uids
<1>11. QED
  BY <1>2, <1>3, <1>5, <1>9, <1>10, SameDNS, SameCRs DEF Inv

LEMMA ServiceInv == ASSUME Inv, NEW n \in Nodes, EnsureService(n) PROVE Inv'
<1> DEFINE o == Object(at[n].uid, Len(annotated) + 1)
<1>1. NameType /\ UidType /\ AtType /\ ThingsType /\ Addressed /\ DNSType
      /\ LateMatch /\ AddressesMatch
  BY DEF Inv
<1>2. UNCHANGED <<named, created, uid, running, crs, pods, record, late>>
  BY DEF EnsureService, crVars, dnsVars
<1>3. faults' = faults \/ Fault
  BY DEF EnsureService, EnsureExists
<1>4. \/ at' = [at EXCEPT ![n].pc = "svcRead", ![n].ip = 0]
      \/ at' = [at EXCEPT ![n] = Idle]
  BY DEF EnsureService, EnsureExists, Requeue, Return, Goto, Continue
<1>5. Svc(n) \in Things /\ named[n].fqdn \in Fqdns
  BY <1>1, Keys
<1>6. PodType'
  BY <1>2 DEF Inv, PodType, Uids
<1>7. CASE UNCHANGED <<api, cache>>
  <2>1. UNCHANGED annotated
    BY <1>7 DEF EnsureService
  <2>2. AtType'
    BY <2>1, <1>1, <1>2, <1>4, WorkerMoves, "svcRead" \in PCs,
       "svcRead" \notin {"get", "put"} DEF PCs
  <2>3. QED
    BY <2>1, <2>2, <1>2, <1>3, <1>7, SameDNS, SameCRs, SameObjects DEF Inv
<1>8. CASE ~api[Svc(n)].there /\ Write(Svc(n), o)
  <2>1. Len(annotated) \in Nat /\ Len(created) \in Nat
    BY <1>1, LenProperties DEF DNSType, UidType
  <2>2. api'[Svc(n)] = o
    BY <1>1, <1>5, <1>8 DEF Write, ThingsType
  <2>3. annotated' = Append(annotated, named[n].fqdn)
    BY <2>2, <1>8 DEF EnsureService, Object
  <2>4. /\ annotated' \in Seq(Fqdns)
        /\ Len(annotated') = Len(annotated) + 1
        /\ \A i \in Addresses : i \in Addresses' /\ annotated'[i] = annotated[i]
    BY <2>3, <1>1, <1>5, Annotate
  <2>5. /\ Uids \subseteq Uids' /\ Addresses \subseteq Addresses'
        /\ ThingType \subseteq ThingType' /\ Workers \subseteq Workers'
    BY <2>1, <2>4, <1>1, <1>2, ThingsGrow
  <2>6. DNSType' /\ LateMatch' /\ AddressesMatch'
    BY <2>4, <2>5, <1>1, <1>2 DEF DNSType, LateMatch, AddressesMatch
  <2>7. AtType'
    <3>1. at' \in [Nodes -> Workers]
      BY <1>1, <1>4 DEF AtType, Workers, Idle, PCs
    <3>2. \A k \in Nodes : at'[k].pc \in {"get", "put"} => at'[k].ip # 0
      BY <1>1, <1>4 DEF AtType, Workers, Idle
    <3>3. QED
      BY <3>1, <3>2, <2>5 DEF AtType
  <2>8. at[n].uid \in Uids \cup {0} /\ Len(annotated) + 1 \in Addresses'
    BY <2>1, <2>4, <1>1 DEF AtType, Workers, Addresses
  <2>9. o \in ThingType' /\ o.ip # 0
    BY <2>1, <2>5, <2>8 DEF Object, ThingType
  <2>10. api' \in [Things -> ThingType'] /\ cache' \in [Things -> ThingType']
    BY <2>5, <2>9, <1>1, <1>8 DEF ThingsType, Write
  <2>11. ASSUME NEW m \in Names PROVE Addressed!(m)'
    <3>1. <<m, "svc">> \in Things
      BY DEF Things
    <3>2. QED
      BY <3>1, <2>9, <1>1, <1>8 DEF Addressed, Write, ThingsType
  <2>12. QED
    BY <2>6, <2>7, <2>10, <2>11, <1>2, <1>3, <1>6, SameCRs DEF Inv, ThingsType, Addressed
<1>9. QED
  BY <1>7, <1>8 DEF EnsureService, EnsureExists

LEMMA ReadServiceInv == ASSUME Inv, NEW n \in Nodes, ReadService(n) PROVE Inv'
<1>1. NameType /\ AtType /\ ThingsType /\ Addressed
  BY DEF Inv
<1>2. UNCHANGED <<named, created, uid, crs, api, cache, pods, annotated, record, late, faults>>
  BY DEF ReadService, crVars, objVars, dnsVars
<1>3. Svc(n) \in Things /\ Svc(n) = <<named[n].name, "svc">> /\ named[n].name \in Names
  BY <1>1, Keys DEF Svc
<1>4. CASE cache[Svc(n)].there
  <2>1. cache[Svc(n)].ip \in Addresses \cup {0} /\ cache[Svc(n)].ip # 0
    BY <1>1, <1>3, <1>4 DEF ThingsType, ThingType, Addressed
  <2>2. at' = [at EXCEPT ![n].pc = "get", ![n].ip = cache[Svc(n)].ip]
    BY <1>4 DEF ReadService, Continue
  <2>3. AtType'
    BY <2>1, <2>2, <1>1, <1>2, WorkerMoves, "get" \in PCs DEF PCs
  <2>4. QED
    BY <2>3, <1>2, SameDNS, SameCRs, SameObjects DEF Inv
<1>5. CASE ~cache[Svc(n)].there
  <2>1. at' = [at EXCEPT ![n] = Idle]
    BY <1>5 DEF ReadService, Requeue, Return
  <2>2. AtType'
    BY <2>1, <1>1, <1>2 DEF AtType, Workers, Idle, PCs, Uids, Addresses
  <2>3. QED
    BY <2>2, <1>2, SameDNS, SameCRs, SameObjects DEF Inv
<1>6. QED
  BY <1>4, <1>5

LEMMA GetRecordInv == ASSUME Inv, NEW n \in Nodes, GetRecord(n) PROVE Inv'
<1>1. AtType
  BY DEF Inv
<1>2. UNCHANGED <<named, created, uid, crs, api, cache, pods, annotated, record, late, faults>>
  BY DEF GetRecord, crVars, objVars, dnsVars
<1>3. at[n].pc = "get" /\ at[n].ip \in Addresses \cup {0} /\ at[n].ip # 0
  BY <1>1 DEF GetRecord, AtType, Workers
<1>4. \/ at' = [at EXCEPT ![n].pc = "poll", ![n].ip = 0]
      \/ at' = [at EXCEPT ![n].pc = "put", ![n].ip = at[n].ip]
  BY DEF GetRecord, Goto, Continue
<1>5. AtType'
  <2>1. CASE at' = [at EXCEPT ![n].pc = "poll", ![n].ip = 0]
    BY <2>1, <1>1, <1>2, WorkerMoves, "poll" \in PCs, "poll" \notin {"get", "put"} DEF PCs
  <2>2. CASE at' = [at EXCEPT ![n].pc = "put", ![n].ip = at[n].ip]
    BY <2>2, <1>1, <1>2, <1>3, WorkerMoves, "put" \in PCs DEF PCs
  <2>3. QED
    BY <2>1, <2>2, <1>4
<1>6. QED
  BY <1>2, <1>5, SameDNS, SameCRs, SameObjects DEF Inv

\* A record becomes the address that was read, under the name it carries; so
\* will a put that is given up on.
LEMMA PutRecordInv == ASSUME Inv, NEW n \in Nodes, PutRecord(n) PROVE Inv'
<1>1. AtType /\ DNSType /\ LateMatch /\ AddressesMatch
  BY DEF Inv
<1>2. UNCHANGED <<named, created, uid, crs, api, cache, pods, annotated>>
  BY DEF PutRecord, crVars, objVars
<1>3. faults' = faults \/ Fault
  BY DEF PutRecord
<1>4. at[n].ip \in Addresses /\ FqdnRead(n) \in Fqdns
  BY <1>1, ReadIsNamed DEF PutRecord
<1>5. AtType'
  <2>1. CASE at' = [at EXCEPT ![n].pc = "poll", ![n].ip = 0]
    BY <2>1, <1>1, <1>2, WorkerMoves, "poll" \in PCs, "poll" \notin {"get", "put"} DEF PCs
  <2>2. CASE at' = [at EXCEPT ![n] = Idle]
    BY <2>2, <1>1, <1>2 DEF AtType, Workers, Idle, PCs, Uids, Addresses
  <2>3. QED
    BY <2>1, <2>2 DEF PutRecord, Goto, Continue, Requeue, Return
<1>6. DNSType' /\ LateMatch' /\ AddressesMatch'
  <2>1. CASE record' = [record EXCEPT ![FqdnRead(n)] = at[n].ip] /\ late' = late
    BY <1>1, <1>2, <1>4, <2>1
    DEF DNSType, LateMatch, AddressesMatch, Addresses, FqdnRead
  <2>2. CASE record' = record /\ late' = late \cup {[fqdn |-> FqdnRead(n), ip |-> at[n].ip]}
    BY <1>1, <1>2, <1>4, <2>2
    DEF DNSType, LateMatch, AddressesMatch, Addresses, FqdnRead
  <2>3. QED
    BY <2>1, <2>2 DEF PutRecord
<1>7. QED
  BY <1>2, <1>3, <1>5, <1>6, SameCRs, SameObjects DEF Inv

LEMMA PollPodInv == ASSUME Inv, NEW n \in Nodes, PollPod(n) PROVE Inv'
<1>1. UNCHANGED <<named, created, uid, crs, api, cache, pods, annotated, record, late, faults>>
  BY DEF PollPod, objVars, dnsVars
<1>2. at' = [at EXCEPT ![n] = Idle]
  BY DEF PollPod, Return, Requeue
<1>3. AtType'
  BY <1>1, <1>2 DEF Inv, AtType, Workers, Idle, PCs, Uids, Addresses
<1>4. QED
  BY <1>1, <1>3, SameDNS, SameCRs, SameObjects DEF Inv

LEMMA CacheThingInv == ASSUME Inv, NEW t \in Things, CacheThing(t) PROVE Inv'
<1>1. UNCHANGED <<named, created, uid, crs, api, pods, annotated, record, late, faults, at>>
  BY DEF CacheThing, crVars, dnsVars
<1>2. ThingsType' /\ Addressed'
  <2>1. ThingsType'
    BY <1>1 DEF Inv, ThingsType, ThingType, CacheThing, Uids, Addresses
  <2>2. ASSUME NEW m \in Names PROVE Addressed!(m)'
    <3>1. <<m, "svc">> \in Things
      BY DEF Things
    <3>2. QED
      BY <3>1, <1>1 DEF Inv, Addressed, CacheThing, ThingsType
  <2>3. QED
    BY <2>1, <2>2 DEF Addressed
<1>3. AtType' /\ PodType'
  BY <1>1 DEF Inv, AtType, PodType, Workers, Uids, Addresses
<1>4. QED
  BY <1>1, <1>2, <1>3, SameDNS, SameCRs DEF Inv

LEMMA LatePutInv == ASSUME Inv, LatePut PROVE Inv'
<1>1. UNCHANGED <<named, created, uid, crs, api, cache, pods, annotated, faults, at>>
  BY DEF LatePut, crVars, objVars
<1>2. DNSType /\ LateMatch /\ AddressesMatch
  BY DEF Inv
<1>3. PICK p \in late : /\ record' \in {record, [record EXCEPT ![p.fqdn] = p.ip]}
                        /\ late' = late \ {p}
  BY DEF LatePut
<1>4. p.fqdn \in Fqdns /\ p.ip \in Addresses /\ annotated[p.ip] = p.fqdn
  BY <1>2 DEF DNSType, LateMatch
<1>5. DNSType' /\ LateMatch'
  BY <1>1, <1>2, <1>3, <1>4 DEF DNSType, LateMatch, Addresses
<1>6. AddressesMatch'
  BY <1>1, <1>2, <1>3, <1>4 DEF DNSType, AddressesMatch
<1>7. AtType'
  BY <1>1 DEF Inv, AtType, Workers, Uids, Addresses
<1>8. QED
  BY <1>1, <1>5, <1>6, <1>7, SameCRs, SameObjects DEF Inv

LEMMA RestartInv == ASSUME Inv, Restart PROVE Inv'
<1>1. UNCHANGED <<named, created, uid, crs, api, pods, annotated, record>>
  BY DEF Restart, crVars
<1>2. AtType /\ DNSType /\ LateMatch /\ AddressesMatch
  BY DEF Inv
<1>3. AtType'
  BY <1>1 DEF Restart, AtType, Workers, Idle, PCs
<1>4. ThingsType' /\ Addressed' /\ PodType'
  BY <1>1 DEF Inv, Restart, ThingsType, ThingType, Addressed, PodType, Uids, Addresses
<1>5. ASSUME NEW n \in {k \in Nodes : at[k].pc = "put"}
      PROVE  at[n].ip \in Addresses /\ FqdnRead(n) \in Fqdns
  BY <1>2, ReadIsNamed
<1>6. DNSType' /\ LateMatch' /\ AddressesMatch'
  BY <1>1, <1>2, <1>5 DEF Restart, DNSType, LateMatch, AddressesMatch, Addresses, FqdnRead
<1>7. QED
  BY <1>1, <1>3, <1>4, <1>6, SameCRs DEF Inv, Restart

\* A new CR is a new uid.
LEMMA CreateInv == ASSUME Inv, NEW n \in Nodes, UserCreate(n) PROVE Inv'
<1>1. UNCHANGED <<named, api, cache, pods, annotated, record, late, faults, at>>
  BY DEF UserCreate, objVars, dnsVars
<1>2. UidType /\ DNSType /\ ThingsType /\ AtType /\ PodType
  BY DEF Inv
<1>3. created' \in Seq(Nodes) /\ Len(created') = Len(created) + 1 /\ Len(created) \in Nat
  BY <1>2, AppendProperties, LenProperties DEF UserCreate, UidType
<1>4. Len(annotated) \in Nat
  BY <1>2, LenProperties DEF DNSType
<1>5. /\ Uids \subseteq Uids' /\ Addresses \subseteq Addresses'
      /\ ThingType \subseteq ThingType' /\ Workers \subseteq Workers'
  BY <1>1, <1>2, <1>3, <1>4, ThingsGrow
<1>6. UidType'
  BY <1>2, <1>3, <1>5 DEF UserCreate, UidType, Uids
<1>7. ThingsType' /\ AtType' /\ PodType' /\ Addressed'
  BY <1>1, <1>2, <1>5 DEF Inv, ThingsType, AtType, PodType, Addressed
<1>8. NameType' /\ BoundType'
  BY <1>1 DEF Inv, NameType, BoundType, UserCreate
<1>9. QED
  BY <1>1, <1>6, <1>7, <1>8, SameDNS DEF Inv

LEMMA DeleteInv == ASSUME Inv, NEW n \in Nodes, UserDelete(n) PROVE Inv'
<1>1. UNCHANGED <<named, created, crs, api, cache, pods, annotated, record, late, faults, at>>
  BY DEF UserDelete, objVars, dnsVars
<1>2. UidType' /\ NameType' /\ BoundType'
  BY <1>1 DEF Inv, UidType, NameType, BoundType, UserDelete, Uids
<1>3. AtType'
  BY <1>1 DEF Inv, AtType, Workers, Uids, Addresses
<1>4. QED
  BY <1>1, <1>2, <1>3, SameDNS, SameObjects DEF Inv

LEMMA CollectInv == ASSUME Inv, NEW t \in Things, GarbageCollect(t) PROVE Inv'
<1>1. UNCHANGED <<named, created, uid, crs, pods, annotated, record, late, faults, at>>
  BY DEF GarbageCollect, crVars, dnsVars
<1>2. Absent \in ThingType /\ ~Absent.there
  BY DEF Absent, ThingType
<1>3. ThingsType' /\ Addressed'
  BY <1>1, <1>2, ObjectWritten DEF Inv, GarbageCollect
<1>4. AtType' /\ PodType'
  BY <1>1 DEF Inv, AtType, PodType, Workers, Uids, Addresses
<1>5. QED
  BY <1>1, <1>3, <1>4, SameDNS, SameCRs DEF Inv

LEMMA MovePodInv == ASSUME Inv, NEW m \in Names, MovePod(m) PROVE Inv'
<1>1. UNCHANGED <<named, created, uid, crs, api, cache, annotated, record, late, faults, at>>
  BY DEF MovePod, crVars, dnsVars
<1>2. <<m, "sts">> \in Things
  BY DEF Things
<1>3. api[<<m, "sts">>].owner \in Uids \cup {0}
  BY <1>2 DEF Inv, ThingsType, ThingType
<1>4. PodType'
  BY <1>1, <1>3 DEF Inv, PodType, MovePod, Uids
<1>5. AtType' /\ ThingsType' /\ Addressed'
  BY <1>1 DEF Inv, AtType, ThingsType, ThingType, Addressed, Workers, Uids, Addresses
<1>6. QED
  BY <1>1, <1>4, <1>5, SameDNS, SameCRs DEF Inv

LEMMA IdleInv == ASSUME Inv, UNCHANGED <<named, crVars, objVars, dnsVars, at, faults>> PROVE Inv'
<1>1. AtType'
  BY DEF Inv, AtType, Workers, Uids, Addresses, crVars, objVars
<1>2. QED
  BY <1>1, SameDNS, SameCRs, SameObjects DEF Inv, crVars, objVars, dnsVars

-----------------------------------------------------------------------------
LEMMA InitInv == ASSUME Init PROVE Inv
<1>1. NameType /\ BoundType
  BY CasesAssumption DEF Init, NameType, BoundType
<1>2. UidType /\ PodType /\ DNSType
  BY EmptySeq DEF Init, UidType, PodType, DNSType
<1>3. ThingsType /\ Addressed
  <2>1. Absent \in ThingType /\ ~Absent.there
    BY DEF Absent, ThingType
  <2>2. \A m \in Names : <<m, "svc">> \in Things
    BY DEF Things
  <2>3. QED
    BY <2>1, <2>2 DEF Init, ThingsType, Addressed
<1>4. AtType
  BY DEF Init, AtType, Workers, Idle, PCs
<1>5. LateMatch /\ AddressesMatch
  BY DEF Init, LateMatch, AddressesMatch
<1>6. QED
  BY <1>1, <1>2, <1>3, <1>4, <1>5 DEF Inv

LEMMA NextInv == ASSUME Inv, [Next]_vars PROVE Inv'
<1>1. ASSUME NEW n \in Nodes, Work(n) PROVE Inv'
  BY <1>1, TakeInv, StatefulSetInv, ServiceInv, ReadServiceInv, GetRecordInv,
     PutRecordInv, PollPodInv DEF Work
<1>2. ASSUME NEW n \in Nodes, Resync(n) PROVE Inv'
  BY <1>2, IdleInv DEF Resync
<1>3. CASE UNCHANGED vars
  BY <1>3, IdleInv DEF vars, crVars, objVars, dnsVars
<1>4. QED
  BY <1>1, <1>2, <1>3, CreateInv, DeleteInv, CacheThingInv, CollectInv,
     MovePodInv, LatePutInv, RestartInv DEF Next

LEMMA InvHolds == Spec => []Inv
  BY InitInv, NextInv, PTL DEF Spec

\* The flags stay flags.
LEMMA FlagInit == ASSUME Init PROVE FlagType
<1>1. running = [n \in Nodes |-> FALSE] /\ queued = running
  BY DEF Init
<1>2. [n \in Nodes |-> FALSE] \in [Nodes -> BOOLEAN]
  OBVIOUS
<1>3. QED
  BY <1>1, <1>2 DEF FlagType

LEMMA FlagUpdate ==
    ASSUME NEW f, f \in [Nodes -> BOOLEAN], NEW n, NEW b \in BOOLEAN
    PROVE  [f EXCEPT ![n] = b] \in [Nodes -> BOOLEAN]
  BY Zenon

\* A worker that returns, or goes on, leaves a flag.
LEMMA QueueUpdate ==
    ASSUME FlagType, NEW n,
           \/ UNCHANGED queued
           \/ \E again : queued' = [queued EXCEPT ![n] = @ \/ again]
    PROVE  queued' \in [Nodes -> BOOLEAN]
<1>1. CASE UNCHANGED queued
  BY <1>1 DEF FlagType
<1>2. ASSUME NEW again, queued' = [queued EXCEPT ![n] = queued[n] \/ again]
      PROVE  queued' \in [Nodes -> BOOLEAN]
  <2>1. (queued[n] \/ again) \in BOOLEAN
    BY Zenon
  <2>2. QED
    BY <1>2, <2>1, FlagUpdate DEF FlagType
<1>3. QED
  BY <1>1, <1>2

LEMMA FlagNext == ASSUME FlagType, [Next]_vars PROVE FlagType'
<1>1. ASSUME NEW n \in Nodes, Work(n) PROVE FlagType'
  <2>1. CASE Take(n)
    BY <2>1, FlagUpdate DEF Take, FlagType, crVars
  <2>2. CASE PollPod(n)
    <3>1. queued' \in [Nodes -> BOOLEAN]
      BY <2>2, QueueUpdate DEF PollPod, Requeue, Return
    <3>2. running' \in [Nodes -> BOOLEAN]
      <4>1. CASE running' = [running EXCEPT ![n] = IsUp(n)]
        <5>1. IsUp(n) \in BOOLEAN
          BY DEF IsUp
        <5>2. QED
          BY <4>1, <5>1, FlagUpdate DEF FlagType
      <4>2. CASE UNCHANGED running
        BY <4>2 DEF FlagType
      <4>3. QED
        BY <4>1, <4>2, <2>2 DEF PollPod
    <3>3. QED
      BY <3>1, <3>2 DEF FlagType
  <2>3. CASE \/ EnsureStatefulSet(n) \/ EnsureService(n) \/ ReadService(n)
             \/ GetRecord(n) \/ PutRecord(n)
    <3>1. UNCHANGED running
      BY <2>3 DEF EnsureStatefulSet, EnsureService, ReadService, GetRecord, PutRecord, crVars
    <3>2. queued' \in [Nodes -> BOOLEAN]
      BY <2>3, QueueUpdate DEF EnsureStatefulSet, EnsureService, EnsureExists, ReadService,
         GetRecord, PutRecord, Goto, Continue, Requeue, Return
    <3>3. QED
      BY <3>1, <3>2 DEF FlagType
  <2>4. QED
    BY <1>1, <2>1, <2>2, <2>3 DEF Work
<1>2. ASSUME NEW n \in Nodes, Resync(n) \/ UserDelete(n) \/ UserCreate(n) PROVE FlagType'
  BY <1>2, FlagUpdate DEF FlagType, Resync, UserDelete, UserCreate, crVars
<1>3. CASE Restart
  <2>1. [n \in Nodes |-> uid[n] # 0] \in [Nodes -> BOOLEAN]
    BY Zenon
  <2>2. QED
    BY <1>3, <2>1 DEF FlagType, Restart, crVars
<1>4. CASE LatePut \/ (\E m \in Names : MovePod(m)) \/ UNCHANGED vars
           \/ (\E t \in Things : CacheThing(t) \/ GarbageCollect(t))
  BY <1>4 DEF FlagType, LatePut, MovePod, CacheThing, GarbageCollect, vars, crVars
<1>5. QED
  BY <1>1, <1>2, <1>3, <1>4 DEF Next

\* For any names, numbers of CRs and faults the variables keep their types, and
\* no part of the system refers to a uid or an address that was not handed out.
THEOREM NamespaceTypes == Spec => []TypeOK
<1>1. Inv /\ FlagType => TypeOK
  BY DEF Inv, FlagType, NameType, BoundType, UidType, PodType, ThingsType, AtType, Workers,
         TypeOK, CRType, ObjType, WorkerType
<1>2. Spec => []FlagType
  BY FlagInit, FlagNext, PTL DEF Spec
<1>3. QED
  BY <1>1, <1>2, InvHolds, PTL

\* No address is ever published under a name that its Service was not given.
THEOREM AddressesCorrect == Spec => []AddressesMatch
<1>1. Inv => AddressesMatch
  BY DEF Inv
<1>2. QED
  BY <1>1, InvHolds, PTL
=============================================================================
