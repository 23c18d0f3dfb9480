------------------------------ MODULE Namespace ------------------------------
(* What nodes share: the names of their objects, the DNS records in etcd and *)
(* the garbage collector.  A CR may be deleted and created again, by which   *)
(* it gets another uid; the objects of the CR before are still there then.   *)
(*                                                                           *)
(* Each CR has a worker of its own, as one of each of the two controllers    *)
(* has.  CRs of one controller take turns, which is a special case.          *)
(*                                                                           *)
(* An object is told by the uid of its owner and, a Service, by its address. *)
(* Contents and their updates, the phases of a pod, reads of an old CR and   *)
(* errors of the API server are NodeReconciler's concern: here are the       *)
(* StatefulSet, for all objects that are created and then found by their     *)
(* names, the Service, and CheckDNS call by call.                            *)
EXTENDS Naturals, Sequences

CONSTANTS
    Nodes,      \* the CRs
    Names,      \* names of CRs
    Fqdns,      \* CommonNames
    Cases,      \* how the nodes are named and, as bounds, how often a CR of each
                \* is created and how many restarts, timeouts and lost replies occur
    Lagging     \* bound: the objects whose informer may lag

ASSUME CasesAssumption ==
    Cases \subseteq [named : [Nodes -> [name : Names, fqdn : Fqdns]],
                    crs : [Nodes -> Nat], faults : Nat]

Things == Names \X {"sts", "svc"}

ASSUME LaggingAssumption == Lagging \subseteq Things

VARIABLES
    named,      \* how the nodes are named
    created,    \* the nodes of the CRs created so far: a uid is a place in it
    uid,        \* the uid of the node's CR, 0 if there is none
    running,    \* the CR's Status.State is Running
    api,        \* the objects at the API server
    cache,      \* the objects in the informer cache
    pods,       \* the owner of pod <name>-0, 0 if there is none
    annotated,  \* the fqdn of the Service that was given an address
    record,     \* the address published in etcd, 0 for none
    late,       \* puts that were given up on, and may still take effect
    at,         \* each worker: where it stands, the uid and the Service it read
    queued,     \* the CR's key is in the work queue, now or after a delay
    crs,        \* bound: how many CRs of a node are still to be created
    faults      \* bound: how many faults are still to occur

crVars == <<created, uid, running, crs>>
objVars == <<api, cache, pods, annotated>>
dnsVars == <<record, late>>
vars == <<named, created, uid, running, api, cache, pods, annotated, record, late,
          at, queued, crs, faults>>

Sts(n) == <<named[n].name, "sts">>
Svc(n) == <<named[n].name, "svc">>

Object(owner, ip) == [there |-> TRUE, owner |-> owner, ip |-> ip]
Absent == [there |-> FALSE, owner |-> 0, ip |-> 0]

PCs == {"idle", "sts", "svc", "svcRead", "get", "put", "poll"}

Idle == [pc |-> "idle", uid |-> 0, ip |-> 0]

Init ==
    /\ \E c \in Cases : named = c.named /\ crs = c.crs /\ faults = c.faults
    /\ created = <<>> /\ uid = [n \in Nodes |-> 0]
    /\ running = [n \in Nodes |-> FALSE]
    /\ api = [t \in Things |-> Absent] /\ cache = api
    /\ pods = [m \in Names |-> 0]
    /\ annotated = <<>>
    /\ record = [f \in Fqdns |-> 0] /\ late = {}
    /\ at = [n \in Nodes |-> Idle]
    /\ queued = running

-----------------------------------------------------------------------------
(* One reconcile of each node, call by call.                                 *)

Continue(n, next, ip) ==
    /\ at' = [at EXCEPT ![n].pc = next, ![n].ip = ip]
    /\ UNCHANGED queued

Goto(n, next) == Continue(n, next, 0)

\* return ctrl.Result{...}, err
Return(n, again) ==
    /\ at' = [at EXCEPT ![n] = Idle]
    /\ queued' = [queued EXCEPT ![n] = @ \/ again]

Requeue(n) == Return(n, TRUE)

Fault == faults > 0 /\ faults' = faults - 1

\* t becomes o, in the cache at once if its informer never lags.
Write(t, o) ==
    /\ api' = [api EXCEPT ![t] = o]
    /\ cache' = IF t \in Lagging THEN cache ELSE [cache EXCEPT ![t] = o]

\* The work queue hands out the key; a CR that is gone is left alone.
Take(n) ==
    /\ at[n].pc = "idle" /\ queued[n]
    /\ queued' = [queued EXCEPT ![n] = FALSE]
    /\ at' = IF uid[n] = 0 THEN at
             ELSE [at EXCEPT ![n] = [pc |-> "sts", uid |-> uid[n], ip |-> 0]]
    /\ UNCHANGED <<named, crVars, objVars, dnsVars, faults>>

\* t is created unless the cache has it, whoever owns it; an error when only
\* the cache lacks it.
EnsureExists(n, t, new, GoOn) ==
    \/ /\ cache[t].there
       /\ GoOn
       /\ UNCHANGED <<api, cache, faults>>
    \/ /\ ~cache[t].there /\ api[t].there
       /\ Requeue(n)
       /\ UNCHANGED <<api, cache, faults>>
    \/ /\ ~cache[t].there /\ ~api[t].there
       /\ Write(t, new)
       /\ \/ GoOn /\ UNCHANGED faults
          \/ Requeue(n) /\ Fault

\* A StatefulSet that is created ends the reconcile with an error.
EnsureStatefulSet(n) ==
    /\ at[n].pc = "sts"
    /\ EnsureExists(n, Sts(n), Object(at[n].uid, 0),
           IF cache[Sts(n)].there THEN Goto(n, "svc") ELSE Requeue(n))
    /\ UNCHANGED <<named, crVars, pods, annotated, dnsVars>>

\* A new Service is given an address no Service had before.
EnsureService(n) ==
    /\ at[n].pc = "svc"
    /\ EnsureExists(n, Svc(n), Object(at[n].uid, Len(annotated) + 1), Goto(n, "svcRead"))
    /\ annotated' = IF api' = api THEN annotated ELSE Append(annotated, named[n].fqdn)
    /\ UNCHANGED <<named, crVars, pods, dnsVars>>

\* Mutant of ReadService: the error of the second read is not looked at.
ReadServiceUnchecked(n) ==
    /\ at[n].pc = "svcRead"
    /\ Continue(n, "get", cache[Svc(n)].ip)
    /\ UNCHANGED <<named, crVars, objVars, dnsVars, faults>>

\* The Service is read again, from the cache: a new one may not be there yet.
ReadService(n) ==
    LET s == cache[Svc(n)] IN
    /\ at[n].pc = "svcRead"
    /\ IF s.there THEN Continue(n, "get", s.ip) ELSE Requeue(n)
    /\ UNCHANGED <<named, crVars, objVars, dnsVars, faults>>

\* Mutant of FqdnRead: the name the CR asks for goes with the Service that is there.
FqdnAskedFor(n) == named[n].fqdn

\* The name that is published is the annotation of the Service that was read.
FqdnRead(n) == annotated[at[n].ip]

\* Mutant of GetRecord: a record that is there is left as it is.
GetRecordOnce(n) ==
    /\ at[n].pc = "get"
    /\ IF record[FqdnRead(n)] # 0 THEN Goto(n, "poll") ELSE Continue(n, "put", at[n].ip)
    /\ UNCHANGED <<named, crVars, objVars, dnsVars, faults>>

\* resp, err := cli.Get(ctx, fqdn)
GetRecord(n) ==
    /\ at[n].pc = "get"
    /\ IF record[FqdnRead(n)] = at[n].ip THEN Goto(n, "poll")
                                          ELSE Continue(n, "put", at[n].ip)
    /\ UNCHANGED <<named, crVars, objVars, dnsVars, faults>>

\* Mutant of PutRecord: an error of the put is logged and not returned.
PutRecordIgnoringErrors(n) ==
    /\ at[n].pc = "put"
    /\ \/ /\ record' = [record EXCEPT ![FqdnRead(n)] = at[n].ip]
          /\ UNCHANGED <<late, faults>>
       \/ /\ late' = late \cup {[fqdn |-> FqdnRead(n), ip |-> at[n].ip]}
          /\ Fault
          /\ UNCHANGED record
    /\ Goto(n, "poll")
    /\ UNCHANGED <<named, crVars, objVars>>

\* _, err = cli.Put(ctx, key, ...), which may time out with or without effect,
\* or take effect later.
PutRecord(n) ==
    /\ at[n].pc = "put"
    /\ \/ /\ record' = [record EXCEPT ![FqdnRead(n)] = at[n].ip]
          /\ Goto(n, "poll")
          /\ UNCHANGED <<late, faults>>
       \/ /\ late' = late \cup {[fqdn |-> FqdnRead(n), ip |-> at[n].ip]}
          /\ Requeue(n) /\ Fault
          /\ UNCHANGED record
    /\ UNCHANGED <<named, crVars, objVars>>

\* The pod is found by its name, and the node's container in it by that name:
\* "peer" in the pod of a peer.
IsUp(n) ==
    LET owner == pods[named[n].name] IN owner # 0 /\ created[owner] = n

\* The pod is read and the status written, if the CR is still the one that was
\* read; a status that changes is an event of the CR.
PollPod(n) ==
    /\ at[n].pc = "poll"
    /\ IF pods[named[n].name] # 0 /\ uid[n] = at[n].uid
       THEN /\ running' = [running EXCEPT ![n] = IsUp(n)]
            /\ Return(n, ~IsUp(n) \/ running' # running)
       ELSE Requeue(n) /\ UNCHANGED running
    /\ UNCHANGED <<named, created, uid, crs, objVars, dnsVars, faults>>

Work(n) ==
    \/ Take(n) \/ EnsureStatefulSet(n) \/ EnsureService(n) \/ ReadService(n)
    \/ GetRecord(n) \/ PutRecord(n) \/ PollPod(n)

-----------------------------------------------------------------------------
(* The work queue, the informers, etcd and the operator process.             *)

Resync(n) ==
    /\ uid[n] # 0 /\ ~queued[n]
    /\ queued' = [queued EXCEPT ![n] = TRUE]
    /\ UNCHANGED <<named, crVars, objVars, dnsVars, at, faults>>

CacheThing(t) ==
    /\ cache[t] # api[t]
    /\ cache' = [cache EXCEPT ![t] = api[t]]
    /\ UNCHANGED <<named, crVars, api, pods, annotated, dnsVars, at, queued, faults>>

\* A put that was given up on takes effect, or never will.
LatePut ==
    /\ \E p \in late : /\ record' \in {record, [record EXCEPT ![p.fqdn] = p.ip]}
                       /\ late' = late \ {p}
    /\ UNCHANGED <<named, crVars, objVars, at, queued, faults>>

\* The process is killed, or it lost its lease: the next one lists everything,
\* while a put of the one before may still be on its way.
Restart ==
    /\ Fault
    /\ at' = [n \in Nodes |-> Idle]
    /\ cache' = api
    /\ queued' = [n \in Nodes |-> uid[n] # 0]
    /\ late' = late \cup {[fqdn |-> FqdnRead(n), ip |-> at[n].ip] :
                            n \in {k \in Nodes : at[k].pc = "put"}}
    /\ UNCHANGED <<named, crVars, api, pods, annotated, record>>

-----------------------------------------------------------------------------
(* The user and the cluster.                                                 *)

UserCreate(n) ==
    /\ uid[n] = 0 /\ crs[n] > 0
    /\ crs' = [crs EXCEPT ![n] = @ - 1]
    /\ created' = Append(created, n)
    /\ uid' = [uid EXCEPT ![n] = Len(created')]
    /\ queued' = [queued EXCEPT ![n] = TRUE]
    /\ UNCHANGED <<named, running, objVars, dnsVars, at, faults>>

UserDelete(n) ==
    /\ uid[n] # 0
    /\ uid' = [uid EXCEPT ![n] = 0]
    /\ running' = [running EXCEPT ![n] = FALSE]
    /\ queued' = [queued EXCEPT ![n] = TRUE]
    /\ UNCHANGED <<named, created, crs, objVars, dnsVars, at, faults>>

\* The CR the object belongs to is gone.
Orphan(o) == \A n \in Nodes : uid[n] # o.owner

GarbageCollect(t) ==
    /\ api[t].there /\ Orphan(api[t])
    /\ Write(t, Absent)
    /\ UNCHANGED <<named, crVars, pods, annotated, dnsVars, at, queued, faults>>

\* The pod is made for a StatefulSet, and goes with it.
MovePod(m) ==
    LET owner == api[<<m, "sts">>].owner IN
    /\ pods[m] # owner
    /\ pods' = [pods EXCEPT ![m] = IF @ = 0 THEN owner ELSE 0]
    /\ UNCHANGED <<named, crVars, api, cache, annotated, dnsVars, at, queued, faults>>

-----------------------------------------------------------------------------
Next ==
    \/ \E n \in Nodes : \/ Work(n) \/ Resync(n) \/ UserDelete(n) \/ UserCreate(n)
    \/ \E t \in Things : CacheThing(t) \/ GarbageCollect(t)
    \/ \E m \in Names : MovePod(m)
    \/ LatePut \/ Restart

Spec == Init /\ [][Next]_vars

\* The workers run, watches deliver, the cluster's controllers work, and no
\* request stays on its way for ever.
Fairness ==
    /\ \A n \in Nodes : WF_vars(Work(n))
    /\ \A t \in Things : WF_vars(CacheThing(t)) /\ WF_vars(GarbageCollect(t))
    /\ \A m \in Names : WF_vars(MovePod(m))
    /\ WF_vars(LatePut)

\* The informers resync now and then (every ten hours or so).
ResyncFairness == \A n \in Nodes : WF_vars(Resync(n))

HealingSpec == Spec /\ Fairness /\ ResyncFairness

-----------------------------------------------------------------------------
(* Properties.                                                               *)

Addresses == 1 .. Len(annotated)
Uids == 1 .. Len(created)

ThingType == [there : BOOLEAN, owner : Uids \cup {0}, ip : Addresses \cup {0}]

CRType == /\ named \in [Nodes -> [name : Names, fqdn : Fqdns]]
          /\ created \in Seq(Nodes)
          /\ uid \in [Nodes -> Uids \cup {0}]
          /\ running \in [Nodes -> BOOLEAN] /\ crs \in [Nodes -> Nat] /\ faults \in Nat
ObjType == /\ api \in [Things -> ThingType] /\ cache \in [Things -> ThingType]
           /\ pods \in [Names -> Uids \cup {0}]
DNSType == /\ annotated \in Seq(Fqdns)
           /\ record \in [Fqdns -> Addresses \cup {0}]
           /\ late \subseteq [fqdn : Fqdns, ip : Addresses]
WorkerType == /\ at \in [Nodes -> [pc : PCs, uid : Uids \cup {0}, ip : Addresses \cup {0}]]
              /\ \A n \in Nodes : at[n].pc \in {"get", "put"} => at[n].ip # 0
              /\ queued \in [Nodes -> BOOLEAN]

\* The types of the variables; above all every uid and address any part of the
\* system still refers to was handed out before.
TypeOK == CRType /\ ObjType /\ DNSType /\ WorkerType

\* No address is ever published under a name that its Service was not given,
\* however old the Service that was read and the put that took effect, and
\* whichever nodes share a name or a CommonName.
AddressesMatch ==
    \A f \in Fqdns : record[f] # 0 => annotated[record[f]] = f

Own(n) == \A k \in Nodes \ {n} : uid[k] # 0 => named[k].name # named[n].name

Complete(n) == /\ \A t \in {Sts(n), Svc(n)} : api[t].there /\ api[t].owner = uid[n]
               /\ running[n]

\* The record of f is the address of a Service of a node that is called f.
Resolves(f) ==
    \E n \in Nodes : uid[n] # 0 /\ named[n].fqdn = f /\ record[f] = api[Svc(n)].ip

\* No other CR ever has the node's name or CommonName.
Single(n) ==
    \A k \in Nodes \ {n} : /\ named[k].name # named[n].name
                           /\ named[k].fqdn # named[n].fqdn

\* The node was not created twice.
FirstLife(n) == \A i, j \in Uids : created[i] = n /\ created[j] = n => i = j

\* A node that shares nothing and was never deleted is served: whenever it says
\* Running, and whenever nothing is going to look at it again, it is Running,
\* its objects are its own and its CommonName leads to its Service, through any
\* restarts, lost replies, late puts and stale reads.
FirstLifeServed ==
    \A n \in Nodes :
        /\ uid[n] # 0 /\ Single(n) /\ FirstLife(n)
        /\ running[n] \/ (at[n].pc = "idle" /\ ~queued[n])
        => Complete(n) /\ Resolves(named[n].fqdn)

\* Whatever was deleted, created again, published late or by another node: as
\* long as informers resync, a node with a name of its own ends up with objects
\* of its own, says so, and its CommonName resolves.
Heals ==
    \A n \in Nodes :
        <>[](uid[n] # 0 /\ Own(n) => Complete(n) /\ Resolves(named[n].fqdn))

\* Nothing is under way.
Quiet == \A n \in Nodes : at[n] = Idle /\ ~queued[n]

\* "FabricPeerStatus defines the observed state of FabricPeer": a node that says
\* Running, while nothing is under way, has its objects.
RunningExists ==
    Quiet => \A n \in Nodes : running[n] => api[Sts(n)].there /\ api[Svc(n)].there
=============================================================================
