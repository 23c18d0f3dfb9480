# A verification project for hyperledger-fabric-operator

The operator keeps Hyperledger Fabric nodes running on Kubernetes. A user
creates a `FabricPeer` or `FabricOrderer` custom resource (CR); a controller
reads it and creates, and later updates, the objects of the node. This directory
holds TLA+ models of the operator's behaviour, TLC configurations that check them
on small instances, and proofs, checked by TLAPS, of what matters most.

    tlc -config PeerSafety.cfg MCNodeReconciler     # check a run
    tlapm NodeReconcilerProofs.tla                  # check the proofs

All paths are relative to the repository; `peer:n` and `orderer:n` are lines of
`src/controllers/fabricpeer_controller.go` and `fabricorderer_controller.go`.

## 1. The system

| Component | State it keeps | Operations | What makes it correct |
|---|---|---|---|
| FabricPeer reconciler (`fabricpeer_controller.go`) | none between reconciles, everything is in the API server | `Reconcile`: read the CR, ensure the ServiceAccount, two Secrets, StatefulSet, Service, DNS record, Gateway and VirtualService; wait for the pod; write the status | the objects follow the spec, whatever failed on the way; the status tells the truth; a reconcile ends |
| FabricOrderer reconciler (`fabricorderer_controller.go`) | as above | the same calls in the same order, with a third Secret, the genesis block | as above |
| Builders and update candidate (`newPeerStatefulSet`, `newPeerContainers`, `newCertificateSecret`, `newPeerService` and the orderer's; peer:188-206) | none | pure functions of the spec; the candidate merges what they return into the stored StatefulSet | edits that the code claims to apply reach the pods; one update is enough; no edit makes an object impossible to update |
| Vault init container (`pkg/resources/vault.go`) | the files on the pod's volume | a shell script, in two stages, that fetches the MSP and the TLS certificates | key and certificate belong together; a node keeps its identity; the node is started, and with complete files |
| DNS publication (`pkg/resources/dns.go`) | a record in the etcd that CoreDNS serves | `CheckDNS`, `updateDNSRecord`; `DeleteDNS` is never called | no name leads to another name's Service; in the end the record is the Service's current address |
| Istio objects (`pkg/resources/istio.go`) | none | builders of Gateway and VirtualService | what they let in arrives at the node; nothing compares their contents |
| Operator process (`main.go`) | the informer caches and the work queues | starts two controllers, each with one worker; leader election | one reconcile of a CR at a time; a restart loses nothing |
| API types, generated code | none | | |
| Manifests | none | declare the CRDs with a status subresource | |
| Test suite (`suite_test.go`) | none | an envtest scaffold that contains no test | |

How they interact. A change of the CR puts its key into a work queue
(`SetupWithManager`, peer:377-382: only the CR is watched, none of its children).
The controller's only worker takes the key and runs `Reconcile`, whose *reads* go
to an informer cache that follows the API server with a delay, and whose *writes*
go to the API server. The StatefulSet controller and the kubelet turn the
StatefulSet into a pod, whose init container fetches certificates from Vault.
An error or a node that is not Running yet puts the key back with a delay.

What is hard. Reads are stale. A reconcile is ten or more calls of which any may
fail, take effect without a reply, or be the last before the process is killed.
The user edits or deletes the CR at any moment of it. An update is refused when it
is based on an old `resourceVersion`, a Secret's is not. `Client.Update` of the CR
drops the status it is given. The poll loop has no timeout. The init container is
killed between two files and run again on the same volume. A CR may be deleted and
created again while the objects of its former life are still there, and nodes may
share a name or a CommonName. Objects made by different reconciles, of different
specs, have to fit together. The hazards are listed
one by one, with the lines where they bite, in `PROJECT.json`.

## 2. The modules

| Module | What it is |
|---|---|
| `NodeReconciler` | the reconcile loop of one CR with work queue, informers, API server, StatefulSet controller, kubelet, garbage collector and user |
| `NodePromise` | what an operator promises the owner of a CR: the abstract specification |
| `NodeRefinement` | the refinement mapping from `NodeReconciler` to `NodePromise` |
| `MCNodeReconciler` | instances for a peer |
| `MCOrdererReconciler` | the instance for an orderer: three Secrets, and specs rendered by `NodeObjects` |
| `NodeReconcilerProofs`, `NodeOrderProofs` | theorems about the loop, and about the order in which it brings objects on |
| `NodePromiseProofs`, `NodeRefinementProofs` | what the promise is worth to the owner of a CR, and that the loop keeps it |
| `Namespace`, `MCNamespace` | what nodes share: names, DNS records, garbage collector; CRs that are deleted and created again; `CheckDNS` call by call |
| `NamespaceProofs`, `NamespaceLifeProofs` | its theorems: names and addresses, and the life of a node that shares nothing |
| `NodeObjects` | the builders of both controllers, of the Secrets and of `istio.go`, as pure operators |
| `SpecPropagation`, `MCSpecPropagation` | sequences of edits of single fields, what of them reaches the objects, and whether these fit together |
| `SpecPropagationProofs` | its theorems |
| `VaultInit` | the init container's script, the volume, Vault and the kubelet |
| `NodeIdentity`, `VaultIdentity` | what a node's volume promises, and the refinement mapping from `VaultInit` to it |
| `VaultInitProofs` | their theorems |

How they divide the work: `NodeReconciler` has every call of a reconcile, stale
reads and failures, but one CR that is created once, and contents only as far as
the loop compares them. `Namespace` has several CRs, each of which may be created
several times, and the two calls within `CheckDNS`, but no contents.
`SpecPropagation` has the contents, field by field, with reconciles that are one
step. `MCOrdererReconciler` composes two of them: what `NodeObjects` makes of a
spec is what `NodeReconciler` compares.

A definition named `...` with a comment "Mutant of X" is a plausible bug in X.
Nothing uses these definitions; each is listed in `PROJECT.json` together with
the property that fails when it takes the place of X.

### NodeReconciler

*Objects.* An object's content is represented by the generation of the spec it
was rendered from: `api[o] = g` says that object `o` holds what the builders make
of `hist[g]`, and `0` that there is none. `Content(o, g)` is what the code compares
of it: replicas and, per container, image and resources of the StatefulSet
(peer:190-206), `Data` of a Secret (peer:145), nothing of the rest. `cache[o]` is
the informer's copy. A watch delivers the newest version: intermediate ones may be
skipped, older ones never follow. `Lagging` names the objects whose informer may be
late.

*The CR.* `cr` is the CR at the API server, `seenCR` the informer's copy, `inst`
the local variable `instance`. `synced` and `fresh` say whether these two carry
the current `resourceVersion`: an update with another is refused. The CRD has a
status subresource (`fabricpeer_types.go:51`), so `Client.Update` drops the
status, and decoding the reply into `instance` restores the stored state unless
that is empty, as it then is not in the reply (`AfterUpdate`). "Unset" is the
empty state.

*A reconcile.* `pc` stands at the next call; each action is one call to the API
server or etcd with the code up to the next one.

| Action | Code |
|---|---|
| `Fetch`, `FetchGone` | peer:76-87 |
| `ResetUpdating` | peer:92-100 |
| `EnsureServiceAccount` | peer:105-119 |
| `EnsureSecret` | peer:126-153; a Secret that was just created is updated with the same data at once, as `currentSecret` is still empty, and the two calls are one step whose second half can fail |
| `CreateStatefulSet` | peer:174-212; the candidate made from the empty `currentSts` differs and has no name, so that the update that follows always fails |
| `UpdateStatefulSet`, `KeepStatefulSet` | peer:188-221 |
| `MarkUpdating` | peer:213-218 |
| `EnsureService`, `ReadService` | peer:223-247 |
| `CheckDNS` | peer:249-253 and `dns.go` |
| `EnsureGateway`, `EnsureVirtualService` | peer:255-305 |
| `PollPod`, `PodMissing`, `Suspend`, `Spinning` | peer:310-327 |
| `WriteState`, `WriteNodes`, `Finish` | peer:329-374 |
| `ApiError` | any call fails without effect; `Reply` adds the call that takes effect but whose reply is lost |
| `Restart` | the process is killed; the next one lists everything and enqueues the CR |

The rest is the environment: `RetryFires` and `Resync` (work queue), `CacheCR`,
`CacheObject`, `CachePod` (watches), `UserEdit`, `UserDelete`, `GarbageCollect`,
`CreatePod`, `StartPod`, `DeletePod`, `PodFails`.

### NodePromise and NodeRefinement

`NodePromise` knows only whether the CR is there, which objects exist, which of
them are as the last spec wants them, whether the node is in DNS, and what the CR
says. Asking for another spec may make objects outdated; `Apply` never makes one
worse; `Report` says Running only if everything is there and applied; objects go
(`Collect`) only after the CR. A reconcile that is still at work when the CR goes
may do what it likes to one object at a time (`Disturb`), but not touch the
status. `KeepsPromise` says that each step of `NodeReconciler` is one of these or a
stutter, with `Exist`, `AppliedObjects`, `dns` and `cr.state` for the abstract
variables.

### Namespace

A CR is told by its uid, its place in `created`. An object is told by its owner's
uid and, a Service, by its address, which no Service had before; `annotated` gives
each address the fqdn its Service carries. As in the code an object is found by its
name, whoever owns it (peer:173, 231). There is a worker per node, as the peer and
the orderer controller have one each; nodes of one controller take turns, which is
a special case.

| Action | Code |
|---|---|
| `Take` | peer:76-90 |
| `EnsureStatefulSet`, `EnsureService`, `ReadService` | peer:155-188, 223-247; the StatefulSet stands for all objects that are created and then found by name |
| `GetRecord`, `PutRecord`, `FqdnRead` | dns.go:71-127, 150-179; peer:249 |
| `PollPod`, `IsUp` | peer:307-374; the pod and the container in it are found by name |
| `LatePut` | a put that timed out (dns.go:164-172) takes effect later, or never |
| `Restart` | the process is killed, or has lost its lease; its puts may be on their way |
| `GarbageCollect`, `MovePod`, `UserCreate`, `UserDelete`, `Resync`, `CacheThing` | the environment |

### SpecPropagation and NodeObjects

Here a reconcile is one step with current reads, and a spec has its fields:
replicas, an image and a cpu limit per container, CommonName, NodeOUs, a volume's
size, the type of Service, certificates, genesis block. `Candidate` is peer:188-206:
the stored StatefulSet, with new replicas, images and resources; everything else in
it stays as it was created. Service, Gateway and VirtualService are created once
(`Ensured`), and a reconcile may fail between them, so that each may be of another
spec. The API server stores a quantity in canonical form and refuses a StatefulSet
whose volume claims change. `Limit` models the merge of the `containers` list
(peer:639-649), which is made into copies that share only their maps with the
container, its error ignored. Labels and selectors are left out: both come from the
CR's kind and name (peer:1024-1031), which no reconcile changes. `Client.Update` of
the CR (peer:214) decodes the reply into `instance`, but controller-runtime v0.9.2,
which `go.mod` names, puts the kind back afterwards.

### VaultInit, NodeIdentity and VaultIdentity

`disk` is the volume: for each stage (`msp`, `tls`) a certificate, a key and a CA
file, each absent, empty, holding the word `null`, or a part of the answer with a
certain serial. A stage is skipped if its key file exists (vault.go:43, 58, 73).
`Login`, `Ask`, `OpenFile` (the shell truncates the file before `jq` prints) and
`FillFile` are its commands. The token is an environment variable set in the first
stage only (vault.go:50). The container's exit status is that of the last command:
`jq` fails on what is not JSON, and not on an error reply or an empty one.

`NodeIdentity` forgets files and commands. For each stage a key is decided once: it is
the newest that was issued, and not the other stage's (`Adopt`), or the one in the
store, an orderer's for TLS (`Fetch`), or it is spoilt for good, which takes a fault
(`Spoil`). `VaultIdentity` maps the volume to it: a stage is `Undecided` while it has no
key file or has just opened it; an empty key file that a kill left behind, or one that
holds `null`, is a spoilt key.

## 3. What is checked

Safety and liveness, all of which hold:

| Run | Properties | Instance |
|---|---|---|
| `peer_safety` | `TypeOK`, `ReadyMeansComplete`, `QuietMeansApplied`, `SecretsFirst`, `SpinsOnlyUnset`, `StatusFromCurrentSpec`, `NeverRolledBack` | two Secrets, three specs (another image and certificates; scaled to zero), two generations, one fault, late StatefulSet, Secret, Service and pod |
| `peer_liveness` | `Converges` | one Secret, specs that scale down, scale up and change the image, two generations |
| `peer_deletion` | `DeletedIsCollected`, `KeepsPromise` | a CR that is deleted at any point |
| `orderer_safety` | `QuietMeansApplied`, `KeepsPromise` | three Secrets, three generations, late StatefulSet and genesis Secret |
| `namespace` | `TypeOK`, `AddressesMatch`, `FirstLifeServed`, `Heals` | a peer created twice with one fault and late reads; a peer and an orderer of one name; a peer and an orderer of one CommonName |
| `spec_updates` | `ChangesReachPods`, `Settles`, `MountsResolve`, `LoginsAgree`, `TrafficArrives`, `NeverWedged` | a peer and an orderer, eleven specs each that differ in a field or two, four edits in a row |
| `vault_safety` | `TypeOK`, `KeyMatchesCert`, `CompleteUnlessDisturbed`, `NothingWasted`, `IdentityKept`, `KeepsIdentity`, `Starts` | both kinds of node, four faults |

- `ReadyMeansComplete`: a CR that says Running has every object and a DNS record,
  however calls failed and caches lagged.
- `QuietMeansApplied`: when no reconcile runs and none is due, StatefulSet and
  Secrets hold what the last spec asks for, and the CR says Running or the node is
  scaled to zero. This is where late caches, refused updates, lost replies and
  restarts would show.
- `StatusFromCurrentSpec`: a step changes the state of the CR only if its
  reconcile read the current spec.
- `SecretsFirst`: while the CR is there, a StatefulSet that holds a spec finds its
  ServiceAccount, and every Secret holds that spec's data or later data. Pods are
  never made from a template that is ahead of what they mount, although each Secret
  may be read late and its write may fail.
- `NeverRolledBack`: no object is given an older spec than it has. A StatefulSet's
  resourceVersion sees to that; a Secret is overwritten whatever is there
  (peer:148), and only the order in which reconciles run protects it. That order
  includes the restart: the first list of a new process is current, as it is with
  one API server (`RestartFromOldList` is the mutant that breaks it).
- `SpinsOnlyUnset`: Updating is in memory only while the stored state is empty. This
  bounds what `peer_spin` shows: a CR that ever had a state cannot hold the poll loop.
- `KeepsPromise`: the loop implements `NodePromise`.
- `Converges`: the operator ends up like `QuietMeansApplied` says, unless its poll
  loop spins.
- `DeletedIsCollected`: what a reconcile creates for a CR that was just deleted
  goes too.
- `AddressesMatch`: no name is ever published with the address of a Service that
  carries another name, whichever nodes share names and however late a put is.
- `FirstLifeServed`: a node that shares no name and was created once has objects of
  its own and resolves whenever it says Running, and is Running whenever nothing is
  going to look at it, through restarts, lost replies, late puts and stale reads.
  This bounds what `recreated` shows, and needs no resync.
- `Heals`: a node whose name no other has ends up with objects of its own, says
  Running, and its CommonName resolves, to it or to a namesake, whatever was
  deleted, created again or published late, as long as informers resync.
- `ChangesReachPods`: after a successful reconcile images, limits, replicas and
  certificates are those of the spec, whatever was edited before.
- `Settles`: the second reconcile of a spec finds nothing to update.
- `MountsResolve`: each volume a container mounts is one the pod has, and each file
  the node's environment names is mounted, although mounts, volumes and environment
  come from the first spec and images from the last. Taking over more of a
  container, NodeOUs for instance, would break it.
- `LoginsAgree`: the peer logs in to CouchDB if and only if CouchDB asks for it.
- `TrafficArrives`: a port that the Gateway opens is routed to that port of the
  Service and the node listens on it.
- `NeverWedged`: once StatefulSet and Service exist no edit makes reconciles fail.
- `KeyMatchesCert`, `IdentityKept`: a key lies beside the certificate of the same
  answer and neither is replaced.
- `NothingWasted`: of the certificates that Vault issued no more are left unused than
  calls failed or containers were killed: a retry asks again only for what was lost.
- `KeepsIdentity`: the script, its restarts and kills implement `NodeIdentity`.
- `CompleteUnlessDisturbed`: without a fault the node starts with six files.
- `Starts`: with finitely many faults the node's container is started.

### What the code does not do

Four runs state what a comment or document says, and TLC finds it violated:

| Run | What happens |
|---|---|
| `peer_spin` | The poll loop (peer:310) re-reads the pod only. A CR with an empty stored state whose StatefulSet was just updated is Updating in memory for the rest of the reconcile; a pod that stays in phase Running then keeps the only worker there for good. The comment at peer:92 speaks of preventing an infinite loop: it covers the state read at the start, not the one set at peer:213. |
| `peer_revert` | Edits A, B, A while the StatefulSet's informer lags: the third reconcile compares with a cached A, finds nothing to update, and B stays. No child is watched, so nothing starts another reconcile before a resync. |
| `recreated` | A CR is deleted and created again. Its reconcile finds StatefulSet and Service of the former life (peer:177 asks for the name only) and the CR says Running; then they are garbage-collected, and as no child is watched nothing happens before a resync. |
| `vault_incomplete` | A kill between the two stages leaves TLS files that hold `null`, one within a stage leaves missing or empty files; no later run repairs them, and the node is started. |

More of the kind, which no run checks. The first three are properties that TLC
finds violated when they are put into the configuration named:

- `SuspendedReported`, in `PeerLiveness.cfg`: Suspended is set in memory and passed
  to `Client.Update` (peer:321), which drops it: the CR keeps its old state.
- `PublishedIsRouted`, in `SpecUpdates.cfg` or with the specs `Renamed`: a
  reconcile makes the Service and fails at DNS; CommonName is edited; the next one
  makes Gateway and VirtualService. The Service is published under the old name, the
  ingress accepts the new one, for good. A later edit of CommonName reaches none of
  them.
- `Settles`, with the specs `OtherWriting`: a limit of `1000m` that the API server
  stores as `1` differs at every reconcile (peer:201 compares with DeepEqual).
- NodeOUs, the builder's image, the CouchDB login and other environment never reach
  a StatefulSet that exists. A CouchDB image that is chosen later runs without a
  login, on both sides.
- A `requests` for the metrics container, which has none of its own (peer:581-586), is
  lost in the merge of the `containers` list.
- A peer's certificate Secrets are mounted under `ordererMSPPath` (peer:971-978),
  where its environment does not look; `ORG_ADMIN_CERT` names a file nobody provides.
- README.rst has Vault roles for MSP and TLS, the script asks for `issue/Peer` and
  `issue/Orderer`, and reads an orderer's TLS files from the key-value store.
- A service of type Headless becomes type None (peer:877), which the API server
  refuses.
- The orderer's StatefulSet copies the CR's owner references (orderer:462).

### Bounds

- `MaxGen`, the number of specs. Two generations are enough for every race of one
  edit with a reconcile. A third is needed for a cache that is two versions behind
  (`orderer_safety`) and for an edit that is taken back (`peer_revert`).
- `MaxFaults` counts failed calls, lost replies, restarts and dead pods. One fault
  at each of all points covers every "step k failed, then a fresh reconcile";
  several faults follow from the proofs, which hold for any number. `orderer_safety`
  is about three specs in a row and has none: its loop is the peer's, whose runs
  have them.
- `MayRevert = FALSE` keeps users from going back to an earlier content
  (`RevertFree`). With it TRUE and the StatefulSet read late `QuietMeansApplied` fails,
  as `peer_revert` shows; read promptly, it holds (`QuietCorrect`, and TLC with the
  specs of `peer_safety` and three generations).
- `MayDelete`, `Lagging` switch behaviours off where a run is not about them, which
  keeps its state space small. Each is on in some run.
- `Cases` of `MCNamespace`: what two nodes may have in common, one case each, and a
  node alone that is created twice. The latter meets a fault (a lost reply, a put
  that takes effect later, a restart) and a StatefulSet and Service that are read
  late; the two with two nodes do not, which keeps them small: their interleavings
  are the matter there.
- The specs of `spec_updates` give quantities in canonical form, without which `Settles`
  fails (see above). Of a StatefulSet's claims only the size can be edited, so that
  `AdmitsStatefulSet` need compare nothing else.
- `MaxEdits = 4`: a field edited, another on top, and both taken back.
- `VaultInit`'s `MaxFaults = 4`: a failed call in each stage, and two kills. The
  safety theorems hold for any number.

`CHECK_DEADLOCK` is off where the system may rest: an operator with nothing to do
once the environment has used up its bounds, a worker in the poll loop, a
container that is started.

### Fairness

`NodeReconciler!Fairness` assumes that the worker goroutine runs, that watches
deliver, that delayed adds to the queue fire and that the StatefulSet controller,
scheduler, kubelet and garbage collector work: `mgr.Start` (`main.go:107`) keeps
the first three running as long as the process lives, and Kubernetes the others.
It is weak fairness on each. Nothing makes users act, calls fail, pods die or the
informer resync: in particular convergence does not rely on the resync. `Namespace`
assumes the same of its workers and controllers, that a put that was given up on
takes effect or is dropped at some time (`LatePut`), and for `Heals` that informers
resync now and then (`ResyncFairness`), which controller-runtime does every ten
hours or so: `recreated` shows that without it the node does not heal. In
`VaultInit` the script runs on and the kubelet starts a failed init container
again; nothing makes calls fail. That runs with `Starts` and `Converges` have
finitely many faults is the bound `MaxFaults`, and is needed: a Vault that is down
for ever keeps nobody's promise.

## 4. What is proved

TLAPS checks each of these for every set of specs, every list of Secrets, any
bounds and any choice of lagging informers:

| Theorem | Statement |
|---|---|
| `TypeCorrect` | `Spec => []TypeOK` |
| `ReadyCorrect` | `Spec => []ReadyMeansComplete` |
| `QuietCorrect` | `ASSUME NeverMisled PROVE Spec => []QuietMeansApplied` |
| `StatusCorrect` | `Spec => StatusFromCurrentSpec` |
| `SecretsFirstHolds` | `ASSUME NeverMisled PROVE Spec => []SecretsFirst` |
| `SpinsCorrect`, `NeverRolledBackHolds` | `Spec` implies `[]SpinsOnlyUnset`, `NeverRolledBack` |
| `PromiseKept` | `ASSUME ~MayRevert PROVE Spec => KeepsPromise`: the refinement |
| `PromiseServes`, `PromiseTakesNothing` | of `NodePromise`: `Spec` implies `[]RunningIsServed`, `NothingTaken` |
| `NamespaceTypes`, `AddressesCorrect` | `Spec` implies `[]TypeOK`, `[]AddressesMatch` |
| `FirstLifeServedHolds` | `Spec => []FirstLifeServed` |
| `ChangesApplied`, `MountsCorrect`, `LoginsCorrect`, `TrafficCorrect`, `NeverWedgedHolds` | `Spec` implies `[]ChangesReachPods`, `[]MountsResolve`, `[]LoginsAgree`, `[]TrafficArrives`, `NeverWedged` |
| `SettlesCorrect` | `ASSUME CanonicalLimits PROVE Spec => []Settles` |
| `PublishedRoutedUnrenamed` | `ASSUME NamesAreKept PROVE Spec => []PublishedIsRouted` |
| `VaultTypes`, `KeyCorrect`, `IdentityCorrect`, `CompleteCorrect`, `NothingWastedHolds` | `Spec` implies `[]TypeOK`, `[]KeyMatchesCert`, `IdentityKept`, `[]CompleteUnlessDisturbed`, `[]NothingWasted` |
| `IdentityPromised` | `Spec => KeepsIdentity`: the refinement |

The assumptions are those the modules name: Secrets are distinct strings different
from the other objects' names, a spec gives replicas and a content for each Secret,
a spec is of one of the two kinds, bounds are naturals. Some theorems have
hypotheses of their own. Each of these excludes what a run or an instance shows to go
wrong, and so says how far the flaw reaches:

- `NeverMisled`: nobody goes back to an earlier content (`~MayRevert`), or neither the
  StatefulSet's nor a Secret's informer lags. `peer_revert` has both. A CR whose edits
  are taken back is safe as long as those two kinds are read promptly, however late
  the CR, the Service and the pod are read. The refinement needs all of `~MayRevert`:
  `NodePromise` speaks of single writes, and a write of B between two A's takes what
  was applied away for a while.
- `CanonicalLimits`: quantities are written as the API server stores them;
  `OtherWriting` has one that is not.
- `NamesAreKept`: CommonName is not edited; `Renamed` edits it.

*NodeReconciler.* `QuietMeansApplied` says nothing about a reconcile under way, so
it is far from inductive. The invariant `Inv` of `NodeReconcilerProofs` is the types
and, named part by part:

- `Ages`: nothing runs ahead of what it was made from. The cache is no newer than
  the API server, an object no newer than the CR as the operator saw it, and during
  a reconcile than `inst`.
- `Copies`: what `synced` and `fresh` promise: that `seenCR` is the CR, and that
  `inst` has its generation.
- `Chain`: what the reconcile has already established at the place where it stands
  (`Past`, `Placed`): every object before `pc` exists, and what of it is compared is
  what `inst` asks for. This links one step of a reconcile to its end.
- `Current`: as long as nothing has queued the CR again, the reconcile works from
  the CR in the cache, and the state in `inst` is the stored one or Updating.
- `NoReversal`: contents do not come back (from `~MayRevert`). It turns "the cached
  copy equals what is wanted" into "the API server's copy does", the cached copy
  being no newer than the original and that no newer than the spec.
- `Prompt`: an informer that does not lag shows what is there, the other way to the
  same conclusion.
- `ReadyMeansComplete` itself, and `Applies`, which is `QuietMeansApplied` where no
  copy misleads.

Each action has a lemma, under it a step per part that it can disturb.

`NodeOrderProofs` adds three invariants. `Younger` is `Ages` without the assumption
that the CR is there: generations come from the cached CR, which only gets younger,
and one reconcile at a time takes them on; `NeverRolledBack` follows for each write.
`Unstored` says that Updating is never stored, so never read, and that the one place
that sets it, `MarkUpdating`, does so over an empty state only. `SecretsFirst` is
inductive with `Inv`: `Chain` has what the Secrets hold when the StatefulSet is
written, and later writes to them come from later generations.

*NodeRefinement.* From `Inv` of `NodeReconcilerProofs` it follows that an object
that is as the spec wants it stays so when a reconcile of a live CR writes it, and
that Running is only written by a fresh `inst` and with everything in place.
Each action is then mapped to one of `NodePromise`, those that touch none of its
variables to a stutter. `NodePromiseProofs` proves of the promise alone what its
reader is after: Running means that everything exists and is published, also while a
further spec is being applied, and nothing of a CR that is there is taken away. With
`PromiseKept` both hold of the loop.

*Namespace.* `AddressesMatch` is inductive with the types once these say that every
address anything refers to was handed out, and that a late put carries the name its
address was given: `FqdnRead` takes name and address from the same Service.

`FirstLifeServed` needs `Life`, for each node that shares nothing and was created at
most once: before it is created nothing carries its names (`Blank`); then what is
there under its names is its own, in both copies, and the only address with its
CommonName is its Service's (`OwnThings`); its worker has ensured what it has passed
(`Passed`); and it says Running or is looked at (`Said`). Steps of other nodes, late
puts and restarts are shown to leave such a node alone (`Undisturbed`), as no other
name leads to its objects.

*SpecPropagation.* Every StatefulSet is `Made(s, t)`: built from one spec `s` and
brought to the replicas, images and limits of another, `t`, which is the current one
after a reconcile. Mounts, volumes and logins are then those of one spec, `s`;
`Candidate` keeps the size of `s`, which the API server therefore admits; and a
second pass compares `Made(s, cr)` with itself. `PublishedRoutedUnrenamed` says that
each of the three objects that are never changed carries the one name there is.

*VaultInit.* `Inv` adds to `KeyMatchesCert` that a run of the script that is writing
began its stage without a key (`FromTheStart`), that while the key or the CA is to
be written the earlier files of the stage hold parts of the same response
(`WritingKey`, `WritingCa`), and that a CA certificate implies a key (`CaAfterKey`).
`IdentityKept` follows: a file is only ever written in a stage whose key did not
exist. `CompleteCorrect` has an invariant of its own, `Undisturbed`: as long as
there was no fault the stages come in order, each response is genuine, the files
before `file` are written, and there is a token from the login on. `NothingWasted`
counts: a step that adds to the certificates not in use (`Unused`) adds one at most
and is a fault, since a response in hand is written before the stage ends, and a key
on the volume is never overwritten. For the refinement `Newest` says that the answer at
hand, until its key is written, is the last that was issued and no key on the volume
is newer; that a spoilt key takes a fault is `Undisturbed`.

Only model-checked: the liveness properties `Converges`, `DeletedIsCollected`,
`Heals` and `Starts` (fairness and ENABLED are beyond the prover), and the violated
properties.

## 5. What is not modelled

- Labels, probes, commands, security contexts, memory, and environment other than the
  files, logins and ports it names: constants of the builders that nothing in the
  code relates to anything else.
- Contents and updates in `Namespace`, and a CR that is created again in
  `NodeReconciler`: each of the two leaves the other's concern out, and their product
  is out of TLC's reach.
- Two operators that run at once for longer, during a change of leader: of the old
  one only the requests on their way are modelled. Its Secrets, written without a
  resourceVersion, could go behind the new one's.
- `DeleteDNS`, which nothing calls; the ServiceAccount `vault` of several CRs, which
  is created once and has no owner, and so raises nothing that `EnsureExists` of one
  CR does not.
- Owner references given to an orderer's own CR (orderer:462).
- Logging, RBAC, generated code, manifests, the test scaffold.

## 6. Plan

Done, in the order of importance: the reconcile loop with its proofs; the init
container; builders and candidate, for both kinds of node, with Service, Gateway
and VirtualService; the orderer as an instance; several CRs, their second lives and
the DNS records; two abstract specifications and the refinements; proofs of all
safety properties that hold, and of how far the violated ones reach.

Left: a refinement from `Namespace` to a specification of names and addresses alone,
with its proof; two leaders that both write Secrets; an orderer that is owned.
