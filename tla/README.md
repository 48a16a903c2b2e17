# A verification project for the IPFS operator

The repository is a Kubernetes operator in Rust. It watches `IpfsNode` objects
and keeps, for each of them, a StatefulSet, its ConfigMaps and Secrets, and one
load balancer service per pod. The operator remembers nothing: every
reconciliation reads what the cluster holds, decides, and writes, one API call
after the other, and any of these calls may fail, be answered from a stale
cache, or be the last one before the process dies.

The project models that part of the system in TLA+, checks it with TLC on small
instances, and proves the most important invariants with TLAPS for all of them.
Around it are the operator's own process, a rolling update of it, and the web
service that reads what it wrote.
Source paths below are relative to `src/crates/`.

## Inventory

| Component | State it keeps | Operations | Hard behaviour | What makes it correct |
|---|---|---|---|---|
| Load balancers (`operator-common/src/types/load_balancer.rs`, `service.rs`) | none of its own; services `{name}-{idx}` in the cluster | `deploy`, `get_external_ips`/`wait`, `delete`, `_create` | decides from a count; concurrent deletes, aborted by the first error; swallowed errors; lists from a watch cache; calls of several nodes interleave | a deployment moves only toward its spec; it is exact when nothing disturbs it; a deletion leaves nothing; every call ends |
| Node resources (`operator/src/types/storage.rs`, `bootstrap.rs`, `common.rs`, `statefulset.rs`) | StatefulSet, ConfigMaps | `deploy`, `delete`, `Common::*` | a sequence of 5 to 12 calls, each may fail after it took effect; retried from the top | a workload never exists without what it mounts |
| Identities, secrets, configs (`identity.rs`, `ipfs.rs`, `configmap.rs`, `secret.rs`) | private keys of pods, peer key and secret of ipfs-cluster | `Identities::new/get`, `upsert_*`, `generate_config`, `get_bootstrap_list` | generated at random once, read ever after; sizes fixed by the first deploy; one node reads another's | keys are never replaced while in use; configs carry the keys published |
| Controller (`controller.rs`, on kube's `Controller`, `reflector`, `finalizer`) | reflector store, schedule, finalizer on the object | `reconcile`, `IpfsNode::reconcile`, `cleanup`, `error_policy`, `run` | acts on a copy that lags; edits and deletion during a run; restarts; timers as the only retry | nothing written outlives its object; deletions complete; dependents catch up |
| Custom resource (`crd.rs`, `crdgen.rs`) | `NodeSpec` | schema | `replicas: i32` has no minimum | - |
| Operator process (`main.rs`, `metrics.rs`, `controller.rs:23-47,107-172`) | `last_event` behind an RwLock, counters, two futures | `main`, `run`, `count_and_measure`, `reconcile_failure`, `diagnostics`, HTTP | tasks of their own for each reconciliation; a fair lock; abortion; two shutdowns of different length | the lock is never kept; each reconciliation is measured once; one signal ends the process and breaks nothing off |
| Rolling update (`deployment-controller.yaml`) | two processes | the same `deploy` and `delete`, twice | no leader election: two operators on one object | what the two leave is mended by the new one alone |
| Bootstrap web (`bootstrap-web/src/`) | none; reads ConfigMaps | `get_list`, `get_key` | two reads that are not one | a list mixes no two generations of a bootstrap node; it is refused only for a reason |
| Pod templates (`containers/*.rs`) | - | data | - | what a pod mounts exists |
| Telemetry, ingress, Helm chart, scripts | - | data, I/O | - | not modelled, see the end |

How they interact: the controller calls `deploy` or `delete` of a node inside
kube's `finalizer()`; these call the load balancer functions and the writers of
ConfigMaps and Secrets in a straight line; a storage node's `deploy` reads the
ConfigMaps of the bootstrap node its spec names; all load balancer calls of a
namespace see each other's services. Reconciliations of different objects run
concurrently, those of one object never do - unless two operators run. The web
service reads the ConfigMaps of bootstrap nodes and writes nothing.

## Modules

```
LoadBalancer          services of all nodes, calls cut at each API request
  ^ EXTENDS
NodeResources         the objects of each node; deploy and delete, which make
  ^ EXTENDS           the calls of LoadBalancer
  |-- Controller      IpfsNode objects, reflector, schedule, finalizer; starts
  |                   deploy and delete of NodeResources
  |-- BootstrapWeb    a request for seeds, beside the operator
  `-- Rollout         a second operator: another INSTANCE of NodeResources that
                      shares the cluster
NodeLifecycle         what the objects of a node promise; NodeResources and
                      Controller implement it (INSTANCE in NodeResources)
OperatorProcess       the process around the reconciliations; on its own
MC*                   small sets for TLC
*_proofs              the theorems, each module EXTENDing the one it is about
                      and the proofs it builds on
NodeCalls_proofs      lemmas on the calls of NodeResources beside somebody who
                      writes the same objects; Rollout_proofs uses them twice
```

Each module is a specification of its own. In `LoadBalancer` anything may ask
for any call of an idle node; in `NodeResources` anything may start a deploy or
a delete of an idle node; `Controller` says when the operator really does. The
invariants proved of an inner module thus do not depend on the scheduler.

### LoadBalancer

`lb[n]` is the set of indices `idx` with a service `{n}-{idx}`, `ip[n]` those
with an address, `seen` what the API server's watch cache holds (lists with
`match_any` may be answered from it), or `NoCache` when lists are always
current; with `StaleLists` both are initial states. A call in progress has a
phase `lbpc[n]`, its argument `want[n]` and `todo[n]`, the indices its loop
still has to treat. `LbDeploy` is the list, the count and the choice of the
branch (`load_balancer.rs:14-33,47`); `RemoveService` one of the concurrent
deletes (34-46), `CreateService` one of the creations, which are sequential
(170-211), in ascending order; `WaitIps` the join of the waits (65-93); `LbDelete` and
`DeleteService` the deletion (96-128). A failed request (`Fault`) may or may not
have taken effect. A delete aborted with its `JoinSet` has landed then, or never
does: a request still on its way when the next deploy of the node begins, which
is five minutes or an edit later, is not modelled. Two things a reader may not expect are in the code: the
selector's first label is replaced by the second (`LbCount` counts the services
of all storage clusters of the namespace and none of a bootstrap node), and
`replicas as usize` wraps (`AsUsize`) while `0..replicas` does not (`Pods`).

### NodeResources

`res[n][k]` is the object of kind `k` of node `n`, reduced to what the
properties tell apart: the generation of the keys in it, its number of entries,
and the generation of the bootstrap identities it lists. `pc[n]` names the API
call the procedure of `n` makes next; `spec`, `ids`, `boot` and `pos` are its
locals, cleared when it returns. There is one action per call of
`storage::deploy` / `bootstrap::deploy` (`GetPeerInfo` ... `PutStatefulSet`), in
the order of the code. The helpers say how a call may end: `Apply` (done, failed
without effect, failed after it), `Read`, `Fail` (a check refuses). A ConfigMap
written with empty data comes back without data (`HasData`), which is an error
to the readers. `storage::delete` and `bootstrap::delete` are a walk along
`DeleteOrder`, ended by the load balancers. When `external_addrs` is empty the
code writes the same ConfigMap and reads the same inputs once, exactly as with
addresses, and the model has one action for it.

Objects a user or the chart provides (swarm key, default scripts, default
config) are taken to exist; a failed read of them is a `Fault` of the action
that needs them.

### Controller

`obj[n]` is the object in the API server, `store[n]` the reflector's copy,
`due[n]` that a reconciliation is scheduled, `old[n]` what an API server that
lags behind would answer. `finalizer()` is kube's: without a finalizer in the
copy it adds one and awaits the change (`AddFinalizer`); with one it applies or
cleans up, as the copy's deletion mark says (`Reconcile`); after a cleanup that
returned Ok it removes the finalizer (`RemoveFinalizer`). Both patches test what
they read, so they fail on an object that changed. `Requeued` are the results
that schedule the object again; the five minutes are left out, a timer may fire
at any time after it was set. `Restart` kills all procedures and lists again,
with `any_semantic` possibly from the laggard. `Relist` is the list that follows
a break of the watch while the operator runs on; it matters only where it lags.

### NodeLifecycle

The abstract specification. A node has `published` peers, and `assigned` ones,
each a generation or `NoKey`. It publishes peers when it has none, assigns the
peers it published to its workload, withdraws them with the workload, and
retracts only what no workload is assigned. `NodeResources` maps `published` to
the keys of the identities ConfigMap, and `assigned` to the keys of the configs
that an existing StatefulSet mounts (`Published`, `Assigned`; a StatefulSet
without configs would map to `None`, which `NodeLifecycle` has no step to).
`FollowsLifecycle` says that every step of the calls, failures and crashes
included, is one of these or a stutter.

This is a promise of objects, not of pods. The StatefulSet is deleted in the
background (`statefulset.rs:11`), no claim of its pods is deleted, and
`start_ipfs.sh:20` (`--init`) leaves a repository that exists as it is. The pods
of a node that was deleted and created again therefore run as the peers on their
volumes, which the node no longer publishes. No property here says otherwise.

### BootstrapWeb

`req` is the one request in progress: `Ask`, `ReadIdentities`, `ReadAddresses`,
`Reply`, with any step of `NodeResources` between them (`Meanwhile`). Requests
write nothing, so one at a time shows what any of them may see. Two history
fields, `steady` and `stood`, remember whether the node could be listed, and
whether its identities stood, ever since the request began. `/swarm_key` is a
single read of a ConfigMap the operator never writes.

### Rollout

The chart's Deployment has one replica, no strategy and no leader election, so
during an update two operators run. `Rollout` EXTENDS `NodeResources` for the
new one and takes the old one as `Old == INSTANCE NodeResources` with its own
`pc`, locals and load balancer phases; objects, services and failures are
shared. `End` is the old operator's end, wherever its calls stand; a request it
had sent has arrived by then or never does. `phase[n]` (history) tells the calls
the new operator began beside the old one from those it began alone.

### OperatorProcess

`proc`, `ctl` and `srv` are the process and the two futures `main` joins;
`task[n]` is the reconciliation of `n`, a task of its own in kube's controller;
`req[c]` a request. The RwLock is fair: `line[x]` are those who stand in line up
to and including `x`, so `x` is served when it is alone in it, a reader when no
writer is. A guard never lives across an await, so taking the lock and giving it
back is one step. A future that is dropped leaves the line (`Leave`), and its
`ReconcileMeasurer` observes. The
counters are kept per node: `begun` and `measured` are n's part of two global
metrics, `failures` the series of instance n. `Signal` reaches the web server
from the start, the controller only once it runs: with a SIGTERM during the
first list (`ctl = "querying"`) the server ends and the controller goes on, and
nothing but another signal stops it.

## What TLC checks

| Run | Instance | Shows |
|---|---|---|
| `lb_sole` | one storage cluster, one bootstrap node, replicas -1..2, lists current or lagging, 1 failed request, 1 crash | `LbTypeOK`, `ExactWhenSole`, `DeleteComplete`; `TowardSpec` although the bootstrap node counts what is not its own and lists may be old |
| `lb_insufficient` | a storage cluster and a bootstrap node, nothing fails | **violated**: `Sufficient` |
| `nr_pair` | bootstrap node and storage cluster, 1 failed request, 1 crash | `WorkloadMountsExist`, `ConfigsCarryIdentities`, `AddressesOfIdentities`, `IdentitiesStable`, `ListableKept`, and the refinement `FollowsLifecycle` |
| `nr_bootstrap` | bootstrap node, replicas -1..2, 1 failed request, 1 crash, a request for its seeds | `SeedsOfOneGeneration`, `NoSpuriousRefusal`, `NrTypeOK`, `PodsCoverIdentities`; `ConfigsCarryIdentities` and `IdentitiesStable` through changes of replicas |
| `nr_secrets` | as `nr_pair` | **violated**: `SecretsStable` |
| `nr_grown` | bootstrap node and storage cluster, replicas 1 and 2 | **violated**: `PodsConfigured` |
| `ctl_pair` | bootstrap node and storage cluster, replicas 1 and 2, 3 edits, nothing fails | `NothingOrphaned`, `NoLoadBalancerOrphaned`, `OwnedIsProtected`, `StorageJoins`, `CallsEnd` |
| `ctl_lag` | one bootstrap node, replicas 0 and 1, stale lists, 1 failed request, 1 restart, 3 edits or breaks of the watch | `TypeOK`, `DeletionCompletes` |
| `rollout` | bootstrap node, replicas 1 and 2, two operators, one of which ends | `UpdateMends`, `UpdateLeavesNothing` |
| `operator` | two objects, two connections, 2 reconciliations each, 3 signals | `OpTypeOK`, `MeasuredOnce`, `GracefulExit`; with fairness `IndexAnswered`, `ShutdownEnds` |
| `ctl_lb_orphan` | one node, 1 failed request | **violated**: `NoLoadBalancerLeft` |
| `ctl_stale` | one node, 1 restart from a stale list | **violated**: `NothingOrphaned` |

Five runs are expected to find a violation; each shows a disagreement between
the code and what the repository says of it:

- `lb_insufficient`: `deploy` ("Handle insufficient load balancers",
  `load_balancer.rs:48`) counts the services of every storage cluster and
  returns Ok without creating its own. A bootstrap node created, or created
  again, beside a storage cluster that has its services never comes up: it waits
  for the address of a service nobody creates, and the storage cluster, at its
  next failure, waits for the bootstrap node.
- `nr_secrets`: "Ensure secrets exist" (`storage.rs:27`) replaces a secret that
  exists when the request that reads it fails.
- `nr_grown`: a pod starts from `configs/${HOSTNAME}` (`start_ipfs.sh:20`),
  which the pods added to a storage cluster do not have.
- `ctl_lb_orphan`: "ensure nothing is orphaned" (`controller.rs:88`), but the
  failures of the service deletes are dropped.
- `ctl_stale`: the same comment; a list from a lagging API server after a
  restart makes the operator deploy an object that is gone.

Where the code keeps a weaker promise, a passing run checks that one:
`TowardSpec` for wrong counts, `NoLoadBalancerOrphaned` without failed requests,
`NothingOrphaned` with fresh lists. `IdentitiesStable` and
`ConfigsCarryIdentities` do not hold while two operators run; `UpdateMends` says
that the damage does not outlast the first call the new one finishes alone.
`UpdateLeavesNothing` supposes, as `DeleteComplete` does, that no request failed
and no list was stale (`seen = NoCache`). `ScaledBetween` has what is left of
`TowardSpec` when two operators scale one node. It is about storage clusters, for
a bootstrap node never counts, and so never deletes, its own services; that
instance is too large for TLC, and no run checks it: it is proved.

`StorageJoins` promises less than one would like, and `Joinable` names the limits:

- the bootstrap node must have as many addresses as identities. Scaled from 1 to
  2 it has two addresses for one identity, its StatefulSet still stands, and
  `get_bootstrap_list` (`ipfs.rs:72`) refuses every cluster that wants to join,
  at every retry. `ctl_pair` has these behaviours; without `Listable` in
  `Joinable` TLC finds the property violated there;
- the cluster must not have more identities than it is to have pods, nor an
  identities ConfigMap without data: its own configs are refused then;
- nothing failed and nothing died (`Undisturbed`): a failed creation may leave a
  hole in its services, and `get_external_ips` waits for that address at every
  retry. It must also be the only storage cluster, for the count has all of them.
`ListableKept` names the two ways in which a node stops being listable: it is
deleted, or it is deployed with another number of replicas than it has
identities, after which no retry brings its seeds back.

### Bounds

| Bound | Values | Why they are enough |
|---|---|---|
| `Nodes` | 1 or 2 | nodes meet only in the shared count of services and where a storage node reads one bootstrap node |
| `Replicas` | within -1..2; 0..2 for liveness | negative, none, one, more than one; growing and shrinking by two steps |
| `UsizeMod` | 2 to 4 | above the largest count; -1 still wraps to the largest value, which is enough for safety (see Fairness for liveness) |
| `Keys` | 2; 1 in `ctl_pair` and `ctl_lag` | a key and the one that replaces it; a third generation behaves as the first. No property of those two runs compares keys |
| `MaxFaults` | 0 or 1 | each call is retried from the top, so a second failure meets what the first one left |
| `MaxCrashes` | 0 or 1 | a crash leaves exactly what an error at the same place leaves, but in all nodes |
| `MaxEdits` | 2 or 3 | create, scale or delete, create again; a break of the watch counts as one |
| `MaxRuns` | 2 | a reconciliation and the one after it, beside those of another object |
| `MaxSignals` | 3 | one the controller does not hear, one that drains it, one that aborts |

`Fault` uses up a bounded budget, so failures stop in the end: the liveness
properties say that the system recovers once they do. Deadlock is checked
wherever the system cannot stop; in the `Controller` it may, when every object
is gone and the users are done, and in `OperatorProcess`, where the process
ends. `rollout` and `nr_pair` declare the keys symmetric: they are only
compared, and these runs check no liveness. The safety properties that `ctl_pair` and
`rollout` check without failures are proved for any number of them, `rollout`'s
for storage clusters as well.

### Fairness

- `DeletionCompletes`, `StorageJoins`, `CallsEnd`: weak fairness of
  `Operator(n)` (the controller's queue serves what is due; reconciliations of
  different objects do not wait for each other), of `WatchEvent(n)` (the watch
  delivers the current state in the end; it is restarted when it breaks), and of
  the cloud's assignment of addresses. Nothing is assumed of users, of failures
  or of caches. `Operator(n)` contains the steps of the call in progress: tokio
  polls a spawned task until it is done, the list is bounded by `timeout(300)`,
  the wait by `tokio::time::timeout`.
  These two runs have no negative replicas. `-1 as usize` is 2^64 - 1, and deploy
  then makes that many requests one after the other (`load_balancer.rs:47-57,181`)
  in the only reconciliation of the object: it does not end in practice, and the
  deletion of the object is not reached. With a `UsizeMod` of 2 or 3 the loop would
  be over after one or two requests, and the run would show what the program does
  not do.
- `IndexAnswered`, `ShutdownEnds`: weak fairness of what tokio polls by itself
  (the lock, `error_policy`, answers, timers, the end of `main`). Nothing is
  assumed of API calls, clients or signals; `ShutdownEnds` has the return of the
  calls in progress as its premise, `IndexAnswered` holds without.

## What is proved

For every set of nodes, every range of replicas, width, number of failures,
crashes and keys, under the assumptions `LbAssumption`, `NrAssumption`,
`NoneAssumption` and `NoObjectAssumption` (finitely many nodes; storage nodes
are nodes; a bootstrap name names a node of the namespace; `NoKey` and `None`
are no key and no object).

`LoadBalancer_proofs`

- `LbTypeCorrect`, `DeployMovesTowardSpec`. `TowardSpec` speaks of a step; what
  keeps it is that the pending indices lie on one side of the target
  (`PendingOnOneSide`): the deletes at or above, the creations below. The count
  the list gave does not occur in the argument, which is why wrong and stale
  counts do no more harm than they do.
- `ExactDeployment`. While nothing failed, the services of the sole storage
  cluster are an initial segment of the indices between calls, and during a call
  that segment together with, or without, what is pending (`Segment`). Only for
  an initial segment does the count name the first missing index.
- `CompleteDeletion`. During a deletion every service left is pending.

`NodeResources_proofs`

- `NrTypeCorrect`, `WorkloadsCanStart`, `ConfigsMatchIdentities`,
  `AddressesMatchIdentities`, `PodsMatchIdentities`, `IdentitiesNeverReplaced`.
  None of these is inductive:
  at `put_sts` the workload is written without a look at what it mounts. The
  invariant `NrInv` adds, for each node, what the calls made so far have
  established (`DeployProgress`), what a delete has removed so far
  (`DeleteProgress`), and that a load balancer call runs only where a procedure
  makes one (`LbPhasesOf`). Since nodes write only their own objects, a lemma
  (`OneNodeSuffices`) reduces each step to the node that takes it. For each
  action there is then a lemma that says what it does (`...Effect`) and one that
  it keeps the invariant of its node (`StepInv`). The latter assume nothing of
  the other nodes, which is what lets `Rollout_proofs` use them for one node
  while another is still in disorder.
- `ListsStay`, from the same invariant: a deploy writes as many identities as
  addresses, and the identities it found keep their number.
- `NodesFollowLifecycle`, the refinement of `NodeLifecycle`, which is about the
  objects and not about pods (see above). `OneObject` says that
  a step writes at most one object of one node; each such write is then one
  abstract step or none (`WriteIsLife`). `NrInv` is needed where the StatefulSet
  comes or goes: its configs carry the keys of the identities.

`Controller_proofs`

- `ControllerTypeCorrect`, `ControllerWorkloadsCanStart`. Each step of the
  controller is a step that `NrInv` is known to survive (`StartInv`, `WorkInv`,
  `ReturnInv`, `CrashInv`, `AroundInv`), or patches the finalizer. So what is
  proved of `deploy` and `delete` holds under the controller too.
- `FinalizerProtects`, `NothingIsOrphaned`, for lists that do not lag
  (`~StaleLists`; with them `ctl_stale` refutes both). `OwnedIsProtected` is not
  inductive: whether the finalizer may go depends on the reflector's copy, which
  is late. `ObjectInv` adds what relates the copy to the object. A copy that
  calls for a deploy is one of an object that still has its finalizer; a copy
  marked for deletion is one of an object marked for deletion, unless the
  present one has no finalizer; while a cleanup runs, no copy calls for a
  deploy. That a cleanup that ran through left nothing is `NodeInv`
  (`DeleteProgress`), that a procedure only continues what it is in the middle
  of is `WorkContinues`. A restart is where fresh lists are needed: the new copy
  is the object.
- `NoServiceIsOrphaned` joins that invariant with `DeletePending` of
  `LoadBalancer_proofs`: a cleanup that ended without a failed request has
  deleted every service, and none is created while no copy calls for a deploy.
- `ControllerFollowsLifecycle`, `ControllerKeepsIdentities`,
  `ControllerKeepsLists`, `ControllerObjectsAgree`: the controller's steps write
  the objects of a node only through those of `NodeResources` (`NextWrites`), so
  the refinement, the action properties and the invariants carry over.

`BootstrapWeb_proofs`

- `SeedsFitTogether`, `RefusedForAReason`. `RequestInv` keeps what the first read
  saw: as long as the identities stand they are the ones read
  (`IdentitiesNeverReplaced`), and addresses lead to the identities beside them
  (`AddressesMatchIdentities`).

`OperatorProcess_proofs` (assumption `OpAssumption`)

- `OpTypeCorrect`. Beside the types it has the lock: in line stand exactly those
  who wait, and of any two one stands before the other (`LineInv`). Whoever
  joins stands behind all others (`JoinLine`); whoever leaves, served, aborted or
  dropped, is gone from everybody's part of the line (`LeaveLine`). The types of
  the places need `Waiting`, and this the places, so the three parts are shown
  together.
- `EveryRunIsMeasured`, `OneSignalIsGraceful`. `MeasuredOnce` is inductive with the
  types of the counters; `GracefulExit` needs `OneSignal`: before a second signal
  everything measured has ended, and a controller that is done has no task.

`NodeCalls_proofs` and `Rollout_proofs`

- `UpdatesMend`, `UpdatesLeaveNothing`. While two operators write the objects of a
  node, `NodeInv` does not hold of either. `RollInv` says what does, by `phase`:
  - in any phase, of both operators' calls, only where they stand: a call of the
    load balancer runs only where a procedure makes one, a storage label belongs
    to a storage node (`InPlace`), and objects are of the kinds their node has
    (`Written`). `Control` has the two, and there is one lemma per action that a
    step keeps it.
  - of a call the new operator began alone, `OwnProgress`: `DeployProgress` and
    `DeleteProgress` from what this call itself has read and written, and that a
    finished deploy leaves objects that agree. Nothing is said of the objects it
    has not come to, which may be in any disorder.
  - once such a call ended well, `NodeInv`, which `OwnProgress` implies at that
    place (`SettledInv`), and which the lemmas of `NodeResources_proofs` keep.
  - of services, from the end of the old operator on, `ServicesGone`: while
    nothing failed, what is left during a delete is pending.

  The old operator's calls are the same module in other variables, so its lemmas
  are those of `OldP == INSTANCE NodeCalls_proofs`; `OldWork` and `OldBoundary`
  carry a step of `Rollout` over to it. The attempt corrected two properties. A
  storage cluster has more pods than configs after it was scaled up (the finding
  of `nr_grown`), so `UpdateMends` asks for equal numbers of a bootstrap node
  only; and a stale list of services lets a cleanup miss some.
- `UpdatesScaleBetween`. A step of either operator moves toward its own spec, for
  the reason `TowardSpec` holds of one: `PendingOnOneSide`, of each operator's
  own pending indices, does not mention the services that exist.

## What is only model-checked, and what is not modelled

Liveness (`CallsEnd`, `DeletionCompletes`, `StorageJoins`, `IndexAnswered`,
`ShutdownEnds`) is checked by TLC only: the prover handles neither fairness nor
ENABLED. `ScaledBetween` alone is proved and not checked. Every invariant and
action property of a passing run is a theorem. What the five other runs refute
is shown by TLC's counterexamples. Induction over data and RECURSIVE operators
are beyond the prover and none is used.

Not modelled:

- a change of `spec.kind`: the kinds of nodes are a constant, because labels of
  services and the order of a delete depend on them. `cleanup` then leaves the
  two secrets of a node that was of kind Storage (`controller.rs:94`);
- a storage cluster following a bootstrap node that was deleted and created
  again: in the instances above this never gets so far (see `lb_insufficient`);
- the value of `last_event`: nothing depends on it;
- the ports of services, pod templates beyond what they mount, labels of metrics;
- two operators on a storage cluster are proved about, but `Rollout` is
  model-checked only for a bootstrap node: with the secrets and both numbers of
  replicas the instance is too large. There the hole of a failed creation can
  also come from the overlap;
- telemetry, routing and encoding of HTTP, `ingress.rs` (not compiled in:
  `types/mod.rs` does not name it), `delete_cluster_ips` (its call is commented
  out), the Helm chart but for its Deployment, and the scripts;
- pods and their volumes. Both outlive the StatefulSet, and an initialised
  repository keeps its peer whatever configs say (see `NodeLifecycle`);
  also what `UpdateMends` mends is the objects, and a pod that was initialised
  with the losing keys of two operators keeps them;
- a request that lands after its operator, or its aborted task, is long gone.

## Plan

1. The operator's process around the controller: that a graceful shutdown leaves
   what the theorems on a single operator start from, before a new one begins.
2. `spec.kind` as part of the object.
3. A storage cluster that follows its bootstrap node, over a smaller abstraction
   of `NodeResources`, such as `NodeLifecycle` with what a node was told.
