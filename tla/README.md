# Verification of kai-resource-management

TLA+ specifications of the controllers of this repository, model-checked with
TLC on small instances and proved with TLAPS for every value of their
constants. Every definition is translated from the Go source; `PROJECT.json`
maps each one to the lines it models.

## The system

kai-resource-management (KRM) runs beside the KAI scheduler and keeps a
cluster's nodes, queues and pod groups in the shape that *node pools*,
*projects* and *departments* describe. All state lives in Kubernetes objects;
each binary is a set of controllers that read through informer caches and write
to the API server.

| Part | Source | State it owns | What it does |
|---|---|---|---|
| Department controller | `project-controller/reconcilers/department_reconciler.go`, `handlers/departments_handler.go`, `handlers/queue_utils.go` | queues of departments, finalizer | one queue per department and node pool, under the parent department's queue, never in a loop |
| Department tree and webhook | `project-controller/hierarchy`, `webhooks/validation/department.go` | none | refuses loops and trees that are too deep |
| Project controller and its handlers | `project-controller/reconcilers/project_reconciler.go`, `handlers/` | namespace, queues, limit range, role bindings, status of a project | creates them in order; on deletion waits for blockers, then removes them |
| Project and queue webhooks | `project-controller/webhooks/validation/project.go`, `queue.go` | none | admit projects and protect queues |
| Node pool controller | `nodepool-controller/nodepool_controller` | node-pool label, cordon, annotations and NRT condition of nodes; finalizer and status of node pools | moves every node to the node pool whose labels it carries, drained, and reports on the nodes |
| ManagedNodesConfig controller | `nodepool-controller/managed-nodes-config` | the excluded pool, the should-be-excluded label | moves nodes in and out of management |
| Unmanaged shards | `nodepool-controller/unmanaged-shards` | none | names the partitions KRM leaves alone |
| Scheduling shards | `nodepool-controller/operands`, `utils` | SchedulingShards | one shard per node pool |
| Node pool and shard webhooks | `nodepool-controller/webhook` | none | keep partitions apart |
| Helm hooks | `helmhooks` | owners of shards that predate KRM, default node pool | migrate at install and upgrade, hand back at uninstall |
| Topology controller | `nodepool-controller/topology_controller` | Grove topologies | copies a Topology |
| Pod group assigner | `pod-group-assigner/controllers` | node-pool label, queue, back-off of pod groups | rotates a pod group over its node pools |
| Mutators and the requested-node-pools converter | `pod-group-assigner/mutators`, `common/node-pool-utils` | none | choose the node pools of pods and pod groups at admission |
| Operator | `operator` | the objects of the three services, conditions of KRMConfig | installs, updates and removes the services |

The parts meet in the objects they share. Departments and projects share the
queue tree. The node pool controller and the ManagedNodesConfig controller
share a node's cordon and pool label. A project's queues hold a node pool that
is being deleted. The pod group assigner reads node pool phases and the
project's queues. The hooks and the node pool controller write the same shards.

What makes the system hard is the same everywhere: a decision is made on a
cache that may lag, and carried out later with a write that does not check it
(a merge patch carries no resource version; `AlreadyExists` is taken for
success); a reconcile is several calls, any of which can fail or be cut off by a
restart; whether something is looked at again depends on which event is mapped
to which request.

## Modules

| Module | Models |
|---|---|
| `DepartmentQueues` | the department controller, the department webhook and the queue tree of one node pool |
| `MCDepartmentQueues` | instances of it: two or three departments |
| `DepartmentQueuesProofs` | its theorems |
| `NodePools` | the node pool controller and the ManagedNodesConfig controller around one node |
| `MCNodePools` | instances of it: one or two node pools |
| `NodePoolsProofs` | its theorems |
| `PodGroupAssigner` | the pod group assigner around one pod group, with the schedulers it hands it to |
| `MCPodGroupAssigner` | instances of it: three node pools |
| `PodGroupAssignerProofs` | its theorems |
| `ProjectLifecycle` | the project controller and all its handlers around one project |
| `MCProjectLifecycle` | instances of it: namespace modes, deletion options, queues held by others |
| `ProjectLifecycleProofs` | its theorems |
| `ShardCustody` | abstract: what installing, running and uninstalling KRM promises shards that predate it |
| `SchedulingShards` | migration and cleanup hooks, the shard part of the node pool controller, both webhooks; implements `ShardCustody` |
| `MCSchedulingShards` | instances of it: a new installation and a running one |
| `SchedulingShardsProofs` | its types, that the cleanup hook hands every shard back, and that it implements `ShardCustody` |
| `ShardSettingsProofs` | that shards keep their settings |
| `NodePoolHealth` | the status of node pools: phase, node states, conditions, NRT health, topology, NVLink detection |
| `MCNodePoolHealth` | instances of it: two nodes, two node pools |
| `NodePoolHealthProofs` | its theorems |
| `KrmOperator` | the operator: desired and current state, deployment, conditions |
| `MCKrmOperator` | instances of it: two operands, two namespaces |
| `KrmOperatorProofs` | its theorems |

Definitions keep the source's names where they stand for one function
(`findMatchingNodePoolFromList`, `MapQueueToChildDepartments`,
`reassignNodeForDeletingNodePool`...). Definitions named `Mutant...` are
plausible bugs of the definition that follows them; no specification uses them.

### DepartmentQueues

State: the Department and Queue objects (`depts`, `queues`), the departments
some project names (`projects`), the informer cache of each, the work queue
(a set: it holds a key once) and the reconcile in progress (`job`).
`fresh` says for which queues the cached resource version is the live one:
`updateExistingQueue` sends it, so an update from a stale copy is refused.
`unseen` remembers owners of queue versions that the cache skips over, because
their events still reach the child departments.

One reconcile is the sequence of actions
`Reconcile` (read, finalize or add the finalizer) → `PlaceQueue` (parent queue,
from the cache) → `FindQueue` or `NameQueue` → `WalkUp` (one live GET per step:
`wouldCloseQueueLoop`) → `CreateQueue` or `UpdateQueue` →
`DeleteUnnecessaryQueues`. Each makes at most one kind of API call, and users,
informers and the garbage collector act between any two of them.
`FailReconcile` cuts a reconcile off at any step and requeues it; `Restart`
drops the reconcile and lists the caches anew. Users create, delete and
re-parent departments, change their queue entry and delete queues; the webhook's
conditions (`ParentAdmitted`) guard those edits and read the cache, as the code
does.

### NodePools

State: one node (pool label, labels, whether it meets the inclusion criteria,
cordon, the two labels the controllers put on it), the node pools, the
ManagedNodesConfig, the projects, the pods on the node, one cache of all five, a
work queue and a reconcile per controller.

A *visit* of the node is the step both controllers share (`node_handler.go`,
`node_status_handler.go`): `ValidateNodeStatus` cordons a node that still has
pods of the pool it leaves and un-cordons one that does not; `AssignNodePool`
relabels it. `ListNodes` picks the next of the node lists of a node pool's
reconcile and, at the end of a deletion, waits or removes the finalizer.
`ReconcileManagedNodes` and `MarkNode` are the ManagedNodesConfig controller.
Patches act on the live node and refresh the worker's copy (`PatchNode`);
decisions are made on the copy. The `Sync...` actions deliver a change and queue
the requests the event handlers map it to, for the old and the new object.

What is left out, and why it does not weaken a property:

- Whether the node is Ready. `validateNodeStatusWhenChangingNodePool` and the rest of
  a visit do not look at it: it decides counts and phases, in `NodePoolHealth`.
- A node pool's status, annotations, NRT health and shard, the subjects of
  `NodePoolHealth` and `SchedulingShards`, and metrics. They do not feed back into
  the node's placement.
- Re-enqueueing of other node pools for a node that is not cordoned (the status
  message branch of `mapNodeToOtherDestNodePools`). Fewer wake-ups make the
  liveness properties harder.
- Pods count for a pool by the pool their pod group was admitted to; pods whose
  own label and pod group label differ are not represented.
- The literal pool label `default`, and the uninstall path.
- The phase `Deleting`, which the index of node pools counts beside the deletion
  timestamp (`nodepool_controller.go:182`): the controller writes it only to a node
  pool that has the timestamp.
- A failed finalizer patch on a node pool that is already gone is a retry that
  succeeds once the cache catches up; the action is disabled until then.
- The set of unmanaged partitions is constant; nodes join them.
- The informers' ten-hourly resync. It would hide lost wake-ups behind a delay
  of hours, so "at rest" below means until the next resync. Predicates filter it
  for nodes and the ManagedNodesConfig; for node pools it would reconcile again.

In `DepartmentQueues`, status conditions, events, metrics and several node pools
at once are left out: queues of different node pools never refer to each other.
A suffixed queue name is drawn from a set per department instead of at random.

### PodGroupAssigner

State: the PodGroup (node-pool label, queue, mark, back-off, last scheduling
condition, topology constraint), its pods, the phases of the node pools, the
caches, the work queue (one key), the reconcile in progress (`job`), the list of
requested node pools once it is known (`memo`), and the node pools whose
schedulers work on a snapshot of the pod group (`attempts`). `tried` is a history
variable that no guard reads.

A reconcile is `Reconcile` (read, eligibility) → `Choose` (pods, requested list,
node pool, queue) → `ClearConditions` (status patch, only when the same node pool
is chosen again; its answer replaces the copy) → `AssignPodGroup` (merge patch of
what differs from the copy). Either patch can fail, or be applied and its answer
lost. `SyncNodePool` queues the pod group only for the phases the event filter
lets through and only if the *cached* pod group is in that node pool; `alarms`
keeps such phases when the cache skips over them. `Pick`, `Refuse`, `Place` and
`DropConditions` are the KAI scheduler, external to this repository: it gives up
or binds on a snapshot, so its answer may come after the pod group has moved.

Left out: deleted pod groups, namespaces outside every project
(`AllowExternalQueues`, off by default), queues that come and go, the phases
`Empty` and `MissingPrerequisites` (the code treats both like `Ready`), how match
expressions select node pools, and node pools named twice in the annotation
(`IndexOfItemInList` finds the first of the two, so what follows the second is
never reached). Conditions other than the last are never read.

### ProjectLifecycle

State: the project, its namespace, one role binding, the limit range and the
queues in the API server (`live`) and in the caches (`seen`); the kinds whose
cache lags (`stale`) and those with an event under way that passes the filters
(`alarms`); what ConfigMaps and parent department say (`maps`), whether a blocker
matches (`work`), the work queue (`queued`) and the reconcile (`job`). Installation
options (how namespaces come about, Blocking deletion, `AllowExternalQueues`) are
chosen by `setup`.

A reconcile is `Reconcile` or `AddFinalizer` → `HandleNamespace` →
`HandleRoleBindings` (a changed role is a deletion and a creation) →
`HandleQueue` for each node pool → `FinishQueues` (delete the ones no longer
wanted) → `HandleLimitRange` → `ReconcileStatus`. A deletion is `Finalize` →
`CheckBlockers` → `QueueOnDelete` → `LimitRangeOnDelete` →
`ReconcileStatusOnDeletion`. A handler's error is recorded in its condition and
the next handler runs, as in the code. Each write is made, refused, or made with
its answer lost (`Call`); an update of a stale copy is a conflict. Caches are
delivered where the next step reads them (`ReadNext`), which loses no
interleaving that a step could tell apart.

Left out: several role bindings and subjects (one stands for them), which
workloads a configured blocker matches (a Boolean), the blockers' ConfigMap at
start-up, Kubernetes events and metrics. `NamespaceDeletionHandler` is never
constructed by the program. A status total is a set of resources, with the merge
of `PatchedStatus` modelled by what it does to keys that vanish.

### ShardCustody and SchedulingShards

`ShardCustody` has no controllers, caches or owners: a shard that predates KRM is
*theirs*, *ours* or *gone*; only an install or upgrade takes it over, only an
uninstall whose controllers have stopped gives it back, KRM changes settings only
in between, and an uninstall ends with nothing still ours.

`SchedulingShards` has the objects (`live`), the caches (`seen`) with events under
way (`stale`), the Helm operation (`helm`) with the hook job in progress (`hook`),
and the controller's work queue and reconcile. The migration hook is
`planMigrations` → `nodePoolForShard` → `migrate` per shard →
`ensureDefaultNodePool`; the cleanup hook is `deleteOperatorManagedDeployments` →
`releaseAdoptedSchedulingShards` → `startStripping` →
`stripNodePoolFinalizers` → `finishCleanup`. A hook fails or is killed anywhere
and starts over. The controller's part is `Reconcile` or `Finalize` →
`getSchedulerResources` → `CreateOrUpdateIfNeeded`, which resolves the shard a
second time → `reconcileNodePoolStatus`. Validators of both webhooks guard
everybody's writes and read the caches. Args are functions from a few keys. Fair
share is a record per side with what conversion between shard and node pool tells
apart: whether there is a usage database; a weight that is unset, zero, one,
negative, or of more precision than a float32; queries, half-life and window that
are unset, KAI's or KRM's default, or others; the address; and, which only a shard
has, the variable with the address, the client type and a window that cannot be
read. A merge patch changes each field by itself (`PatchedFair`).

The refinement mapping (`Custody`) computes custody from owner references: a
shard predates KRM if it is the incarnation of the start and KRM did not create
it, and it is *ours* if a node pool is its controller. The run checks
`Custody!Spec` as a property, and `SchedulingShardsProofs` proves it.

Left out: the check of the partition label key (`migrate_shards.go:141`), the
ServiceMonitor, moves of nodes (`NodePools`), an installation without a default
node pool and its error (`:158-162`), and the deletion of the KRMConfig at the end
of an uninstall. A Deployment that cannot be deleted ends the cleanup hook before it
has changed a shard, like a hook killed at its start, and the list of adopted shards
is read in the same step: once the Deployments are gone nothing adopts one. Of fair
share, sampling, the type of the window and its schedule are left out: both
conversions copy them. So are durations with a fraction of a minute, and the
patterns the CRD asks of a node pool's. Webhooks and controllers appear together at
the end of an install.

### NodePoolHealth

State: nodes, node pools, NodeResourceTopologies, schedulers' readiness and the
topology, live and cached; the events under way, each with whether the filter
lets it through (`stale`); the work queue, the reconcile, and whether the
controller found the NRT CRD when it started. `unheard` is a history variable: the
node pools some of whose input changed since it was read without an event that
says so. No guard reads it.

A reconcile handles the node pool's nodes (`HandleNode`: label, annotate, mark,
each a patch that may fail), then writes the status. `Finish` requeues a failed
one. `RestartForNrt` is the restart the controller asks for when the CRD
appears. A NodeResourceTopology has zones of NUMA nodes or none, and independently a
policy attribute that is absent, `None` or another: the annotation is made from the
attribute whatever the zones are, the condition from both.

Left out: pods and deletion (`NodePools`), how a scheduler becomes ready, the text
of messages (`by` says what they are about) and the mapping of events through
other node pools' messages. An absent condition and a false one are the same. The
node filter's comparison of `Status.Phase` (`filter_common.go:14-16`) is left out:
Kubernetes no longer sets that field.

### KrmOperator

State: the KRMConfig with its conditions, the objects of the operands, missing
dependencies, the presence of KAI and the optional CRDs, live and cached; events
under way; the work queue and the timer of `RequeueAfter`; the reconcile; and
`last`, what each operand remembers it wanted. An object's data is the revision of
the KRMConfig it was made from, plus the certificate volume of a Deployment,
because the builders set it and never clear it.

A reconcile is `Reconcile` → `Report` (conditions at the start) → `DesiredState`
(which may fail at any operand, with the earlier ones already remembered) →
`Deploy` (creates, then deletes, then updates, each of which may fail) →
`Evaluate` → `Report`. Creation errors keep the phases after them from running.
`RollOut` is the deployment controller, external, and `CollectGarbage` the garbage
collector.

Left out: rendering of arguments, affinity, ConfigMap contents and defaults; ServiceAccount,
Service and ConfigMap, which behave alike, are one kind; condition messages;
KRMConfigs other than the singleton, which the code ignores. The patches of one
report fail after any prefix of them but are one step; desired and current state
are computed in one step. A Service is thus created with the accounts, which
`objectsCreationOrder` puts first, instead of with the rest; no other object's
create, update or availability depends on it. `dependencyCheckInterval` is positive:
zero turns the re-check off (`krmconfig_controller.go:44`), and `Converges` is not
claimed for that.

## Runs

Passing runs check for deadlock only where the system cannot stop; the systems
come to rest when users do, so the configurations say `CHECK_DEADLOCK FALSE`.

| Run | Instance | Properties | Distinct states |
|---|---|---|---|
| `DepartmentTree` | 3 departments, 1 of them at the start, the other 2 symmetric; depth 2, 3 edits, 1 failure | `TypeOK`, `NoQueueLoop`, `AdmissionKeepsTree` | 693,133 |
| `QueueConvergence` | 2 departments, 3 edits, fair | `Converges` | 123,911 |
| `NodeConvergence` | 1 node pool and an unmanaged partition; labels, cordon, criteria and partition edited twice; 1 pod, fair | `Converges` | 130,083 |
| `NodeTypes` | 2 node pools (1 at the start), an unmanaged partition; labels, criteria and node pools edited twice; 1 pod, 1 failure | `TypeOK`, `CordonIsMarked`, `UnmanagedUntouched` | 1,118,122 |
| `PoolDeletion` | 1 node pool; 4 edits of labels, node pools, projects; 1 pod, 1 failure | `SettledPlaced` | 3,031,136 |
| `AssignerRotation` | 3 node pools to try, 1 edit, 1 failure, fair | `TypeOK`, `QueueFollowsPool`, `MarkedAfterTrying`, `Rotates` | 142,662 |
| `ProjectAtRest` | 7 set-ups, 2 edits, 1 failure; the suggested queue name belongs to another project | `TypeOK`, `NothingForgotten`, `BlockedIsKept`, `OthersKeepTheirQueues` | 1,014,698 |
| `ProjectSettles` | 4 set-ups, 2 edits, 1 failure, fair | `Settles` | 103,348 |
| `ShardsSettle` | installation beside 3 shards and a running one; 2 edits, 1 failure, fair | `TypeOK`, `HandedBack`, `SettingsKept`, `KeepsCustody`, `Settles` | 205,744 |
| `HealthReported` | 2 nodes, 2 node pools, 2 edits, 1 failure | `TypeOK`, `Reported` | 1,368,693 |
| `OperatorConverges` | 2 operands, 2 namespaces; 1 edit and 1 failure (with 1 operand where the edit touches every object), or 2 edits; fair | `TypeOK`, `SettledInstalled`, `Converges` | 215,945 |
| `SharedName` | a department has the project's name and its queue the suggested name | `ReadyMeansQueues` violated | |

Fourteen more configurations belong to the disagreements below. Each checks one
sentence of the repository and TLC refutes it: `ParentEntryReturns`,
`ExclusionReverted`, `ExclusionCordon`, `ExclusionForgotten`, `TargetPoolDeleted`,
`DeletedCandidate`, `PhaseStuck`, `HandArg`, `RecreatedPool`, `ShardTaken`, `NodeDown`,
`FailureHidden`, `RenameGap`, `VolumeStays`.

What they show:

- **`NoQueueLoop`**. The webhook reads a cache, so quick edits can make the
  departments' parents a loop. The queues never follow them: the walk up the
  live parents sees every loop the next write could close, because this
  controller is the only writer of parents and has one worker. With the walk on
  the cache (the mutant) two queues become each other's parent.
- **`AdmissionKeepsTree`**. With an up-to-date cache the webhook keeps the
  departments a forest within the depth limit; the height of the moved subtree
  must be counted (the mutant).
- **`Converges`** (departments). Once users stop, every department that asks for
  a queue has exactly one, under its parent's, whatever duplicates and held
  roots there were.
- **`CordonIsMarked`**. Cordon and label always go together although patches
  from stale copies of two controllers cross; a cordon without its label would
  never be lifted.
- **`UnmanagedUntouched`**. A node of an unmanaged partition is left alone, as long as
  users do not move it there while a visit of it is under way (J below).
- **`Converges`** (nodes). The node ends up where its labels and the criteria put
  it and, in a node pool, without a cordon of the controllers, although the end
  of a pod queues no request and an exclusion that waits is no error.
- **`SettledPlaced`** (`PoolDeletion`). A node pool's deletion leaves no node
  behind, with a recreated node pool of the same name, projects that hold it,
  failures and restarts. It is a statement about nodes that come from the default
  node pool: their events lead back to it, and it takes in a node whose node pool
  is gone. A node that comes from another node pool or from the excluded pool is
  missed (`TargetPoolDeleted`), and so is the node of an administrator who lifts
  the cordon of the drain, so the run has neither. `dropped`, a history variable
  that no guard reads, excepts node pools deleted before they had a finalizer: a
  recreated one that goes at once leaves the nodes that still carry its name.
- **`QueueFollowsPool`**. A patch from a stale copy never leaves a pod group in
  one node pool with the queue of another. It holds for pod groups created
  unassigned and for those with a single node pool; see R below for the others.
- **`MarkedAfterTrying`**. The mark appears only after every node pool in the
  list was reached or passed over as unavailable. *Reached* is not *refused*:
  after a lost answer a pod group can go back to an earlier node pool with the
  mark of the last one already written.
- **`Rotates`**. Between assigner and schedulers the pod group is never nobody's:
  it comes back to every available node pool again and again, although refusals
  come late, events are mapped through a stale cache and phases change.
- **`NothingForgotten`**, **`Settles`** (projects). When the controller has
  nothing left to do, a project has its namespace, role binding, limit range and
  exactly one queue per node pool, and a deleted one is gone with its queues or
  rightly kept. Retries and events together cover failed handlers, lagging caches
  and restarts, and the end is always reached. What the filters drop by design is
  excepted in `QueuesRight` and `LimitsRight` and listed below.
- **`BlockedIsKept`**. While a blocker holds a Blocking project its finalizer
  stays and its deletion removes no queue.
- **`OthersKeepTheirQueues`**. No queue of another project or department is taken
  over, although "taken" is read from a cache: the update carries a resource
  version. Deletion is another matter; see the disagreements.
- **`KeepsCustody`**. The detailed specification implements `ShardCustody`: even
  when the hook takes a shard over or gives it back between the two reads of a
  reconcile, the controller writes only to what a node pool has.
- **`HandedBack`**. After an uninstall, interrupted anywhere and repeated, no
  shard that predates KRM goes away with a node pool. The order of cleanup (stop,
  release, strip finalizers) is needed.
- **`SettingsKept`**. A shard that predates KRM has at every moment the settings it
  had, through migration with interruptions, upgrade, uninstall and reinstall; of
  fair share, what KAI makes of it (`Meaning`), without the variable and the client
  type, which `docs/concepts/node-pools.md:224-231` says are lost. It is a statement
  about first installs (`FromScratch`, which `FirstInstalls` requires of the set-ups
  of the run); `RecreatedPool` shows what the exception in it is about.
- **`Settles`** (shards). Helm operations that are repeated end, and every node
  pool ends with a shard of its own that carries its settings or with a status
  that says why not, also when two shards of one partition pass the webhook at once.
  `TakenMeanwhile` is the exception; `ShardTaken` shows that it is needed.
- **`Reported`**. At rest the status, and the condition and both annotations of each
  node, are true of what is stored, for every node pool of which no input changed
  without an event. The exception is `unheard`; `NodeDown` shows that it is needed.
- **`SettledInstalled`**, **`Converges`** (operator). What KRMConfig asks for is
  installed, from its present settings, nothing it once asked for is left, and the
  conditions say so of the present generation.

### Bounds

`MaxEdits`, `MaxBinds`, `MaxFailures`, `MaxMidSyncs`, `MaxIds` bound users, pods,
failures and restarts, queue events delivered in the middle of a reconcile, and
incarnations of shards and node pools. Two edits are the least that make a
decision stale while it is carried out; the run on deletion has four, enough to
fill, delete, recreate and delete a node pool; it agrees with five (8.7 million
states). A third department is what a
depth limit of two needs to be exceeded from below. One failure puts an error, a
lost answer or a restart at any step of any reconcile.

Where the product of all edits is too large, `Setups` lists situations with the
edits that matter in each: for projects the namespace modes and deletion options,
for the operator each kind of change, all but the webhook setting with one
failure. Every kind of edit is in some situation, and together the passing runs
take every disjunct of every next-state relation.

`NodeConvergence` was also checked with the criteria given at the start (940
thousand states) and `AssignerRotation`'s invariants with two edits from all node pools
ready (1.4 million states); two departments without the webhook agree too (273
thousand states), and so does `QueueConvergence` with a failure (650 thousand states)
and `DepartmentTree` with a department and its child at the start (1.4 million states).
`AssignerRotation` starts with all node pools ready, with one absent, or with one being
deleted and the default one unschedulable, so that one edit can also be a re-creation,
complete a deletion or make a node pool ready; with one node pool ready, unschedulable,
being deleted or absent at the start it agrees too (203 thousand states).
`ProjectAtRest` also holds when the namespace of a project
just adopted is removed and made again (3.2 million states).

In `DepartmentTree` the departments other than the root are permuted by `SYMMETRY`:
their queue names are built from them, no definition picks one of them, and the
properties of that run are safety properties.

### Fairness

Informers deliver what they have yet to deliver (weak fairness of each `Sync`
action), a started reconcile goes on (weak fairness of its steps), pods finish,
and the garbage collector collects. A waiting request is served although the
worker is often busy with others, because the work queue is first in, first out
and a failed request comes back after its back-off: strong fairness of
`Reconcile(d)`, `ReconcileNodePool(p)` and `ReconcileManagedNodes(key)`.
`SyncQueue` has strong fairness only because `MaxMidSyncs` disables it in the
middle of a reconcile. In
`PodGroupAssigner` there is one key, so weak fairness of `Reconcile` is enough;
the scheduler of a node pool that is ready takes up a pod group that is its own
and ends the attempt one way or the other, and other schedulers owe nothing.
In `ProjectLifecycle` there is one key too: the controller goes on (weak
fairness of its steps), orphans are collected, and `Sync` has strong fairness only
because `ReadNext` admits a delivery just where a step reads. In
`SchedulingShards` every node pool in the queue is taken up (strong fairness of
`Take(p)`), and the administrator repeats a Helm operation until it ends (weak
fairness of the hooks); KAI deploys the shards it is given. In `KrmOperator`
informers, timer, the operator's steps, the deployment controller and the garbage
collector each have weak fairness. `NodePoolHealth` has no liveness property and
no fairness. Users, failures and restarts have none anywhere.

## Proofs

TLAPS proves, for every set of departments, queues, nodes, node pools, roles and args,
every initial situation of the right type and every bound:

| Theorem | Statement |
|---|---|
| `DepartmentQueuesProofs!TypeCorrect` | `Spec => []TypeOK` |
| `DepartmentQueuesProofs!QueuesNeverLoop` | `Spec => []NoQueueLoop` |
| `DepartmentQueuesProofs!TreeKept` | `WebhookEnabled => (Spec => AdmissionKeepsTree)` |
| `NodePoolsProofs!NodeTypes` | `Spec => []TypeOK` |
| `NodePoolsProofs!CordonMarked` | `Spec => []CordonIsMarked` |
| `NodePoolsProofs!UnmanagedLeftAlone` | `"partition" \notin Edits` implies `Spec => UnmanagedUntouched` |
| `NodePoolsProofs!SettledCorrect` | `Edits` without `"pools"` and `"newPools"`, and `"cordon" \notin Edits` or `MaxFailures = 0`, imply `Spec => []SettledPlaced` |
| `PodGroupAssignerProofs!TypeCorrect` | `Spec => []TypeOK` |
| `PodGroupAssignerProofs!QueueCorrect` | if every workload starts unassigned or names no node pool, `Spec => []QueueFollowsPool` |
| `PodGroupAssignerProofs!MarkCorrect` | if every workload that has the annotation starts unassigned, `Spec => []MarkedAfterTrying` |
| `ProjectLifecycleProofs!TypeCorrect` | `Spec => []TypeOK` |
| `ProjectLifecycleProofs!BlockedKept` | `Spec => BlockedIsKept` |
| `ProjectLifecycleProofs!OthersKept` | `Spec => OthersKeepTheirQueues` |
| `SchedulingShardsProofs!TypeCorrect` | `Spec => []TypeOK` |
| `SchedulingShardsProofs!HandedBackCorrect` | `Spec => []HandedBack` |
| `SchedulingShardsProofs!CustodyKept` | `Spec => KeepsCustody`, the whole refinement of `ShardCustody` |
| `ShardSettingsProofs!SettingsCorrect` | `Spec => [](FromScratch(setup) => SettingsKept)` |
| `NodePoolHealthProofs!TypeCorrect` | `Spec => []TypeOK` |
| `NodePoolHealthProofs!ReportedCorrect` | `Spec => []Reported` |
| `KrmOperatorProofs!TypeCorrect` | `Spec => []TypeOK` |
| `KrmOperatorProofs!SettledCorrect` | `Spec => []SettledInstalled` |

The assumptions are `ConstantsAssumption` of the first five modules,
`HealthAssumption` of `NodePoolHealth` and `OperatorAssumption` of `KrmOperator`,
which TLC evaluates in every run of them. They say that the bounds are numbers, that
model values are told apart, and that every initial situation in `Setups` has the
types the variables have, with (in `DepartmentQueues`) finitely many departments,
none of them called like the value for a parent that is missing, (in `SchedulingShards`) incarnations that are counted,
(in `NodePoolHealth`) no NodeResourceTopology where the CRD is not installed, and (in
`KrmOperator`) operands that differ and a KRMConfig of the first generation.

*No queue loop.* `NoQueueLoop` is not inductive: it says nothing of a walk under
way. The strengthening adds what the walk has established so far. Parents of
live queues change only by this controller's own write, at the end of the walk,
and otherwise queues only disappear. So every queue the walk has passed either
still points where it pointed or is gone, and a set of live queues closed under
parents that contained the new edge would have to lead from the new parent back
to the queue; the walk would have met the queue. Deleting a queue removes it from
every such set.

*The department tree.* `AdmissionKeepsTree` compares what the webhook computes, the
number of ancestors and the height of the edited department by walking upwards
from departments, with a statement about sets: no nonempty set of departments has the
parents of all its members in itself, and the smallest set around a department that is
closed under parents (its line) has at most `MaxDepth` members. The walk is a recursive
function, and the library's induction rules take a predicate as parameter, which the provers
cannot instantiate. Instead, a number at which a property fails has a least one
(`WFMin` on the natural numbers, lemmas `Least` and `UpTo`). With it the walk is shown to
exist, to stay in the line, and in a forest to meet no department twice, so that it has
as many steps as the line has members (`WalkExists`, `NoneTwice`, `CountMet`). An edit
changes the parent of one department `d` (`Moved`). Lines without `d` stay as they were. A
line through `d` reaches it within `MaxDepth` steps, since the part below `d` is part
of an old line (`FarLine`); that part is at most as long as the height that was counted,
and the rest is the line of `d` (`NearLine`). `Parented` is the invariant beside the types:
the parent of a department, and any department in the cache, has been created.

*Cordon and label.* The invariant `Marked` says that cordon and label agree on
the live node, on the cached one and on each worker's copy. A patch for the
label alone is sent only when the copy's cordon already has the wanted value;
with the copy consistent that never happens, so every patch writes both halves.

*Unmanaged partitions.* `Unvisited` says that a node in an unmanaged partition is
cached as such and no controller has a visit of it under way. Without the
hypothesis that users leave the partition alone it is false: see J below.

*Where the node rests.* `SettledPlaced` says nothing of a state in which something is
still to be done. `Attended` says what: unless a change of the node is still to be
delivered, a node in the wrong node pool, *or under a cordon of the controllers*, has
the request of its node pool in the queue or a reconcile of it that has an error,
has not listed nodes yet or visits the node as it is now (`NodePoolAttends`); and a node
that the cached ManagedNodesConfig wants out or in has a request or a visit of the
other controller (`ManagedAttends`), except for one that waits to be excluded: that
wait is no error and nothing of the second controller is left. But such a node
is under a cordon, so the first controller is not at rest: its check of the node
either fails and is repeated while pods run or lifts the cordon, which is a change
of the node and takes it back to the second. A visit that works on an old copy
proves nothing, and need not: since then the node has changed, and that change is
undelivered or has queued requests. Both hypotheses are needed. With node pools that
come and go the statement is false (`TargetPoolDeleted`); and on a node that an
administrator cordoned, the patch that adds the controllers' label may fail without
being an error, so that the node waits without the cordon the argument rests on
(`ExclusionForgotten`).

*Queue and node pool.* `AssignmentInv` says that label and queue agree on the
live pod group, on the cached one and on the worker's copy, where an unassigned
one has neither. The wanted label and queue name the same node pool, so they both
differ from the copy or neither does, and the patch holds both or neither. A
label copied from the workload without a queue breaks exactly this, hence the
hypothesis.

*Marks.* `MarkedAfterTrying` speaks of the history variable `tried`, which the
assigner does not have. The invariant says that the node pools tried so far are a
prefix of the requested list, that whatever API server, cache, worker's copy or a
scheduler's snapshot tell of the pod group, however old, names only node pools of
that prefix, that a choice under way extends it by at most one, and that a mark
comes with the last one. The property is about lists that the annotation gives: those
made from node affinity have no order to keep. For the types they matter:
`FromAffinity` is a recursive function over the requested list, and the least-number
argument of the department tree shows that it exists and returns a list of node pools
(`NamesExist`, `AffinityTyped`).

*Projects.* The deletion of a project works on the cached project, and another of
the same name may have replaced it. The invariant says that no reconcile puts the
finalizer on a project while the cache still shows the one before it, so what the
deletion of the first reaches is not yet protected and not yet blocked; that a
blocker found absent stays absent for as long as the deletion goes on, because
workloads do not start under a project that is being deleted.
`OthersKeepTheirQueues` needs the types only: a queue is created under a name that
is free, or updated with the resource version of a copy that has no owner or this
one, so each write is refused where it would take a queue over.

*Shards.* `Held` says of every shard that predates KRM: as long as the API server
has this incarnation the cache has it too, however old; whoever shows it in the
hands of a node pool, API server, cache or reconcile, also shows it as adopted;
and while the controllers run, an ownership the cache shows is still there.
`WriteHeld` carries that to what a reconcile is about to write, `PoolsKept` says
that the node pool it writes for still has its finalizer, and `Releases` says that
the cleanup hook has every adopted shard before it or behind it. `HandedBack`
follows from the second and the last. For the refinement, each action is then one
abstract step or none: adopting a shard is `TakeOver`, the reconcile's write is
`Write`, the release of a shard `GiveBack`, garbage collection `Collect`, the end
of a hook `Proceed`, and an edit `ByHand`.

*Settings of shards.* `SettingsKept` speaks of the shard; `KeptInv` follows the
settings through everyone who passes them on. Wherever a node pool that owns a shard
which predates KRM is known (API server, cache of a running controller, copy of the
reconcile), its settings *fit*: what `buildShardArgs` and the fair share conversion
make of them is what the shard had (`Fits`, lemmas `RoundTrip`, `FitsGives` and `PlanFits`). A
planned migration has its partition to itself, carries the settings of its shard, and
the node pool it found is still as it was until its turn comes (`PlanKept`,
`Unpatched`), so the merge patch makes that node pool fit. Shards change hands only
while no controller runs, and the controllers start with nothing left to migrate, so
no reconcile works for a node pool that has not been patched; what a reconcile is
about to write already keeps the settings (`WriteKept`), although the shard it read
may be old. The hypothesis `FromScratch` says what the argument needs of the start: no
controller runs, no shard is adopted already, node pools are named and counted, and
people do not both delete and create node pools. Without the last one the statement is
false: `RecreatedPool`.

*Node pool status.* `Reported` speaks of the moment when nothing is left to do; the
invariant has to say of every earlier moment what is still to come. `Followed` does,
for each node pool: it is queued or counted as unheard, or an event on its way will
make it so, or its reconcile holds the node pool and its nodes as they are stored, or
nodes and status are already in order. `Lags` is what makes it inductive: a cache
differs from what is stored only while an event is on its way to each node pool the
difference concerns; for a node that is its node pool in the cache and the one it is
in, and a difference in annotations or condition alone does not count. So a reconcile
after which nothing is on its way to its node pool has read what is stored: any node
it moved, any status it wrote would be under way to it again. A
NodeResourceTopology's event finds its node pool through the *cached* node, and the
proof needs that a node cached in another node pool has an event of its own coming.
The exceptions the code really has are in the statement, through `unheard`: the
readiness of a node, an update of a NodeResourceTopology, a Topology, and the
controller's own writes to a node it has not seen yet.

*The operator.* `SettledInstalled` is again about the moment when nothing waits. The
invariant is about the events (`Followed`): as long as none that queues a reconcile is
on its way or in the queue, KRMConfig is as the reconcile in progress read it, and what
the calls of that reconcile still have to do is exactly what is missing or too many
(`Planned`). `Lags` says that the caches differ from what is stored only while such an
event is on its way, except in objects that belong to no KRMConfig. Every call that
changes an object KRMConfig owns is itself an event, so a reconcile after which nothing
waits has changed nothing, and what it wanted was there. Kinds that are not watched are
excepted in the property; so is what an earlier KRMConfig left and the garbage
collector has still to remove.

Only model-checked:

- liveness (`Converges`, `Rotates`, `Settles`...), which is outside the prover's
  reach;
- `SettledPlaced` with node pools that users create and delete, the case of the run
  `PoolDeletion`. It holds of that instance and not in general: with a second node
  pool or an excluded pool a node can be missed (`TargetPoolDeleted`);
- `NothingForgotten`. Like `Reported` and `SettledInstalled` it says that a controller
  with nothing left to do has done everything, but of several handlers, each with its own
  objects, filters and exceptions; its inductive invariant would have to say of every
  intermediate state of a reconcile which event or retry is still to come for each of
  them. TLC goes through these states.

## Disagreements

What the code does against what the repository says of it. The first has a run.

- `SharedName`: a suggested queue name held by the department that has the
  project's name looks free, because project and department are passed in the
  opposite order (`queue_utils.go:504` and `:520`). The create ends in
  `AlreadyExists`, which counts as success, and the project is Ready without a
  queue (`docs/reference/conditions-and-phases.md:70`).

The next fourteen have a configuration whose counterexample shows the behaviour.

- `ParentEntryReturns`: a parent department's queue entry is removed and put
  back before its queue is deleted. A child reconciled in between became a root
  and stays one, because the parent's queue emits no event
  (`department_reconciler.go:304`; `docs/concepts/projects-and-departments.md:49`).
- `ExclusionReverted`: the request of one node does not clear the drain marker
  of a node that matches again before it was drained
  (`managed_nodes_config_reconciler.go:75`;
  `docs/how-to/exclude-nodes-from-management.md:124`).
- `ExclusionCordon`: an exclusion from a stale copy skips the un-cordon and
  relabels the node, which stays cordoned in the excluded pool
  (`node_status_handler.go:82`; `docs/how-to/troubleshooting.md:227`).
- `ExclusionForgotten`: on a node an administrator cordoned, an error of the patch that
  adds the controllers' label is logged and dropped (`node_status_handler.go:83-89`),
  and an exclusion that waits is no error. After two such errors, with the drain
  marker set in between, nothing is queued any more: the node stays in its node pool
  when its pods have finished (`docs/how-to/exclude-nodes-from-management.md:105`,
  "Only once no workload of its old node pool remains does it move to the excluded
  pool").
- `TargetPoolDeleted`: a node on its way into a node pool is missed by the
  deletion of that node pool and keeps the label of a node pool that is gone
  (`nodepool_handler.go:241`; `docs/concepts/node-pools.md:180`).
- `DeletedCandidate`: a requested node pool that does not exist is an error of
  the whole choice, so the pod group is not brought to the others
  (`nodepool_assignment_params.go:58`; `docs/concepts/workload-placement.md:128`).

- `PhaseStuck`: a reconcile on lagging caches fails to create a role binding or
  limit range that exists and writes NotReady. The next one works on a project
  cached before that patch, finds its conditions unchanged and writes nothing, and
  status updates wake nobody (`project_status_handler.go:106`;
  `docs/concepts/projects-and-departments.md:103`).
- `HandArg`: which args KRM manages is noted in an annotation, and a shard whose
  spec already fits is not written, so after an uninstall and a reinstall it has
  none. An arg added by hand then is taken for KRM's own and removed
  (`scheduling_shard.go:88`; `docs/concepts/node-pools.md:162-164`, "including args
  you add by hand, is left alone").
- `RecreatedPool`: the migration patches a node pool with what differs from the copy
  it planned with. If people delete that node pool and create it again in between, the
  new one keeps its own value of whatever did not differ in the old one, and the
  controller then brings the shard to that value (`migrate_shards.go:325-335`;
  `docs/concepts/node-pools.md:210-212`, "The node pool takes the shard's settings").
- `ShardTaken`: somebody creates a shard under a node pool's name while the caches
  still show none. The controller's create meets `AlreadyExists`, which counts as done
  (`utils/resource.go:36`), and the events of a shard without an owner queue nobody: the
  status goes on waiting for a scheduler (`docs/concepts/node-pools.md:166-169`, "its
  status message names the shard and the fix").
- `NodeDown`: a node that stops being Ready passes no filter, so the node pool's
  phase stays Ready (`common/filter_common.go:12-27`; `conditions-and-phases.md:21`).
- `FailureHidden`: the status is deferred "so a failure below still reports as a
  non-ready condition" (`krmconfig_controller.go:90-91`), but it is computed from
  what the operands remember they wanted. When the first reconcile fails before
  they remember anything, Ready is True with nothing installed.
- `RenameGap`: when the namespace is changed and changed back before the cache shows
  the first change, creates and deletes are computed from objects that are gone and
  the deletion leaves the service absent (`deployable.go:58-59`, "a rename never
  leaves the service absent in between").
- `VolumeStays`: a Deployment keeps the certificate volume after the webhook is
  turned off, because it is built on top of the cached one
  (`operands/nodepool-controller/resources.go:58-59`).

Met while modelling and followed with the same modules, without a configuration of
their own:

- A: the cordon of a node that waits for its exclusion is lifted by the check of
  the node pool it is still in (`node_status_handler.go:45`;
  `docs/how-to/exclude-nodes-from-management.md:102`). `Converges` shows it
  still gets there.
- C: on a node an administrator cordoned, the controllers put their own label
  and later lift the cordon (`node_handler.go:140`;
  `docs/how-to/troubleshooting.md:226`).
- E: `AlreadyExists` is taken for success although the queue has no owner, so a
  queue without an owner is never adopted (`queue_utils.go:113`, comment at
  `:98-101`).
- F: a pod bound between the check of the pods and the relabel is carried into
  another pool (`node_handler.go:38`; `docs/concepts/node-pools.md:108`).
- G: a department is let go on cached projects, so one created a moment before
  is left without its parent (`department_reconciler.go:134`;
  `docs/concepts/projects-and-departments.md:171`).
- J: a visit under way relabels a node that a user has just put in an unmanaged
  partition (`node_handler.go:288`; `docs/concepts/node-pools.md:268`).
- M: node pools that are being deleted are dropped from an affinity's list; when
  all are, the pod group goes to the default node pool for good, instead of
  waiting (`converter.go:55`; `docs/concepts/workload-placement.md:115`).
- O: a pod group whose pods were bound after the cache was read is still moved
  (`pod_group_assigner.go:416`;
  `docs/how-to/place-workloads-across-node-pools.md:174`).
- Q: a constraint set by hand between the read and the patch, or while the
  annotation of an earlier system constraint is there, is overwritten
  (`network_topology.go:39`; `docs/concepts/workload-placement.md:159`).
- R: a pod group whose label was copied from the workload and which names
  several node pools can get the queue of one and the label of another when its
  first patch is not yet in the cache. The next reconcile repairs it.
- S: a pod group with one node pool is marked unschedulable
  (`nodepool_assignment_params.go:126`;
  `docs/how-to/place-workloads-across-node-pools.md:168`).
- T: a list taken from the affinity can shrink to one when it is rebuilt after
  `ClearNodePoolListCachePeriodically` or a restart. From a stale copy that is
  already in that one, the patch ends the back-off without writing the label, and
  the pod group stays where it was, in a node pool that may be going away
  (`pod_group_assigner.go:315`, "Dropping every entry is safe").

Projects and queues:

- Removing a node pool from a project deletes its queue although the queue has the
  override label; so does the garbage collector
  (`docs/concepts/projects-and-departments.md:154-156`).
- Queues are deleted by name from a cached list (`queue_utils.go:150`), so a queue
  of that name that somebody else made meanwhile is deleted. Hence
  `OthersKeepTheirQueues` speaks of take-over only.
- A resource that vanishes from all queues stays in the project's total: the
  merge patch never removes its key (`project_status_handler.go:232-233`).
- A Blocking project whose namespace never came about cannot be deleted
  (`limit_range_deletion_handler.go:40-42`; `docs/how-to/troubleshooting.md:354`).
- A project deleted while overridden is not finalized when the label is removed
  later; a namespace whose label is removed, and a limit range without an owner or
  outside KRM's namespaces, are not repaired: the filters drop these events.
- A role reference whose kind is not ClusterRole never settles, and subjects that
  are service accounts are created without a namespace first and corrected by the
  retry.
- Force deletion skips the deletion handlers; the finalizer's merge patch replaces
  finalizers that others added meanwhile.

Shards and hooks:

- A shard with the literal partition `default` is admitted and never reconciled
  (`schedulingshard_validator.go:27`), and two shards of one partition created at
  once both pass the webhooks, which read caches.
- The migration can hand a shard to a node pool that is being deleted; an upgrade
  with a lagging cache writes old settings for a moment; an operator that is still
  terminating can recreate a Deployment the cleanup deleted.

Node pool status:

- Updates of a NodeResourceTopology are dropped by `filterUpdateEvents`
  (`nodepool_event_filter.go:46-62`), against the comment on
  `MapNrtToNodePoolEvent`, and edits of a KAI Topology are not watched.
- `MissingPrerequisites` is accepted for placement
  (`docs/concepts/workload-placement.md:101-102`).

Operator:

- `UpdateStartReconcileStatus` writes Deployed for the new generation from what was
  wanted before; Reconciling ends as "completed successfully" after a failure too.
- When the VPA CRD is installed after the start, creation meets `AlreadyExists`
  and the update carries no resource version; it is refused until a restart.
- Availability ignores the Deployment's observed generation.

## Not modelled

`PROJECT.json` lists every component with what is left out of it.

- *ManagedNodesConfig status* and *metrics*: derived from lists, and nothing reads
  them back.
- *Topology controller*: copies one object into one other and shares no state with
  the rest; a model would restate the copy.
- *How match expressions select node pools* and the *pod mutators*: pure functions
  of one object without history, which the unit tests enumerate. `PodGroupAssigner`
  takes their result as an input.
- *Consistency checks of the project webhook* and the *queue webhook's* rule on
  foreign queues: single conditions on one object. What the controllers do without
  them is in the models, which do not assume them.
- *Rendering* of arguments, Deployments, ConfigMaps and defaults; the hooks that
  apply CRDs and configuration and compare versions; clients, configuration,
  profiling and mains: data conversion and start-up without protocol state.
- *Two nodes with pods* in one model. `NodePools` has one node, `NodePoolHealth` two
  without pods; requests of different nodes share the work queue and no state.
- *Uninstall seen by the nodes*: the removal of labels when KRM leaves.
- *Composition of departments and projects* in one queue tree. `ProjectLifecycle` has
  the department's queue as an object that others own, and its node pools as an
  input (`maps.parents`).
