------------------------------ MODULE NodePools ------------------------------
(***************************************************************************)
(* One node as the two controllers of the nodepool-controller see it: the  *)
(* NodePool controller, which moves the node to the node pool its labels   *)
(* select, and the ManagedNodesConfig controller, which moves it in and    *)
(* out of the excluded pool.  Neither moves a node under running pods:     *)
(* each cordons it, waits for the pods of its pool to finish, and then     *)
(* un-cordons and relabels it with two patches.                            *)
(*                                                                         *)
(* Both controllers run in one process, each with one worker, on shared    *)
(* informer caches that may lag behind the API server.  Their patches are  *)
(* merge patches without a resource version: a patch never conflicts, and  *)
(* its answer refreshes the worker's copy of the node.  A reconcile visits *)
(* its nodes one at a time and nothing a visit does depends on another     *)
(* node, so one node is modelled.  Users relabel and cordon the node, edit *)
(* the ManagedNodesConfig, create and delete node pools; the schedulers    *)
(* bind pods; calls fail and the process restarts.                         *)
(***************************************************************************)
EXTENDS Integers, FiniteSets

CONSTANTS
    Pools,       \* names of the node pools other than the default one
    Default,     \* the default node pool: the node-pool label is absent
    Excluded,    \* the pool of the nodes kept out of management
    Unmanaged,   \* partition label values of the unmanaged shards
    Find,        \* "": the new pool is looked up by the node's labels
    Roster,      \* the node pools that exist at the start
    Edits,       \* the kinds of edits users make
    MaxEdits,    \* bound: edits by users
    MaxBinds,    \* bound: pods bound to the node
    MaxFailures  \* bound: failed patches and restarts

ASSUME ConstantsAssumption ==
    /\ {Default, Excluded, Find} \cap (Pools \cup Unmanaged) = {}
    /\ Default # Excluded /\ Default # Find /\ Excluded # Find
    /\ Pools \cap Unmanaged = {}
    /\ Roster \subseteq Pools
    /\ Edits \subseteq {"labels", "criteria", "cordon", "partition",
                      "projects", "pools", "newPools"}
    /\ MaxEdits \in Nat
    /\ MaxBinds \in Nat
    /\ MaxFailures \in Nat

VARIABLES
    node,      \* the Node object in the API server
    pools,     \* the NodePool objects
    criteria,  \* whether a ManagedNodesConfig restricts the managed nodes
    projects,  \* the node pools some Project holds a queue for
    pods,      \* the pools that pods bound to the node were admitted to
    cache,     \* the informer caches of the five
    unseen,    \* whether the cache has yet to deliver a change of the node
    queue,     \* the work queues of the two controllers
    job,       \* the reconcile each of them has in progress
    dropped,   \* the node pools deleted before they had a finalizer (history)
    edits, binds, failures

vars == <<node, pools, criteria, projects, pods, cache, unseen, queue, job,
          dropped, edits, binds, failures>>

objects == <<node, pools, criteria, projects, pods>>
bounds == <<dropped, edits, binds, failures>>

-----------------------------------------------------------------------------
(* Objects *)

NodePoolNames == Pools \cup {Default}
PoolLabels == NodePoolNames \cup {Excluded} \cup Unmanaged

\* pool: the node-pool label; labels: the node pools whose labelKey and
\* labelValue the node carries; managed: whether it carries what the
\* inclusion criteria ask for; unschedulable: spec.unschedulable; byUs: the
\* kai.scheduler/unschedulable label; toExclude: the should-be-excluded label.
Node == [pool : PoolLabels, labels : SUBSET Pools, managed : BOOLEAN,
         unschedulable : BOOLEAN, byUs : BOOLEAN, toExclude : BOOLEAN]

\* New: without the controller's finalizer yet; Deleting: with it.
PoolState == {"Absent", "New", "Active", "Deleting"}

Cache == [node : Node, pools : [NodePoolNames -> PoolState], criteria : BOOLEAN,
          projects : SUBSET Pools, pods : SUBSET NodePoolNames]

Controllers == {"nodePools", "managedNodes"}
Requests == NodePoolNames \cup {"node", "config"}

\* A visit of the node: move says whether it changes the pool (from old to
\* new) or checks the node in the pool it has (old); drain is what the listed
\* pods told; todo is the first of the reconcile's lists it has not been
\* through; err collects the errors of the reconcile.
Job == [step : {"idle", "list", "validate", "assign", "mark"},
        key : Requests,
        finalizing : BOOLEAN, todo : 1..4, copy : Node, available : SUBSET Pools,
        move : BOOLEAN, old : PoolLabels, new : NodePoolNames \cup {Excluded, Find},
        drain : BOOLEAN, err : BOOLEAN]

InitNode(pool) == [pool |-> pool, labels |-> {}, managed |-> TRUE,
                   unschedulable |-> FALSE, byUs |-> FALSE, toExclude |-> FALSE]

Idle == [step |-> "idle", key |-> "node", finalizing |-> FALSE, todo |-> 1,
         copy |-> InitNode(Default), available |-> {}, move |-> FALSE,
         old |-> Default, new |-> Default, drain |-> FALSE, err |-> FALSE]

Init ==
    /\ node \in {InitNode(pool) : pool \in {Default} \cup Unmanaged}
    /\ pools = [p \in NodePoolNames |-> IF p \in Roster \cup {Default} THEN "Active" ELSE "Absent"]
    /\ criteria = FALSE
    /\ projects = {}
    /\ pods = {}
    /\ cache = [node |-> node, pools |-> pools, criteria |-> criteria,
                projects |-> projects, pods |-> pods]
    /\ unseen = FALSE
    /\ queue = [c \in Controllers |-> {}]
    /\ job = [c \in Controllers |-> Idle]
    /\ dropped = {} /\ edits = 0 /\ binds = 0 /\ failures = 0

-----------------------------------------------------------------------------
(* What the handlers compute *)

MutantIsUnmanaged(n) == FALSE

IsUnmanaged(n) == n.pool \in Unmanaged

\* The node pools the cache shows and that are not being deleted; the phase Deleting, which the
\* index counts too, is only written once the deletion timestamp is there.
getAvailableNodePools == {p \in Pools : cache.pools[p] \in {"New", "Active"}}

MutantFindMatching(n, available) ==
    IF available \cap n.labels = {} THEN {Find} ELSE available \cap n.labels

\* The first listed node pool whose label the node carries; the cache lists
\* in no particular order.
findMatchingNodePoolFromList(n, available) ==
    IF available \cap n.labels = {} THEN {Default} ELSE available \cap n.labels

arePodsRunningWithSameNodePool(pool) == pool \in cache.pods
arePodsRunningWithDifferentNodePool(pool) == cache.pods \ {pool} # {}

MutantNeedsCordonPatch(copy, u) == IF copy.unschedulable = u THEN copy.byUs # u ELSE u
MutantCordonPatch(n, copy, u) == [n EXCEPT !.unschedulable = u]

\* updateNodeUnschedulableIfNeeded: whether a patch is sent for the copy at
\* hand, whether it concerns the label alone, and what it makes of the node.
NeedsCordonPatch(copy, u) ==
    IF copy.unschedulable = u THEN copy.byUs # u ELSE u \/ copy.byUs
LabelOnly(copy, u) == copy.unschedulable = u
CordonPatch(n, copy, u) ==
    IF LabelOnly(copy, u) THEN [n EXCEPT !.byUs = u]
    ELSE [n EXCEPT !.unschedulable = u, !.byUs = u]

\* Which node pools a node event reconciles: the node's own, and those that
\* wait for a node the controllers have cordoned.
MapNodeToNodePoolEvent(n) ==
    LET home == IF n.pool \in NodePoolNames /\ cache.pools[n.pool] # "Absent" THEN n.pool ELSE Default
        dest == {p \in (getAvailableNodePools \cap n.labels) : p # home}
    IN  IF n.pool = Excluded \/ IsUnmanaged(n) THEN {}
        ELSE {home} \cup (IF n.byUs /\ n.unschedulable
                          THEN IF dest = {} THEN {Default} ELSE dest
                          ELSE {})

Change(old, new) == [move |-> TRUE, old |-> old, new |-> new]
Check(pool) == [move |-> FALSE, old |-> pool, new |-> pool]

\* The visits of the k-th list of a reconcile, for a cached node n: of a node
\* pool, of the default one, and of either.
NodePoolVisits(pool, k, n) ==
    CASE k = 1 /\ n.pool = pool /\ pool \notin n.labels -> {Change(pool, Find)}
      [] k = 2 /\ n.pool = Default /\ pool \in n.labels -> {Change(Default, pool)}
      [] k = 3 /\ n.pool = pool /\ pool \in n.labels -> {Check(pool)}
      [] OTHER -> {}

DefaultVisits(k, n, available) ==
    CASE k = 1 /\ n.pool = Default ->
           {IF found = Default THEN Check(Default) ELSE Change(Default, found) :
               found \in findMatchingNodePoolFromList(n, available)}
      [] k = 2 /\ n.pool \notin available \cup {Default, Excluded} \cup Unmanaged ->
           {Change(n.pool, Find)}
      [] OTHER -> {}

ReconcileNodes(pool, k, n, available) ==
    IF pool = Default THEN DefaultVisits(k, n, available) ELSE NodePoolVisits(pool, k, n)

MutantReassign(pool, k, n) == {}

\* The one list of a node pool that is being deleted.
reassignNodeForDeletingNodePool(pool, k, n) ==
    IF k = 1 /\ n.pool = pool THEN {Change(pool, Find)} ELSE {}

MutantMatchesInclusionCriteria(n) == cache.criteria /\ n.managed

\* filterNodesBasedOnNodeSelector for the cached node and ManagedNodesConfig.
MatchesInclusionCriteria(n) == cache.criteria => n.managed

-----------------------------------------------------------------------------
(* The API server: writes and failed calls *)

\* A merge patch that makes the live node n.
PatchNode(n) == node' = n /\ unseen' = (unseen \/ n # node)

Fails == failures < MaxFailures /\ failures' = failures + 1

\* A reconcile ends; its request is queued again when it had an error.
Finish(c, err) ==
    /\ job' = [job EXCEPT ![c] = Idle]
    /\ queue' = IF err THEN [queue EXCEPT ![c] = @ \cup {job[c].key}] ELSE queue

-----------------------------------------------------------------------------
(* The NodePool controller *)

\* addControllerAsFinalizerIfNeeded, for the node pool as cached.
addFinalizer(p) ==
    pools' = IF pools[p] = "New" THEN [pools EXCEPT ![p] = "Active"] ELSE pools

ReconcileNodePool(p) ==
    LET st == cache.pools[p]
        start == [Idle EXCEPT !.step = "list", !.key = p, !.finalizing = (st = "Deleting")]
    IN  /\ job["nodePools"].step = "idle"
        /\ p \in queue["nodePools"]
        /\ \/ /\ st = "Absent"
              /\ queue' = [queue EXCEPT !["nodePools"] = @ \ {p}]
              /\ UNCHANGED <<pools, job, failures>>
           \/ /\ st # "Absent"
              /\ st = "New" => pools[p] # "Absent"
              /\ IF st = "New" THEN addFinalizer(p) ELSE UNCHANGED pools
              /\ queue' = [queue EXCEPT !["nodePools"] = @ \ {p}]
              /\ job' = [job EXCEPT !["nodePools"] = start]
              /\ UNCHANGED failures
           \/ /\ st = "New"        \* the finalizer patch fails: try again
              /\ pools[p] # "Absent"
              /\ Fails
              /\ UNCHANGED <<pools, queue, job>>
        /\ UNCHANGED <<node, criteria, projects, pods, cache, unseen, edits, binds, dropped>>

\* deleteFinalizer: by name, whatever node pool has the name now.
deleteFinalizer(p) ==
    pools' = [pools EXCEPT ![p] = CASE @ = "Deleting" -> "Absent"
                                    [] @ = "Active" -> "New"
                                    [] OTHER -> @]

\* getNodePoolDeletionStatus: what holds a node pool that is being deleted.
IsHeld(j) == (j.todo > 1 /\ j.copy.unschedulable) \/ j.key \in cache.projects

\* The end of a deletion: wait for what holds the node pool, or let it go.
finalize(j) ==
    \/ /\ j.err \/ IsHeld(j)
       /\ Finish("nodePools", TRUE)
       /\ UNCHANGED <<pools, failures>>
    \/ /\ ~j.err /\ ~IsHeld(j)
       /\ \/ deleteFinalizer(j.key) /\ Finish("nodePools", FALSE) /\ UNCHANGED failures
          \/ Fails /\ Finish("nodePools", TRUE) /\ UNCHANGED pools

\* The next list of the reconcile that has the node, or the end of it.
ListNodes ==
    LET j == job["nodePools"]
        available == IF j.finalizing THEN getAvailableNodePools \ {j.key} ELSE getAvailableNodePools
        visits(k) == IF j.finalizing THEN reassignNodeForDeletingNodePool(j.key, k, cache.node)
                     ELSE ReconcileNodes(j.key, k, cache.node, available)
        lists == {k \in j.todo..3 : visits(k) # {}}
    IN  /\ j.step = "list"
        /\ \/ \E k \in lists : \E v \in visits(k) :
                /\ \A i \in lists : k <= i
                /\ job' = [job EXCEPT !["nodePools"] =
                     [j EXCEPT !.step = "validate", !.todo = k + 1, !.copy = cache.node,
                               !.available = available, !.move = v.move, !.old = v.old, !.new = v.new,
                               !.drain = IF v.move THEN arePodsRunningWithSameNodePool(v.old)
                                         ELSE arePodsRunningWithDifferentNodePool(v.old)]]
                /\ UNCHANGED <<pools, queue, failures>>
           \/ /\ lists = {}
              /\ ~j.finalizing
              /\ Finish("nodePools", j.err)
              /\ UNCHANGED <<pools, failures>>
           \/ lists = {} /\ j.finalizing /\ finalize(j)
        /\ UNCHANGED <<node, criteria, projects, pods, cache, unseen, edits, binds, dropped>>

-----------------------------------------------------------------------------
(* The ManagedNodesConfig controller *)

\* splitNodeToIncludedExcluded and the steps of a reconcile; the request of
\* one node leaves out the last of them.
ReconcileManagedNodes(key) ==
    LET n == cache.node
        start == [Idle EXCEPT !.key = key, !.copy = n]
        excludes == ~IsUnmanaged(n) /\ n.pool # Excluded /\ ~MatchesInclusionCriteria(n)
        includes == n.pool = Excluded /\ MatchesInclusionCriteria(n)
        reverts == /\ key = "config" /\ n.toExclude
                   /\ ~IsUnmanaged(n) /\ n.pool # Excluded /\ MatchesInclusionCriteria(n)
    IN  /\ job["managedNodes"].step = "idle"
        /\ key \in queue["managedNodes"]
        /\ queue' = [queue EXCEPT !["managedNodes"] = @ \ {key}]
        /\ \/ /\ excludes
              /\ job' = [job EXCEPT !["managedNodes"] =
                   [start EXCEPT !.step = "validate", !.move = TRUE, !.old = n.pool, !.new = Excluded,
                                 !.drain = arePodsRunningWithSameNodePool(n.pool)]]
           \/ /\ includes
              /\ job' = [job EXCEPT !["managedNodes"] =
                   [start EXCEPT !.step = "validate", !.move = TRUE, !.old = Excluded, !.new = Default,
                                 !.drain = arePodsRunningWithSameNodePool(Excluded)]]
           \/ /\ reverts
              /\ job' = [job EXCEPT !["managedNodes"] = [start EXCEPT !.step = "mark"]]
           \/ /\ ~excludes /\ ~includes /\ ~reverts
              /\ UNCHANGED job
        /\ UNCHANGED <<objects, cache, unseen, bounds>>

\* The should-be-excluded label follows the visit: set on a node that waits to
\* be drained, removed from any other.
MarkNode ==
    LET j == job["managedNodes"]
        waits == j.drain /\ j.new = Excluded
    IN  /\ j.step = "mark"
        /\ \/ /\ PatchNode(IF waits \/ j.copy.toExclude THEN [node EXCEPT !.toExclude = waits] ELSE node)
              /\ Finish("managedNodes", j.err)
              /\ UNCHANGED failures
           \/ /\ waits \/ j.copy.toExclude
              /\ Fails
              /\ Finish("managedNodes", TRUE)
              /\ UNCHANGED <<node, unseen>>
        /\ UNCHANGED <<pools, criteria, projects, pods, cache, edits, binds, dropped>>

-----------------------------------------------------------------------------
(* The steps of a visit, which the two controllers share *)

\* Where a visit that ends goes: to the next list of a node pool's reconcile,
\* or to the should-be-excluded label.
VisitEnds(c) == IF c = "nodePools" THEN "list" ELSE "mark"

\* A failed patch: the reconcile of a node pool goes on to its other nodes; an
\* exclusion leaves the label alone, an inclusion removes it all the same.
VisitFails(c) ==
    IF c = "managedNodes" /\ job[c].new = Excluded
    THEN Finish(c, TRUE)
    ELSE /\ job' = [job EXCEPT ![c].step = VisitEnds(c), ![c].err = TRUE]
         /\ UNCHANGED queue

\* validateNodeStatusWhenChangingNodePool and validateNodeStatusInNodePool:
\* cordon a node that pods hold, un-cordon any other.  A node that is held is
\* an error of a node pool's reconcile, unless the node pool is being deleted.
ValidateNodeStatus(c) ==
    LET j == job[c]
        patches == NeedsCordonPatch(j.copy, j.drain)
        goesOn(copy) ==
            /\ job' = [job EXCEPT ![c] =
                 [j EXCEPT !.copy = copy,
                           !.step = IF j.move /\ ~j.drain THEN "assign" ELSE VisitEnds(c),
                           !.err = j.err \/ (j.drain /\ c = "nodePools" /\ ~j.finalizing)]]
            /\ UNCHANGED queue
    IN  /\ j.step = "validate"
        /\ \/ /\ ~patches
              /\ goesOn(j.copy)
              /\ UNCHANGED <<node, unseen, failures>>
           \/ /\ patches
              /\ PatchNode(CordonPatch(node, j.copy, j.drain))
              /\ goesOn(node')
              /\ UNCHANGED failures
           \/ /\ patches /\ Fails       \* an error on the label alone is dropped
              /\ IF LabelOnly(j.copy, j.drain) THEN goesOn(j.copy) ELSE VisitFails(c)
              /\ UNCHANGED <<node, unseen>>
        /\ UNCHANGED <<pools, criteria, projects, pods, cache, edits, binds, dropped>>

\* updateNodeWithNodePoolNameIfNeeded, with the pool given or looked up.
AssignNodePool(c) ==
    LET j == job[c]
        goesOn(copy) == /\ job' = [job EXCEPT ![c] = [j EXCEPT !.copy = copy, !.step = VisitEnds(c)]]
                        /\ UNCHANGED queue
    IN  /\ j.step = "assign"
        /\ \E pool \in (IF j.new = Find THEN findMatchingNodePoolFromList(j.copy, j.available) ELSE {j.new}) :
             \/ /\ j.copy.pool = pool
                /\ goesOn(j.copy)
                /\ UNCHANGED <<node, unseen, failures>>
             \/ /\ j.copy.pool # pool
                /\ PatchNode([node EXCEPT !.pool = pool])
                /\ goesOn(node')
                /\ UNCHANGED failures
             \/ /\ j.copy.pool # pool
                /\ Fails
                /\ VisitFails(c)
                /\ UNCHANGED <<node, unseen>>
        /\ UNCHANGED <<pools, criteria, projects, pods, cache, edits, binds, dropped>>

-----------------------------------------------------------------------------
(* The informers, which deliver changes and queue requests *)

SyncNode ==
    /\ unseen
    /\ unseen' = FALSE
    /\ cache' = [cache EXCEPT !.node = node]
    /\ queue' = [queue EXCEPT
         !["nodePools"] = @ \cup MapNodeToNodePoolEvent(cache.node) \cup MapNodeToNodePoolEvent(node),
         !["managedNodes"] = @ \cup {"node"}]
    /\ UNCHANGED <<objects, job, bounds>>

SyncNodePool(p) ==
    /\ cache.pools[p] # pools[p]
    /\ cache' = [cache EXCEPT !.pools[p] = pools[p]]
    /\ queue' = [queue EXCEPT !["nodePools"] = @ \cup {p}]
    /\ UNCHANGED <<objects, unseen, job, bounds>>

SyncManagedNodesConfig ==
    /\ cache.criteria # criteria
    /\ cache' = [cache EXCEPT !.criteria = criteria]
    /\ queue' = [queue EXCEPT !["managedNodes"] = @ \cup {"config"}]
    /\ UNCHANGED <<objects, unseen, job, bounds>>

\* MapProjectToNodePoolEvents: a project's change concerns the node pools that
\* are being deleted.
SyncProjects ==
    /\ cache.projects # projects
    /\ cache' = [cache EXCEPT !.projects = projects]
    /\ queue' = [queue EXCEPT !["nodePools"] = @ \cup {p \in Pools : cache.pools[p] = "Deleting"}]
    /\ UNCHANGED <<objects, unseen, job, bounds>>

\* Pods are listed but not watched: a change of theirs queues nothing.
SyncPods ==
    /\ cache.pods # pods
    /\ cache' = [cache EXCEPT !.pods = pods]
    /\ UNCHANGED <<objects, unseen, queue, job, bounds>>

\* The process restarts: it lists everything anew and queues what it lists.
Restart ==
    /\ Fails
    /\ cache' = [node |-> node, pools |-> pools, criteria |-> criteria,
                 projects |-> projects, pods |-> pods]
    /\ unseen' = FALSE
    /\ queue' = [queue EXCEPT
         !["nodePools"] = {p \in NodePoolNames : pools[p] # "Absent"},
         !["managedNodes"] = {"node"} \cup (IF criteria THEN {"config"} ELSE {})]
    /\ job' = [c \in Controllers |-> Idle]
    /\ UNCHANGED <<objects, edits, binds, dropped>>

-----------------------------------------------------------------------------
(* Users and schedulers *)

Edit(kind) == kind \in Edits /\ edits < MaxEdits /\ edits' = edits + 1

EditNode ==
    /\ \/ /\ Edit("labels")
          /\ \E labels \in SUBSET Pools, managed \in BOOLEAN :
               PatchNode([node EXCEPT !.labels = labels, !.managed = managed])
       \/ /\ Edit("cordon")
          /\ PatchNode([node EXCEPT !.unschedulable = ~@])
       \/ /\ Edit("partition")
          /\ \E pool \in Unmanaged : PatchNode([node EXCEPT !.pool = pool])
    /\ UNCHANGED <<pools, criteria, projects, pods, cache, queue, job, binds, dropped, failures>>

EditCriteria ==
    /\ Edit("criteria")
    /\ criteria' = ~criteria
    /\ UNCHANGED <<node, pools, projects, pods, cache, unseen, queue, job, binds, dropped, failures>>

EditProjects ==
    /\ Edit("projects")
    /\ \E p \in Pools : projects' = IF p \in projects THEN projects \ {p} ELSE projects \cup {p}
    /\ UNCHANGED <<node, pools, criteria, pods, cache, unseen, queue, job, binds, dropped, failures>>

\* A node pool that has no finalizer yet is gone as soon as it is deleted.
EditPools ==
    /\ \E p \in Pools :
         \/ /\ Edit("pools")
            /\ pools[p] \in {"Absent", "Active"}
            /\ pools' = [pools EXCEPT ![p] = IF @ = "Absent" THEN "New" ELSE "Deleting"]
            /\ UNCHANGED dropped
         \/ /\ Edit("newPools")
            /\ pools[p] = "New"
            /\ pools' = [pools EXCEPT ![p] = "Absent"]
            /\ dropped' = dropped \cup {p}
    /\ UNCHANGED <<node, criteria, projects, pods, cache, unseen, queue, job, binds, failures>>

\* The scheduler of the node's pool binds a pod to a node that is not cordoned.
BindPod ==
    /\ node.pool \in NodePoolNames
    /\ ~node.unschedulable
    /\ node.pool \notin pods
    /\ binds < MaxBinds
    /\ binds' = binds + 1
    /\ pods' = pods \cup {node.pool}
    /\ UNCHANGED <<node, pools, criteria, projects, cache, unseen, queue, job, edits, dropped, failures>>

FinishPods(p) ==
    /\ p \in pods
    /\ pods' = pods \ {p}
    /\ UNCHANGED <<node, pools, criteria, projects, cache, unseen, queue, job, bounds>>

-----------------------------------------------------------------------------

Reconcile ==
    \/ \E p \in NodePoolNames : ReconcileNodePool(p)
    \/ ListNodes
    \/ \E key \in {"node", "config"} : ReconcileManagedNodes(key)
    \/ MarkNode
    \/ \E c \in Controllers : ValidateNodeStatus(c) \/ AssignNodePool(c)

Deliver ==
    \/ SyncNode \/ SyncManagedNodesConfig \/ SyncProjects \/ SyncPods
    \/ \E p \in NodePoolNames : SyncNodePool(p)

Environment ==
    \/ EditNode \/ EditCriteria \/ EditProjects \/ EditPools \/ BindPod
    \/ \E p \in NodePoolNames : FinishPods(p)
    \/ Restart

Next == Reconcile \/ Deliver \/ Environment

Spec == Init /\ [][Next]_vars

Fairness ==
    /\ WF_vars(SyncNode) /\ WF_vars(SyncManagedNodesConfig)
    /\ WF_vars(SyncProjects) /\ WF_vars(SyncPods)
    /\ \A p \in NodePoolNames :
         /\ WF_vars(SyncNodePool(p))
         /\ WF_vars(FinishPods(p))
         /\ SF_vars(ReconcileNodePool(p))
    /\ \A key \in {"node", "config"} : SF_vars(ReconcileManagedNodes(key))
    /\ WF_vars(ListNodes) /\ WF_vars(MarkNode)
    /\ \A c \in Controllers : WF_vars(ValidateNodeStatus(c) \/ AssignNodePool(c))

FairSpec == Spec /\ Fairness

-----------------------------------------------------------------------------
(* Properties *)

\* Every variable keeps its type: the node-pool label is always one of the
\* pools, never the empty name the look-up starts from, and no reconcile takes
\* more lists than it has.
TypeOK ==
    /\ node \in Node
    /\ pools \in [NodePoolNames -> PoolState]
    /\ criteria \in BOOLEAN
    /\ projects \in SUBSET Pools
    /\ pods \in SUBSET NodePoolNames
    /\ cache \in Cache
    /\ unseen \in BOOLEAN
    /\ queue \in [Controllers -> SUBSET Requests]
    /\ job \in [Controllers -> Job]
    /\ dropped \in SUBSET Pools
    /\ edits \in 0..MaxEdits
    /\ binds \in 0..MaxBinds
    /\ failures \in 0..MaxFailures

\* While no user cordons the node, a cordon always carries the controllers'
\* label and the label always comes with a cordon, however their patches from
\* stale copies cross: updateNodeUnschedulableIfNeeded lifts only a cordon with
\* the label, so one without it would stay for good.
CordonIsMarked == "cordon" \notin Edits => (node.unschedulable <=> node.byUs)

\* The controllers never relabel, cordon, un-cordon or mark a node of an
\* unmanaged partition (docs/concepts/node-pools.md:267-269).
UnmanagedUntouched ==
    [][node.pool \in Unmanaged /\ node' # node => edits' # edits]_vars

\* The node pools the node may be in, and where it belongs.
Live == {p \in Pools : pools[p] \in {"New", "Active"}}
Placed ==
    node.pool \notin Unmanaged =>
        IF criteria /\ ~node.managed THEN node.pool = Excluded
        ELSE IF Live \cap node.labels = {} THEN node.pool = Default
        ELSE node.pool \in Live \cap node.labels

\* Every change is delivered and every request handled.
Settled ==
    /\ ~unseen
    /\ cache = [node |-> node, pools |-> pools, criteria |-> criteria,
                projects |-> projects, pods |-> pods]
    /\ \A c \in Controllers : job[c].step = "idle" /\ queue[c] = {}

\* Once the controllers have nothing left to do, the node is where its labels
\* and the ManagedNodesConfig put it; in particular it is not left in a node
\* pool that was deleted ("Its nodes must be reassigned to other node pools
\* first", docs/concepts/node-pools.md:180-181).  Excepted is a node in a node pool
\* that was deleted before it had a finalizer: nothing moves that node.
SettledPlaced == Settled => Placed \/ node.pool \in dropped

\* A cordon of the controllers "clears itself once the old node pool's
\* workloads finish" (docs/how-to/troubleshooting.md:227).
CordonClears == <>[]~node.byUs

\* When users stop and pods finish, the node ends up for good in the pool its
\* labels and the ManagedNodesConfig ask for and, in a node pool, without a cordon
\* of the controllers, although pod changes queue no reconcile and an exclusion
\* that has to wait is no error.
Converges == <>[](Placed /\ (node.pool \in NodePoolNames => ~node.byUs))

\* A node that is to be managed again loses the drain marker: it "is moved back
\* into the default node pool and the drain marker is removed"
\* (docs/how-to/exclude-nodes-from-management.md:124-125).
MarkerRemoved == Settled /\ (criteria => node.managed) => ~node.toExclude
=============================================================================
