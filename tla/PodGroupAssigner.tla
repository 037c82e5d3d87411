-------------------------- MODULE PodGroupAssigner --------------------------
(***************************************************************************)
(* The pod-group-assigner around one pod group of a project.  The pod      *)
(* group asks for an ordered list of node pools; the assigner hands it to  *)
(* the scheduler of one of them by label and queue, takes it back when     *)
(* that scheduler reports it unschedulable or the node pool is no longer   *)
(* available, and goes on round-robin.                                     *)
(*                                                                         *)
(* One worker reconciles from informer caches that may lag behind the API  *)
(* server.  A reconcile reads, chooses, may clear the scheduling           *)
(* conditions with a status patch, and assigns with a merge patch that     *)
(* holds only the fields that differ from the copy it started from.  The   *)
(* schedulers of the node pools work on snapshots and may answer late;     *)
(* node pools change phase, are deleted and created again; calls fail,     *)
(* answers are lost and the process restarts.                              *)
(***************************************************************************)
EXTENDS Integers, Sequences, FiniteSets, Functions

CONSTANTS
    Pools,       \* names of node pools, the default one included
    Default,     \* the default node pool: the node-pool label is absent
    Sentinel,    \* the label value of a pod group that is not assigned yet
    None,        \* no node pool, no queue, no topology
    User,        \* a topology constraint set by a user
    Requested,   \* the node pools the pods ask for, in order
    Workloads,   \* where the pods say so, and the label at creation
    InitPhases,  \* the phases the node pools may be in at the start
    Queued,      \* the node pools the project has a queue for
    Topology,    \* node pool -> its preferred network topology
    Edits,       \* the kinds of changes users and other controllers make
    MaxEdits,    \* bound: such changes
    MaxFailures  \* bound: failed calls, lost answers, restarts, expired lists

Sources == {"annotation", "affinity", "none"}

Phases == {"Unknown", "Ready", "Unschedulable", "Deleting", "Absent"}

ASSUME ConstantsAssumption ==
    /\ Default \in Pools
    /\ {Sentinel, None, User} \cap Pools = {} /\ Sentinel # None
    /\ Requested \in Seq(Pools) /\ Requested # <<>>
    /\ \A i, j \in DOMAIN Requested : Requested[i] = Requested[j] => i = j
    /\ Workloads \subseteq Sources \X (Pools \cup {Sentinel})
    /\ InitPhases \subseteq [Pools -> Phases]
    /\ Queued \subseteq Pools
    /\ DOMAIN Topology = Pools
    /\ Edits \subseteq {"phase", "delete", "topology", "wake"}
    /\ MaxEdits \in Nat
    /\ MaxFailures \in Nat

VARIABLES
    pg,        \* the PodGroup object
    pods,      \* its pods: none yet, some not bound to a node, all bound
    pools,     \* the phases of the node pools
    source,    \* where the pods name their node pools
    cache,     \* the informer caches of pg, pods and pools
    unseen,    \* whether the cache has yet to deliver a change of pg
    alarms,    \* node pools that became unavailable since they were cached
    queued,    \* whether the pod group is in the work queue
    job,       \* the reconcile in progress
    memo,      \* podGroupsNodePoolList: the requested node pools, once known
    attempts,  \* the node pools whose schedulers hold a snapshot of pg
    tried,     \* history: node pools pg has been in or was led past
    edits, failures

vars == <<pg, pods, pools, source, cache, unseen, alarms, queued, job, memo,
          attempts, tried, edits, failures>>

-----------------------------------------------------------------------------
(* Objects *)

Topologies == {Topology[p] : p \in Pools} \cup {None, User}

\* backoff: schedulingBackoff is 1 (the scheduler gives the pod group back)
\* and not -1; last: the node pool of the last scheduling condition; system:
\* the annotation of a constraint the assigner set.
PodGroup == [label : Pools \cup {Sentinel}, queue : Pools \cup {None},
             mark : BOOLEAN, backoff : BOOLEAN, last : Pools \cup {None},
             topology : Topologies, system : BOOLEAN]

\* The node pool chosen and what goes with it.
Params == [pool : Pools, mark : BOOLEAN, backoff : BOOLEAN, clear : BOOLEAN]

Job == [step : {"idle", "choose", "clear", "write"}, copy : PodGroup, next : Params]

Lists == UNION {[1..n -> Pools] : n \in 1..Len(Requested)}

\* mutatePodGroup, at creation: not assigned unless the workload says where.
mutatePodGroup(label) ==
    [label |-> label, queue |-> None, mark |-> FALSE, backoff |-> TRUE,
     last |-> None, topology |-> None, system |-> FALSE]

Idle == [step |-> "idle", copy |-> mutatePodGroup(Sentinel),
         next |-> [pool |-> Default, mark |-> FALSE, backoff |-> TRUE, clear |-> FALSE]]

Init ==
    /\ \E w \in Workloads : source = w[1] /\ pg = mutatePodGroup(w[2])
    /\ pods = "none"
    /\ pools \in InitPhases
    /\ cache = [pg |-> pg, pods |-> pods, pools |-> pools]
    /\ unseen = FALSE
    /\ alarms = {}
    /\ queued = TRUE
    /\ job = Idle
    /\ memo = <<>>
    /\ attempts = {}
    /\ tried = {}
    /\ edits = 0 /\ failures = 0

-----------------------------------------------------------------------------
(* What a reconcile computes *)

\* Reading a node pool that the cache does not hold is an error; the sentinel
\* names no node pool.
Phase(p) == IF p \in Pools THEN cache.pools[p] ELSE "Absent"

\* A node pool without a phase, unschedulable or being deleted is not
\* available; every other phase is.
IsNodePoolAvailableForScheduling(p) == Phase(p) = "Ready"

MutantEligible(g) == g.backoff /\ g.last \in {None, g.label}

\* Whether the assigner may take the pod group: not while the scheduler of an
\* available node pool is at work on it.
isEligibleForNodePoolAssignment(g) ==
    /\ g.backoff
    /\ g.last \in {None, g.label} \/ ~IsNodePoolAvailableForScheduling(g.label)

\* ... and whether finding out is an error.
EligibilityFails(g) ==
    g.backoff /\ g.last \notin {None, g.label} /\ Phase(g.label) = "Absent"

\* convertNodeAffinityToNodePoolNames: the node pools that exist and are not
\* being deleted.  The default one is asked for by the absence of a label.
FromAffinity ==
    LET names[n \in 0..Len(Requested)] ==
            IF n = 0 THEN <<>>
            ELSE IF Requested[n] = Default \/ cache.pools[Requested[n]] \notin {"Deleting", "Absent"}
            THEN Append(names[n - 1], Requested[n])
            ELSE names[n - 1]
    IN  names[Len(Requested)]

MutantRequested(g) ==
    CASE memo # <<>> -> memo
      [] memo = <<>> /\ source = "annotation" -> Requested
      [] memo = <<>> /\ source = "affinity" /\ FromAffinity # <<>> -> FromAffinity
      [] OTHER -> <<g.label>>

\* The first source that names a node pool, else the default node pool.
GetRequestedNodePools(g) ==
    CASE memo # <<>> -> memo
      [] memo = <<>> /\ source = "annotation" -> Requested
      [] memo = <<>> /\ source = "affinity" /\ FromAffinity # <<>> -> FromAffinity
      [] OTHER -> <<IF g.label = Sentinel THEN Default ELSE g.label>>

\* The place of p in a list, 0 when it is not in it.
IndexOfItemInList(list, p) ==
    IF p \in Range(list)
    THEN CHOOSE i \in DOMAIN list : list[i] = p /\ \A j \in 1..i - 1 : list[j] # p
    ELSE 0

\* The place i steps after k, round-robin.
Wrap(list, k, i) == ((k - 1 + i) % Len(list)) + 1

\* Where to start: at the node pool the pod group is assigned to, at the first
\* one, or after the one that refused it last.
getInitialNodePoolAssignmentParams(g, list) ==
    IF g.last = None
    THEN [pool |-> IF g.label \in Range(list) THEN g.label ELSE list[1],
          mark |-> Len(list) = 1 \/ g.mark]
    ELSE LET k == Wrap(list, IndexOfItemInList(list, g.last), 1)
         IN  [pool |-> list[k], mark |-> g.mark \/ k = Len(list)]

MutantMarks(list, k, at) == TRUE

\* Whether moving on from place k to place at exhausts the list.
Marks(list, k, at) == at = Len(list) \/ at < k

\* The steps from the starting place k that find a node pool not available;
\* the first other one is chosen, or is an error when it does not exist.
Unavailable(list, k) ==
    {i \in 0..Len(list) - 1 :
        \A j \in 0..i : Phase(list[Wrap(list, k, j)]) \in {"Unknown", "Unschedulable", "Deleting"}}

\* calculateNodePoolAssignmentParams and findNextNodePoolAvailableForScheduling:
\* the choices (one, or none when there is an error).
Choices(g, list) ==
    LET start == getInitialNodePoolAssignmentParams(g, list)
        k == IndexOfItemInList(list, start.pool)
        i == Cardinality(Unavailable(list, k))
        at == Wrap(list, k, i)
    IN  IF i = Len(list) \/ Phase(list[at]) = "Absent" \/ list[at] \notin Queued THEN {}
        ELSE {[pool |-> list[at],
               mark |-> start.mark \/ (i > 0 /\ Marks(list, k, at)),
               backoff |-> Len(list) > 1,
               clear |-> Len(list) > 1 /\ g.last # None /\ list[at] = g.last]}

\* The node pools a choice passes over.
Passed(g, list) ==
    LET k == IndexOfItemInList(list, getInitialNodePoolAssignmentParams(g, list).pool)
    IN  {list[Wrap(list, k, i)] : i \in Unavailable(list, k)}

\* desiredNetworkTopology: leave a user's constraint, else follow the pool.
desiredNetworkTopology(g, p) ==
    IF g.topology # None /\ ~g.system THEN [topology |-> g.topology, system |-> FALSE]
    ELSE IF Topology[p] # None THEN [topology |-> Topology[p], system |-> TRUE]
    ELSE [topology |-> None, system |-> FALSE]

MutantMutate(g, next) ==
    [g EXCEPT !.label = next.pool, !.queue = IF @ = None THEN next.pool ELSE @,
              !.mark = next.mark, !.backoff = next.backoff]

\* The pod group as it should be.
mutatePodGroupObjForAssignment(g, next) ==
    LET desired == desiredNetworkTopology(g, next.pool)
    IN  [g EXCEPT !.label = next.pool, !.queue = next.pool, !.mark = next.mark,
                  !.backoff = next.backoff, !.topology = desired.topology,
                  !.system = desired.system]

\* A merge patch from one copy to another, applied to the live object.
MergePatch(live, from, to) ==
    [f \in DOMAIN live |-> IF from[f] = to[f] THEN live[f] ELSE to[f]]

-----------------------------------------------------------------------------
(* The reconciler *)

Write(g) == pg' = g /\ unseen' = (unseen \/ g # pg)

Fails == failures < MaxFailures /\ failures' = failures + 1

\* The reconcile ends, with an error that queues it again or without.
Finish(err) == job' = Idle /\ queued' = (queued \/ err)

environment == <<pods, pools, source, cache, alarms, attempts, edits>>

Reconcile ==
    LET g == cache.pg
    IN  /\ queued
        /\ job.step = "idle"
        /\ \/ /\ isEligibleForNodePoolAssignment(g)
              /\ ~EligibilityFails(g)
              /\ job' = [Idle EXCEPT !.step = "choose", !.copy = g]
              /\ queued' = FALSE
           \/ ~isEligibleForNodePoolAssignment(g) /\ queued' = FALSE /\ UNCHANGED job
           \/ EligibilityFails(g) /\ UNCHANGED <<queued, job>>
        /\ UNCHANGED <<pg, unseen, memo, tried, failures, environment>>

\* A pod group without pods is an error; one whose pods are all bound stays
\* where it is; for any other the requested node pools are remembered.
Choose ==
    LET g == job.copy
        list == GetRequestedNodePools(g)
    IN  /\ job.step = "choose"
        /\ \/ cache.pods = "none" /\ Finish(TRUE) /\ UNCHANGED <<memo, tried>>
           \/ cache.pods = "bound" /\ Finish(FALSE) /\ UNCHANGED <<memo, tried>>
           \/ /\ cache.pods = "pending"
              /\ memo' = list
              /\ tried' = tried \cup Passed(g, list)
              /\ \/ \E next \in Choices(g, list) :
                      /\ job' = [job EXCEPT !.step = IF next.clear THEN "clear" ELSE "write",
                                            !.next = next]
                      /\ UNCHANGED queued
                 \/ Choices(g, list) = {} /\ Finish(TRUE)
        /\ UNCHANGED <<pg, unseen, failures, environment>>

\* removeUnschedulableOnNodePoolSchedulingConditionFromStatus: the answer to
\* the patch replaces the copy.
ClearConditions ==
    LET cleared == [pg EXCEPT !.last = None]
    IN  /\ job.step = "clear"
        /\ \/ /\ Write(cleared)
              /\ job' = [job EXCEPT !.step = "write", !.copy = cleared]
              /\ UNCHANGED <<queued, failures>>
           \/ Fails /\ Finish(TRUE) /\ (Write(cleared) \/ UNCHANGED <<pg, unseen>>)
        /\ UNCHANGED <<memo, tried, environment>>

\* updatePodGroupWithAssignment: nothing to do, the patch, or its failure (the
\* patch may have been applied all the same).  The topology look-up fails when
\* the node pool has gone from the cache.
AssignPodGroup ==
    LET g == job.copy
        want == mutatePodGroupObjForAssignment(g, job.next)
    IN  /\ job.step = "write"
        /\ \/ /\ Phase(job.next.pool) = "Absent"
              /\ g.topology = None \/ g.system
              /\ Finish(TRUE)
              /\ UNCHANGED <<pg, unseen, failures>>
           \/ /\ Phase(job.next.pool) # "Absent" \/ (g.topology # None /\ ~g.system)
              /\ \/ Write(MergePatch(pg, g, want)) /\ Finish(FALSE) /\ UNCHANGED failures
                 \/ /\ g # want
                    /\ Fails
                    /\ Finish(TRUE)
                    /\ Write(MergePatch(pg, g, want)) \/ UNCHANGED <<pg, unseen>>
        /\ tried' = tried \cup ({pg'.label} \ {Sentinel})
        /\ UNCHANGED <<memo, environment>>

-----------------------------------------------------------------------------
(* The informers *)

SyncPodGroup ==
    /\ unseen
    /\ unseen' = FALSE
    /\ cache' = [cache EXCEPT !.pg = pg]
    /\ queued' = TRUE
    /\ UNCHANGED <<pg, pods, pools, source, alarms, job, memo, attempts, tried, edits, failures>>

\* FilterPodGroupControllerEvents and MapNodePoolToPodGroupEvent: a node pool
\* that is, or was when it went, unschedulable or being deleted concerns the
\* pod groups that the cache shows in it.
SyncNodePool(p) ==
    /\ cache.pools[p] # pools[p] \/ p \in alarms
    /\ cache' = [cache EXCEPT !.pools[p] = pools[p]]
    /\ alarms' = alarms \ {p}
    /\ queued' = (queued \/ (cache.pg.label = p /\ (p \in alarms \/
                    (pools[p] = "Absent" /\ cache.pools[p] \in {"Unschedulable", "Deleting"}))))
    /\ UNCHANGED <<pg, pods, pools, source, unseen, job, memo, attempts, tried, edits, failures>>

\* Pods are listed, not watched.
SyncPods ==
    /\ cache.pods # pods
    /\ cache' = [cache EXCEPT !.pods = pods]
    /\ UNCHANGED <<pg, pods, pools, source, unseen, alarms, queued, job, memo, attempts, tried,
                   edits, failures>>

\* ClearNodePoolListCachePeriodically.
ForgetLists ==
    /\ memo # <<>>
    /\ Fails
    /\ memo' = <<>>
    /\ UNCHANGED <<pg, pods, pools, source, cache, unseen, alarms, queued, job, attempts, tried, edits>>

Restart ==
    /\ Fails
    /\ cache' = [pg |-> pg, pods |-> pods, pools |-> pools]
    /\ unseen' = FALSE
    /\ alarms' = {}
    /\ queued' = TRUE
    /\ job' = Idle
    /\ memo' = <<>>
    /\ UNCHANGED <<pg, pods, pools, source, attempts, tried, edits>>

-----------------------------------------------------------------------------
(* Users, the other controllers and the schedulers *)

assigner == <<cache, queued, job, memo, failures>>

CreatePods ==
    /\ pods = "none"
    /\ pods' = "pending"
    /\ UNCHANGED <<pg, pools, source, unseen, alarms, attempts, tried, edits, assigner>>

Edit(kind) == kind \in Edits /\ edits < MaxEdits /\ edits' = edits + 1

SetPhase(p, phase) ==
    /\ pools' = [pools EXCEPT ![p] = phase]
    /\ alarms' = IF phase \in {"Unschedulable", "Deleting"} THEN alarms \cup {p} ELSE alarms
    /\ UNCHANGED <<pg, pods, source, unseen, attempts, tried, assigner>>

\* The node pool controller computes another phase; a node pool that is being
\* deleted stays so until it is gone, and may be created again.
ChangePhase ==
    \E p \in Pools :
        \/ /\ pools[p] \in {"Unknown", "Unschedulable"} /\ Edit("phase") /\ SetPhase(p, "Ready")
        \/ /\ pools[p] \in {"Unknown", "Ready"} /\ Edit("phase") /\ SetPhase(p, "Unschedulable")
        \/ /\ pools[p] \in {"Unknown", "Ready", "Unschedulable"} /\ p # Default
           /\ Edit("phase") /\ SetPhase(p, "Deleting")
        \/ pools[p] = "Deleting" /\ Edit("delete") /\ SetPhase(p, "Absent")
        \/ pools[p] = "Absent" /\ Edit("delete") /\ SetPhase(p, "Unknown")

\* A user sets a constraint, or something else of the pod group changes.
EditPodGroup ==
    /\ \/ Edit("topology") /\ Write([pg EXCEPT !.topology = User]) /\ UNCHANGED queued
       \/ Edit("wake") /\ queued' = TRUE /\ UNCHANGED <<pg, unseen>>
    /\ UNCHANGED <<pods, pools, source, cache, alarms, job, memo, attempts, tried, failures>>

IsPodGroupUpForScheduler(g) == ~g.backoff \/ g.last # g.label

\* The scheduler of p takes a snapshot in which the pod group is its own.
Pick(p) ==
    /\ pg.label = p
    /\ pods = "pending"
    /\ pools[p] # "Absent"
    /\ IsPodGroupUpForScheduler(pg)
    /\ p \notin attempts
    /\ attempts' = attempts \cup {p}
    /\ UNCHANGED <<pg, pods, pools, source, unseen, alarms, tried, edits, assigner>>

\* It gives up and records that as the last condition, or places the pods,
\* whatever has become of the pod group meanwhile.
Refuse(p) ==
    /\ p \in attempts
    /\ attempts' = attempts \ {p}
    /\ Write([pg EXCEPT !.last = p])
    /\ UNCHANGED <<pods, pools, source, alarms, tried, edits, assigner>>

Place(p) ==
    /\ p \in attempts
    /\ attempts' = attempts \ {p}
    /\ pods' = "bound"
    /\ UNCHANGED <<pg, pools, source, unseen, alarms, tried, edits, assigner>>

\* Once the pods are placed it drops the conditions.
DropConditions ==
    /\ pods = "bound"
    /\ pg.last # None
    /\ Write([pg EXCEPT !.last = None])
    /\ UNCHANGED <<pods, pools, source, alarms, attempts, tried, edits, assigner>>

-----------------------------------------------------------------------------

Next ==
    \/ Reconcile \/ Choose \/ ClearConditions \/ AssignPodGroup
    \/ SyncPodGroup \/ SyncPods \/ ForgetLists \/ Restart
    \/ CreatePods \/ ChangePhase \/ EditPodGroup \/ DropConditions
    \/ \E p \in Pools : SyncNodePool(p) \/ Pick(p) \/ Refuse(p) \/ Place(p)

Spec == Init /\ [][Next]_vars

\* The worker, the informers, and the schedulers of the node pools that are
\* ready go on; nobody has to change, place or fail anything.
Fairness ==
    /\ WF_vars(Reconcile)
    /\ WF_vars(Choose \/ ClearConditions \/ AssignPodGroup)
    /\ WF_vars(SyncPodGroup) /\ WF_vars(SyncPods)
    /\ \A p \in Pools : /\ WF_vars(SyncNodePool(p))
                        /\ WF_vars(pools[p] = "Ready" /\ Pick(p))
                        /\ WF_vars(pools[p] = "Ready" /\ (Refuse(p) \/ Place(p)))

FairSpec == Spec /\ Fairness

-----------------------------------------------------------------------------
(* Properties *)

\* Every variable keeps its type: in particular what is chosen is a node pool,
\* never the sentinel.
TypeOK ==
    /\ pg \in PodGroup
    /\ pods \in {"none", "pending", "bound"}
    /\ pools \in [Pools -> Phases]
    /\ source \in Sources
    /\ cache \in [pg : PodGroup, pods : {"none", "pending", "bound"}, pools : [Pools -> Phases]]
    /\ unseen \in BOOLEAN
    /\ alarms \in SUBSET Pools
    /\ queued \in BOOLEAN
    /\ job \in Job
    /\ memo \in Lists \cup {<<>>}
    /\ attempts \in SUBSET Pools
    /\ tried \in SUBSET Pools
    /\ edits \in Nat
    /\ failures \in Nat

\* A pod group that has a queue has the queue of the node pool it is in, even
\* though a merge patch holds only what differs from a copy that may be stale.
QueueFollowsPool == pg.queue # None => pg.queue = pg.label

\* A pod group with several node pools to try, in a fixed order, is marked
\* unschedulable only once it has been in every one of them or was led past it
\* because it was not available.
MarkedAfterTrying ==
    source = "annotation" /\ pg.mark /\ Len(Requested) > 1 =>
        Range(Requested) \subseteq tried

\* p stays a node pool to try that is available, and the pod group unplaced.
Waits(p) == pods = "pending" /\ p \in Range(memo) /\ pools[p] = "Ready"

\* A pod group that names its node pools in the annotation and is not placed is
\* brought to every one of them that stays available, again and again, unless
\* one of them does not exist: the rotation is never lost between the assigner
\* and the schedulers, whatever was read stale, failed or answered late.
Rotates ==
    source = "annotation" =>
        \A p \in Pools :
            <>[](Waits(p) /\ \A c \in Range(memo) : pools[c] # "Absent") => []<>(pg.label = p)

\* The same without the exception: "A workload with more than one candidate
\* node pool is not stuck with its first pick"
\* (docs/concepts/workload-placement.md:128).
AlwaysRotates == \A p \in Pools : <>[]Waits(p) => []<>(pg.label = p)
=============================================================================
