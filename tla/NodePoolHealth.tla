--------------------------- MODULE NodePoolHealth ---------------------------
(* What a NodePool's status says of its nodes, and when it is computed again *)
(* (pkg/nodepool-controller: nodepool_status_handler, nrt_health_handler,    *)
(* node_handler, nodepool_event_filter).                                     *)
(*                                                                           *)
(* A reconcile labels, annotates and marks the pool's nodes, then writes the *)
(* pool's phase, per-node states and conditions.  It reads caches, and it    *)
(* only runs when an event passes the controller's filter: the question is   *)
(* whether the status is right once the controller has nothing left to do.   *)
(*                                                                           *)
(* Nodes carry no pods here: moving a node that does is NodePools' subject,  *)
(* deleting a NodePool too; how a scheduler comes to be ready is that of     *)
(* SchedulingShards.                                                         *)
EXTENDS Integers, FiniteSets

CONSTANTS
    Nodes, Pools,
    Default,       \* the NodePool of the nodes that no other one selects
    Gone,          \* no such object
    Nobody,        \* no NodePool
    Setups,        \* initial situations: records [nodes, nrt, pools, crd, topology, kinds]
    MaxEdits,      \* changes other people make
    MaxFailures    \* API requests that fail

VARIABLES
    setup,
    live,          \* what is stored, by kind
    seen,          \* what the controller's caches hold
    stale,         \* events on their way to the controller: [kind, of, heard, missed]
    queued,        \* NodePools to reconcile
    job,           \* the reconcile in progress
    nrtEnabled,    \* SetupWithManager found the NodeResourceTopology CRD
    unheard,       \* NodePools some of whose input changed since it was read, and no event says so
    edits, failures

vars == <<setup, live, seen, stale, queued, job, nrtEnabled, unheard, edits, failures>>

Kinds == {"nodes", "nrt", "pools", "schedulers", "topology"}
Policies == {"absent", "none", "strict"}
Reasons == {"Missing", "NoNumaZones", "PolicyNotEnforcing"}
Detections == {"absent", "Use", "DontUse", "Auto"}
Topologies == {Gone, "none", "levels"}     \* the topology's levels

\* A NodeResourceTopology: whether it has a zone of a NUMA node, and the attribute with the
\* policy of the topology manager, as the agent spells it.
Nrts == [zones : BOOLEAN, policy : {"absent", "None", "strict"}]

\* sel: the NodePool whose labels it carries; pool: its node pool label; up: its Ready condition;
\* level: it has the label of the topology's level; nvlink: it has the NVLink label.  The
\* controller writes pool, the annotations link and policy, and the condition cond.
Node == [sel : Pools, pool : Pools, up : BOOLEAN, cordoned : BOOLEAN, level : BOOLEAN,
         nvlink : BOOLEAN, link : BOOLEAN, policy : Policies, cond : {"absent"} \cup Reasons]

NodeStates == {"Ready", "Unschedulable", "MissingNrtHealthyPrerequisite"}
Status == [phase : {"Ready", "Empty", "Unschedulable", "MissingPrerequisites"},
           by : {"scheduler", "nodes"},       \* what the message is about
           nodes : [Nodes -> {Gone} \cup [state : NodeStates, mismatch : BOOLEAN]],
           nrt : SUBSET Reasons,              \* the MissingNrtHealthyPrerequisite condition
           mismatch : BOOLEAN]                \* the NodeTopologyMismatch condition

Pool == [numa : BOOLEAN, detect : Detections, topology : BOOLEAN,
         detected : {"unset", "true", "false"}, status : Status]

Setup == [nodes : [Nodes -> Node \cup {Gone}], nrt : [Nodes -> Nrts \cup {Gone}], pools : [Pools -> Pool],
          crd : BOOLEAN, topology : Topologies, kinds : SUBSET STRING]

\* There is no NodeResourceTopology without its CRD.
ASSUME HealthAssumption ==
    /\ Default \in Pools /\ Nobody \notin Pools \cup Nodes
    /\ Gone \notin Node \cup Nrts \cup {"none", "levels"} \cup [state : NodeStates, mismatch : BOOLEAN]
    /\ MaxEdits \in Nat /\ MaxFailures \in Nat
    /\ \A s \in Setups : s \in Setup /\ (s.crd \/ \A n \in Nodes : s.nrt[n] = Gone)

Idle == [step |-> "idle"]
Event(kind, of, heard) == [kind |-> kind, of |-> of, heard |-> heard, missed |-> ~heard]
Rest == UNCHANGED <<setup, nrtEnabled, edits>>

-----------------------------------------------------------------------------
(* Events.                                                                  *)

\* The labels are those this module tells apart; the deprecated phase of a node never changes.
FilterNodeUpdatesForNPController(old, new) ==
    \/ old.cordoned # new.cordoned
    \/ <<old.sel, old.pool, old.level, old.nvlink>> # <<new.sel, new.pool, new.level, new.nvlink>>

\* A change that does not pass and is not the controller's own counts as missed.
NodeEvents(old, new) ==
    LET heard == old = Gone \/ new = Gone \/ FilterNodeUpdatesForNPController(old, new)
        missed == ~heard /\ old.up # new.up
    IN  {[kind |-> "nodes", of |-> o.pool, heard |-> heard, missed |-> missed] : o \in {old, new} \ {Gone}}

StoreNodes(nodes) ==
    /\ live' = [live EXCEPT !.nodes = nodes]
    /\ stale' = stale \cup UNION {NodeEvents(live.nodes[n], nodes[n]) :
                                     n \in {m \in Nodes : live.nodes[m] # nodes[m]}}

\* Every update of a NodePool passes.
StorePool(p, pool) ==
    /\ live' = [live EXCEPT !.pools[p] = pool]
    /\ stale' = IF pool = live.pools[p] THEN stale
                ELSE stale \cup {Event("pools", p, TRUE)}

\* filterUpdateEvents has no case for a NodeResourceTopology: only creations and deletions pass.
NrtPasses(old, new) == old = Gone \/ new = Gone

\* The node pool of the node, if the cache has the node.
MapNrtToNodePoolEvent(n, nodes) == IF nodes[n] = Gone THEN {} ELSE {nodes[n].pool}

\* The cache of one kind catches up and its events are mapped to NodePools.
Sync(kind) ==
    LET events == {e \in stale : e.kind = kind}
        of(e) == CASE kind = "nrt" -> MapNrtToNodePoolEvent(e.of, seen.nodes)
                   [] kind = "topology" -> {p \in Pools : seen.pools[p].topology}
                   [] OTHER -> {e.of} IN
    /\ events # {} /\ stale' = stale \ events
    /\ seen' = [seen EXCEPT ![kind] = live[kind]]
    /\ queued' = queued \cup UNION {of(e) : e \in {f \in events : f.heard}}
    /\ unheard' = unheard \cup UNION {of(e) : e \in {f \in events : f.missed}}
    /\ UNCHANGED <<live, job, failures>> /\ Rest

-----------------------------------------------------------------------------
(* The nodes of a NodePool.                                                 *)

\* Bug: the policy is taken as the agent spells it.
MutantTopologyManagerPolicy(nrt) == nrt.policy

\* In lower case, whatever the agent reports.
topologyManagerPolicy(nrt) == IF nrt.policy = "None" THEN "none" ELSE nrt.policy

isPolicyEnforcing(nrt) == topologyManagerPolicy(nrt) \notin {"absent", "none"}

\* getTopologyManagerPolicyFromNodeNRT
PolicyOf(pool, nrt) ==
    IF pool.numa /\ nrtEnabled /\ nrt # Gone THEN topologyManagerPolicy(nrt) ELSE "absent"

evaluateNrtHealth(nrt) == IF nrt = Gone THEN "Missing"
                          ELSE IF ~nrt.zones THEN "NoNumaZones"
                          ELSE IF ~isPolicyEnforcing(nrt) THEN "PolicyNotEnforcing" ELSE "absent"

\* reconcileNrtHealthCondition: what the condition has to be.
NrtCondition(pool, nrt) == IF ~pool.numa THEN "absent"
                           ELSE IF ~nrtEnabled THEN "Missing" ELSE evaluateNrtHealth(nrt)

\* A write of the fields that differ in the copy; the answer is the stored node, which
\* replaces the copy.  at[1] is the copy, at[2] the stored node, at[3] whether a write failed.
Patch(at, new, fails) ==
    IF new = at[1] THEN at
    ELSE IF fails \/ at[2] = Gone THEN <<at[1], at[2], TRUE>>
    ELSE LET stored == [f \in DOMAIN new |-> IF new[f] # at[1][f] THEN new[f] ELSE at[2][f]]
         IN  <<stored, stored, at[3]>>

\* ChangeNodePoolForNode, findAndChangeNodePoolForNode: a node without pods moves at once.
Label(at, fails) == Patch(at, [at[1] EXCEPT !.pool = at[1].sel], fails)

\* reconcileNodeAnnotations, in one write.
Annotate(at, pool, nrt, fails) ==
    Patch(at, [at[1] EXCEPT !.link = (pool.detect = "Auto"), !.policy = PolicyOf(pool, nrt)], fails)

\* ensureNrtCondition, removeNrtCondition
Mark(at, pool, nrt, fails) == Patch(at, [at[1] EXCEPT !.cond = NrtCondition(pool, nrt)], fails)

\* Bug: a pool without NUMA placement leaves the nodes as they come.
MutantHandleNode(p, pool, n, fails) ==
    LET at == Label(<<seen.nodes[n], live.nodes[n], FALSE>>, fails = "label") IN
    IF at[1].pool # p \/ ~pool.numa THEN at
    ELSE Mark(Annotate(at, pool, seen.nrt[n], fails = "annotations"), pool, seen.nrt[n], fails = "condition")

\* One node of reconcileNodes(p): it is moved, and if it is p's then, annotated and marked.
HandleNode(p, pool, n, fails) ==
    LET at == Label(<<seen.nodes[n], live.nodes[n], FALSE>>, fails = "label") IN
    IF at[1].pool # p THEN at
    ELSE Mark(Annotate(at, pool, seen.nrt[n], fails = "annotations"), pool, seen.nrt[n], fails = "condition")

\* The nodes reconcileNodes(p) looks at: p's own, and the default pool's that p selects.
Handled(p) == {n \in Nodes : /\ seen.nodes[n] # Gone
                             /\ \/ seen.nodes[n].pool = p
                                \/ seen.nodes[n].pool = Default /\ seen.nodes[n].sel = p}

\* The node cache holds what the controller itself last wrote to p's nodes.  Otherwise, a node
\* whose annotation or condition has to change back may keep the new one: reconcileNodeAnnotations,
\* ensureNrtCondition and removeNrtCondition compare with the cached node, and no event follows
\* from an annotation or a condition.
OwnWritesSeen(p) ==
    \A n \in Handled(p) : live.nodes[n] # Gone =>
        <<seen.nodes[n].link, seen.nodes[n].policy, seen.nodes[n].cond>>
            = <<live.nodes[n].link, live.nodes[n].policy, live.nodes[n].cond>>

\* reconcileNodes.  At most one write fails; the others are made all the same.
reconcileNodes(p) ==
    /\ job = Idle /\ p \in queued
    /\ queued' = queued \ {p}
    /\ unheard' = IF OwnWritesSeen(p) THEN unheard \ {p} ELSE unheard \cup {p}
    /\ \E bad \in Nodes \cup {Nobody}, fails \in {"label", "annotations", "condition"} :
         LET at == [n \in Handled(p) |-> HandleNode(p, seen.pools[p], n,
                                                    IF n = bad THEN fails ELSE "none")] IN
         /\ bad = Nobody => fails = "label"
         /\ bad # Nobody => bad \in Handled(p) /\ failures < MaxFailures
         /\ failures' = IF bad = Nobody THEN failures ELSE failures + 1
         /\ StoreNodes([n \in Nodes |-> IF n \in Handled(p) THEN at[n][2] ELSE live.nodes[n]])
         /\ job' = [step |-> "status", pool |-> p, copy |-> seen.pools[p],
                    failed |-> \E n \in Handled(p) : at[n][3],
                    nodes |-> [n \in {m \in Handled(p) : at[m][1].pool = p} |-> at[n][1]]]
    /\ UNCHANGED seen /\ Rest

-----------------------------------------------------------------------------
(* The status of a NodePool.                                                *)

isNodeReady(node) == ~node.cordoned /\ node.up

\* getNodesSituation: the state of each node of the pool.
NodeState(node) == IF ~isNodeReady(node) THEN "Unschedulable"
                   ELSE IF node.cond # "absent" THEN "MissingNrtHealthyPrerequisite" ELSE "Ready"

MissingItems(nodes) == {nodes[n].cond : n \in DOMAIN nodes} \ {"absent"}

NodesInPool(nodes, mismatching) ==
    [n \in Nodes |-> IF n \in DOMAIN nodes
                     THEN [state |-> NodeState(nodes[n]), mismatch |-> n \in mismatching] ELSE Gone]

nodePoolPhaseForNodeSituation(nodes) ==
    LET ready == \E n \in DOMAIN nodes : isNodeReady(nodes[n])
        phase == IF ready THEN "Ready" ELSE IF DOMAIN nodes = {} THEN "Empty" ELSE "Unschedulable"
    IN  IF MissingItems(nodes) # {} /\ phase # "Unschedulable" THEN "MissingPrerequisites" ELSE phase

\* getTopologyMismatchNodes, when the topology could be read.
TopologyMismatchNodes(pool, nodes) ==
    {n \in DOMAIN nodes : pool.topology /\ seen.topology = "levels" /\ ~nodes[n].level}

TopologyFails(pool) == pool.topology /\ seen.topology = Gone

\* A scheduler that is not ready leaves the conditions as they are, a topology that cannot be
\* read the mismatch.
calculateNodePoolStatus(pool, nodes, ready) ==
    LET bad == TopologyMismatchNodes(pool, nodes) IN
    IF ~ready
    THEN [pool.status EXCEPT !.phase = "Unschedulable", !.by = "scheduler",
                             !.nodes = NodesInPool(nodes, {})]
    ELSE [phase |-> nodePoolPhaseForNodeSituation(nodes), by |-> "nodes",
          nodes |-> NodesInPool(nodes, IF TopologyFails(pool) THEN {} ELSE bad),
          nrt |-> MissingItems(nodes),
          mismatch |-> IF TopologyFails(pool) THEN pool.status.mismatch ELSE bad # {}]

calculateGPUNetworkAccelerationDetected(pool, nodes) ==
    IF pool.detect = "Use" \/ (pool.detect = "Auto" /\ \E n \in DOMAIN nodes : nodes[n].nvlink)
    THEN "true" ELSE "false"

\* updateAnnotationStatusFields, on the copy of the NodePool it is given.
Detected(pool, nodes) ==
    IF pool.detect = "absent" THEN pool.detected ELSE calculateGPUNetworkAccelerationDetected(pool, nodes)

Finish(failed) == /\ job' = Idle
                  /\ queued' = IF failed THEN queued \cup {job.pool} ELSE queued

\* reconcileNodePoolStatus.  The status is written if it differs from the one that was read;
\* the write returns the stored NodePool.  An error in one part does not stop the other.
reconcileNodePoolStatus ==
    /\ job.step = "status"
    /\ \E fails \in {"none", "status", "annotation"} :
         LET p == job.pool
             ready == seen.schedulers[p]
             status == calculateNodePoolStatus(job.copy, job.nodes, ready)
             writes == status # job.copy.status
             stored == [live.pools[p] EXCEPT !.status = status]
             patched == writes /\ fails # "status"
             base == IF patched THEN stored ELSE live.pools[p]
             copy == IF patched THEN stored ELSE job.copy
             annotates == Detected(copy, job.nodes) # copy.detected
             failed == \/ job.failed
                       \/ writes /\ fails = "status"
                       \/ annotates /\ fails = "annotation"
                       \/ ready /\ TopologyFails(job.copy) IN
         /\ fails # "none" => failures < MaxFailures
         /\ failures' = IF fails = "none" THEN failures ELSE failures + 1
         /\ StorePool(p, IF annotates /\ fails # "annotation"
                         THEN [base EXCEPT !.detected = Detected(copy, job.nodes)] ELSE base)
         /\ Finish(failed)
    /\ UNCHANGED <<seen, unheard>> /\ Rest

\* The controller starts: it lists everything, and looks for the CRD once (SetupWithManager).
Started ==
    /\ seen' = [k \in Kinds |-> live[k]] /\ stale' = {}
    /\ queued' = Pools /\ job' = Idle /\ unheard' = {} /\ nrtEnabled' = live.crd
    /\ UNCHANGED <<setup, live, edits>>

\* watchForNrtCRD: it ends itself when the CRD is installed.
RestartForNrt == ~nrtEnabled /\ live.crd /\ Started /\ UNCHANGED failures

Crash == failures < MaxFailures /\ failures' = failures + 1 /\ Started

-----------------------------------------------------------------------------
(* Other people and programs.                                               *)

Edit(kind) == kind \in setup.kinds /\ edits < MaxEdits /\ edits' = edits + 1
Outside == UNCHANGED <<setup, seen, queued, job, nrtEnabled, unheard, failures>>

NewNode(p) == [sel |-> p, pool |-> Default, up |-> TRUE, cordoned |-> FALSE, level |-> FALSE,
               nvlink |-> FALSE, link |-> FALSE, policy |-> "absent", cond |-> "absent"]

EditNode ==
    \E n \in Nodes :
      LET set(node) == StoreNodes([live.nodes EXCEPT ![n] = node]) IN
      /\ \/ Edit("join") /\ live.nodes[n] = Gone /\ \E p \in Pools : set(NewNode(p))
         \/ /\ live.nodes[n] # Gone
            /\ \/ Edit("leave") /\ set(Gone)
               \/ Edit("select") /\ \E p \in Pools \ {live.nodes[n].sel} :
                                       set([live.nodes[n] EXCEPT !.sel = p])
               \/ Edit("cordon") /\ set([live.nodes[n] EXCEPT !.cordoned = ~@])
               \/ Edit("level") /\ set([live.nodes[n] EXCEPT !.level = ~@])
               \/ Edit("nvlink") /\ set([live.nodes[n] EXCEPT !.nvlink = ~@])
               \/ Edit("up") /\ set([live.nodes[n] EXCEPT !.up = ~@])
      /\ Outside

EditPool ==
    \E p \in Pools :
      /\ \/ Edit("numa") /\ StorePool(p, [live.pools[p] EXCEPT !.numa = ~@])
         \/ Edit("detect") /\ \E d \in Detections \ {live.pools[p].detect} :
                                 StorePool(p, [live.pools[p] EXCEPT !.detect = d])
         \/ Edit("network") /\ StorePool(p, [live.pools[p] EXCEPT !.topology = ~@])
         \/ /\ Edit("scheduler")
            /\ live' = [live EXCEPT !.schedulers[p] = ~@]
            /\ stale' = stale \cup {Event("schedulers", p, TRUE)}
      /\ Outside

EditNrt ==
    /\ Edit("nrt") /\ live.crd
    /\ \E n \in Nodes, nrt \in Nrts \cup {Gone} :
         /\ nrt # live.nrt[n]
         /\ live' = [live EXCEPT !.nrt[n] = nrt]
         /\ stale' = stale \cup {Event("nrt", n, NrtPasses(live.nrt[n], nrt))}
    /\ Outside

\* Nothing watches Topology objects; the cache follows them all the same.
EditTopology ==
    /\ Edit("topology")
    /\ \E t \in Topologies \ {live.topology} :
         live' = [live EXCEPT !.topology = t]
    /\ stale' = stale \cup {Event("topology", Nobody, FALSE)}
    /\ Outside

InstallCRD ==
    /\ Edit("crd") /\ ~live.crd
    /\ live' = [live EXCEPT !.crd = TRUE] /\ UNCHANGED stale
    /\ Outside

-----------------------------------------------------------------------------
Init ==
    /\ setup \in Setups
    /\ live = [nodes |-> setup.nodes, nrt |-> setup.nrt, pools |-> setup.pools, crd |-> setup.crd,
               topology |-> setup.topology, schedulers |-> [p \in Pools |-> TRUE]]
    /\ seen = [k \in Kinds |-> live[k]] /\ stale = {}
    /\ queued = Pools /\ job = Idle /\ nrtEnabled = setup.crd /\ unheard = {}
    /\ edits = 0 /\ failures = 0

Next ==
    \/ \E kind \in Kinds : Sync(kind)
    \/ \E p \in Pools : reconcileNodes(p)
    \/ reconcileNodePoolStatus \/ RestartForNrt \/ Crash
    \/ EditNode \/ EditPool \/ EditNrt \/ EditTopology \/ InstallCRD

Spec == Init /\ [][Next]_vars

-----------------------------------------------------------------------------
(* Properties.                                                              *)

Store == [nodes : [Nodes -> Node \cup {Gone}], nrt : [Nodes -> Nrts \cup {Gone}], pools : [Pools -> Pool],
          schedulers : [Pools -> BOOLEAN], topology : Topologies, crd : BOOLEAN]
Cache == [nodes : [Nodes -> Node \cup {Gone}], nrt : [Nodes -> Nrts \cup {Gone}], pools : [Pools -> Pool],
          schedulers : [Pools -> BOOLEAN], topology : Topologies]

\* What is stored and cached, the events, which NodePools wait, and the reconcile in progress.
TypeOK ==
    /\ live \in Store /\ seen \in Cache
    /\ \A e \in stale : /\ e.kind \in Kinds /\ e.heard \in BOOLEAN /\ e.missed \in BOOLEAN
                        /\ e.kind \in {"nodes", "pools", "schedulers"} => e.of \in Pools
                        /\ e.kind = "nrt" => e.of \in Nodes
    /\ queued \subseteq Pools /\ unheard \subseteq Pools /\ nrtEnabled \in BOOLEAN
    /\ job # Idle => /\ job.step = "status" /\ job.pool \in Pools /\ job.copy \in Pool
                     /\ job.failed \in BOOLEAN /\ DOMAIN job.nodes \subseteq Nodes
                     /\ \A n \in DOMAIN job.nodes : job.nodes[n] \in Node
    /\ edits \in 0 .. MaxEdits /\ failures \in 0 .. MaxFailures

AtRest == queued = {} /\ job = Idle /\ stale = {} /\ nrtEnabled = live.crd

Members(p) == {n \in Nodes : live.nodes[n] # Gone /\ live.nodes[n].pool = p}
Usable(n) == live.nodes[n].up /\ ~live.nodes[n].cordoned

\* The node's NodeResourceTopology is missing or unusable and the pool needs it.
Lacks(p, n) == live.pools[p].numa /\ live.nrt[n] # [zones |-> TRUE, policy |-> "strict"]

\* NUMA placement is wanted of the node and its NodeResourceTopology names a policy.
Attributed(p, n) == live.pools[p].numa /\ live.nrt[n] # Gone /\ live.nrt[n].policy # "absent"

\* The phases of docs/reference/conditions-and-phases.md:21-24.
PhaseOf(p) ==
    CASE ~live.schedulers[p] -> "Unschedulable"
      [] live.schedulers[p] /\ Members(p) = {} -> "Empty"
      [] live.schedulers[p] /\ Members(p) # {} /\ ~\E n \in Members(p) : Usable(n) -> "Unschedulable"
      [] OTHER -> IF \E n \in Members(p) : Lacks(p, n) THEN "MissingPrerequisites" ELSE "Ready"

\* The status, the conditions and annotations of the nodes, and the labels.
Truthful(p) ==
    LET pool == live.pools[p]  status == pool.status IN
    /\ status.phase = PhaseOf(p)
    /\ \A n \in Nodes : (status.nodes[n] # Gone) = (n \in Members(p))
    /\ \A n \in Members(p) :
         /\ live.nodes[n].sel = p
         /\ (live.nodes[n].cond # "absent") = Lacks(p, n)
         /\ (status.nodes[n].state = "Unschedulable") = ~Usable(n)
         /\ Usable(n) => (status.nodes[n].state = "Ready") = ~Lacks(p, n)
         /\ (live.nodes[n].policy # "absent") = Attributed(p, n)
         /\ live.nodes[n].link = (pool.detect = "Auto")
    /\ live.schedulers[p] =>
         /\ (status.nrt # {}) = (\E n \in Members(p) : Lacks(p, n))
         /\ status.mismatch = (\E n \in Members(p) :
                                 pool.topology /\ live.topology = "levels" /\ ~live.nodes[n].level)
    /\ pool.detect = "Auto" => (pool.detected = "true") = (\E n \in Members(p) : live.nodes[n].nvlink)

\* When the controller has nothing left to do, the status of a NodePool, the conditions of its
\* nodes and its detection result are those of what is stored, whatever failed, was read too
\* early from a cache, or happened between the two halves of a reconcile; unless something
\* changed since the last reconcile that no event announces, or that reconcile did not see the
\* controller's own writes (unheard).
Reported == AtRest => \A p \in Pools \ unheard : Truthful(p)

\* docs/reference/conditions-and-phases.md:21, of the phase Ready: "At least one node in the node
\* pool is ready".  When the controller has nothing left to do, a NodePool that is Ready has one.
ReadyHasNode ==
    AtRest => \A p \in Pools : live.pools[p].status.phase = "Ready" => \E n \in Members(p) : Usable(n)
=============================================================================
