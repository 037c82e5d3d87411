--------------------------- MODULE NodePoolsProofs ---------------------------
(***************************************************************************)
(* Proofs about NodePools for any number of node pools, edits, pods and    *)
(* failures: types, the pairing of the controllers' cordon with its label, *)
(* that nodes of unmanaged partitions are left alone, and that the node    *)
(* ends up in the pool that is selected for it.                            *)
(***************************************************************************)
EXTENDS NodePools, TLAPS

\* Z3 first, then Zenon; a leaf that cites Zenon starts with it.
USE SMTT(30), ZenonT(30)

-----------------------------------------------------------------------------
(* What the operators return *)

\* The pool a look-up finds is a node pool that was listed, or the default.
LEMMA FoundPool ==
    ASSUME NEW n \in Node, NEW available \in SUBSET Pools,
           NEW pool \in findMatchingNodePoolFromList(n, available)
    PROVE  pool \in NodePoolNames
BY DEF findMatchingNodePoolFromList, NodePoolNames

\* A patch of the cordon changes a node into a node of the same pool.
LEMMA CordonPatchType ==
    ASSUME NEW n \in Node, NEW copy \in Node, NEW u \in BOOLEAN
    PROVE  /\ CordonPatch(n, copy, u) \in Node
           /\ CordonPatch(n, copy, u).pool = n.pool
BY ZenonT(30) DEF CordonPatch, LabelOnly, Node

\* A node event reconciles node pools only.
LEMMA MapNodeType ==
    ASSUME TypeOK, NEW n \in Node
    PROVE  MapNodeToNodePoolEvent(n) \in SUBSET Requests
BY DEF TypeOK, MapNodeToNodePoolEvent, getAvailableNodePools, Node, Cache, Requests,
       PoolLabels, NodePoolNames, IsUnmanaged

\* What a list of a reconcile asks for is a move or a check of the node.
LEMMA VisitType ==
    ASSUME NEW pool \in NodePoolNames, NEW k \in 1..3, NEW n \in Node,
           NEW available \in SUBSET Pools,
           NEW v \in ReconcileNodes(pool, k, n, available)
                       \cup reassignNodeForDeletingNodePool(pool, k, n)
    PROVE  /\ v.move \in BOOLEAN
           /\ v.old \in PoolLabels
           /\ v.new \in NodePoolNames \cup {Excluded, Find}
<1>1. /\ n.pool \in PoolLabels
      /\ pool \in PoolLabels
      /\ Default \in PoolLabels /\ Default \in NodePoolNames
  BY DEF Node, PoolLabels, NodePoolNames
<1>2. ASSUME NEW a \in PoolLabels, NEW b \in NodePoolNames \cup {Excluded, Find}, v = Change(a, b)
      PROVE  /\ v.move \in BOOLEAN /\ v.old \in PoolLabels
             /\ v.new \in NodePoolNames \cup {Excluded, Find}
  BY <1>2 DEF Change
<1>3. ASSUME NEW a \in NodePoolNames, v = Check(a)
      PROVE  /\ v.move \in BOOLEAN /\ v.old \in PoolLabels
             /\ v.new \in NodePoolNames \cup {Excluded, Find}
  BY <1>3 DEF Check, PoolLabels
<1>4. CASE v \in reassignNodeForDeletingNodePool(pool, k, n)
  BY <1>1, <1>2, <1>4 DEF reassignNodeForDeletingNodePool
<1>5. CASE v \in ReconcileNodes(pool, k, n, available) /\ pool # Default
  BY <1>1, <1>2, <1>3, <1>5 DEF ReconcileNodes, NodePoolVisits
<1>6. CASE v \in ReconcileNodes(pool, k, n, available) /\ pool = Default
  BY <1>1, <1>2, <1>3, <1>6, FoundPool DEF ReconcileNodes, DefaultVisits
<1>7. QED
  BY <1>4, <1>5, <1>6

\* A controller between reconciles, and a node not seen yet, are typed.
LEMMA IdleType == Idle \in Job /\ InitNode(Default) \in Node
BY DEF Idle, InitNode, Job, Node, Requests, PoolLabels, NodePoolNames

-----------------------------------------------------------------------------
(* Types *)

\* A reconcile of the NodePool controller is one of a node pool.
KeyInv == job["nodePools"].step # "idle" => job["nodePools"].key \in NodePoolNames

\* The start is typed.
LEMMA InitType == Init => TypeOK /\ KeyInv
<1> SUFFICES ASSUME Init PROVE TypeOK /\ KeyInv
  OBVIOUS
<1>1. node \in Node
  <2>1. PICK pool \in {Default} \cup Unmanaged : node = InitNode(pool)
    BY DEF Init
  <2>2. QED
    BY <2>1 DEF InitNode, Node, PoolLabels, NodePoolNames
<1>2. pools \in [NodePoolNames -> PoolState]
  BY DEF Init, PoolState
<1>3. cache \in Cache
  BY ZenonT(30), <1>1, <1>2 DEF Init, Cache
<1>4. job \in [Controllers -> Job]
  BY IdleType DEF Init
<1>5. KeyInv
  BY DEF Init, KeyInv, Idle, Controllers
<1>6. queue \in [Controllers -> SUBSET Requests]
  BY DEF Init
<1>7. edits \in 0..MaxEdits /\ binds \in 0..MaxBinds /\ failures \in 0..MaxFailures
  BY ConstantsAssumption DEF Init
<1>8. /\ criteria \in BOOLEAN /\ unseen \in BOOLEAN /\ projects \in SUBSET Pools
      /\ pods \in SUBSET NodePoolNames /\ dropped \in SUBSET Pools
  BY ZenonT(30) DEF Init
<1>9. QED
  BY <1>1, <1>2, <1>3, <1>4, <1>5, <1>6, <1>7, <1>8 DEF TypeOK

\* A patch leaves a node.
LEMMA PatchType ==
    ASSUME TypeOK, NEW n \in Node, PatchNode(n)
    PROVE  node' \in Node /\ unseen' \in BOOLEAN
BY DEF PatchNode, TypeOK

\* The parts of the state a step of the environment changes.
LEMMA EnvironmentType ==
    ASSUME TypeOK, KeyInv, Environment
    PROVE  TypeOK' /\ KeyInv'
<1> USE ConstantsAssumption
<1>1. CASE EditNode
  <2>1. ASSUME NEW labels \in SUBSET Pools, NEW managed \in BOOLEAN
        PROVE  [node EXCEPT !.labels = labels, !.managed = managed] \in Node
    BY ZenonT(30), <2>1 DEF TypeOK, Node
  <2>2. [node EXCEPT !.unschedulable = ~node.unschedulable] \in Node
    BY ZenonT(30) DEF TypeOK, Node
  <2>3. \A pool \in Unmanaged : [node EXCEPT !.pool = pool] \in Node
    BY DEF TypeOK, Node, PoolLabels
  <2>4. node' \in Node /\ unseen' \in BOOLEAN /\ edits' \in 0..MaxEdits
    <3>1. edits' \in 0..MaxEdits
      <4>1. \E kind \in Edits : Edit(kind)
        <5>1. ASSUME NEW kind, Edit(kind) PROVE \E k \in Edits : Edit(k)
          BY <5>1 DEF Edit
        <5>2. Edit("labels") \/ Edit("cordon") \/ Edit("partition")
          BY ZenonT(30), <1>1 DEF EditNode
        <5>3. QED
          BY <5>1, <5>2
      <4>2. QED
        BY <4>1 DEF Edit, TypeOK
    <3>2. \E n \in Node : PatchNode(n)
      <4>1. CASE \E labels \in SUBSET Pools, managed \in BOOLEAN :
                   PatchNode([node EXCEPT !.labels = labels, !.managed = managed])
        <5>1. PICK labels \in SUBSET Pools, managed \in BOOLEAN :
                     PatchNode([node EXCEPT !.labels = labels, !.managed = managed])
          BY ZenonT(30), <4>1
        <5>2. QED
          BY ZenonT(30), <5>1, <2>1
      <4>2. CASE PatchNode([node EXCEPT !.unschedulable = ~node.unschedulable])
        BY <4>2, <2>2
      <4>3. CASE \E pool \in Unmanaged : PatchNode([node EXCEPT !.pool = pool])
        BY <4>3, <2>3
      <4>4. QED
        BY ZenonT(30), <1>1, <4>1, <4>2, <4>3 DEF EditNode
    <3>3. QED
      BY <3>1, <3>2, PatchType
  <2>5. QED
    BY ZenonT(30), <1>1, <2>4 DEF EditNode, TypeOK, KeyInv
<1>2. CASE EditCriteria
  BY <1>2 DEF EditCriteria, Edit, TypeOK, KeyInv
<1>3. CASE EditProjects
  BY <1>3 DEF EditProjects, Edit, TypeOK, KeyInv
<1>4. CASE EditPools
  BY <1>4 DEF EditPools, Edit, TypeOK, KeyInv, PoolState, NodePoolNames
<1>5. CASE BindPod
  BY <1>5 DEF BindPod, TypeOK, KeyInv
<1>6. CASE \E p \in NodePoolNames : FinishPods(p)
  BY <1>6 DEF FinishPods, TypeOK, KeyInv, objects, bounds
<1>7. CASE Restart
  <2>1. cache' \in Cache
    BY <1>7 DEF Restart, TypeOK, Cache
  <2>2. queue' \in [Controllers -> SUBSET Requests]
    BY ZenonT(30), <1>7 DEF Restart, TypeOK, Requests
  <2>3. job' \in [Controllers -> Job] /\ KeyInv'
    BY <1>7, IdleType DEF Restart, KeyInv, Controllers, Idle
  <2>4. failures' \in 0..MaxFailures
    BY <1>7 DEF Restart, Fails, TypeOK
  <2>5. QED
    BY ZenonT(30), <1>7, <2>1, <2>2, <2>3, <2>4 DEF Restart, TypeOK, objects
<1>8. QED
  BY <1>1, <1>2, <1>3, <1>4, <1>5, <1>6, <1>7 DEF Environment

\* The parts of the state a delivery changes.
LEMMA DeliverType ==
    ASSUME TypeOK, KeyInv, Deliver
    PROVE  TypeOK' /\ KeyInv'
<1>1. CASE SyncNode
  <2>1. cache' \in Cache
    BY <1>1 DEF SyncNode, TypeOK, Cache
  <2>2. /\ MapNodeToNodePoolEvent(cache.node) \in SUBSET Requests
        /\ MapNodeToNodePoolEvent(node) \in SUBSET Requests
    BY MapNodeType DEF TypeOK, Cache
  <2>3. queue' \in [Controllers -> SUBSET Requests]
    BY ZenonT(30), <1>1, <2>2 DEF SyncNode, TypeOK, Requests
  <2>4. QED
    BY ZenonT(30), <1>1, <2>1, <2>3 DEF SyncNode, TypeOK, KeyInv, objects, bounds
<1>2. CASE SyncManagedNodesConfig
  <2>1. cache' \in Cache
    BY <1>2 DEF SyncManagedNodesConfig, TypeOK, Cache
  <2>2. QED
    BY ZenonT(30), <1>2, <2>1 DEF SyncManagedNodesConfig, TypeOK, KeyInv, objects, bounds, Requests
<1>3. CASE SyncProjects
  <2>1. cache' \in Cache
    BY <1>3 DEF SyncProjects, TypeOK, Cache
  <2>2. QED
    BY ZenonT(30), <1>3, <2>1 DEF SyncProjects, TypeOK, KeyInv, objects, bounds, Requests, NodePoolNames
<1>4. CASE SyncPods
  <2>1. cache' \in Cache
    BY <1>4 DEF SyncPods, TypeOK, Cache
  <2>2. QED
    BY <1>4, <2>1 DEF SyncPods, TypeOK, KeyInv, objects, bounds
<1>5. ASSUME NEW p \in NodePoolNames, SyncNodePool(p)
      PROVE  TypeOK' /\ KeyInv'
  <2>1. cache' \in Cache
    BY <1>5 DEF SyncNodePool, TypeOK, Cache
  <2>2. QED
    BY ZenonT(30), <1>5, <2>1 DEF SyncNodePool, TypeOK, KeyInv, objects, bounds, Requests
<1>6. QED
  BY <1>1, <1>2, <1>3, <1>4, <1>5 DEF Deliver

\* A reconcile that ends leaves an idle worker.
LEMMA FinishType ==
    ASSUME TypeOK, KeyInv, NEW c \in Controllers, NEW err \in BOOLEAN, Finish(c, err)
    PROVE  /\ job' \in [Controllers -> Job]
           /\ queue' \in [Controllers -> SUBSET Requests]
           /\ KeyInv'
<1>1. job' = [job EXCEPT ![c] = Idle]
  BY DEF Finish
<1>2. job' \in [Controllers -> Job]
  BY <1>1, IdleType DEF TypeOK
<1>3. job[c].key \in Requests
  BY DEF TypeOK, Job
<1>4. queue' \in [Controllers -> SUBSET Requests]
  BY <1>3 DEF Finish, TypeOK
<1>5. KeyInv'
  BY <1>1 DEF TypeOK, KeyInv, Idle, Controllers
<1>6. QED
  BY <1>2, <1>4, <1>5

\* A step of a visit keeps the request it works on.
LEMMA StepType ==
    ASSUME TypeOK, KeyInv, NEW c \in Controllers, NEW j \in Job,
           j.key = job[c].key, job[c].step # "idle",
           job' = [job EXCEPT ![c] = j]
    PROVE  job' \in [Controllers -> Job] /\ KeyInv'
BY DEF TypeOK, KeyInv, Controllers

\* What follows a visit.
LEMMA VisitEndsType == \A c \in Controllers : VisitEnds(c) \in {"list", "mark"}
BY DEF VisitEnds

\* A visit that fails ends the reconcile.
LEMMA VisitFailsType ==
    ASSUME TypeOK, KeyInv, NEW c \in Controllers, job[c].step # "idle", VisitFails(c)
    PROVE  /\ job' \in [Controllers -> Job]
           /\ queue' \in [Controllers -> SUBSET Requests]
           /\ KeyInv'
<1> DEFINE j == [job[c] EXCEPT !.step = VisitEnds(c), !.err = TRUE]
<1>1. j \in Job /\ j.key = job[c].key
  BY ZenonT(30), VisitEndsType DEF TypeOK, Job
<1>2. CASE Finish(c, TRUE)
  BY ZenonT(30), <1>2, FinishType
<1>3. CASE job' = [job EXCEPT ![c].step = VisitEnds(c), ![c].err = TRUE] /\ queue' = queue
  <2>1. job' = [job EXCEPT ![c] = j]
    BY ZenonT(30), <1>3
  <2>2. QED
    BY ZenonT(30), <1>1, <1>3, <2>1, StepType DEF TypeOK
<1>4. QED
  BY ZenonT(30), <1>2, <1>3 DEF VisitFails

\* Failures are counted.
LEMMA FailsType == TypeOK /\ Fails => failures' \in 0..MaxFailures
BY ConstantsAssumption DEF TypeOK, Fails

\* The types after the start of a reconcile of a node pool.
LEMMA ReconcileNodePoolType ==
    ASSUME TypeOK, KeyInv, NEW p \in NodePoolNames, ReconcileNodePool(p)
    PROVE  TypeOK' /\ KeyInv'
<1> DEFINE fin == cache.pools[p] = "Deleting"
           start == [Idle EXCEPT !.step = "list", !.key = p, !.finalizing = fin]
<1>1. fin \in BOOLEAN
  OBVIOUS
<1>2. start \in Job /\ start.key = p
  <2> HIDE DEF fin
  <2>1. p \in Requests
    BY DEF Requests
  <2>2. QED
    BY ZenonT(30), <1>1, <2>1, IdleType DEF Job
<1>3. queue' \in [Controllers -> SUBSET Requests]
  <2>1. queue' = queue \/ queue' = [queue EXCEPT !["nodePools"] = @ \ {p}]
    BY DEF ReconcileNodePool
  <2>2. QED
    BY <2>1 DEF TypeOK
<1>4. pools' \in [NodePoolNames -> PoolState]
  BY DEF ReconcileNodePool, addFinalizer, TypeOK, PoolState
<1>5. failures' \in 0..MaxFailures
  BY FailsType DEF ReconcileNodePool, TypeOK
<1>6. job' = job \/ job' = [job EXCEPT !["nodePools"] = start]
  BY DEF ReconcileNodePool
<1>7. job' \in [Controllers -> Job] /\ KeyInv'
  <2> HIDE DEF start
  <2>1. QED
    BY <1>2, <1>6 DEF TypeOK, KeyInv, Controllers
<1>8. QED
  BY <1>3, <1>4, <1>5, <1>7 DEF ReconcileNodePool, TypeOK

\* The types after a list of nodes.
LEMMA ListNodesType ==
    ASSUME TypeOK, KeyInv, ListNodes
    PROVE  TypeOK' /\ KeyInv'
<1> DEFINE j == job["nodePools"]
           available == IF j.finalizing THEN getAvailableNodePools \ {j.key} ELSE getAvailableNodePools
           visits(k) == IF j.finalizing THEN reassignNodeForDeletingNodePool(j.key, k, cache.node)
                        ELSE ReconcileNodes(j.key, k, cache.node, available)
           drains(v) == IF v.move THEN arePodsRunningWithSameNodePool(v.old)
                        ELSE arePodsRunningWithDifferentNodePool(v.old)
           visit(k, v) == [j EXCEPT !.step = "validate", !.todo = k + 1, !.copy = cache.node,
                               !.available = available, !.move = v.move, !.old = v.old, !.new = v.new,
                               !.drain = drains(v)]
<1>1. j \in Job /\ j.step = "list" /\ j.key \in NodePoolNames /\ "nodePools" \in Controllers
  BY ZenonT(30) DEF ListNodes, TypeOK, KeyInv, Controllers
<1>2. available \in SUBSET Pools
  BY DEF getAvailableNodePools
<1>3. cache.node \in Node
  BY DEF TypeOK, Cache
<1>4. CASE \E k \in j.todo..3 : \E v \in visits(k) :
              job' = [job EXCEPT !["nodePools"] = visit(k, v)] /\ UNCHANGED <<pools, queue, failures>>
  <2>1. PICK k \in j.todo..3 : \E v \in visits(k) :
              job' = [job EXCEPT !["nodePools"] = visit(k, v)] /\ UNCHANGED <<pools, queue, failures>>
    BY ZenonT(30), <1>4
  <2>2. PICK v \in visits(k) :
              job' = [job EXCEPT !["nodePools"] = visit(k, v)] /\ UNCHANGED <<pools, queue, failures>>
    BY ZenonT(30), <2>1
  <2>3. k \in 1..3
    BY <1>1, <2>1 DEF Job
  <2>4. /\ v.move \in BOOLEAN /\ v.old \in PoolLabels
        /\ v.new \in NodePoolNames \cup {Excluded, Find}
    <3>1. v \in ReconcileNodes(j.key, k, cache.node, available)
                   \cup reassignNodeForDeletingNodePool(j.key, k, cache.node)
      BY <2>2
    <3>2. QED
      BY ZenonT(30), <1>1, <1>2, <1>3, <2>3, <3>1, VisitType
  <2>5. drains(v) \in BOOLEAN
    <3>1. /\ arePodsRunningWithSameNodePool(v.old) \in BOOLEAN
          /\ arePodsRunningWithDifferentNodePool(v.old) \in BOOLEAN
      BY DEF arePodsRunningWithSameNodePool, arePodsRunningWithDifferentNodePool
    <3>2. CASE v.move
      BY <3>1, <3>2
    <3>3. CASE ~v.move
      BY <3>1, <3>3
    <3>4. QED
      BY <3>2, <3>3
  <2>6. visit(k, v) \in Job /\ visit(k, v).key = j.key
    <3> HIDE DEF drains, available, j
    <3>1. k + 1 \in 1..4
      BY <2>3
    <3>2. QED
      BY ZenonT(30), <1>1, <1>2, <1>3, <2>4, <2>5, <3>1 DEF Job
  <2>7. job' \in [Controllers -> Job] /\ KeyInv'
    <3> HIDE DEF visit
    <3>1. QED
      BY ZenonT(30), <1>1, <2>2, <2>6, StepType
  <2>8. UNCHANGED <<node, pools, criteria, projects, pods, cache, unseen, queue, dropped, edits, binds, failures>>
    <3> HIDE DEF visit
    <3>1. QED
      BY ZenonT(30), <2>2 DEF ListNodes
  <2>9. QED
    BY <2>7, <2>8 DEF TypeOK
<1>5. CASE \E err \in BOOLEAN : Finish("nodePools", err) /\ (UNCHANGED pools \/ deleteFinalizer(j.key))
  <2>1. PICK err \in BOOLEAN : Finish("nodePools", err) /\ (UNCHANGED pools \/ deleteFinalizer(j.key))
    BY <1>5
  <2>2. pools' \in [NodePoolNames -> PoolState]
    BY <2>1 DEF deleteFinalizer, TypeOK, PoolState
  <2>3. failures' \in 0..MaxFailures
    BY ZenonT(30), FailsType DEF ListNodes, finalize, TypeOK
  <2>4. QED
    BY ZenonT(30), <1>1, <2>1, <2>2, <2>3, FinishType DEF ListNodes, TypeOK
<1>6. j.err \in BOOLEAN
  BY <1>1 DEF Job
<1>7. QED
  BY ZenonT(30), <1>4, <1>5, <1>6 DEF ListNodes, finalize

\* The types after the start of a reconcile of managed nodes.
LEMMA ReconcileManagedNodesType ==
    ASSUME TypeOK, KeyInv, NEW key \in {"node", "config"}, ReconcileManagedNodes(key)
    PROVE  TypeOK' /\ KeyInv'
<1> DEFINE n == cache.node
           move(new, b) == [[Idle EXCEPT !.key = key, !.copy = n] EXCEPT
                             !.step = "validate", !.move = TRUE, !.old = n.pool, !.new = new, !.drain = b]
           same == arePodsRunningWithSameNodePool(n.pool)
           mark == [[Idle EXCEPT !.key = key, !.copy = n] EXCEPT !.step = "mark"]
<1>1. n \in Node /\ n.pool \in PoolLabels /\ same \in BOOLEAN
  BY DEF TypeOK, Cache, Node, arePodsRunningWithSameNodePool
<1>2. /\ \A new \in {Default, Excluded} : move(new, same) \in Job
      /\ mark \in Job
  <2> HIDE DEF n, same
  <2>1. key \in Requests
    BY DEF Requests
  <2>2. QED
    BY ZenonT(30), <1>1, <2>1, IdleType DEF Job, NodePoolNames
<1>3. \/ job' = job
      \/ \E new \in {Default, Excluded} : job' = [job EXCEPT !["managedNodes"] = move(new, same)]
      \/ job' = [job EXCEPT !["managedNodes"] = mark]
  BY ZenonT(30) DEF ReconcileManagedNodes
<1>4. job' \in [Controllers -> Job] /\ job'["nodePools"] = job["nodePools"]
  <2> HIDE DEF move, mark
  <2>1. QED
    BY <1>2, <1>3 DEF TypeOK, Controllers
<1>5. KeyInv'
  BY <1>4 DEF KeyInv
<1>6. queue' \in [Controllers -> SUBSET Requests]
  BY ZenonT(30) DEF ReconcileManagedNodes, TypeOK
<1>7. QED
  BY <1>4, <1>5, <1>6 DEF ReconcileManagedNodes, TypeOK, objects, bounds

\* The types after the mark of a node.
LEMMA MarkNodeType ==
    ASSUME TypeOK, KeyInv, MarkNode
    PROVE  TypeOK' /\ KeyInv'
<1> DEFINE j == job["managedNodes"]
           waits == j.drain /\ j.new = Excluded
<1>1. j \in Job /\ j.err \in BOOLEAN /\ "managedNodes" \in Controllers
  BY DEF TypeOK, Job, Controllers
<1>2. job' \in [Controllers -> Job] /\ queue' \in [Controllers -> SUBSET Requests] /\ KeyInv'
  BY ZenonT(30), <1>1, FinishType DEF MarkNode
<1>3. node' \in Node /\ unseen' \in BOOLEAN
  <2>1. waits \in BOOLEAN
    OBVIOUS
  <2>2. [node EXCEPT !.toExclude = waits] \in Node
    <3> HIDE DEF waits
    <3>1. QED
      BY <2>1 DEF TypeOK, Node
  <2>3. PatchNode([node EXCEPT !.toExclude = waits]) \/ PatchNode(node) \/ UNCHANGED <<node, unseen>>
    BY ZenonT(30) DEF MarkNode
  <2>4. QED
    <3> HIDE DEF waits
    <3>1. QED
      BY <2>2, <2>3, PatchType DEF TypeOK
<1>4. failures' \in 0..MaxFailures
  BY ZenonT(30), FailsType DEF MarkNode, TypeOK
<1>5. QED
  BY <1>2, <1>3, <1>4 DEF MarkNode, TypeOK

\* The types after the check of a node.
LEMMA ValidateType ==
    ASSUME TypeOK, KeyInv, NEW c \in Controllers, ValidateNodeStatus(c)
    PROVE  TypeOK' /\ KeyInv'
<1> DEFINE j == job[c]
           next == IF j.move /\ ~j.drain THEN "assign" ELSE VisitEnds(c)
           err == j.err \/ (j.drain /\ c = "nodePools" /\ ~j.finalizing)
           goesOn(copy) == [j EXCEPT !.copy = copy, !.step = next, !.err = err]
<1>1. /\ j \in Job /\ j.step = "validate" /\ j.step # "idle"
      /\ j.copy \in Node /\ j.drain \in BOOLEAN
  BY DEF ValidateNodeStatus, TypeOK, Job
<1>2. \A copy \in Node : goesOn(copy) \in Job /\ goesOn(copy).key = j.key
  <2>1. next \in {"assign", "list", "mark"} /\ err \in BOOLEAN
    BY VisitEndsType
  <2> HIDE DEF next, err, j
  <2>2. QED
    BY ZenonT(30), <1>1, <2>1 DEF Job
<1>3. node' \in Node /\ unseen' \in BOOLEAN
  <2>1. PatchNode(CordonPatch(node, j.copy, j.drain)) \/ UNCHANGED <<node, unseen>>
    BY DEF ValidateNodeStatus
  <2>2. QED
    BY ZenonT(30), <1>1, <2>1, PatchType, CordonPatchType DEF TypeOK
<1>4. \/ \E copy \in Node : job' = [job EXCEPT ![c] = goesOn(copy)] /\ queue' = queue
      \/ VisitFails(c)
  <2>1. \/ job' = [job EXCEPT ![c] = goesOn(j.copy)] /\ queue' = queue
        \/ job' = [job EXCEPT ![c] = goesOn(node')] /\ queue' = queue
        \/ VisitFails(c)
    BY Zenon DEF ValidateNodeStatus
  <2>2. QED
    <3> HIDE DEF goesOn
    <3>1. QED
      BY <1>1, <1>3, <2>1
<1>5. job' \in [Controllers -> Job] /\ queue' \in [Controllers -> SUBSET Requests] /\ KeyInv'
  <2>1. CASE VisitFails(c)
    BY <1>1, <2>1, VisitFailsType
  <2>2. CASE \E copy \in Node : job' = [job EXCEPT ![c] = goesOn(copy)] /\ queue' = queue
    <3> HIDE DEF goesOn
    <3>1. QED
      BY ZenonT(30), <1>1, <1>2, <2>2, StepType DEF TypeOK
  <2>3. QED
    BY ZenonT(30), <1>4, <2>1, <2>2
<1>6. failures' \in 0..MaxFailures
  BY FailsType DEF ValidateNodeStatus, TypeOK
<1>7. QED
  BY <1>3, <1>5, <1>6 DEF ValidateNodeStatus, TypeOK

\* The types after an assignment.
LEMMA AssignType ==
    ASSUME TypeOK, KeyInv, NEW c \in Controllers, AssignNodePool(c)
    PROVE  TypeOK' /\ KeyInv'
<1> DEFINE j == job[c]
           goesOn(copy) == [j EXCEPT !.copy = copy, !.step = VisitEnds(c)]
           targets == IF j.new = Find THEN findMatchingNodePoolFromList(j.copy, j.available) ELSE {j.new}
<1>1. /\ j \in Job /\ j.step # "idle" /\ j.copy \in Node
      /\ j.available \in SUBSET Pools /\ j.new \in NodePoolNames \cup {Excluded, Find}
  BY DEF AssignNodePool, TypeOK, Job
<1>2. \A copy \in Node : goesOn(copy) \in Job /\ goesOn(copy).key = j.key
  <2> HIDE DEF j
  <2>1. QED
    BY ZenonT(30), <1>1, VisitEndsType DEF Job
<1>3. \A pool \in targets : pool \in NodePoolNames \cup {Excluded}
  BY <1>1, FoundPool
<1>4. PICK pool \in targets :
        \/ job' = [job EXCEPT ![c] = goesOn(j.copy)] /\ queue' = queue /\ UNCHANGED <<node, unseen, failures>>
        \/ /\ PatchNode([node EXCEPT !.pool = pool])
           /\ job' = [job EXCEPT ![c] = goesOn(node')] /\ queue' = queue
           /\ UNCHANGED failures
        \/ Fails /\ VisitFails(c) /\ UNCHANGED <<node, unseen>>
  BY Zenon DEF AssignNodePool
<1>5. node' \in Node /\ unseen' \in BOOLEAN
  <2>1. [node EXCEPT !.pool = pool] \in Node
    BY <1>3 DEF TypeOK, Node, PoolLabels
  <2>2. QED
    BY <1>4, <2>1, PatchType DEF TypeOK
<1>6. job' \in [Controllers -> Job] /\ queue' \in [Controllers -> SUBSET Requests] /\ KeyInv'
  <2>1. CASE VisitFails(c)
    BY <1>1, <2>1, VisitFailsType
  <2>2. CASE \E copy \in Node : job' = [job EXCEPT ![c] = goesOn(copy)] /\ queue' = queue
    <3> HIDE DEF goesOn
    <3>1. QED
      BY ZenonT(30), <1>1, <1>2, <2>2, StepType DEF TypeOK
  <2>3. QED
    <3> HIDE DEF goesOn
    <3>1. QED
      BY <1>1, <1>4, <1>5, <2>1, <2>2
<1>7. failures' \in 0..MaxFailures
  BY <1>4, FailsType DEF TypeOK
<1>8. QED
  BY <1>5, <1>6, <1>7 DEF AssignNodePool, TypeOK

\* The types after any step.
LEMMA NextType == TypeOK /\ KeyInv /\ [Next]_vars => TypeOK' /\ KeyInv'
<1> SUFFICES ASSUME TypeOK, KeyInv, [Next]_vars PROVE TypeOK' /\ KeyInv'
  OBVIOUS
<1>1. CASE Reconcile
  BY <1>1, ReconcileNodePoolType, ListNodesType, ReconcileManagedNodesType, MarkNodeType,
     ValidateType, AssignType DEF Reconcile
<1>2. CASE UNCHANGED vars
  BY <1>2 DEF vars, TypeOK, KeyInv
<1>3. QED
  BY <1>1, <1>2, DeliverType, EnvironmentType DEF Next

\* Every behaviour keeps the types of NodePools, whatever its constants.
THEOREM NodeTypes == Spec => []TypeOK
<1>1. TypeOK /\ KeyInv /\ [Next]_vars => (TypeOK /\ KeyInv)'
  BY NextType
<1>2. QED
  BY InitType, <1>1, PTL DEF Spec

-----------------------------------------------------------------------------
(* The cordon and its label *)

IsMarked(n) == n.unschedulable = n.byUs

\* Without users' cordons the two go together on the node, in the cache and in
\* the copies of the workers: a patch of the label alone would only be sent for
\* a copy on which they differ.
Marked ==
    "cordon" \notin Edits =>
      /\ IsMarked(node)
      /\ IsMarked(cache.node)
      /\ \A c \in Controllers : IsMarked(job[c].copy)

\* A controller between reconciles holds a marked copy.
LEMMA IdleMarked == IsMarked(Idle.copy)
BY ZenonT(30) DEF Idle, InitNode, IsMarked

\* The start is marked.
LEMMA InitMarked == Init => Marked
<1> SUFFICES ASSUME Init PROVE Marked
  OBVIOUS
<1>1. IsMarked(node)
  <2>1. PICK pool \in {Default} \cup Unmanaged : node = InitNode(pool)
    BY DEF Init
  <2>2. QED
    BY <2>1 DEF InitNode, IsMarked
<1>2. QED
  BY <1>1, IdleMarked DEF Init, Marked

\* A patch for a copy on which cordon and label agree sets both.
LEMMA CordonPatchMarked ==
    ASSUME NEW n \in Node, NEW copy \in Node, NEW u \in BOOLEAN,
           IsMarked(copy), NeedsCordonPatch(copy, u)
    PROVE  IsMarked(CordonPatch(n, copy, u))
<1>1. ~LabelOnly(copy, u)
  BY DEF NeedsCordonPatch, LabelOnly, IsMarked, Node
<1>2. CordonPatch(n, copy, u) = [n EXCEPT !.unschedulable = u, !.byUs = u]
  BY <1>1 DEF CordonPatch
<1>3. QED
  BY <1>2 DEF IsMarked, Node

\* Every copy a worker has after a step is one it had, the cached node, the
\* node itself or the blank one of an idle worker.
LEMMA CopiesFrom ==
    ASSUME TypeOK, Next, NEW c \in Controllers
    PROVE  job'[c].copy \in {job[c].copy, cache.node, node', Idle.copy}
<1>1. CASE Deliver \/ Environment
  BY ZenonT(30), <1>1 DEF Deliver, Environment, SyncNode, SyncManagedNodesConfig, SyncProjects, SyncPods,
     SyncNodePool, EditNode, EditCriteria, EditProjects, EditPools, BindPod, FinishPods, Restart
<1>2. ASSUME NEW d \in Controllers, NEW err, Finish(d, err)
      PROVE  job'[c].copy \in {job[c].copy, Idle.copy}
  BY <1>2 DEF Finish, TypeOK
<1>3. ASSUME NEW d \in Controllers, VisitFails(d)
      PROVE  job'[c].copy \in {job[c].copy, Idle.copy}
  <2>1. CASE Finish(d, TRUE)
    BY ZenonT(30), <2>1, <1>2
  <2>2. CASE job' = [job EXCEPT ![d].step = VisitEnds(d), ![d].err = TRUE]
    BY <2>2 DEF TypeOK, Job
  <2>3. QED
    BY ZenonT(30), <1>3, <2>1, <2>2 DEF VisitFails
<1>4. ASSUME NEW p \in NodePoolNames, ReconcileNodePool(p)
      PROVE  job'[c].copy \in {job[c].copy, Idle.copy}
  <2> DEFINE fin == cache.pools[p] = "Deleting"
             start == [Idle EXCEPT !.step = "list", !.key = p, !.finalizing = fin]
  <2>1. job' = job \/ job' = [job EXCEPT !["nodePools"] = start]
    BY <1>4 DEF ReconcileNodePool
  <2>2. start.copy = Idle.copy
    <3> HIDE DEF fin
    <3>1. QED
      BY IdleType DEF Job
  <2>3. QED
    <3> HIDE DEF start
    <3>1. QED
      BY <2>1, <2>2 DEF TypeOK
<1>5. CASE ListNodes
  <2> DEFINE j == job["nodePools"]
             available == IF j.finalizing THEN getAvailableNodePools \ {j.key} ELSE getAvailableNodePools
             visits(k) == IF j.finalizing THEN reassignNodeForDeletingNodePool(j.key, k, cache.node)
                          ELSE ReconcileNodes(j.key, k, cache.node, available)
             drains(v) == IF v.move THEN arePodsRunningWithSameNodePool(v.old)
                          ELSE arePodsRunningWithDifferentNodePool(v.old)
             visit(k, v) == [j EXCEPT !.step = "validate", !.todo = k + 1, !.copy = cache.node,
                                 !.available = available, !.move = v.move, !.old = v.old, !.new = v.new,
                                 !.drain = drains(v)]
  <2>1. \/ \E k \in j.todo..3 : \E v \in visits(k) : job' = [job EXCEPT !["nodePools"] = visit(k, v)]
        \/ \E err : Finish("nodePools", err)
    BY ZenonT(30), <1>5 DEF ListNodes, finalize
  <2>2. ASSUME NEW k, NEW v PROVE visit(k, v).copy = cache.node
    <3>1. j \in Job
      BY DEF TypeOK, Controllers
    <3> HIDE DEF j, available, drains
    <3>2. QED
      BY <3>1 DEF Job
  <2>3. QED
    <3> HIDE DEF visit
    <3>1. QED
      BY <1>2, <2>1, <2>2 DEF TypeOK, Controllers
<1>6. ASSUME NEW key \in {"node", "config"}, ReconcileManagedNodes(key)
      PROVE  job'[c].copy \in {job[c].copy, cache.node}
  <2> DEFINE n == cache.node
             start == [Idle EXCEPT !.key = key, !.copy = n]
             move(new, b) == [start EXCEPT
                         !.step = "validate", !.move = TRUE, !.old = n.pool, !.new = new, !.drain = b]
             same == arePodsRunningWithSameNodePool(n.pool)
             mark == [start EXCEPT !.step = "mark"]
  <2>1. \/ job' = job
        \/ \E new \in {Default, Excluded} : job' = [job EXCEPT !["managedNodes"] = move(new, same)]
        \/ job' = [job EXCEPT !["managedNodes"] = mark]
    BY ZenonT(30), <1>6 DEF ReconcileManagedNodes
  <2>2. ASSUME NEW new PROVE move(new, same).copy = n /\ mark.copy = n
    <3> HIDE DEF n, same
    <3>1. QED
      BY IdleType DEF Job
  <2>3. QED
    <3> HIDE DEF move, mark
    <3>1. QED
      BY <2>1, <2>2 DEF TypeOK, Controllers
<1>7. CASE MarkNode
  BY ZenonT(30), <1>2, <1>7 DEF MarkNode, Controllers
<1>8. ASSUME NEW d \in Controllers, ValidateNodeStatus(d)
      PROVE  job'[c].copy \in {job[c].copy, node', Idle.copy}
  <2> DEFINE j == job[d]
             next == IF j.move /\ ~j.drain THEN "assign" ELSE VisitEnds(d)
             err == j.err \/ (j.drain /\ d = "nodePools" /\ ~j.finalizing)
             goesOn(copy) == [j EXCEPT !.copy = copy, !.step = next, !.err = err]
  <2>1. \/ job' = [job EXCEPT ![d] = goesOn(j.copy)]
        \/ job' = [job EXCEPT ![d] = goesOn(node')]
        \/ VisitFails(d)
    BY <1>8, Zenon DEF ValidateNodeStatus
  <2>2. ASSUME NEW copy PROVE goesOn(copy).copy = copy
    <3>1. j \in Job
      BY DEF TypeOK
    <3> HIDE DEF j, next, err
    <3>2. QED
      BY <3>1 DEF Job
  <2>3. QED
    <3> HIDE DEF goesOn
    <3>1. QED
      BY <1>3, <2>1, <2>2 DEF TypeOK
<1>9. ASSUME NEW d \in Controllers, AssignNodePool(d)
      PROVE  job'[c].copy \in {job[c].copy, node', Idle.copy}
  <2> DEFINE j == job[d]
             goesOn(copy) == [j EXCEPT !.copy = copy, !.step = VisitEnds(d)]
  <2>1. \/ job' = [job EXCEPT ![d] = goesOn(j.copy)]
        \/ job' = [job EXCEPT ![d] = goesOn(node')]
        \/ VisitFails(d)
    BY <1>9, Zenon DEF AssignNodePool
  <2>2. ASSUME NEW copy PROVE goesOn(copy).copy = copy
    <3>1. j \in Job
      BY DEF TypeOK
    <3> HIDE DEF j
    <3>2. QED
      BY <3>1 DEF Job
  <2>3. QED
    <3> HIDE DEF goesOn
    <3>1. QED
      BY <1>3, <2>1, <2>2 DEF TypeOK
<1>10. QED
  BY <1>1, <1>4, <1>5, <1>6, <1>7, <1>8, <1>9 DEF Next, Reconcile

\* The cached node is the one that was cached, or the node.
LEMMA CachedNode ==
    ASSUME TypeOK, Next
    PROVE  cache'.node \in {cache.node, node}
<1>1. CASE Reconcile
  BY ZenonT(30), <1>1 DEF Reconcile, ReconcileNodePool, ListNodes, ReconcileManagedNodes, MarkNode,
     ValidateNodeStatus, AssignNodePool
<1>2. CASE SyncNode
  BY <1>2 DEF SyncNode, TypeOK, Cache
<1>3. CASE SyncManagedNodesConfig
  BY <1>3 DEF SyncManagedNodesConfig, TypeOK, Cache
<1>4. CASE SyncProjects
  BY <1>4 DEF SyncProjects, TypeOK, Cache
<1>5. CASE SyncPods
  BY <1>5 DEF SyncPods, TypeOK, Cache
<1>6. ASSUME NEW p \in NodePoolNames, SyncNodePool(p)
      PROVE  cache'.node = cache.node
  BY <1>6 DEF SyncNodePool, TypeOK, Cache
<1>7. CASE Restart
  BY <1>7 DEF Restart
<1>8. CASE Environment /\ ~Restart
  BY ZenonT(30), <1>8 DEF Environment, EditNode, EditCriteria, EditProjects, EditPools, BindPod, FinishPods
<1>9. QED
  BY <1>1, <1>2, <1>3, <1>4, <1>5, <1>6, <1>7, <1>8 DEF Next, Deliver

\* What a step leaves of the node and its copies in the API server and the cache.
LEMMA NodeMarked ==
    ASSUME TypeOK, Marked, Next, "cordon" \notin Edits
    PROVE  IsMarked(node') /\ IsMarked(cache'.node)
<1>1. IsMarked(node) /\ IsMarked(cache.node) /\ \A c \in Controllers : IsMarked(job[c].copy)
  BY DEF Marked
<1>2. ASSUME NEW n, PatchNode(n), IsMarked(n) PROVE IsMarked(node')
  BY <1>2 DEF PatchNode
<1>3. IsMarked(node')
  <2>1. CASE EditNode
    <3>1. CASE \E labels \in SUBSET Pools, managed \in BOOLEAN :
                 PatchNode([node EXCEPT !.labels = labels, !.managed = managed])
      <4>1. PICK labels \in SUBSET Pools, managed \in BOOLEAN :
                 PatchNode([node EXCEPT !.labels = labels, !.managed = managed])
        BY ZenonT(30), <3>1
      <4>2. IsMarked([node EXCEPT !.labels = labels, !.managed = managed])
        BY <1>1, <4>1 DEF IsMarked, TypeOK, Node
      <4>3. QED
        BY <1>2, <4>1, <4>2
    <3>2. CASE \E pool \in Unmanaged : PatchNode([node EXCEPT !.pool = pool])
      <4>1. PICK pool \in Unmanaged : PatchNode([node EXCEPT !.pool = pool])
        BY <3>2
      <4>2. IsMarked([node EXCEPT !.pool = pool])
        BY <1>1 DEF IsMarked, TypeOK, Node
      <4>3. QED
        BY <1>2, <4>1, <4>2
    <3>3. QED
      BY ZenonT(30), <2>1, <3>1, <3>2 DEF EditNode, Edit
  <2>2. CASE MarkNode
    <3> DEFINE waits == job["managedNodes"].drain /\ job["managedNodes"].new = Excluded
    <3>1. PatchNode([node EXCEPT !.toExclude = waits]) \/ PatchNode(node) \/ UNCHANGED node
      BY ZenonT(30), <2>2 DEF MarkNode
    <3>2. IsMarked([node EXCEPT !.toExclude = waits])
      <4> HIDE DEF waits
      <4>1. QED
        BY <1>1 DEF IsMarked, TypeOK, Node
    <3>3. QED
      <4> HIDE DEF waits
      <4>1. QED
        BY <1>1, <1>2, <3>1, <3>2
  <2>3. ASSUME NEW c \in Controllers, ValidateNodeStatus(c) PROVE IsMarked(node')
    <3> DEFINE j == job[c]
    <3>1. \/ NeedsCordonPatch(j.copy, j.drain) /\ PatchNode(CordonPatch(node, j.copy, j.drain))
          \/ UNCHANGED node
      BY <2>3 DEF ValidateNodeStatus
    <3>2. j.copy \in Node /\ j.drain \in BOOLEAN /\ node \in Node
      BY DEF TypeOK, Job
    <3>3. NeedsCordonPatch(j.copy, j.drain) => IsMarked(CordonPatch(node, j.copy, j.drain))
      BY <1>1, <3>2, CordonPatchMarked
    <3>4. QED
      BY <1>1, <1>2, <3>1, <3>3
  <2>4. ASSUME NEW c \in Controllers, AssignNodePool(c) PROVE IsMarked(node')
    <3>1. PICK pool : PatchNode([node EXCEPT !.pool = pool]) \/ UNCHANGED node
      BY ZenonT(30), <2>4 DEF AssignNodePool
    <3>2. IsMarked([node EXCEPT !.pool = pool])
      BY <1>1 DEF IsMarked, TypeOK, Node
    <3>3. QED
      BY <1>1, <1>2, <3>1, <3>2
  <2>5. CASE UNCHANGED node
    BY <1>1, <2>5
  <2>6. QED
    BY ZenonT(30), <2>1, <2>2, <2>3, <2>4, <2>5 DEF Next, Reconcile, Deliver, Environment, ReconcileNodePool,
       ListNodes, ReconcileManagedNodes, SyncNode, SyncManagedNodesConfig, SyncProjects, SyncPods,
       SyncNodePool, EditCriteria, EditProjects, EditPools, BindPod, FinishPods, Restart, objects
<1>4. QED
  BY <1>1, <1>3, CachedNode

\* Every step keeps the two together.
LEMMA NextMarked == TypeOK /\ Marked /\ [Next]_vars => Marked'
<1> SUFFICES ASSUME TypeOK, Marked, [Next]_vars, "cordon" \notin Edits
             PROVE  /\ IsMarked(node') /\ IsMarked(cache'.node)
                    /\ \A c \in Controllers : IsMarked(job'[c].copy)
  BY DEF Marked
<1>1. CASE Next
  BY <1>1, NodeMarked, CopiesFrom, IdleMarked DEF Marked
<1>2. CASE UNCHANGED vars
  BY <1>2 DEF vars, Marked
<1>3. QED
  BY <1>1, <1>2

\* While users leave the cordon alone, a cordon of the node carries the label of
\* the controllers and the label comes with a cordon, however many node pools,
\* failures and stale copies there are.
THEOREM CordonMarked == Spec => []CordonIsMarked
<1>1. TypeOK /\ Marked => CordonIsMarked
  <2> SUFFICES ASSUME TypeOK, Marked, "cordon" \notin Edits PROVE node.unschedulable <=> node.byUs
    BY DEF CordonIsMarked
  <2>1. node.unschedulable = node.byUs
    BY ZenonT(30) DEF Marked, IsMarked
  <2>2. QED
    BY <2>1
<1>2. QED
  BY <1>1, NextMarked, InitMarked, NodeTypes, PTL DEF Spec

-----------------------------------------------------------------------------
(* Nodes of unmanaged partitions *)

\* A node of an unmanaged partition is cached as one, and no visit of it is
\* under way.
Unvisited ==
    node.pool \in Unmanaged =>
      /\ cache.node.pool \in Unmanaged
      /\ \A c \in Controllers : job[c].step \in {"idle", "list"}

\* No reconcile has visited anything at the start.
LEMMA InitUnvisited == Init => Unvisited
BY DEF Init, Unvisited, Idle

\* The names of pools, the look-up and the partitions are all different.
LEMMA UnmanagedNames ==
    \A pool \in Unmanaged : pool \notin NodePoolNames /\ pool # Excluded
BY ConstantsAssumption DEF NodePoolNames

\* No list of a reconcile has a node of an unmanaged partition.
LEMMA NoVisit ==
    ASSUME NEW pool \in NodePoolNames, NEW k \in 1..3, NEW n \in Node, n.pool \in Unmanaged,
           NEW available \in SUBSET Pools
    PROVE  /\ ReconcileNodes(pool, k, n, available) = {}
           /\ reassignNodeForDeletingNodePool(pool, k, n) = {}
<1>1. n.pool # pool /\ n.pool # Default
  BY UnmanagedNames DEF NodePoolNames
<1>2. QED
  BY <1>1 DEF ReconcileNodes, NodePoolVisits, DefaultVisits, reassignNodeForDeletingNodePool

\* The controllers move no node into an unmanaged partition, and touch none that
\* is in one.
LEMMA ControllersNode ==
    ASSUME TypeOK, Unvisited, Next, ~EditNode
    PROVE  /\ node.pool \in Unmanaged => node' = node
           /\ node'.pool \in Unmanaged => node.pool \in Unmanaged
<1>1. CASE MarkNode
  <2> DEFINE waits == job["managedNodes"].drain /\ job["managedNodes"].new = Excluded
  <2>1. node.pool \notin Unmanaged
    BY <1>1 DEF MarkNode, Unvisited, Controllers
  <2>2. PatchNode([node EXCEPT !.toExclude = waits]) \/ PatchNode(node) \/ UNCHANGED node
    BY ZenonT(30), <1>1 DEF MarkNode
  <2>3. [node EXCEPT !.toExclude = waits].pool = node.pool
    <3> HIDE DEF waits
    <3>1. QED
      BY DEF TypeOK, Node
  <2>4. QED
    <3> HIDE DEF waits
    <3>1. QED
      BY ZenonT(30), <2>1, <2>2, <2>3 DEF PatchNode
<1>2. ASSUME NEW c \in Controllers, ValidateNodeStatus(c)
      PROVE  node.pool \notin Unmanaged /\ node'.pool = node.pool
  <2>1. PatchNode(CordonPatch(node, job[c].copy, job[c].drain)) \/ UNCHANGED node
    BY <1>2 DEF ValidateNodeStatus
  <2>2. node \in Node /\ job[c].copy \in Node /\ job[c].drain \in BOOLEAN
    BY DEF TypeOK, Job
  <2>3. node'.pool = node.pool
    <3>1. node' = CordonPatch(node, job[c].copy, job[c].drain) \/ node' = node
      BY <2>1, Zenon DEF PatchNode
    <3>2. CordonPatch(node, job[c].copy, job[c].drain).pool = node.pool
      BY <2>2, CordonPatchType, Zenon
    <3>3. CASE node' = node
      BY <3>3
    <3>4. CASE node' = CordonPatch(node, job[c].copy, job[c].drain)
      BY <3>2, <3>4, Zenon
    <3>5. QED
      BY <3>1, <3>3, <3>4
  <2>4. job[c].step = "validate"
    BY <1>2 DEF ValidateNodeStatus
  <2>5. QED
    BY <2>3, <2>4 DEF Unvisited
<1>3. ASSUME NEW c \in Controllers, AssignNodePool(c)
      PROVE  node.pool \notin Unmanaged /\ node'.pool \notin Unmanaged
  <2> DEFINE j == job[c]
             targets == IF j.new = Find THEN findMatchingNodePoolFromList(j.copy, j.available) ELSE {j.new}
  <2>1. PICK pool \in targets : PatchNode([node EXCEPT !.pool = pool]) \/ UNCHANGED node
    BY <1>3 DEF AssignNodePool
  <2>2. pool \in NodePoolNames \cup {Excluded}
    <3>1. /\ j.copy \in Node /\ j.available \in SUBSET Pools
          /\ j.new \in NodePoolNames \cup {Excluded, Find}
      BY DEF TypeOK, Job
    <3>2. QED
      BY <3>1, FoundPool
  <2>3. [node EXCEPT !.pool = pool].pool = pool
    BY DEF TypeOK, Node
  <2>4. node.pool \notin Unmanaged
    BY <1>3 DEF AssignNodePool, Unvisited
  <2>5. QED
    BY ZenonT(30), <2>1, <2>2, <2>3, <2>4, UnmanagedNames DEF PatchNode
<1>4. CASE UNCHANGED node
  BY <1>4
<1>5. QED
  BY ZenonT(30), <1>1, <1>2, <1>3, <1>4 DEF Next, Reconcile, Deliver, Environment, ReconcileNodePool,
     ListNodes, ReconcileManagedNodes, SyncNode, SyncManagedNodesConfig, SyncProjects, SyncPods,
     SyncNodePool, EditCriteria, EditProjects, EditPools, BindPod, FinishPods, Restart, objects

\* No visit of a node of an unmanaged partition begins.
LEMMA StaysUnvisited ==
    ASSUME TypeOK, KeyInv, Unvisited, Next, node.pool \in Unmanaged, NEW c \in Controllers
    PROVE  job'[c].step \in {"idle", "list"}
<1>1. /\ cache.node \in Node /\ cache.node.pool \in Unmanaged
      /\ \A d \in Controllers : job[d].step \in {"idle", "list"}
  BY DEF Unvisited, TypeOK, Cache
<1>2. CASE Deliver \/ Environment
  <2>1. CASE Restart
    BY <2>1 DEF Restart, Idle
  <2>2. CASE UNCHANGED job
    BY <1>1, <2>2
  <2>3. QED
    BY ZenonT(30), <1>2, <2>1, <2>2 DEF Deliver, Environment, SyncNode, SyncManagedNodesConfig, SyncProjects,
       SyncPods, SyncNodePool, EditNode, EditCriteria, EditProjects, EditPools, BindPod, FinishPods
<1>3. ASSUME NEW p \in NodePoolNames, ReconcileNodePool(p)
      PROVE  job'[c].step \in {"idle", "list"}
  <2> DEFINE fin == cache.pools[p] = "Deleting"
             start == [Idle EXCEPT !.step = "list", !.key = p, !.finalizing = fin]
  <2>1. job' = job \/ job' = [job EXCEPT !["nodePools"] = start]
    BY <1>3 DEF ReconcileNodePool
  <2>2. start.step = "list"
    <3> HIDE DEF fin
    <3>1. QED
      BY IdleType DEF Job
  <2>3. QED
    <3> HIDE DEF start
    <3>1. QED
      BY <1>1, <2>1, <2>2 DEF TypeOK
<1>4. CASE ListNodes
  <2> DEFINE j == job["nodePools"]
             available == IF j.finalizing THEN getAvailableNodePools \ {j.key} ELSE getAvailableNodePools
             visits(k) == IF j.finalizing THEN reassignNodeForDeletingNodePool(j.key, k, cache.node)
                          ELSE ReconcileNodes(j.key, k, cache.node, available)
  <2>1. (\E k \in j.todo..3 : visits(k) # {}) \/ (\E err : Finish("nodePools", err))
    BY ZenonT(30), <1>4 DEF ListNodes, finalize
  <2>2. \A k \in j.todo..3 : visits(k) = {}
    <3>1. j.todo \in 1..4 /\ j.key \in NodePoolNames
      BY ZenonT(30), <1>4 DEF ListNodes, KeyInv, TypeOK, Job, Controllers
    <3>2. \A k \in j.todo..3 : k \in 1..3
      BY <3>1
    <3>3. available \in SUBSET Pools
      BY ZenonT(30) DEF getAvailableNodePools
    <3> HIDE DEF j, available
    <3>4. QED
      BY ZenonT(30), <1>1, <3>1, <3>2, <3>3, NoVisit
  <2>3. \E err : Finish("nodePools", err)
    BY <2>1, <2>2
  <2>4. QED
    BY <1>1, <2>3 DEF Finish, Idle, TypeOK
<1>5. ASSUME NEW key \in {"node", "config"}, ReconcileManagedNodes(key)
      PROVE  job' = job
  BY <1>1, <1>5, UnmanagedNames DEF ReconcileManagedNodes, IsUnmanaged
<1>6. ~MarkNode /\ \A d \in Controllers : ~ValidateNodeStatus(d) /\ ~AssignNodePool(d)
  BY ZenonT(30), <1>1 DEF MarkNode, ValidateNodeStatus, AssignNodePool, Controllers
<1>7. QED
  BY <1>1, <1>2, <1>3, <1>4, <1>5, <1>6 DEF Next, Reconcile

\* Unless users move nodes between partitions under the controllers' feet, a
\* node of an unmanaged partition is changed by users only: the controllers
\* never relabel, cordon, un-cordon or mark it.
THEOREM UnmanagedLeftAlone ==
    ASSUME "partition" \notin Edits
    PROVE  Spec => UnmanagedUntouched
<1>1. ASSUME TypeOK, Unvisited, EditNode
      PROVE  /\ node'.pool = node.pool
             /\ edits' # edits
  <2>1. edits' # edits
    <3>1. edits' = edits + 1
      BY ZenonT(30), <1>1 DEF EditNode, Edit
    <3>2. edits \in Nat
      BY <1>1, ConstantsAssumption DEF TypeOK
    <3>3. QED
      BY <3>1, <3>2
  <2>2. CASE \E labels \in SUBSET Pools, managed \in BOOLEAN :
               PatchNode([node EXCEPT !.labels = labels, !.managed = managed])
    <3>1. PICK labels \in SUBSET Pools, managed \in BOOLEAN :
               PatchNode([node EXCEPT !.labels = labels, !.managed = managed])
      BY ZenonT(30), <2>2
    <3>2. QED
      BY <1>1, <2>1, <3>1 DEF PatchNode, TypeOK, Node
  <2>3. CASE PatchNode([node EXCEPT !.unschedulable = ~node.unschedulable])
    BY <1>1, <2>1, <2>3 DEF PatchNode, TypeOK, Node
  <2>4. QED
    BY ZenonT(30), <1>1, <2>2, <2>3 DEF EditNode, Edit
<1>2. TypeOK /\ KeyInv /\ Unvisited /\ [Next]_vars => Unvisited'
  <2> SUFFICES ASSUME TypeOK, KeyInv, Unvisited, [Next]_vars, node'.pool \in Unmanaged
               PROVE  /\ cache'.node.pool \in Unmanaged
                      /\ \A c \in Controllers : job'[c].step \in {"idle", "list"}
    BY DEF Unvisited
  <2>1. CASE Next
    <3>1. node.pool \in Unmanaged
      BY <1>1, <2>1, ControllersNode
    <3>2. QED
      BY <2>1, <3>1, CachedNode, StaysUnvisited DEF Unvisited
  <2>2. CASE UNCHANGED vars
    BY <2>2 DEF vars, Unvisited
  <2>3. QED
    BY <2>1, <2>2
<1>3. TypeOK /\ Unvisited /\ [Next]_vars => [node.pool \in Unmanaged /\ node' # node => edits' # edits]_vars
  BY <1>1, ControllersNode DEF vars
<1>4. TypeOK /\ KeyInv /\ [Next]_vars => (TypeOK /\ KeyInv)'
  BY NextType
<1>5. QED
  BY <1>2, <1>3, <1>4, InitType, InitUnvisited, PTL DEF Spec, UnmanagedUntouched
-----------------------------------------------------------------------------
(* Where the node settles *)

\* The node pools, when users neither create nor delete any.
Homes == Roster \cup {Default}

\* The node is in the pool that its labels select.
Belongs(n) == n.pool \in findMatchingNodePoolFromList(n, Roster)

\* The node carries a cordon of the controllers.
IsHeldBack(n) == n.unschedulable /\ n.byUs

\* The ManagedNodesConfig that the cache shows wants the node moved.
ToExclude(n) == n.pool \in Homes /\ cache.criteria /\ ~n.managed
ToInclude(n) == n.pool = Excluded /\ (cache.criteria => n.managed)

\* The node pools stay, the node is in one of them or out of their reach, and
\* the cache has the node unless a delivery is due.
Still ==
    /\ pools = [p \in NodePoolNames |-> IF p \in Homes THEN "Active" ELSE "Absent"]
    /\ cache.pools = pools
    /\ node.pool \in Homes \cup {Excluded} \cup Unmanaged
    /\ ~unseen => cache.node = node

\* What a reconcile of the NodePool controller has at hand.
NodePoolJob(j) ==
    /\ ~j.finalizing
    /\ j.step \in {"idle", "list", "validate", "assign"}
    /\ j.step # "idle" => j.key \in Homes
    /\ j.step \in {"validate", "assign"} => j.available = Roster /\ j.new \in Homes \cup {Find}

\* What a reconcile of the ManagedNodesConfig controller has at hand.
ManagedNodesJob(k) ==
    /\ k.step \in {"idle", "validate", "assign", "mark"}
    /\ k.step # "idle" => k.key \in {"node", "config"}
    /\ k.step \in {"validate", "assign"} => k.move /\ k.new \in {Excluded, Default}

\* The visit will move a node that is as it was copied.
Moves(j) == j.move /\ (j.new = Find \/ j.new # j.copy.pool)

\* A reconcile of the node's pool that is yet to come to the node, has an
\* error already, or visits the node as it is.
NodePoolVisitsNode(j) ==
    /\ j.step # "idle"
    /\ j.key = node.pool
    /\ \/ j.err
       \/ j.step = "list" /\ j.todo = 1
       \/ j.step = "validate" /\ j.copy = node /\ (Belongs(node) \/ Moves(j))
       \/ j.step = "assign" /\ j.copy = node /\ ~Belongs(node) /\ Moves(j)

\* The NodePool controller has a node to attend to that is in the wrong node
\* pool or cordoned.
NodePoolAttends ==
    ~unseen /\ node.pool \in Homes /\ (~Belongs(node) \/ IsHeldBack(node)) =>
        node.pool \in queue["nodePools"] \/ NodePoolVisitsNode(job["nodePools"])

\* A reconcile that excludes or includes the node as it is, or has an error.
ManagedVisitsNode(k) ==
    /\ k.step # "idle"
    /\ \/ k.err
       \/ /\ k.step \in {"validate", "assign"}
          /\ k.copy = node
          /\ IF node.pool = Excluded THEN k.new = Default /\ ~k.drain ELSE k.new = Excluded

\* The ManagedNodesConfig controller has a node to attend to that is to be
\* excluded or included, except for one that waits under a cordon for its
\* exclusion: that one keeps the NodePool controller busy.
ManagedAttends ==
    ~unseen /\ (ToExclude(node) \/ ToInclude(node)) =>
        \/ queue["managedNodes"] # {}
        \/ ManagedVisitsNode(job["managedNodes"])
        \/ ToExclude(node) /\ IsHeldBack(node)

Attended ==
    /\ Still
    /\ NodePoolJob(job["nodePools"])
    /\ ManagedNodesJob(job["managedNodes"])
    /\ NodePoolAttends
    /\ ManagedAttends

\* The names of the pools that stay are all different.
LEMMA HomeNames ==
    /\ Homes \subseteq NodePoolNames
    /\ Excluded \notin NodePoolNames /\ Find \notin NodePoolNames
    /\ Excluded \notin Unmanaged /\ NodePoolNames \cap Unmanaged = {}
    /\ Default \notin Roster /\ Roster \subseteq Pools
BY ConstantsAssumption DEF Homes, NodePoolNames

\* The node pools available are those that stay.
LEMMA AvailableStay == Still => getAvailableNodePools = Roster
<1> SUFFICES ASSUME Still PROVE getAvailableNodePools = Roster
  OBVIOUS
<1>1. \A p \in Pools : p \in Homes <=> p \in Roster
  BY ConstantsAssumption DEF Homes
<1>2. \A p \in Pools : cache.pools[p] = IF p \in Homes THEN "Active" ELSE "Absent"
  BY DEF Still, NodePoolNames
<1>3. \A p \in Pools : cache.pools[p] \in {"New", "Active"} <=> p \in Roster
  BY <1>1, <1>2
<1>4. QED
  BY <1>3, HomeNames DEF getAvailableNodePools

\* A visit moves the node to a node pool that stays or looks one up.
LEMMA VisitTarget ==
    ASSUME NEW p \in Homes, NEW k, NEW n,
           NEW v \in ReconcileNodes(p, k, n, Roster)
    PROVE  v.new \in Homes \cup {Find}
<1>1. CASE p = Default
  <2>1. v \in DefaultVisits(k, n, Roster)
    BY <1>1 DEF ReconcileNodes
  <2>2. \/ v = Change(n.pool, Find)
        \/ v = Check(Default)
        \/ \E found \in findMatchingNodePoolFromList(n, Roster) : v = Change(Default, found)
    BY <2>1 DEF DefaultVisits
  <2>3. \A found \in findMatchingNodePoolFromList(n, Roster) : found \in Homes
    BY DEF findMatchingNodePoolFromList, Homes
  <2>4. QED
    BY <2>2, <2>3 DEF Change, Check, Homes
<1>2. CASE p # Default
  <2>1. v \in {Change(p, Find), Change(Default, p), Check(p)}
    BY <1>2 DEF ReconcileNodes, NodePoolVisits
  <2>2. QED
    BY <2>1 DEF Change, Check
<1>3. QED
  BY <1>1, <1>2

\* The reconcile of a node's pool visits the node; when the node is in the wrong
\* pool its first list does, to move it.
LEMMA HomeVisits ==
    ASSUME NEW n \in Node, n.pool \in Homes
    PROVE  /\ \E k \in 1..3 : ReconcileNodes(n.pool, k, n, Roster) # {}
           /\ ~Belongs(n) =>
                /\ ReconcileNodes(n.pool, 1, n, Roster) # {}
                /\ \A v \in ReconcileNodes(n.pool, 1, n, Roster) :
                     v.move /\ (v.new = Find \/ v.new # n.pool)
<1>1. CASE n.pool = Default
  <2> DEFINE found == findMatchingNodePoolFromList(n, Roster)
             visit(f) == IF f = Default THEN Check(Default) ELSE Change(Default, f)
  <2>1. ReconcileNodes(n.pool, 1, n, Roster) = {visit(f) : f \in found}
    BY <1>1 DEF ReconcileNodes, DefaultVisits
  <2>2. found # {}
    BY DEF findMatchingNodePoolFromList
  <2>3. ReconcileNodes(n.pool, 1, n, Roster) # {}
    <3> HIDE DEF found, visit
    <3>1. QED
      BY <2>1, <2>2
  <2>4. ~Belongs(n) => Default \notin found
    BY <1>1 DEF Belongs
  <2>5. ASSUME ~Belongs(n), NEW v \in ReconcileNodes(n.pool, 1, n, Roster)
        PROVE  v.move /\ (v.new = Find \/ v.new # n.pool)
    <3>1. PICK f \in found : v = visit(f)
      <4> HIDE DEF found, visit
      <4>1. QED
        BY <2>1, <2>5
    <3>2. f # Default
      BY <2>4, <2>5, <3>1
    <3>3. v = Change(Default, f)
      BY <3>1, <3>2
    <3>4. QED
      BY <1>1, <3>2, <3>3 DEF Change
  <2>6. QED
    BY <2>3, <2>5
<1>2. CASE n.pool # Default
  <2>1. n.pool \in Roster
    BY <1>2 DEF Homes
  <2>2. n.pool \notin n.labels => ReconcileNodes(n.pool, 1, n, Roster) = {Change(n.pool, Find)}
    BY <1>2 DEF ReconcileNodes, NodePoolVisits
  <2>3. n.pool \in n.labels => ReconcileNodes(n.pool, 3, n, Roster) = {Check(n.pool)}
    BY <1>2 DEF ReconcileNodes, NodePoolVisits
  <2>4. n.pool \in n.labels => Belongs(n)
    BY <2>1 DEF Belongs, findMatchingNodePoolFromList
  <2>5. Change(n.pool, Find).move /\ Change(n.pool, Find).new = Find
    BY DEF Change
  <2>6. QED
    BY <2>2, <2>3, <2>4, <2>5
<1>3. QED
  BY <1>1, <1>2

\* The node is as it was, or its change is yet to be delivered.
NodeKept == unseen' \/ (node' = node /\ ~unseen)

\* A patch that changes the node is yet to be delivered.
LEMMA PatchKept == \A n : PatchNode(n) => NodeKept
BY ZenonT(30) DEF PatchNode, NodeKept

\* The NodePool controller attends to the node across what the others do.
LEMMA NodePoolWaits ==
    ASSUME NodePoolAttends, NodeKept, job'["nodePools"] = job["nodePools"],
           queue["nodePools"] \subseteq queue'["nodePools"]
    PROVE  NodePoolAttends'
BY DEF NodePoolAttends, NodeKept, NodePoolVisitsNode

\* The ManagedNodesConfig controller attends to the node across what the others
\* do.
LEMMA ManagedWaits ==
    ASSUME ManagedAttends, NodeKept, job'["managedNodes"] = job["managedNodes"],
           queue["managedNodes"] \subseteq queue'["managedNodes"],
           cache'.criteria = cache.criteria
    PROVE  ManagedAttends'
BY DEF ManagedAttends, NodeKept, ManagedVisitsNode, ToExclude, ToInclude

\* What has been attended to is settled where it belongs.
LEMMA SettledThere == TypeOK /\ Attended => SettledPlaced
<1> SUFFICES ASSUME TypeOK, Attended, Settled, node.pool \notin Unmanaged PROVE Placed
  BY DEF SettledPlaced, Placed
<1>1. /\ ~unseen /\ cache.criteria = criteria
      /\ job["nodePools"].step = "idle" /\ queue["nodePools"] = {}
      /\ job["managedNodes"].step = "idle" /\ queue["managedNodes"] = {}
  BY DEF Settled, Controllers
<1>2. Live = Roster
  <2>1. \A p \in Pools : p \in Homes <=> p \in Roster
    BY ConstantsAssumption DEF Homes
  <2>2. \A p \in Pools : pools[p] = IF p \in Homes THEN "Active" ELSE "Absent"
    BY DEF Attended, Still, NodePoolNames
  <2>3. QED
    BY <2>1, <2>2, HomeNames DEF Live
<1>3. node.pool \in Homes => Belongs(node) /\ ~IsHeldBack(node)
  BY <1>1 DEF Attended, NodePoolAttends, NodePoolVisitsNode
<1>4. ~ToExclude(node) /\ ~ToInclude(node)
  BY <1>1, <1>3 DEF Attended, ManagedAttends, ManagedVisitsNode, ToExclude
<1>5. node.pool \in Homes \cup {Excluded}
  BY DEF Attended, Still
<1>6. node.managed \in BOOLEAN /\ criteria \in BOOLEAN /\ Excluded \notin Homes
  BY HomeNames DEF TypeOK, Node
<1>7. QED
  BY <1>1, <1>2, <1>3, <1>4, <1>5, <1>6 DEF Placed, ToExclude, ToInclude, Belongs, findMatchingNodePoolFromList

\* Nothing is attended to at the start, and nothing needs to be.
LEMMA InitAttended == Init => Attended
<1> SUFFICES ASSUME Init PROVE Attended
  OBVIOUS
<1>1. PICK pool \in {Default} \cup Unmanaged : node = InitNode(pool)
  BY DEF Init
<1>2. /\ node.pool \in {Default} \cup Unmanaged
      /\ node.labels = {} /\ node.managed /\ ~node.unschedulable
  BY <1>1 DEF InitNode
<1>3. Still
  <2>1. pools = [p \in NodePoolNames |-> IF p \in Homes THEN "Active" ELSE "Absent"]
    BY DEF Init, Homes
  <2>2. cache.pools = pools /\ cache.node = node
    BY DEF Init
  <2>3. QED
    BY <1>2, <2>1, <2>2 DEF Still, Homes
<1>4. job["nodePools"] = Idle /\ job["managedNodes"] = Idle
  BY DEF Init, Controllers
<1>5. Idle.step = "idle" /\ ~Idle.finalizing
  BY ZenonT(30) DEF Idle
<1>6. NodePoolJob(job["nodePools"]) /\ ManagedNodesJob(job["managedNodes"])
  BY <1>4, <1>5 DEF NodePoolJob, ManagedNodesJob
<1>7. NodePoolAttends
  <2>1. node.pool \in Homes => node.pool = Default
    BY <1>2, HomeNames DEF Homes
  <2>2. node.pool = Default => Belongs(node)
    BY <1>2 DEF Belongs, findMatchingNodePoolFromList
  <2>3. QED
    BY <1>2, <2>1, <2>2 DEF NodePoolAttends, IsHeldBack
<1>8. ManagedAttends
  <2>1. node.pool # Excluded
    BY <1>2, ConstantsAssumption
  <2>2. QED
    BY <1>2, <2>1 DEF ManagedAttends, ToExclude, ToInclude
<1>9. QED
  BY <1>3, <1>6, <1>7, <1>8 DEF Attended

\* The node's own pool is among those a node event reconciles.
LEMMA HomeMapped ==
    ASSUME Still, node.pool \in Homes
    PROVE  node.pool \in MapNodeToNodePoolEvent(node)
<1>1. /\ node.pool \in NodePoolNames /\ node.pool # Excluded /\ ~IsUnmanaged(node)
      /\ cache.pools[node.pool] # "Absent"
  BY HomeNames DEF Still, IsUnmanaged
<1>2. QED
  BY <1>1 DEF MapNodeToNodePoolEvent

\* What a delivery makes the controllers attend to.
LEMMA DeliverAttended ==
    ASSUME TypeOK, Attended, Deliver
    PROVE  Attended'
<1> USE DEF Attended
<1>1. CASE SyncNode
  <2>1. /\ UNCHANGED <<node, pools, criteria, job>> /\ ~unseen'
        /\ cache'.node = node /\ cache'.pools = cache.pools /\ cache'.criteria = cache.criteria
    BY <1>1 DEF SyncNode, TypeOK, Cache, objects
  <2>2. /\ MapNodeToNodePoolEvent(node) \subseteq queue'["nodePools"]
        /\ "node" \in queue'["managedNodes"]
    BY ZenonT(30), <1>1 DEF SyncNode, TypeOK, Controllers
  <2>3. Still'
    BY <2>1 DEF Still
  <2>4. NodePoolAttends'
    BY <2>1, <2>2, HomeMapped DEF NodePoolAttends
  <2>5. ManagedAttends'
    BY <2>2 DEF ManagedAttends
  <2>6. QED
    BY <2>1, <2>3, <2>4, <2>5 DEF NodePoolJob, ManagedNodesJob
<1>2. CASE SyncManagedNodesConfig
  <2>1. /\ UNCHANGED <<node, pools, criteria, unseen, job>>
        /\ cache'.node = cache.node /\ cache'.pools = cache.pools
    BY <1>2 DEF SyncManagedNodesConfig, TypeOK, Cache, objects
  <2>2. queue'["nodePools"] = queue["nodePools"] /\ "config" \in queue'["managedNodes"]
    BY <1>2 DEF SyncManagedNodesConfig, TypeOK, Controllers
  <2>3. Still' /\ ManagedAttends'
    BY ZenonT(30), <2>1, <2>2 DEF Still, ManagedAttends
  <2>4. NodeKept
    BY <2>1 DEF NodeKept
  <2>5. QED
    BY <2>1, <2>2, <2>3, <2>4, NodePoolWaits DEF NodePoolJob, ManagedNodesJob
<1>3. ASSUME /\ UNCHANGED <<node, pools, criteria, unseen, job>>
             /\ cache'.node = cache.node /\ cache'.pools = cache.pools /\ cache'.criteria = cache.criteria
             /\ \A c \in Controllers : queue[c] \subseteq queue'[c]
      PROVE  Attended'
  <2>1. Still'
    BY <1>3 DEF Still
  <2>2. NodeKept
    BY <1>3 DEF NodeKept
  <2>3. QED
    BY ZenonT(30), <1>3, <2>1, <2>2, NodePoolWaits, ManagedWaits DEF NodePoolJob, ManagedNodesJob, Controllers
<1>4. CASE SyncProjects
  <2>1. /\ UNCHANGED <<node, pools, criteria, unseen, job>>
        /\ cache'.node = cache.node /\ cache'.pools = cache.pools /\ cache'.criteria = cache.criteria
    BY <1>4 DEF SyncProjects, TypeOK, Cache, objects
  <2>2. \A c \in Controllers : queue[c] \subseteq queue'[c]
    BY <1>4 DEF SyncProjects, TypeOK
  <2>3. QED
    BY <1>3, <2>1, <2>2
<1>5. CASE SyncPods
  <2>1. /\ UNCHANGED <<node, pools, criteria, unseen, job, queue>>
        /\ cache'.node = cache.node /\ cache'.pools = cache.pools /\ cache'.criteria = cache.criteria
    BY <1>5 DEF SyncPods, TypeOK, Cache, objects
  <2>2. QED
    BY <1>3, <2>1
<1>6. ASSUME NEW p \in NodePoolNames PROVE ~SyncNodePool(p)
  BY DEF SyncNodePool, Still
<1>7. QED
  BY <1>1, <1>2, <1>4, <1>5, <1>6 DEF Deliver

\* What an edit, a pod or a restart makes the controllers attend to.
LEMMA EnvironmentAttended ==
    ASSUME TypeOK, Attended, Environment, {"pools", "newPools"} \cap Edits = {}
    PROVE  Attended'
<1> USE DEF Attended
<1>1. ASSUME NodeKept, UNCHANGED <<pools, cache, queue, job>>,
             node'.pool \in Homes \cup {Excluded} \cup Unmanaged
      PROVE  Attended'
  <2>1. Still'
    BY <1>1 DEF Still, NodeKept
  <2>2. QED
    BY <1>1, <2>1, NodePoolWaits, ManagedWaits DEF NodePoolJob, ManagedNodesJob
<1>2. CASE EditNode
  <2>1. NodeKept
    BY ZenonT(30), <1>2, PatchKept DEF EditNode
  <2>2. node'.pool \in {node.pool} \cup Unmanaged
    <3>1. CASE \E labels \in SUBSET Pools, managed \in BOOLEAN :
                 PatchNode([node EXCEPT !.labels = labels, !.managed = managed])
      <4>1. PICK labels \in SUBSET Pools, managed \in BOOLEAN :
                 PatchNode([node EXCEPT !.labels = labels, !.managed = managed])
        BY ZenonT(30), <3>1
      <4>2. QED
        BY <4>1 DEF PatchNode, TypeOK, Node
    <3>2. CASE PatchNode([node EXCEPT !.unschedulable = ~node.unschedulable])
      BY <3>2 DEF PatchNode, TypeOK, Node
    <3>3. CASE \E pool \in Unmanaged : PatchNode([node EXCEPT !.pool = pool])
      BY <3>3 DEF PatchNode, TypeOK, Node
    <3>4. QED
      BY ZenonT(30), <1>2, <3>1, <3>2, <3>3 DEF EditNode
  <2>3. UNCHANGED <<pools, cache, queue, job>>
    BY ZenonT(30), <1>2 DEF EditNode
  <2>4. QED
    BY <1>1, <2>1, <2>2, <2>3 DEF Still
<1>3. ~EditPools
  BY DEF EditPools, Edit
<1>4. CASE UNCHANGED <<node, pools, cache, unseen, queue, job>>
  BY <1>1, <1>4 DEF NodeKept, Still
<1>5. CASE Restart
  <2>1. /\ UNCHANGED <<node, pools>> /\ ~unseen'
        /\ cache'.node = node /\ cache'.pools = pools
    BY ZenonT(30), <1>5 DEF Restart, objects
  <2>2. /\ queue'["nodePools"] = {p \in NodePoolNames : pools[p] # "Absent"}
        /\ "node" \in queue'["managedNodes"]
    BY ZenonT(30), <1>5 DEF Restart, TypeOK, Controllers
  <2>3. job'["nodePools"] = Idle /\ job'["managedNodes"] = Idle
    BY <1>5 DEF Restart, Controllers
  <2>4. Idle.step = "idle" /\ ~Idle.finalizing
    BY ZenonT(30) DEF Idle
  <2>5. NodePoolJob(job["nodePools"])' /\ ManagedNodesJob(job["managedNodes"])'
    BY <2>3, <2>4 DEF NodePoolJob, ManagedNodesJob
  <2>6. Still' /\ ManagedAttends'
    BY <2>1, <2>2 DEF Still, ManagedAttends
  <2>7. NodePoolAttends'
    <3>1. node.pool \in Homes => node.pool \in queue'["nodePools"]
      BY <2>2, HomeNames DEF Still
    <3>2. QED
      BY <2>1, <3>1 DEF NodePoolAttends
  <2>8. QED
    BY <2>5, <2>6, <2>7
<1>6. QED
  BY ZenonT(30), <1>2, <1>3, <1>4, <1>5 DEF Environment, EditCriteria, EditProjects, BindPod, FinishPods, objects

\* A step of the NodePool controller keeps what is attended to when its own part
\* does.
LEMMA NodePoolStep ==
    ASSUME TypeOK, Attended, NodeKept, UNCHANGED <<pools, cache>>,
           node'.pool \in Homes \cup {Excluded} \cup Unmanaged,
           job'["managedNodes"] = job["managedNodes"],
           queue'["managedNodes"] = queue["managedNodes"],
           NodePoolJob(job'["nodePools"]), NodePoolAttends'
    PROVE  Attended'
<1>1. Still'
  BY DEF Attended, Still, NodeKept
<1>2. ManagedAttends'
  BY ManagedWaits DEF Attended
<1>3. QED
  BY <1>1, <1>2 DEF Attended

\* A reconcile that ends leaves its request in the queue after an error.
LEMMA FinishStep ==
    ASSUME TypeOK, NEW c \in Controllers, NEW d \in Controllers, NEW err, Finish(c, err)
    PROVE  /\ job'[c] = Idle
           /\ err => job[c].key \in queue'[c]
           /\ queue[d] \subseteq queue'[d]
           /\ d # c => job'[d] = job[d] /\ queue'[d] = queue[d]
BY DEF Finish, TypeOK

\* An idle worker has nothing at hand.
LEMMA IdleAtHand == NodePoolJob(Idle) /\ ManagedNodesJob(Idle) /\ Idle.step = "idle"
<1>1. Idle.step = "idle" /\ ~Idle.finalizing
  BY ZenonT(30) DEF Idle
<1>2. QED
  BY <1>1 DEF NodePoolJob, ManagedNodesJob

\* A reconcile of a node pool begins before its first list.
LEMMA ReconcileNodePoolAttended ==
    ASSUME TypeOK, Attended, NEW p \in NodePoolNames, ReconcileNodePool(p)
    PROVE  Attended'
<1> DEFINE st == cache.pools[p]
           fin == st = "Deleting"
           start == [Idle EXCEPT !.step = "list", !.key = p, !.finalizing = fin]
<1>1. UNCHANGED <<node, cache, unseen>> /\ job["nodePools"].step = "idle"
  BY DEF ReconcileNodePool
<1>2. st = IF p \in Homes THEN "Active" ELSE "Absent"
  BY DEF Attended, Still
<1>3. st # "New" /\ fin = FALSE
  BY <1>2
<1>4. /\ UNCHANGED pools
      /\ queue' = [queue EXCEPT !["nodePools"] = @ \ {p}]
      /\ \/ st = "Absent" /\ job' = job
         \/ st # "Absent" /\ job' = [job EXCEPT !["nodePools"] = start]
  BY ZenonT(30), <1>3 DEF ReconcileNodePool
<1>5. /\ start.step = "list" /\ start.key = p /\ start.todo = 1 /\ start.finalizing = FALSE
  <2> HIDE DEF fin
  <2>1. QED
    BY ZenonT(30), <1>3 DEF Idle
<1>6. /\ job'["managedNodes"] = job["managedNodes"]
      /\ job'["nodePools"] = IF p \in Homes THEN start ELSE job["nodePools"]
      /\ queue'["managedNodes"] = queue["managedNodes"]
      /\ queue["nodePools"] \ {p} \subseteq queue'["nodePools"]
  <2> HIDE DEF start
  <2>1. QED
    BY <1>2, <1>4 DEF TypeOK, Controllers
<1>7. NodePoolJob(job'["nodePools"])
  <2> HIDE DEF start
  <2>1. QED
    BY <1>5, <1>6 DEF Attended, NodePoolJob
<1>8. NodePoolAttends'
  <2> HIDE DEF start
  <2> SUFFICES ASSUME ~unseen', node'.pool \in Homes, ~Belongs(node') \/ IsHeldBack(node')
               PROVE  node'.pool \in queue'["nodePools"] \/ NodePoolVisitsNode(job["nodePools"])'
    BY DEF NodePoolAttends
  <2>1. node.pool \in queue["nodePools"]
    BY <1>1 DEF Attended, NodePoolAttends, NodePoolVisitsNode
  <2>2. CASE node.pool = p
    BY <1>1, <1>5, <1>6, <2>2 DEF NodePoolVisitsNode
  <2>3. CASE node.pool # p
    BY <1>1, <1>6, <2>1, <2>3
  <2>4. QED
    BY <2>2, <2>3
<1>9. NodeKept /\ node'.pool \in Homes \cup {Excluded} \cup Unmanaged
  BY <1>1 DEF NodeKept, Attended, Still
<1>10. QED
  BY <1>1, <1>4, <1>6, <1>7, <1>8, <1>9, NodePoolStep

\* A list of a reconcile comes to the node if the node is in the pool, and to
\* move it if the node is in the wrong one.
LEMMA ListNodesAttended ==
    ASSUME TypeOK, KeyInv, Attended, ListNodes
    PROVE  Attended'
<1> DEFINE j == job["nodePools"]
           available == IF j.finalizing THEN getAvailableNodePools \ {j.key} ELSE getAvailableNodePools
           visits(k) == IF j.finalizing THEN reassignNodeForDeletingNodePool(j.key, k, cache.node)
                        ELSE ReconcileNodes(j.key, k, cache.node, available)
           lists == {k \in j.todo..3 : visits(k) # {}}
           drains(v) == IF v.move THEN arePodsRunningWithSameNodePool(v.old)
                        ELSE arePodsRunningWithDifferentNodePool(v.old)
           visit(k, v) == [j EXCEPT !.step = "validate", !.todo = k + 1, !.copy = cache.node,
                               !.available = available, !.move = v.move, !.old = v.old, !.new = v.new,
                               !.drain = drains(v)]
<1>1. /\ j \in Job /\ j.step = "list" /\ j.key \in Homes /\ j.finalizing = FALSE
      /\ cache.node \in Node /\ "nodePools" \in Controllers /\ "managedNodes" \in Controllers
  <2>1. j \in Job /\ cache.node \in Node /\ "nodePools" \in Controllers /\ "managedNodes" \in Controllers
    BY DEF TypeOK, Cache, Controllers
  <2>2. j.step = "list"
    BY ZenonT(30) DEF ListNodes
  <2>3. QED
    BY <2>1, <2>2 DEF Attended, NodePoolJob, Job
<1>2. UNCHANGED <<node, cache, unseen>>
  BY ZenonT(30) DEF ListNodes
<1>3. \/ /\ \E k \in lists : \E v \in visits(k) :
              (\A i \in lists : k <= i) /\ job' = [job EXCEPT !["nodePools"] = visit(k, v)]
         /\ UNCHANGED <<pools, queue>>
      \/ lists = {} /\ Finish("nodePools", j.err) /\ UNCHANGED pools
  BY ZenonT(30), <1>1 DEF ListNodes
<1>4. available = Roster /\ \A k : visits(k) = ReconcileNodes(j.key, k, cache.node, Roster)
  <2>1. getAvailableNodePools = Roster
    BY AvailableStay DEF Attended
  <2>2. QED
    BY <1>1, <2>1
<1> HIDE DEF available
<1>5. NodeKept /\ node'.pool \in Homes \cup {Excluded} \cup Unmanaged
  BY <1>2 DEF NodeKept, Attended, Still
<1>6. CASE lists = {} /\ Finish("nodePools", j.err) /\ UNCHANGED pools
  <2>1. /\ job'["nodePools"] = Idle /\ (j.err => j.key \in queue'["nodePools"])
        /\ queue["nodePools"] \subseteq queue'["nodePools"]
        /\ job'["managedNodes"] = job["managedNodes"]
        /\ queue'["managedNodes"] = queue["managedNodes"]
    BY <1>1, <1>6, FinishStep
  <2>2. ~(j.todo = 1 /\ j.key = cache.node.pool)
    <3> SUFFICES ASSUME j.todo = 1, j.key = cache.node.pool PROVE FALSE
      OBVIOUS
    <3>1. \E k \in 1..3 : visits(k) # {}
      <4>1. \E k \in 1..3 : ReconcileNodes(cache.node.pool, k, cache.node, Roster) # {}
        BY <1>1, HomeVisits
      <4> HIDE DEF visits, j
      <4>2. QED
        BY <1>4, <4>1
    <3> HIDE DEF visits
    <3>2. QED
      BY <1>6, <3>1
  <2>3. NodePoolAttends'
    <3> SUFFICES ASSUME ~unseen, node.pool \in Homes, ~Belongs(node) \/ IsHeldBack(node)
                 PROVE  node.pool \in queue'["nodePools"]
      BY <1>2 DEF NodePoolAttends
    <3>1. node.pool \in queue["nodePools"] \/ NodePoolVisitsNode(j)
      BY DEF Attended, NodePoolAttends
    <3>2. cache.node = node
      BY DEF Attended, Still
    <3>3. QED
      BY <1>1, <2>1, <2>2, <3>1, <3>2 DEF NodePoolVisitsNode
  <2>4. QED
    BY <1>2, <1>5, <1>6, <2>1, <2>3, IdleAtHand, NodePoolStep
<1>7. ASSUME NEW k \in lists, NEW v \in visits(k), \A i \in lists : k <= i,
             job' = [job EXCEPT !["nodePools"] = visit(k, v)], UNCHANGED <<pools, queue>>
      PROVE  Attended'
  <2>1. /\ visit(k, v).step = "validate" /\ visit(k, v).copy = cache.node
        /\ visit(k, v).available = available /\ visit(k, v).move = v.move /\ visit(k, v).new = v.new
        /\ visit(k, v).key = j.key /\ visit(k, v).err = j.err /\ visit(k, v).finalizing = j.finalizing
    <3> HIDE DEF j, drains
    <3>1. QED
      BY <1>1 DEF Job
  <2>2. job'["nodePools"] = visit(k, v) /\ job'["managedNodes"] = job["managedNodes"]
    <3> HIDE DEF visit
    <3>1. QED
      BY <1>1, <1>7 DEF TypeOK
  <2>3. v.new \in Homes \cup {Find}
    <3>1. v \in ReconcileNodes(j.key, k, cache.node, Roster)
      BY <1>4, <1>7
    <3>2. QED
      BY <1>1, <3>1, VisitTarget
  <2>4. NodePoolJob(job'["nodePools"])
    <3> HIDE DEF visit
    <3>1. QED
      BY <1>1, <1>4, <2>1, <2>2, <2>3 DEF NodePoolJob
  <2>5. ASSUME j.todo = 1, j.key = node.pool, cache.node = node, ~Belongs(node)
        PROVE  v.move /\ (v.new = Find \/ v.new # node.pool)
    <3>1. /\ visits(1) # {}
          /\ \A w \in visits(1) : w.move /\ (w.new = Find \/ w.new # node.pool)
      BY <1>1, <1>4, <2>5, HomeVisits
    <3>2. k = 1
      <4> HIDE DEF visits
      <4>1. 1 \in lists
        BY <2>5, <3>1
      <4>2. k \in 1..3 /\ k <= 1
        BY <1>7, <2>5, <4>1
      <4>3. QED
        BY <4>2
    <3>3. QED
      BY <1>7, <3>1, <3>2
  <2>6. NodePoolAttends'
    <3> SUFFICES ASSUME ~unseen, node.pool \in Homes, ~Belongs(node) \/ IsHeldBack(node)
                 PROVE  node.pool \in queue["nodePools"] \/ NodePoolVisitsNode(job["nodePools"])'
      BY <1>2, <1>7 DEF NodePoolAttends
    <3>1. node.pool \in queue["nodePools"] \/ NodePoolVisitsNode(j)
      BY DEF Attended, NodePoolAttends
    <3>2. cache.node = node
      BY DEF Attended, Still
    <3>3. ASSUME j.key = node.pool, j.err \/ j.todo = 1
          PROVE  NodePoolVisitsNode(job["nodePools"])'
      <4> HIDE DEF visit, j
      <4>1. QED
        BY <1>2, <2>1, <2>2, <2>5, <3>2, <3>3 DEF NodePoolVisitsNode, Moves
    <3>4. QED
      BY <1>1, <3>1, <3>3 DEF NodePoolVisitsNode
  <2>7. QED
    BY <1>2, <1>5, <1>7, <2>2, <2>4, <2>6, NodePoolStep
<1>8. QED
  <2> HIDE DEF visit, visits, lists
  <2>1. QED
    BY <1>3, <1>6, <1>7

\* A patch of the cordon that is needed changes the node it was decided for.
LEMMA PatchChanges ==
    ASSUME NEW n \in Node, NEW u \in BOOLEAN, NeedsCordonPatch(n, u)
    PROVE  CordonPatch(n, n, u) # n
<1>1. CASE LabelOnly(n, u)
  <2>1. n.byUs # u
    BY <1>1 DEF NeedsCordonPatch, LabelOnly
  <2>2. CordonPatch(n, n, u).byUs = u
    BY <1>1 DEF CordonPatch, Node
  <2>3. QED
    BY <2>1, <2>2
<1>2. CASE ~LabelOnly(n, u)
  <2>1. n.unschedulable # u
    BY <1>2 DEF LabelOnly
  <2>2. CordonPatch(n, n, u).unschedulable = u
    BY <1>2 DEF CordonPatch, Node
  <2>3. QED
    BY <2>1, <2>2
<1>3. QED
  BY <1>1, <1>2

\* A node that needs no patch is under a cordon of the controllers when it is
\* held, and under none when it is not.
LEMMA NoPatch ==
    ASSUME NEW n \in Node
    PROVE  /\ ~NeedsCordonPatch(n, TRUE) => IsHeldBack(n)
           /\ ~NeedsCordonPatch(n, FALSE) => ~IsHeldBack(n)
           /\ LabelOnly(n, FALSE) => ~IsHeldBack(n)
           /\ NeedsCordonPatch(n, TRUE) /\ LabelOnly(n, TRUE) => ~IsMarked(n)
BY ZenonT(30) DEF NeedsCordonPatch, LabelOnly, IsHeldBack, IsMarked, Node

\* A failed visit leaves an error or the request in the queue.
LEMMA VisitFailsStep ==
    ASSUME TypeOK, NEW c \in Controllers, NEW d \in Controllers, VisitFails(c)
    PROVE  /\ \/ /\ job'[c].step = VisitEnds(c) /\ job'[c].err
                 /\ job'[c].key = job[c].key /\ job'[c].finalizing = job[c].finalizing
                 /\ queue' = queue
              \/ c = "managedNodes" /\ job'[c] = Idle /\ job[c].key \in queue'[c]
           /\ queue[d] \subseteq queue'[d]
           /\ d # c => job'[d] = job[d] /\ queue'[d] = queue[d]
<1>1. CASE c = "managedNodes" /\ Finish(c, TRUE)
  BY ZenonT(30), <1>1, FinishStep
<1>2. CASE job' = [job EXCEPT ![c].step = VisitEnds(c), ![c].err = TRUE] /\ queue' = queue
  <2> DEFINE j == [job[c] EXCEPT !.step = VisitEnds(c), !.err = TRUE]
  <2>1. job' = [job EXCEPT ![c] = j]
    BY ZenonT(30), <1>2
  <2>2. j.step = VisitEnds(c) /\ j.err /\ j.key = job[c].key /\ j.finalizing = job[c].finalizing
    BY ZenonT(30) DEF TypeOK, Job
  <2> HIDE DEF j
  <2>3. job'[c] = j /\ (d # c => job'[d] = job[d])
    BY <2>1 DEF TypeOK
  <2>4. QED
    BY <1>2, <2>2, <2>3
<1>3. QED
  BY ZenonT(30), <1>1, <1>2 DEF VisitFails

\* The outcomes of the check of a node.
LEMMA ValidateSteps ==
    ASSUME TypeOK, NEW c \in Controllers, NEW d \in Controllers, ValidateNodeStatus(c)
    PROVE  LET j == job[c]
               k == job'[c]
               needs == NeedsCordonPatch(j.copy, j.drain)
           IN  /\ UNCHANGED <<pools, cache>> /\ j.step = "validate"
               /\ \/ /\ queue' = queue
                     /\ d # c => job'[d] = job[d]
                     /\ k.key = j.key /\ k.finalizing = j.finalizing /\ k.available = j.available
                     /\ k.move = j.move /\ k.new = j.new /\ k.drain = j.drain
                     /\ k.step = IF j.move /\ ~j.drain THEN "assign" ELSE VisitEnds(c)
                     /\ k.err <=> j.err \/ (j.drain /\ c = "nodePools" /\ ~j.finalizing)
                     /\ \/ ~needs /\ k.copy = j.copy /\ UNCHANGED <<node, unseen>>
                        \/ needs /\ k.copy = node' /\ PatchNode(CordonPatch(node, j.copy, j.drain))
                        \/ /\ needs /\ LabelOnly(j.copy, j.drain) /\ failures < MaxFailures
                           /\ k.copy = j.copy /\ UNCHANGED <<node, unseen>>
                  \/ VisitFails(c) /\ UNCHANGED <<node, unseen>>
<1> DEFINE j == job[c]
           next == IF j.move /\ ~j.drain THEN "assign" ELSE VisitEnds(c)
           err == j.err \/ (j.drain /\ c = "nodePools" /\ ~j.finalizing)
           goesOn(copy) == [j EXCEPT !.copy = copy, !.step = next, !.err = err]
           needs == NeedsCordonPatch(j.copy, j.drain)
<1>1. /\ UNCHANGED <<pools, cache>> /\ j.step = "validate"
      /\ \/ /\ \/ /\ ~needs /\ job' = [job EXCEPT ![c] = goesOn(j.copy)]
                  /\ UNCHANGED <<node, unseen>>
               \/ /\ needs /\ job' = [job EXCEPT ![c] = goesOn(node')]
                  /\ PatchNode(CordonPatch(node, j.copy, j.drain))
               \/ /\ needs /\ LabelOnly(j.copy, j.drain) /\ failures < MaxFailures
                  /\ job' = [job EXCEPT ![c] = goesOn(j.copy)]
                  /\ UNCHANGED <<node, unseen>>
            /\ queue' = queue
         \/ VisitFails(c) /\ UNCHANGED <<node, unseen>>
  BY ZenonT(30) DEF ValidateNodeStatus, Fails
<1>2. j \in Job
  BY DEF TypeOK
<1>3. \A copy : LET k == goesOn(copy) IN
        /\ k.key = j.key /\ k.finalizing = j.finalizing /\ k.available = j.available
        /\ k.move = j.move /\ k.new = j.new /\ k.drain = j.drain
        /\ k.step = next /\ k.err = err /\ k.copy = copy
  <2> HIDE DEF j, next, err
  <2>1. QED
    BY <1>2 DEF Job
<1>4. \A copy : job' = [job EXCEPT ![c] = goesOn(copy)] => job'[c] = goesOn(copy) /\ (d # c => job'[d] = job[d])
  <2> HIDE DEF goesOn
  <2>1. QED
    BY DEF TypeOK
<1> HIDE DEF goesOn, needs, next, err, j
<1>5. CASE \E copy : job' = [job EXCEPT ![c] = goesOn(copy)] /\ queue' = queue
                       /\ \/ ~needs /\ copy = j.copy /\ UNCHANGED <<node, unseen>>
                          \/ needs /\ copy = node' /\ PatchNode(CordonPatch(node, j.copy, j.drain))
                          \/ /\ needs /\ LabelOnly(j.copy, j.drain) /\ failures < MaxFailures
                             /\ copy = j.copy /\ UNCHANGED <<node, unseen>>
  <2>1. PICK copy : job' = [job EXCEPT ![c] = goesOn(copy)] /\ queue' = queue
                       /\ \/ ~needs /\ copy = j.copy /\ UNCHANGED <<node, unseen>>
                          \/ needs /\ copy = node' /\ PatchNode(CordonPatch(node, j.copy, j.drain))
                          \/ /\ needs /\ LabelOnly(j.copy, j.drain) /\ failures < MaxFailures
                             /\ copy = j.copy /\ UNCHANGED <<node, unseen>>
    BY ZenonT(30), <1>5
  <2>2. job'[c] = goesOn(copy) /\ (d # c => job'[d] = job[d])
    BY ZenonT(30), <1>4, <2>1
  <2>3. /\ job'[c].key = j.key /\ job'[c].finalizing = j.finalizing /\ job'[c].available = j.available
        /\ job'[c].move = j.move /\ job'[c].new = j.new /\ job'[c].drain = j.drain
        /\ job'[c].step = next /\ job'[c].err = err /\ job'[c].copy = copy
    BY ZenonT(30), <1>3, <2>2
  <2>4. \/ ~needs /\ job'[c].copy = j.copy /\ UNCHANGED <<node, unseen>>
        \/ needs /\ job'[c].copy = node' /\ PatchNode(CordonPatch(node, j.copy, j.drain))
        \/ /\ needs /\ LabelOnly(j.copy, j.drain) /\ failures < MaxFailures
           /\ job'[c].copy = j.copy /\ UNCHANGED <<node, unseen>>
    BY ZenonT(30), <2>1, <2>3
  <2>5. job'[c].err <=> j.err \/ (j.drain /\ c = "nodePools" /\ ~j.finalizing)
    BY ZenonT(30), <2>3 DEF err
  <2>6. job'[c].step = IF j.move /\ ~j.drain THEN "assign" ELSE VisitEnds(c)
    BY ZenonT(30), <2>3 DEF next
  <2>7. QED
    BY ZenonT(30), <1>1, <2>1, <2>2, <2>3, <2>4, <2>5, <2>6 DEF j, needs
<1>6. CASE VisitFails(c) /\ UNCHANGED <<node, unseen>>
  BY ZenonT(30), <1>1, <1>6 DEF j
<1>7. QED
  BY ZenonT(30), <1>1, <1>5, <1>6

\* The outcomes of an assignment.
LEMMA AssignSteps ==
    ASSUME TypeOK, NEW c \in Controllers, NEW d \in Controllers, AssignNodePool(c)
    PROVE  LET j == job[c]
               k == job'[c]
           IN  /\ UNCHANGED <<pools, cache>> /\ j.step = "assign"
               /\ \E pool \in (IF j.new = Find THEN findMatchingNodePoolFromList(j.copy, j.available)
                               ELSE {j.new}) :
                    \/ /\ queue' = queue
                       /\ d # c => job'[d] = job[d]
                       /\ k.key = j.key /\ k.finalizing = j.finalizing /\ k.err = j.err
                       /\ k.step = VisitEnds(c)
                       /\ \/ j.copy.pool = pool /\ UNCHANGED <<node, unseen>>
                          \/ j.copy.pool # pool /\ PatchNode([node EXCEPT !.pool = pool])
                    \/ VisitFails(c) /\ UNCHANGED <<node, unseen>>
<1> DEFINE j == job[c]
           goesOn(copy) == [j EXCEPT !.copy = copy, !.step = VisitEnds(c)]
           targets == IF j.new = Find THEN findMatchingNodePoolFromList(j.copy, j.available) ELSE {j.new}
<1>1. /\ UNCHANGED <<pools, cache>> /\ j.step = "assign"
      /\ \E pool \in targets :
        \/ /\ j.copy.pool = pool /\ job' = [job EXCEPT ![c] = goesOn(j.copy)] /\ queue' = queue
           /\ UNCHANGED <<node, unseen>>
        \/ /\ j.copy.pool # pool /\ PatchNode([node EXCEPT !.pool = pool])
           /\ job' = [job EXCEPT ![c] = goesOn(node')] /\ queue' = queue
        \/ VisitFails(c) /\ UNCHANGED <<node, unseen>>
  BY ZenonT(30) DEF AssignNodePool
<1>2. j \in Job
  BY DEF TypeOK
<1>3. \A copy : LET k == goesOn(copy) IN
        k.key = j.key /\ k.finalizing = j.finalizing /\ k.err = j.err /\ k.step = VisitEnds(c)
  <2> HIDE DEF j
  <2>1. QED
    BY <1>2 DEF Job
<1>4. \A copy : job' = [job EXCEPT ![c] = goesOn(copy)] => job'[c] = goesOn(copy) /\ (d # c => job'[d] = job[d])
  <2> HIDE DEF goesOn
  <2>1. QED
    BY DEF TypeOK
<1> HIDE DEF goesOn, targets, j
<1>5. PICK pool \in targets :
        \/ /\ j.copy.pool = pool /\ job' = [job EXCEPT ![c] = goesOn(j.copy)] /\ queue' = queue
           /\ UNCHANGED <<node, unseen>>
        \/ /\ j.copy.pool # pool /\ PatchNode([node EXCEPT !.pool = pool])
           /\ job' = [job EXCEPT ![c] = goesOn(node')] /\ queue' = queue
        \/ VisitFails(c) /\ UNCHANGED <<node, unseen>>
  BY ZenonT(30), <1>1
<1>6. \/ /\ queue' = queue
         /\ d # c => job'[d] = job[d]
         /\ job'[c].key = j.key /\ job'[c].finalizing = j.finalizing /\ job'[c].err = j.err
         /\ job'[c].step = VisitEnds(c)
         /\ \/ j.copy.pool = pool /\ UNCHANGED <<node, unseen>>
            \/ j.copy.pool # pool /\ PatchNode([node EXCEPT !.pool = pool])
      \/ VisitFails(c) /\ UNCHANGED <<node, unseen>>
  BY ZenonT(30), <1>3, <1>4, <1>5
<1>7. QED
  BY ZenonT(30), <1>1, <1>5, <1>6 DEF j, targets

\* The two controllers are two.
LEMMA TwoControllers ==
    /\ "nodePools" \in Controllers /\ "managedNodes" \in Controllers
    /\ VisitEnds("nodePools") = "list" /\ VisitEnds("managedNodes") = "mark"
BY DEF Controllers, VisitEnds

\* The check of a node in a reconcile of a node pool: a node that is held is an
\* error, and one that is not loses its cordon or is about to be moved.
LEMMA ValidateNodePoolAttended ==
    ASSUME TypeOK, Attended, ValidateNodeStatus("nodePools")
    PROVE  Attended'
<1> DEFINE j == job["nodePools"]
           k == job'["nodePools"]
           needs == NeedsCordonPatch(j.copy, j.drain)
<1>1. /\ j.copy \in Node /\ j.drain \in BOOLEAN /\ node \in Node /\ unseen \in BOOLEAN
      /\ NodePoolJob(j)
  BY TwoControllers DEF TypeOK, Job, Attended
<1>2. UNCHANGED <<pools, cache>> /\ j.step = "validate"
  BY TwoControllers, ValidateSteps
<1>3. CASE VisitFails("nodePools") /\ UNCHANGED <<node, unseen>>
  <2>1. /\ k.step = "list" /\ k.err /\ k.key = j.key /\ k.finalizing = j.finalizing /\ queue' = queue
        /\ job'["managedNodes"] = job["managedNodes"]
    BY <1>3, TwoControllers, VisitFailsStep
  <2>2. NodePoolJob(k)
    BY <1>1, <1>2, <2>1 DEF NodePoolJob
  <2>3. NodePoolAttends'
    BY <1>3, <1>2, <2>1 DEF Attended, NodePoolAttends, NodePoolVisitsNode
  <2>4. NodeKept /\ node'.pool \in Homes \cup {Excluded} \cup Unmanaged
    BY <1>3 DEF NodeKept, Attended, Still
  <2>5. QED
    BY <1>2, <2>1, <2>2, <2>3, <2>4, NodePoolStep
<1>4. CASE /\ queue' = queue
           /\ job'["managedNodes"] = job["managedNodes"]
           /\ k.key = j.key /\ k.finalizing = j.finalizing /\ k.available = j.available
           /\ k.move = j.move /\ k.new = j.new /\ k.drain = j.drain
           /\ k.step = IF j.move /\ ~j.drain THEN "assign" ELSE "list"
           /\ k.err <=> j.err \/ (j.drain /\ ~j.finalizing)
           /\ \/ ~needs /\ k.copy = j.copy /\ UNCHANGED <<node, unseen>>
              \/ needs /\ k.copy = node' /\ PatchNode(CordonPatch(node, j.copy, j.drain))
              \/ /\ needs /\ LabelOnly(j.copy, j.drain)
                 /\ k.copy = j.copy /\ UNCHANGED <<node, unseen>>
  <2>1. NodePoolJob(k)
    BY <1>1, <1>2, <1>4 DEF NodePoolJob
  <2>2. NodeKept /\ node'.pool = node.pool
    <3>1. CASE UNCHANGED <<node, unseen>>
      BY <3>1 DEF NodeKept
    <3>2. CASE PatchNode(CordonPatch(node, j.copy, j.drain))
      <4>1. node' = CordonPatch(node, j.copy, j.drain)
        BY <3>2 DEF PatchNode
      <4>2. QED
        BY ZenonT(30), <1>1, <3>2, <4>1, PatchKept, CordonPatchType
    <3>3. QED
      BY <1>4, <3>1, <3>2
  <2>3. NodePoolAttends'
    <3> SUFFICES ASSUME ~unseen', node'.pool \in Homes, ~Belongs(node') \/ IsHeldBack(node')
                 PROVE  node'.pool \in queue'["nodePools"] \/ NodePoolVisitsNode(job["nodePools"])'
      BY DEF NodePoolAttends
    <3>1. node' = node /\ ~unseen
      BY <2>2 DEF NodeKept
    <3>2. node.pool \in queue["nodePools"] \/ NodePoolVisitsNode(j)
      BY <3>1 DEF Attended, NodePoolAttends
    <3>3. CASE node.pool \in queue["nodePools"]
      BY <1>4, <3>1, <3>3
    <3>4. CASE j.key = node.pool /\ (j.err \/ j.drain)
      BY ZenonT(30), <1>1, <1>4, <3>1, <3>4 DEF NodePoolJob, NodePoolVisitsNode
    <3>5. CASE j.key = node.pool /\ ~j.drain /\ j.copy = node /\ (Belongs(node) \/ Moves(j))
      <4>1. j.drain = FALSE
        BY <1>1, <3>5
      <4>2. ~(needs /\ PatchNode(CordonPatch(node, j.copy, j.drain)))
        BY ZenonT(30), <1>1, <3>1, <3>5, PatchChanges DEF PatchNode
      <4>3. k.copy = node
        BY ZenonT(30), <1>4, <3>5, <4>2
      <4>4. ~IsHeldBack(node)
        <5>1. ~NeedsCordonPatch(node, FALSE) \/ LabelOnly(node, FALSE)
          BY ZenonT(30), <1>4, <3>5, <4>1, <4>2
        <5>2. QED
          BY ZenonT(30), <1>1, <5>1, NoPatch
      <4>5. ~Belongs(node) /\ Moves(j)
        BY <3>1, <3>5, <4>4
      <4>6. k.step = "assign" /\ Moves(k)
        BY ZenonT(30), <1>4, <3>5, <4>3, <4>5 DEF Moves
      <4>7. QED
        BY ZenonT(30), <1>4, <3>1, <3>5, <4>3, <4>5, <4>6 DEF NodePoolVisitsNode
    <3>6. QED
      BY <1>2, <3>2, <3>3, <3>4, <3>5 DEF NodePoolVisitsNode
  <2>4. node'.pool \in Homes \cup {Excluded} \cup Unmanaged
    BY <2>2 DEF Attended, Still
  <2>5. QED
    BY <1>2, <1>4, <2>1, <2>2, <2>3, <2>4, NodePoolStep
<1>5. QED
  <2> HIDE DEF j, k, needs
  <2>1. QED
    BY ZenonT(30), <1>3, <1>4, TwoControllers, ValidateSteps DEF j, k, needs

\* An assignment in a reconcile of a node pool moves a node that is in the wrong
\* one.
LEMMA AssignNodePoolAttended ==
    ASSUME TypeOK, Attended, AssignNodePool("nodePools")
    PROVE  Attended'
<1> DEFINE j == job["nodePools"]
           k == job'["nodePools"]
           targets == IF j.new = Find THEN findMatchingNodePoolFromList(j.copy, j.available) ELSE {j.new}
<1>1. /\ j.copy \in Node /\ node \in Node /\ unseen \in BOOLEAN
      /\ NodePoolJob(j)
  BY TwoControllers DEF TypeOK, Job, Attended
<1>2. UNCHANGED <<pools, cache>> /\ j.step = "assign"
  BY TwoControllers, AssignSteps
<1>3. PICK pool \in targets :
        \/ /\ queue' = queue
           /\ job'["managedNodes"] = job["managedNodes"]
           /\ k.key = j.key /\ k.finalizing = j.finalizing /\ k.err = j.err
           /\ k.step = "list"
           /\ \/ j.copy.pool = pool /\ UNCHANGED <<node, unseen>>
              \/ j.copy.pool # pool /\ PatchNode([node EXCEPT !.pool = pool])
        \/ VisitFails("nodePools") /\ UNCHANGED <<node, unseen>>
  <2> HIDE DEF j, k, targets
  <2>1. QED
    BY ZenonT(30), TwoControllers, AssignSteps DEF j, k, targets
<1>4. pool \in Homes
  <2>1. j.available = Roster /\ j.new \in Homes \cup {Find}
    BY <1>1, <1>2 DEF NodePoolJob
  <2>2. QED
    BY <2>1 DEF findMatchingNodePoolFromList, Homes
<1>5. /\ queue' = queue /\ job'["managedNodes"] = job["managedNodes"]
      /\ k.step = "list" /\ k.key = j.key /\ k.finalizing = j.finalizing
      /\ j.err => k.err
      /\ VisitFails("nodePools") => k.err
  <2>1. CASE VisitFails("nodePools")
    BY <2>1, TwoControllers, VisitFailsStep
  <2>2. CASE ~VisitFails("nodePools")
    BY <1>3, <2>2
  <2>3. QED
    BY <2>1, <2>2
<1>6. NodePoolJob(k)
  BY <1>1, <1>2, <1>5 DEF NodePoolJob
<1>7. NodeKept /\ node'.pool \in {node.pool, pool}
  <2>1. CASE UNCHANGED <<node, unseen>>
    BY <2>1 DEF NodeKept
  <2>2. CASE PatchNode([node EXCEPT !.pool = pool])
    <3>1. node' = [node EXCEPT !.pool = pool]
      BY <2>2 DEF PatchNode
    <3>2. QED
      BY <1>1, <2>2, <3>1, PatchKept DEF Node
  <2>3. QED
    BY <1>3, <2>1, <2>2
<1>8. NodePoolAttends'
  <2> SUFFICES ASSUME ~unseen', node'.pool \in Homes, ~Belongs(node') \/ IsHeldBack(node')
               PROVE  node'.pool \in queue'["nodePools"] \/ NodePoolVisitsNode(job["nodePools"])'
    BY DEF NodePoolAttends
  <2>1. node' = node /\ ~unseen
    BY <1>7 DEF NodeKept
  <2>2. node.pool \in queue["nodePools"] \/ NodePoolVisitsNode(j)
    BY <2>1 DEF Attended, NodePoolAttends
  <2>3. CASE node.pool \in queue["nodePools"]
    BY <1>5, <2>1, <2>3
  <2>4. CASE j.key = node.pool /\ j.err
    BY <1>5, <2>1, <2>4 DEF NodePoolVisitsNode
  <2>5. CASE j.key = node.pool /\ j.copy = node /\ ~Belongs(node) /\ Moves(j)
    <3>1. pool # node.pool
      BY <1>1, <1>2, <2>5 DEF Moves, Belongs, NodePoolJob
    <3>2. ~PatchNode([node EXCEPT !.pool = pool])
      BY <1>1, <2>1, <3>1 DEF PatchNode, Node
    <3>3. VisitFails("nodePools")
      BY <1>3, <2>5, <3>1, <3>2
    <3>4. QED
      BY <1>5, <2>1, <2>5, <3>3 DEF NodePoolVisitsNode
  <2>6. QED
    BY <1>2, <2>2, <2>3, <2>4, <2>5 DEF NodePoolVisitsNode
<1>9. node'.pool \in Homes \cup {Excluded} \cup Unmanaged
  BY <1>4, <1>7 DEF Attended, Still
<1>10. QED
  BY <1>2, <1>5, <1>6, <1>7, <1>8, <1>9, NodePoolStep

\* A step of the ManagedNodesConfig controller keeps what is attended to when its
\* own part does.
LEMMA ManagedStep ==
    ASSUME TypeOK, Attended, NodeKept, UNCHANGED <<pools, cache>>,
           node'.pool \in Homes \cup {Excluded} \cup Unmanaged,
           job'["nodePools"] = job["nodePools"],
           queue'["nodePools"] = queue["nodePools"],
           ManagedNodesJob(job'["managedNodes"]), ManagedAttends'
    PROVE  Attended'
<1>1. Still'
  BY DEF Attended, Still, NodeKept
<1>2. NodePoolAttends'
  BY NodePoolWaits DEF Attended
<1>3. QED
  BY <1>1, <1>2 DEF Attended

\* A reconcile of managed nodes takes up a node that is to be excluded or
\* included.
LEMMA ReconcileManagedNodesAttended ==
    ASSUME TypeOK, Attended, NEW key \in {"node", "config"}, ReconcileManagedNodes(key)
    PROVE  Attended'
<1> DEFINE n == cache.node
           start == [Idle EXCEPT !.key = key, !.copy = n]
           excludes == ~IsUnmanaged(n) /\ n.pool # Excluded /\ ~MatchesInclusionCriteria(n)
           includes == n.pool = Excluded /\ MatchesInclusionCriteria(n)
           move(old, new, b) == [start EXCEPT !.step = "validate", !.move = TRUE, !.old = old,
                                              !.new = new, !.drain = b]
           out == move(n.pool, Excluded, arePodsRunningWithSameNodePool(n.pool))
           in == move(Excluded, Default, arePodsRunningWithSameNodePool(Excluded))
           mark == [start EXCEPT !.step = "mark"]
<1>1. /\ UNCHANGED <<pools, cache, node, unseen>> /\ job["managedNodes"].step = "idle"
      /\ queue' = [queue EXCEPT !["managedNodes"] = @ \ {key}]
  BY ZenonT(30) DEF ReconcileManagedNodes, objects
<1>2. \/ excludes /\ job' = [job EXCEPT !["managedNodes"] = out]
      \/ includes /\ job' = [job EXCEPT !["managedNodes"] = in]
      \/ ~excludes /\ ~includes /\ job' = [job EXCEPT !["managedNodes"] = mark]
      \/ ~excludes /\ ~includes /\ job' = job
  BY ZenonT(30) DEF ReconcileManagedNodes
<1>3. arePodsRunningWithSameNodePool(Excluded) = FALSE
  BY HomeNames DEF arePodsRunningWithSameNodePool, TypeOK, Cache
<1>4. \A old, new, b : LET k == move(old, new, b) IN
        k.step = "validate" /\ k.key = key /\ k.copy = n /\ k.move /\ k.new = new /\ k.drain = b
  <2> HIDE DEF n
  <2>1. QED
    BY IdleType DEF Job
<1>5. mark.step = "mark" /\ mark.key = key
  <2> HIDE DEF n
  <2>1. QED
    BY IdleType DEF Job
<1>6. /\ out.step = "validate" /\ out.key = key /\ out.copy = n /\ out.move /\ out.new = Excluded
      /\ in.step = "validate" /\ in.key = key /\ in.copy = n /\ in.move /\ in.new = Default
      /\ ~in.drain
  <2> HIDE DEF move, n
  <2>1. QED
    BY <1>3, <1>4
<1> HIDE DEF out, in, mark
<1>7. /\ job'["nodePools"] = job["nodePools"]
      /\ queue'["nodePools"] = queue["nodePools"]
      /\ \/ excludes /\ job'["managedNodes"] = out
         \/ includes /\ job'["managedNodes"] = in
         \/ ~excludes /\ ~includes /\ job'["managedNodes"] \in {mark, job["managedNodes"]}
  <2> HIDE DEF excludes, includes
  <2>1. QED
    BY <1>1, <1>2 DEF TypeOK, Controllers
<1>8. ManagedNodesJob(job'["managedNodes"])
  <2> HIDE DEF excludes, includes
  <2>1. ManagedNodesJob(out) /\ ManagedNodesJob(in) /\ ManagedNodesJob(mark)
    BY <1>5, <1>6 DEF ManagedNodesJob
  <2>2. QED
    BY <1>7, <2>1 DEF Attended
<1>9. ManagedAttends'
  <2> SUFFICES ASSUME ~unseen, ToExclude(node) \/ ToInclude(node)
               PROVE  ManagedVisitsNode(job["managedNodes"])'
    BY <1>1 DEF ManagedAttends, ToExclude, ToInclude
  <2>1. n = node
    BY DEF Attended, Still
  <2>2. ToExclude(node) => excludes
    BY <2>1, HomeNames DEF ToExclude, MatchesInclusionCriteria, IsUnmanaged
  <2>3. ToInclude(node) => includes
    BY <2>1 DEF ToInclude, MatchesInclusionCriteria
  <2>4. excludes => node.pool # Excluded
    BY <2>1
  <2>5. includes => node.pool = Excluded
    BY <2>1
  <2> HIDE DEF excludes, includes, n
  <2>6. CASE excludes /\ job'["managedNodes"] = out
    BY <1>1, <1>6, <2>1, <2>4, <2>6 DEF ManagedVisitsNode
  <2>7. CASE includes /\ job'["managedNodes"] = in
    BY <1>1, <1>6, <2>1, <2>5, <2>7 DEF ManagedVisitsNode
  <2>8. QED
    BY <1>7, <2>2, <2>3, <2>6, <2>7
<1>10. NodeKept /\ node'.pool \in Homes \cup {Excluded} \cup Unmanaged
  BY <1>1 DEF NodeKept, Attended, Still
<1>11. QED
  BY <1>1, <1>7, <1>8, <1>9, <1>10, ManagedStep

\* The mark of a node ends a reconcile that has nothing left to do for the node,
\* or has an error.
LEMMA MarkNodeAttended ==
    ASSUME TypeOK, Attended, MarkNode
    PROVE  Attended'
<1> DEFINE j == job["managedNodes"]
           waits == j.drain /\ j.new = Excluded
<1>1. UNCHANGED <<pools, cache>> /\ j.step = "mark"
  BY ZenonT(30) DEF MarkNode
<1>2. \E err : (j.err => err) /\ Finish("managedNodes", err)
  BY ZenonT(30) DEF MarkNode
<1>3. /\ job'["managedNodes"] = Idle
      /\ j.err => j.key \in queue'["managedNodes"]
      /\ queue["managedNodes"] \subseteq queue'["managedNodes"]
      /\ job'["nodePools"] = job["nodePools"]
      /\ queue'["nodePools"] = queue["nodePools"]
  BY <1>2, TwoControllers, FinishStep
<1>4. NodeKept /\ node'.pool = node.pool
  <2>1. PatchNode([node EXCEPT !.toExclude = waits]) \/ PatchNode(node) \/ UNCHANGED <<node, unseen>>
    BY ZenonT(30) DEF MarkNode
  <2>2. [node EXCEPT !.toExclude = waits].pool = node.pool
    <3> HIDE DEF waits
    <3>1. QED
      BY DEF TypeOK, Node
  <2>3. NodeKept
    BY <2>1, PatchKept DEF NodeKept
  <2> HIDE DEF waits
  <2>4. QED
    BY ZenonT(30), <2>1, <2>2, <2>3 DEF PatchNode
<1>5. ManagedAttends'
  <2> SUFFICES ASSUME ~unseen', (ToExclude(node) \/ ToInclude(node))'
               PROVE  queue'["managedNodes"] # {} \/ (ToExclude(node) /\ IsHeldBack(node))'
    BY DEF ManagedAttends
  <2>1. node' = node /\ ~unseen
    BY <1>4 DEF NodeKept
  <2>2. QED
    BY <1>1, <1>3, <2>1 DEF Attended, ManagedAttends, ManagedVisitsNode, ToExclude, ToInclude
<1>6. node'.pool \in Homes \cup {Excluded} \cup Unmanaged
  BY <1>4 DEF Attended, Still
<1>7. QED
  BY <1>1, <1>3, <1>4, <1>5, <1>6, IdleAtHand, ManagedStep

\* The check of a node that is to be excluded leaves it cordoned or about to be
\* moved.
LEMMA ValidateManagedAttended ==
    ASSUME TypeOK, Marked, Attended, ValidateNodeStatus("managedNodes"),
           "cordon" \notin Edits \/ MaxFailures = 0
    PROVE  Attended'
<1> DEFINE j == job["managedNodes"]
           k == job'["managedNodes"]
           needs == NeedsCordonPatch(j.copy, j.drain)
<1>1. /\ j.copy \in Node /\ j.drain \in BOOLEAN /\ node \in Node /\ unseen \in BOOLEAN
      /\ ManagedNodesJob(j) /\ failures \in 0..MaxFailures
  BY TwoControllers DEF TypeOK, Job, Attended
<1>2. UNCHANGED <<pools, cache>> /\ j.step = "validate"
  BY TwoControllers, ValidateSteps
<1>3. CASE VisitFails("managedNodes") /\ UNCHANGED <<node, unseen>>
  <2>1. /\ \/ k.step = "mark" /\ k.err /\ k.key = j.key
           \/ k = Idle /\ j.key \in queue'["managedNodes"]
        /\ job'["nodePools"] = job["nodePools"] /\ queue'["nodePools"] = queue["nodePools"]
    BY <1>3, TwoControllers, VisitFailsStep
  <2>2. ManagedNodesJob(k)
    BY <1>1, <1>2, <2>1, IdleAtHand DEF ManagedNodesJob
  <2>3. ManagedAttends'
    BY <2>1 DEF ManagedAttends, ManagedVisitsNode
  <2>4. NodeKept /\ node'.pool \in Homes \cup {Excluded} \cup Unmanaged
    BY <1>3 DEF NodeKept, Attended, Still
  <2>5. QED
    BY <1>2, <2>1, <2>2, <2>3, <2>4, ManagedStep
<1>4. CASE /\ queue' = queue
           /\ job'["nodePools"] = job["nodePools"]
           /\ k.key = j.key /\ k.move = j.move /\ k.new = j.new /\ k.drain = j.drain
           /\ k.step = IF j.move /\ ~j.drain THEN "assign" ELSE "mark"
           /\ k.err <=> j.err \/ (j.drain /\ "managedNodes" = "nodePools" /\ ~j.finalizing)
           /\ \/ ~needs /\ k.copy = j.copy /\ UNCHANGED <<node, unseen>>
              \/ needs /\ k.copy = node' /\ PatchNode(CordonPatch(node, j.copy, j.drain))
              \/ /\ needs /\ LabelOnly(j.copy, j.drain) /\ failures < MaxFailures
                 /\ k.copy = j.copy /\ UNCHANGED <<node, unseen>>
  <2>1. ManagedNodesJob(k)
    BY <1>1, <1>2, <1>4 DEF ManagedNodesJob
  <2>2. NodeKept /\ node'.pool = node.pool
    <3>1. CASE UNCHANGED <<node, unseen>>
      BY <3>1 DEF NodeKept
    <3>2. CASE PatchNode(CordonPatch(node, j.copy, j.drain))
      <4>1. node' = CordonPatch(node, j.copy, j.drain)
        BY <3>2 DEF PatchNode
      <4>2. QED
        BY ZenonT(30), <1>1, <3>2, <4>1, PatchKept, CordonPatchType
    <3>3. QED
      BY ZenonT(30), <1>4, <3>1, <3>2
  <2>3. ManagedAttends'
    <3> SUFFICES ASSUME ~unseen', (ToExclude(node) \/ ToInclude(node))'
                 PROVE  \/ queue'["managedNodes"] # {}
                        \/ ManagedVisitsNode(job["managedNodes"])'
                        \/ (ToExclude(node) /\ IsHeldBack(node))'
      BY DEF ManagedAttends
    <3>1. node' = node /\ ~unseen /\ cache' = cache
      BY <1>2, <2>2 DEF NodeKept
    <3>2. \/ queue["managedNodes"] # {}
          \/ ManagedVisitsNode(j)
          \/ ToExclude(node) /\ IsHeldBack(node)
      BY <3>1 DEF Attended, ManagedAttends, ToExclude, ToInclude
    <3>3. CASE queue["managedNodes"] # {} \/ (ToExclude(node) /\ IsHeldBack(node))
      BY ZenonT(30), <1>4, <3>1, <3>3 DEF ToExclude
    <3>4. CASE j.err
      BY ZenonT(30), <1>4, <3>4 DEF ManagedVisitsNode
    <3>5. CASE /\ j.copy = node
               /\ IF node.pool = Excluded THEN j.new = Default /\ ~j.drain ELSE j.new = Excluded
      <4>1. ~(needs /\ PatchNode(CordonPatch(node, j.copy, j.drain)))
        BY ZenonT(30), <1>1, <3>1, <3>5, PatchChanges DEF PatchNode
      <4>2. k.copy = node
        BY <1>4, <3>5, <4>1
      <4>3. CASE ~j.drain
        BY ZenonT(30), <1>1, <1>2, <1>4, <3>1, <3>5, <4>2, <4>3 DEF ManagedNodesJob, ManagedVisitsNode
      <4>4. CASE j.drain
        <5>1. j.drain = TRUE /\ node.pool # Excluded
          BY <1>1, <3>5, <4>4
        <5>2. ToExclude(node)
          BY <3>1, <5>1 DEF ToExclude, ToInclude
        <5>3. ~(needs /\ LabelOnly(j.copy, j.drain) /\ failures < MaxFailures)
          <6>1. CASE MaxFailures = 0
            BY <1>1, <6>1
          <6>2. CASE "cordon" \notin Edits
            BY ZenonT(30), <1>1, <3>5, <5>1, <6>2, NoPatch DEF Marked
          <6>3. QED
            BY <6>1, <6>2
        <5>4. IsHeldBack(node)
          BY ZenonT(30), <1>1, <1>4, <3>5, <4>1, <5>1, <5>3, NoPatch
        <5>5. QED
          BY <3>1, <5>2, <5>4 DEF ToExclude
      <4>5. QED
        BY <4>3, <4>4
    <3>6. QED
      BY <3>2, <3>3, <3>4, <3>5 DEF ManagedVisitsNode
  <2>4. node'.pool \in Homes \cup {Excluded} \cup Unmanaged
    BY <2>2 DEF Attended, Still
  <2>5. queue'["nodePools"] = queue["nodePools"]
    BY ZenonT(30), <1>4
  <2>6. QED
    BY <1>2, <1>4, <2>1, <2>2, <2>3, <2>4, <2>5, ManagedStep
<1>5. QED
  <2>1. \/ /\ queue' = queue
           /\ job'["nodePools"] = job["nodePools"]
           /\ k.key = j.key /\ k.move = j.move /\ k.new = j.new /\ k.drain = j.drain
           /\ k.step = IF j.move /\ ~j.drain THEN "assign" ELSE "mark"
           /\ k.err <=> j.err \/ (j.drain /\ "managedNodes" = "nodePools" /\ ~j.finalizing)
           /\ \/ ~needs /\ k.copy = j.copy /\ UNCHANGED <<node, unseen>>
              \/ needs /\ k.copy = node' /\ PatchNode(CordonPatch(node, j.copy, j.drain))
              \/ /\ needs /\ LabelOnly(j.copy, j.drain) /\ failures < MaxFailures
                 /\ k.copy = j.copy /\ UNCHANGED <<node, unseen>>
        \/ VisitFails("managedNodes") /\ UNCHANGED <<node, unseen>>
    BY TwoControllers, ValidateSteps
  <2>2. QED
    <3> HIDE DEF j, k, needs
    <3>1. QED
      BY ZenonT(30), <1>3, <1>4, <2>1 DEF j, k, needs

\* An assignment moves a node that is to be excluded or included.
LEMMA AssignManagedAttended ==
    ASSUME TypeOK, Attended, AssignNodePool("managedNodes")
    PROVE  Attended'
<1> DEFINE j == job["managedNodes"]
           k == job'["managedNodes"]
           targets == IF j.new = Find THEN findMatchingNodePoolFromList(j.copy, j.available) ELSE {j.new}
<1>1. /\ j.copy \in Node /\ node \in Node /\ unseen \in BOOLEAN
      /\ ManagedNodesJob(j)
  BY TwoControllers DEF TypeOK, Job, Attended
<1>2. UNCHANGED <<pools, cache>> /\ j.step = "assign"
  BY TwoControllers, AssignSteps
<1>3. PICK pool \in targets :
        \/ /\ queue' = queue
           /\ job'["nodePools"] = job["nodePools"]
           /\ k.key = j.key /\ k.err = j.err
           /\ k.step = "mark"
           /\ \/ j.copy.pool = pool /\ UNCHANGED <<node, unseen>>
              \/ j.copy.pool # pool /\ PatchNode([node EXCEPT !.pool = pool])
        \/ VisitFails("managedNodes") /\ UNCHANGED <<node, unseen>>
  <2> HIDE DEF j, k, targets
  <2>1. QED
    BY ZenonT(30), TwoControllers, AssignSteps DEF j, k, targets
<1>4. pool = j.new /\ pool \in {Excluded, Default} /\ Excluded # Default
  BY <1>1, <1>2, ConstantsAssumption DEF ManagedNodesJob
<1>5. /\ queue'["nodePools"] = queue["nodePools"] /\ job'["nodePools"] = job["nodePools"]
      /\ queue["managedNodes"] \subseteq queue'["managedNodes"]
      /\ \/ k.step = "mark" /\ k.key = j.key /\ (j.err \/ VisitFails("managedNodes") => k.err)
         \/ k = Idle /\ j.key \in queue'["managedNodes"]
  <2>1. CASE VisitFails("managedNodes")
    <3>1. \/ k.step = "mark" /\ k.key = j.key /\ k.err
          \/ k = Idle /\ j.key \in queue'["managedNodes"]
      BY <2>1, TwoControllers, VisitFailsStep
    <3>2. queue["managedNodes"] \subseteq queue'["managedNodes"]
      BY <2>1, TwoControllers, VisitFailsStep
    <3>3. queue'["nodePools"] = queue["nodePools"] /\ job'["nodePools"] = job["nodePools"]
      BY <2>1, TwoControllers, VisitFailsStep
    <3>4. QED
      BY <3>1, <3>2, <3>3
  <2>2. CASE ~VisitFails("managedNodes")
    BY <1>3, <2>2
  <2>3. QED
    BY <2>1, <2>2
<1>6. ManagedNodesJob(k)
  BY <1>1, <1>2, <1>5, IdleAtHand DEF ManagedNodesJob
<1>7. NodeKept /\ node'.pool \in {node.pool, pool}
  <2>1. CASE UNCHANGED <<node, unseen>>
    BY <2>1 DEF NodeKept
  <2>2. CASE PatchNode([node EXCEPT !.pool = pool])
    <3>1. node' = [node EXCEPT !.pool = pool]
      BY <2>2 DEF PatchNode
    <3>2. QED
      BY <1>1, <2>2, <3>1, PatchKept DEF Node
  <2>3. QED
    BY <1>3, <2>1, <2>2
<1>8. ManagedAttends'
  <2> SUFFICES ASSUME ~unseen', (ToExclude(node) \/ ToInclude(node))'
               PROVE  \/ queue'["managedNodes"] # {}
                      \/ ManagedVisitsNode(job["managedNodes"])'
                      \/ (ToExclude(node) /\ IsHeldBack(node))'
    BY ZenonT(30) DEF ManagedAttends
  <2>1. node' = node /\ ~unseen /\ cache' = cache
    BY <1>2, <1>7 DEF NodeKept
  <2>2. \/ queue["managedNodes"] # {}
        \/ ManagedVisitsNode(j)
        \/ ToExclude(node) /\ IsHeldBack(node)
    BY <2>1 DEF Attended, ManagedAttends, ToExclude, ToInclude
  <2>3. CASE queue["managedNodes"] # {} \/ (ToExclude(node) /\ IsHeldBack(node))
    BY <1>5, <2>1, <2>3 DEF ToExclude
  <2>4. CASE j.err \/ VisitFails("managedNodes")
    BY <1>5, <2>4 DEF ManagedVisitsNode
  <2>5. CASE /\ j.copy = node
             /\ IF node.pool = Excluded THEN j.new = Default /\ ~j.drain ELSE j.new = Excluded
    <3>1. pool # node.pool
      BY <1>4, <2>5
    <3>2. ~PatchNode([node EXCEPT !.pool = pool])
      BY <1>1, <2>1, <3>1 DEF PatchNode, Node
    <3>3. VisitFails("managedNodes")
      BY <1>3, <2>5, <3>1, <3>2
    <3>4. QED
      BY <2>4, <3>3
  <2>6. QED
    BY ZenonT(30), <2>2, <2>3, <2>4, <2>5 DEF ManagedVisitsNode
<1>9. node'.pool \in Homes \cup {Excluded} \cup Unmanaged
  BY <1>4, <1>7 DEF Attended, Still, Homes
<1>10. QED
  BY <1>2, <1>5, <1>6, <1>7, <1>8, <1>9, ManagedStep

\* Every step keeps the node attended to.
LEMMA NextAttended ==
    ASSUME TypeOK, KeyInv, Marked, Attended, [Next]_vars,
           {"pools", "newPools"} \cap Edits = {},
           "cordon" \notin Edits \/ MaxFailures = 0
    PROVE  Attended'
<1>1. CASE Reconcile
  <2>1. ASSUME NEW c \in Controllers, ValidateNodeStatus(c) \/ AssignNodePool(c)
        PROVE  Attended'
    <3>1. c = "nodePools" \/ c = "managedNodes"
      BY DEF Controllers
    <3>2. QED
      BY <2>1, <3>1, ValidateNodePoolAttended, AssignNodePoolAttended, ValidateManagedAttended,
         AssignManagedAttended
  <2>2. QED
    BY <1>1, <2>1, ReconcileNodePoolAttended, ListNodesAttended, ReconcileManagedNodesAttended,
       MarkNodeAttended DEF Reconcile
<1>2. CASE UNCHANGED vars
  BY ZenonT(30), <1>2 DEF vars, Attended, Still, NodePoolAttends, NodePoolVisitsNode, ManagedAttends,
     ManagedVisitsNode, ToExclude, ToInclude
<1>3. QED
  BY <1>1, <1>2, DeliverAttended, EnvironmentAttended DEF Next

\* Once the controllers have nothing left to do, the node is in the pool that its
\* labels and the ManagedNodesConfig select, however many node pools there are
\* and however deliveries, patches from stale copies, failures, restarts and pods
\* interleave; provided that users neither create nor delete node pools, and do
\* not cordon the node while patches fail.
THEOREM SettledCorrect ==
    ASSUME {"pools", "newPools"} \cap Edits = {},
           "cordon" \notin Edits \/ MaxFailures = 0
    PROVE  Spec => []SettledPlaced
<1>1. TypeOK /\ KeyInv /\ Marked /\ [Next]_vars => (TypeOK /\ KeyInv /\ Marked)'
  BY NextType, NextMarked
<1>2. TypeOK /\ KeyInv /\ Marked /\ Attended /\ [Next]_vars => Attended'
  BY NextAttended
<1>3. TypeOK /\ Attended => SettledPlaced
  BY SettledThere
<1>4. QED
  BY <1>1, <1>2, <1>3, InitType, InitMarked, InitAttended, PTL DEF Spec
=============================================================================
