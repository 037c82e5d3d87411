----------------------- MODULE DepartmentQueuesProofs -----------------------
(***************************************************************************)
(* Proofs that the department controller keeps its types and never builds  *)
(* a loop of queues, and that the department webhook, while its cache is   *)
(* up to date, keeps the departments a forest of bounded depth: for any    *)
(* number of departments, queues, edits, failures and cache delays.        *)
(***************************************************************************)
EXTENDS DepartmentQueues, FiniteSetTheorems, WellFoundedInduction, TLAPS

\* Z3 first, then Zenon; a leaf that cites Zenon starts with it.
USE SMTT(30), ZenonT(30)

(* A set of queues that q is not in and that parents do not lead out of:   *)
(* what the finished walk up from a new parent has established.            *)
ClosedWithout(T, q) ==
    /\ q \notin T
    /\ \A x \in T : queues[x].live => queues[x].parent \in T \cup {NoQueue}

(* What the reconcile in progress knows about the live queues. *)
JobInv ==
    /\ job.step # "idle" => job.dept \in Departments
    /\ job.step \in {"place", "find", "name"} => job.seen = {} /\ ~job.found
    /\ job.step \in {"walk", "write"} =>
          /\ job.queue \in Queues
          /\ job.found /\ job.fresh => queues[job.queue] = job.copy
    /\ job.step = "walk" =>
          /\ job.queue \notin job.seen
          /\ job.parent \in Queues
          /\ job.parent \in job.seen \cup {job.cursor}
          /\ \A x \in job.seen : queues[x].live => queues[x].parent \in job.seen \cup {job.cursor}
    /\ job.step = "write" =>
          \/ job.parent = NoQueue
          \/ job.found /\ job.parent = job.copy.parent
          \/ \E T \in SUBSET Queues : job.parent \in T /\ ClosedWithout(T, job.queue)

(* A cached queue that is not behind is the live one. *)
CacheInv == \A q \in fresh : queueCache[q] = queues[q]

IInv == TypeOK /\ NoQueueLoop /\ CacheInv /\ JobInv

-----------------------------------------------------------------------------
(* Types *)

(* The constant records of the model have their types. *)
LEMMA ConstantTypes ==
    /\ AnyQuota \in Quotas
    /\ NoQueueObject \in Queue
    /\ NewDepartment \in Department
    /\ Idle \in Job
<1>1. AnyQuota \in Quotas
  BY ConstantsAssumption DEF AnyQuota
<1>2. NoQueueObject \in Queue
  BY <1>1 DEF NoQueueObject, Queue
<1>3. NewDepartment \in Department
  BY <1>1 DEF NewDepartment, Department, DeptState
<1>4. Idle \in Job
  BY <1>2, <1>3 DEF Idle, Job, Steps
<1> QED
  BY <1>1, <1>2, <1>3, <1>4

(* Deleting a queue leaves a dead record of the queue's type. *)
LEMMA DeletedQueueType ==
    \A queue \in Queue : DeletedQueue(queue) \in Queue /\ ~DeletedQueue(queue).live
  BY ZenonT(30) DEF DeletedQueue, Queue

(* The initial state has the right types. *)
LEMMA InitType == Init => TypeOK
<1> SUFFICES ASSUME Init PROVE TypeOK
  OBVIOUS
<1>1. \A d \in DOMAIN Roster : PlacedDepartment(d) \in Department
  BY ConstantTypes, ConstantsAssumption DEF PlacedDepartment, Department, DeptState
<1>2. \A d \in DOMAIN Roster : PlacedQueue(d) \in Queue
  BY ConstantTypes, ConstantsAssumption DEF PlacedQueue, Queue
<1>3. depts \in [Departments -> Department]
  BY <1>1, ConstantTypes DEF Init
<1>4. ASSUME NEW q \in Queues
      PROVE  [NoQueueObject EXCEPT !.live = q \in Unowned] \in Queue
  <2> DEFINE live == q \in Unowned
  <2>1. live \in BOOLEAN
    OBVIOUS
  <2>2. [NoQueueObject EXCEPT !.live = live] \in Queue
    <3> HIDE DEF live
    <3> QED
      BY <2>1, ConstantTypes DEF Queue
  <2> QED
    BY <2>2
<1>5. queues \in [Queues -> Queue]
  <2> SUFFICES ASSUME NEW q \in Queues PROVE queues[q] \in Queue
    BY DEF Init
  <2>1. CASE \E d \in DOMAIN Roster : Suggested[d] = q
    BY <2>1, <1>2 DEF Init
  <2>2. CASE ~\E d \in DOMAIN Roster : Suggested[d] = q
    BY <2>2, <1>4 DEF Init
  <2> QED
    BY <2>1, <2>2
<1> QED
  BY <1>3, <1>5, ConstantTypes DEF Init, TypeOK

(* An edit by a user keeps the types. *)
LEMMA EditType == ASSUME TypeOK, UserEdit PROVE TypeOK'
<1> USE DEF TypeOK, controllerVars, Edit
<1>1. ASSUME NEW d \in Departments, CreateDepartment(d) PROVE TypeOK'
  <2>1. PICK p \in Departments \cup {NoDept}, quota \in Quotas :
           depts' = [depts EXCEPT ![d] = [st |-> "Active", parent |-> p, wants |-> TRUE,
                                          quota |-> quota, finalizer |-> FALSE]]
    BY ZenonT(30), <1>1 DEF CreateDepartment
  <2>2. depts' \in [Departments -> Department]
    BY <2>1 DEF Department, DeptState
  <2> QED
    BY <1>1, <2>2 DEF CreateDepartment
<1>2. ASSUME NEW d \in Departments, SetParent(d) PROVE TypeOK'
  <2>1. depts' \in [Departments -> Department]
    BY <1>2 DEF SetParent, Department
  <2> QED
    BY <1>2, <2>1 DEF SetParent
<1>3. ASSUME NEW d \in Departments, SetQueue(d) PROVE TypeOK'
  <2>1. PICK wants \in BOOLEAN, quota \in Quotas :
           depts' = [depts EXCEPT ![d] = [depts[d] EXCEPT !.wants = wants, !.quota = quota]]
    BY ZenonT(30), <1>3 DEF SetQueue
  <2>3. [depts[d] EXCEPT !.wants = wants, !.quota = quota] \in Department
    <3>1. depts[d] \in Department
      OBVIOUS
    <3> QED
      BY <3>1, Zenon DEF Department
  <2>2. depts' \in [Departments -> Department]
    BY <2>1, <2>3
  <2> QED
    BY <1>3, <2>2 DEF SetQueue
<1>4. ASSUME NEW d \in Departments, DeleteDepartment(d) PROVE TypeOK'
  <2>1. depts' \in [Departments -> Department]
    BY <1>4 DEF DeleteDepartment, Department, DeptState
  <2> QED
    BY <1>4, <2>1 DEF DeleteDepartment
<1>5. ASSUME NEW d \in Departments, SetProject(d) PROVE TypeOK'
  BY <1>5 DEF SetProject
<1>6. ASSUME NEW q \in Queues, DeleteQueue(q) PROVE TypeOK'
  <2>1. queues' \in [Queues -> Queue]
    BY <1>6, DeletedQueueType DEF DeleteQueue, RemoveQueue
  <2>2. job' \in Job
    BY ZenonT(30), <1>6 DEF DeleteQueue, RemoveQueue, Job
  <2> QED
    BY <1>6, <2>1, <2>2 DEF DeleteQueue, RemoveQueue
<1> QED
  BY <1>1, <1>2, <1>3, <1>4, <1>5, <1>6 DEF UserEdit

(* The caches, the garbage collector, failures and restarts keep the types. *)
LEMMA EnvironmentType ==
    ASSUME TypeOK, JobInv,
           \/ \E q \in Queues : CollectQueue(q) \/ SyncQueue(q)
           \/ \E d \in Departments : SyncDepartment(d)
           \/ SyncProjects
           \/ FailReconcile
           \/ Restart
    PROVE  TypeOK'
<1> USE DEF TypeOK
<1>1. ASSUME NEW q \in Queues, CollectQueue(q) PROVE TypeOK'
  <2>1. queues' \in [Queues -> Queue]
    BY <1>1, DeletedQueueType DEF CollectQueue, RemoveQueue
  <2>2. job' \in Job
    BY ZenonT(30), <1>1 DEF CollectQueue, RemoveQueue, Job
  <2> QED
    BY <1>1, <2>1, <2>2 DEF CollectQueue, RemoveQueue, controllerVars
<1>2. ASSUME NEW q \in Queues, SyncQueue(q) PROVE TypeOK'
  <2>1. /\ workQueue' \subseteq Departments
        /\ unseen' \in [Queues -> SUBSET Departments]
    BY <1>2 DEF SyncQueue, MapQueueToChildDepartments, Queue
  <2>2. /\ queueCache' \in [Queues -> Queue]
        /\ fresh' \subseteq Queues
    BY <1>2 DEF SyncQueue
  <2>3. midSyncs' \in Nat
    BY <1>2 DEF SyncQueue
  <2>4. UNCHANGED <<depts, queues, projects, deptCache, projectCache, job, edits, failures>>
    BY <1>2 DEF SyncQueue
  <2> QED
    BY <2>1, <2>2, <2>3, <2>4
<1>3. ASSUME NEW d \in Departments, SyncDepartment(d) PROVE TypeOK'
  BY <1>3 DEF SyncDepartment
<1>4. CASE SyncProjects
  BY <1>4 DEF SyncProjects
<1>5. CASE FailReconcile
  BY <1>5, ConstantTypes DEF FailReconcile, Requeue, JobInv
<1>6. CASE Restart
  BY <1>6, ConstantTypes DEF Restart
<1> QED
  BY <1>1, <1>2, <1>3, <1>4, <1>5, <1>6

(* Starting to reconcile a department keeps the types. *)
LEMMA ReconcileType ==
    ASSUME TypeOK, NEW d \in Departments, Reconcile(d) PROVE TypeOK'
<1> USE DEF TypeOK, objectsUnchanged
<1>1. CASE SkipMissing(d)
  BY <1>1, ConstantTypes DEF SkipMissing
<1>2. CASE Finalize(d)
  <2>1. depts' \in [Departments -> Department]
    BY <1>2 DEF Finalize, Department, DeptState
  <2> QED
    BY <1>2, <2>1, ConstantTypes DEF Finalize
<1>3. CASE StartHandle(d)
  <2>1. [depts EXCEPT ![d].finalizer = TRUE] \in [Departments -> Department]
    BY ZenonT(30) DEF Department
  <2>2. depts' \in [Departments -> Department]
    BY ZenonT(30), <1>3, <2>1 DEF StartHandle
  <2>3. ASSUME NEW spec \in Department
        PROVE  [Idle EXCEPT !.step = IF spec.wants THEN "place" ELSE "cleanup",
                            !.dept = d, !.spec = spec] \in Job
    BY ZenonT(30), ConstantTypes DEF Job, Steps
  <2>4. /\ deptCache[d] \in Department
        /\ depts'[d] \in Department
    BY <2>2
  <2>5. job' \in Job
    BY ZenonT(30), <1>3, <2>3, <2>4 DEF StartHandle
  <2>6. workQueue' \subseteq Departments
    BY <1>3 DEF StartHandle
  <2>7. UNCHANGED <<queues, projects, deptCache, queueCache, projectCache, fresh, unseen,
                    edits, failures, midSyncs>>
    BY <1>3 DEF StartHandle
  <2> QED
    BY <2>2, <2>5, <2>6, <2>7
<1> QED
  BY <1>1, <1>2, <1>3 DEF Reconcile

(* Deciding whether to walk keeps the job's type. *)
LEMMA CheckLoopType ==
    ASSUME NEW j \in Job, NEW current PROVE CheckLoop(j, current) \in Job
  BY ZenonT(30) DEF CheckLoop, Job, Steps

(* Writing the expected queue keeps the types. *)
LEMMA StoreType ==
    ASSUME TypeOK, job.dept \in Departments, job.queue \in Queues, StoreQueue
    PROVE  TypeOK'
<1> USE DEF TypeOK
<1>1. Expected \in Queue
  BY DEF Expected, Queue, Job, Department
<1>2. queues' \in [Queues -> Queue] /\ fresh' \subseteq Queues
  BY <1>1 DEF StoreQueue
<1>3. unseen' \in [Queues -> SUBSET Departments]
  BY DEF StoreQueue
<1>4. job' \in Job
  BY ZenonT(30) DEF StoreQueue, Job, Steps
<1> QED
  BY <1>2, <1>3, <1>4 DEF StoreQueue, controllerVars

(* A step of a reconcile keeps the types. *)
LEMMA HandleType == ASSUME TypeOK, JobInv, Handle PROVE TypeOK'
<1> USE DEF TypeOK
<1>1. CASE PlaceQueue
  <2>1. DepartmentQueueNames(job.spec.parent) \subseteq Queues \cup {NoQueue}
    BY ConstantsAssumption DEF DepartmentQueueNames, OwnedBy
  <2>2. job' \in Job
    BY ZenonT(30), <1>1, <2>1 DEF PlaceQueue, Job, Steps
  <2> QED
    BY <1>1, <2>2 DEF PlaceQueue, objectsUnchanged
<1>2. CASE FindQueue
  <2>1. ASSUME OwnedBy(queueCache, job.dept) = {}, job' = [job EXCEPT !.step = "name"]
        PROVE  job' \in Job
    BY <2>1 DEF Job, Steps
  <2>2. ASSUME NEW q \in OwnedBy(queueCache, job.dept)
        PROVE  [job EXCEPT !.queue = q, !.found = TRUE, !.copy = queueCache[q],
                           !.fresh = q \in fresh] \in Job
    <3> DEFINE isFresh == q \in fresh
    <3>1. isFresh \in BOOLEAN /\ q \in Queues
      BY DEF OwnedBy
    <3> HIDE DEF isFresh
    <3>2. [job EXCEPT !.queue = q, !.found = TRUE, !.copy = queueCache[q],
                      !.fresh = isFresh] \in Job
      BY ZenonT(30), <3>1 DEF Job
    <3> QED
      BY <3>2 DEF isFresh
  <2>3. job' \in Job
    <3>1. CASE OwnedBy(queueCache, job.dept) = {} /\ job' = [job EXCEPT !.step = "name"]
      BY <3>1, <2>1
    <3>2. ASSUME NEW q \in OwnedBy(queueCache, job.dept),
                 job' = CheckLoop([job EXCEPT !.queue = q, !.found = TRUE, !.copy = queueCache[q],
                                              !.fresh = q \in fresh],
                                  queueCache[q].parent)
          PROVE  job' \in Job
      BY <3>2, <2>2, CheckLoopType, Zenon
    <3> QED
      BY <1>2, <3>1, <3>2, Zenon DEF FindQueue
  <2> QED
    BY ZenonT(30), <1>2, <2>3 DEF FindQueue, objectsUnchanged
<1>3. CASE NameQueue
  <2>1. job.dept \in Departments
    BY <1>3 DEF NameQueue, JobInv
  <2>2. GeneratedNames(job.dept) \subseteq Queues
    BY <2>1, ConstantsAssumption DEF GeneratedNames
  <2>3. ASSUME NEW q \in Queues PROVE [job EXCEPT !.queue = q] \in Job
    BY DEF Job
  <2>4. job' \in Job
    BY <1>3, <2>2, <2>3, CheckLoopType DEF NameQueue
  <2> QED
    BY <1>3, <2>4 DEF NameQueue, objectsUnchanged
<1>4. CASE WalkUp
  <2>1. job.cursor \in Queues => queues[job.cursor].parent \in Queues \cup {NoQueue}
    BY DEF Queue
  <2>2. /\ [job EXCEPT !.step = "write", !.parent = NoQueue, !.held = TRUE] \in Job
        /\ [job EXCEPT !.step = "write"] \in Job
    BY ZenonT(30) DEF Job, Steps
  <2>3. job.cursor \in Queues =>
          [job EXCEPT !.cursor = queues[job.cursor].parent, !.seen = @ \cup {job.cursor}] \in Job
    BY ZenonT(30), <2>1 DEF Job
  <2>4. job' \in Job
    BY <1>4, <2>2, <2>3 DEF WalkUp, Get
  <2> QED
    BY <1>4, <2>4 DEF WalkUp, Get, objectsUnchanged
<1>5. ASSUME KeepQueue PROVE TypeOK'
  <2>1. job' \in Job
    BY <1>5 DEF KeepQueue, Job, Steps
  <2> QED
    BY <1>5, <2>1 DEF KeepQueue, objectsUnchanged
<1>6. CASE CreateQueue
  BY <1>5, <1>6, StoreType DEF CreateQueue, JobInv
<1>7. CASE UpdateQueue
  <2>1. job.dept \in Departments /\ job.queue \in Queues
    BY <1>7 DEF UpdateQueue, JobInv
  <2>2. ASSUME Requeue(job.dept), objectsUnchanged PROVE TypeOK'
    BY <2>1, <2>2, ConstantTypes DEF Requeue, objectsUnchanged
  <2> QED
    BY <1>5, <1>7, <2>1, <2>2, StoreType DEF UpdateQueue
<1>8. CASE DeleteUnnecessaryQueues
  <2>1. job.dept \in Departments
    BY <1>8 DEF DeleteUnnecessaryQueues, JobInv
  <2>2. queues' \in [Queues -> Queue]
    BY <1>8, DeletedQueueType DEF DeleteUnnecessaryQueues
  <2> QED
    BY <1>8, <2>1, <2>2, ConstantTypes DEF DeleteUnnecessaryQueues
<1> QED
  BY <1>1, <1>2, <1>3, <1>4, <1>6, <1>7, <1>8 DEF Handle

(* Every step keeps the types. *)
LEMMA NextType == ASSUME TypeOK, JobInv, [Next]_vars PROVE TypeOK'
<1>1. CASE UNCHANGED vars
  BY <1>1 DEF vars, TypeOK
<1> QED
  BY <1>1, EditType, EnvironmentType, ReconcileType, HandleType DEF Next

-----------------------------------------------------------------------------
(* No loop of queues *)

(* The Roster is a forest, so its queues are one. *)
LEMMA InitLoop == Init => NoQueueLoop
<1> SUFFICES ASSUME Init, NEW S \in SUBSET Queues, QueueLoop(S) PROVE FALSE
  BY DEF NoQueueLoop
<1> DEFINE D == {d \in DOMAIN Roster : Suggested[d] \in S}
<1>1. ASSUME NEW d \in DOMAIN Roster PROVE queues[Suggested[d]] = PlacedQueue(d)
  <2>1. d \in Departments /\ Suggested[d] \in Queues
    BY ConstantsAssumption
  <2>2. (CHOOSE e \in DOMAIN Roster : Suggested[e] = Suggested[d]) = d
    BY ConstantsAssumption
  <2> QED
    BY <2>1, <2>2 DEF Init
<1>2. ASSUME NEW q \in S PROVE \E d \in D : Suggested[d] = q
  <2>1. queues[q].parent # NoQueue
    BY ConstantsAssumption DEF QueueLoop
  <2> QED
    BY <2>1 DEF Init, NoQueueObject
<1>3. PICK d \in D : Roster[d] \notin D
  BY ZenonT(30), <1>2, ConstantsAssumption DEF QueueLoop
<1>4. queues[Suggested[d]].parent \in S
  BY DEF QueueLoop
<1>5. Roster[d] # NoDept /\ Suggested[Roster[d]] \in S
  <2>1. PlacedQueue(d).parent \in S
    BY <1>1, <1>4
  <2>2. NoQueue \notin S
    BY ConstantsAssumption
  <2> QED
    BY <2>1, <2>2 DEF PlacedQueue
<1> QED
  BY <1>3, <1>5, ConstantsAssumption

(* Deleting queues makes no loop. *)
LEMMA DeleteLoop ==
    ASSUME NoQueueLoop, \A q \in Queues : queues'[q].live => queues'[q] = queues[q]
    PROVE  NoQueueLoop'
<1> SUFFICES ASSUME NEW S \in SUBSET Queues, QueueLoop(S)' PROVE FALSE
  BY DEF NoQueueLoop
<1>1. QueueLoop(S)
  BY DEF QueueLoop
<1> QED
  BY <1>1 DEF NoQueueLoop

(* Writing the expected queue makes no loop: either the walk found a closed *)
(* set of queues around the new parent without this queue, or the parent is *)
(* the live one already, since an Update of a stale copy is refused.        *)
LEMMA StoreLoop ==
    ASSUME TypeOK, NoQueueLoop, JobInv, job.step = "write", StoreQueue,
           job.found => UpdateSucceeds
    PROVE  NoQueueLoop'
<1> SUFFICES ASSUME NEW S \in SUBSET Queues, QueueLoop(S)' PROVE FALSE
  BY DEF NoQueueLoop
<1> DEFINE q == job.queue
<1>1. q \in Queues /\ queues' = [queues EXCEPT ![q] = Expected]
  BY DEF JobInv, StoreQueue
<1>2. ASSUME NEW x \in S, x # q
      PROVE  queues[x].live /\ queues[x].parent \in S
  BY <1>1, <1>2 DEF QueueLoop, TypeOK
<1>3. q \in S => job.parent \in S
  <2>1. q \in S => queues'[q].parent \in S
    BY DEF QueueLoop
  <2> QED
    BY <1>1, <2>1 DEF Expected, TypeOK
<1>4. q \in S
  BY <1>2 DEF QueueLoop, NoQueueLoop
<1>5. job.parent # NoQueue
  BY <1>3, <1>4, ConstantsAssumption
<1>6. CASE job.found /\ job.parent = job.copy.parent
  <2>1. queues[q].live /\ queues[q].parent = job.parent
    BY <1>6 DEF JobInv, UpdateSucceeds
  <2>2. QueueLoop(S)
    BY <1>2, <1>3, <1>4, <2>1 DEF QueueLoop
  <2> QED
    BY <2>2 DEF NoQueueLoop
<1>7. CASE \E T \in SUBSET Queues : job.parent \in T /\ ClosedWithout(T, q)
  <2>1. PICK T \in SUBSET Queues : job.parent \in T /\ ClosedWithout(T, q)
    BY <1>7
  <2>2. ASSUME NEW x \in S \cap T
        PROVE  queues[x].live /\ queues[x].parent \in S \cap T
    BY <1>2, <2>1, ConstantsAssumption DEF ClosedWithout
  <2>3. QueueLoop(S \cap T)
    BY <1>3, <1>4, <2>1, <2>2 DEF QueueLoop
  <2> QED
    BY <2>3 DEF NoQueueLoop
<1> QED
  BY <1>5, <1>6, <1>7 DEF JobInv

(* A step that leaves the live queues and the job alone keeps JobInv. *)
LEMMA JobInvUnchanged == ASSUME JobInv, UNCHANGED <<queues, job>> PROVE JobInv'
  BY DEF JobInv, ClosedWithout

(* An idle controller owes nothing. *)
LEMMA JobInvIdle == ASSUME job' = Idle PROVE JobInv'
  BY DEF JobInv, Idle

(* A queue that disappears under a reconcile leaves what it knows true. *)
LEMMA RemoveInv ==
    ASSUME IInv, NEW q \in Queues, RemoveQueue(q)
    PROVE  NoQueueLoop' /\ CacheInv' /\ JobInv'
<1>1. \A x \in Queues : queues'[x] = IF x = q THEN DeletedQueue(queues[x]) ELSE queues[x]
  BY DEF RemoveQueue, IInv, TypeOK
<1>2. ASSUME NEW x \in Queues
      PROVE  queues'[x].live => x # q /\ queues'[x] = queues[x]
  BY <1>1, DeletedQueueType DEF IInv, TypeOK
<1>3. NoQueueLoop'
  BY <1>2, DeleteLoop DEF IInv
<1>4. CacheInv'
  BY <1>1 DEF IInv, CacheInv, RemoveQueue, controllerVars, TypeOK
<1> DEFINE stays == job.fresh /\ job.queue # q
<1>5. job' = [job EXCEPT !.fresh = stays]
  BY DEF RemoveQueue
<1> HIDE DEF stays
<1>6. /\ job'.fresh = stays
      /\ job'.step = job.step /\ job'.dept = job.dept /\ job'.seen = job.seen
      /\ job'.found = job.found /\ job'.queue = job.queue /\ job'.copy = job.copy
      /\ job'.parent = job.parent /\ job'.cursor = job.cursor
  BY <1>5 DEF IInv, TypeOK, Job
<1>7. job.step \in {"walk", "write"} /\ job'.found /\ job'.fresh => queues'[job'.queue] = job'.copy
  BY ZenonT(30), <1>1, <1>6 DEF stays, IInv, JobInv, TypeOK
<1>8. ASSUME NEW T \in SUBSET Queues, ClosedWithout(T, job.queue)
      PROVE  ClosedWithout(T, job.queue)'
  BY <1>2, <1>6, <1>8 DEF ClosedWithout
<1>9. job.step = "walk" =>
        \A x \in job.seen : queues'[x].live => queues'[x].parent \in job.seen \cup {job.cursor}
  BY <1>2 DEF IInv, JobInv, TypeOK, Job
<1>10. JobInv'
  BY <1>6, <1>7, <1>8, <1>9 DEF IInv, JobInv
<1> QED
  BY <1>3, <1>4, <1>10

(* Choosing a queue starts the walk with nothing seen, or skips it when     *)
(* there is no new parent.                                                  *)
LEMMA CheckLoopInv ==
    ASSUME TypeOK, NEW j \in Job, NEW current,
           j.dept \in Departments, j.queue \in Queues, j.seen = {},
           j.found => current = j.copy.parent,
           j.found /\ j.fresh => queues[j.queue] = j.copy,
           ~j.found => current = NoQueue,
           job' = CheckLoop(j, current), UNCHANGED queues
    PROVE  JobInv'
<1>1. CASE j.parent = NoQueue \/ j.parent = current
  <2>1. job' = [j EXCEPT !.step = "write"]
    BY <1>1 DEF CheckLoop
  <2> QED
    BY <1>1, <2>1 DEF JobInv, Job
<1>2. CASE ~(j.parent = NoQueue \/ j.parent = current)
  <2>1. job' = [j EXCEPT !.step = "walk", !.cursor = j.parent]
    BY <1>2 DEF CheckLoop
  <2> QED
    BY <1>2, <2>1 DEF JobInv, Job
<1> QED
  BY <1>1, <1>2

(* Each GET of the walk extends the closed set by one queue. *)
LEMMA WalkInv == ASSUME TypeOK, JobInv, WalkUp PROVE JobInv'
<1>1. /\ job.step = "walk" /\ job \in Job /\ UNCHANGED queues
      /\ job.dept \in Departments /\ job.queue \in Queues
      /\ job.found /\ job.fresh => queues[job.queue] = job.copy
      /\ job.seen \in SUBSET Queues
  BY DEF WalkUp, Get, JobInv, TypeOK, Job, objectsUnchanged
<1>2. ASSUME job' = [job EXCEPT !.step = "write", !.parent = NoQueue, !.held = TRUE]
      PROVE  JobInv'
  BY <1>1, <1>2 DEF JobInv, Job
<1>3. ASSUME job' = [job EXCEPT !.step = "write"],
             NEW T \in SUBSET Queues, job.parent \in T, ClosedWithout(T, job.queue)
      PROVE  JobInv'
  <2>1. job'.parent \in T /\ ClosedWithout(T, job.queue)' /\ job'.queue = job.queue
    BY <1>1, <1>3 DEF ClosedWithout, Job
  <2> QED
    BY <1>1, <1>3, <2>1 DEF JobInv, Job, ClosedWithout
<1>4. CASE /\ job.cursor \in job.seen \cup {NoQueue}
           /\ job' = [job EXCEPT !.step = "write"]
  <2>1. job.parent \in job.seen /\ ClosedWithout(job.seen, job.queue)
    BY <1>1, <1>4, ConstantsAssumption DEF JobInv, ClosedWithout
  <2> QED
    BY <1>1, <1>3, <1>4, <2>1
<1>5. CASE /\ job.cursor \in Queues /\ ~queues[job.cursor].live /\ job.cursor # job.queue
           /\ job' = [job EXCEPT !.step = "write"]
  <2>1. /\ job.parent \in job.seen \cup {job.cursor}
        /\ ClosedWithout(job.seen \cup {job.cursor}, job.queue)
    BY <1>1, <1>5 DEF JobInv, ClosedWithout
  <2> QED
    BY <1>1, <1>3, <1>5, <2>1
<1>6. CASE /\ job.cursor \in Queues \ (job.seen \cup {job.queue})
           /\ job' = [job EXCEPT !.cursor = queues[job.cursor].parent,
                                 !.seen = @ \cup {job.cursor}]
  <2>1. /\ job'.cursor = queues[job.cursor].parent
        /\ job'.seen = job.seen \cup {job.cursor}
        /\ job'.step = "walk" /\ job'.dept = job.dept /\ job'.queue = job.queue
        /\ job'.parent = job.parent /\ job'.found = job.found
        /\ job'.fresh = job.fresh /\ job'.copy = job.copy
    BY <1>1, <1>6 DEF Job
  <2>2. \A x \in job'.seen : queues[x].live => queues[x].parent \in job'.seen \cup {job'.cursor}
    BY <1>1, <2>1 DEF JobInv
  <2> QED
    BY <1>1, <1>6, <2>1, <2>2 DEF JobInv
<1> QED
  BY <1>2, <1>4, <1>5, <1>6 DEF WalkUp, Get

(* Every step of a reconcile keeps the invariant. *)
LEMMA HandleInv == ASSUME IInv, Handle PROVE NoQueueLoop' /\ CacheInv' /\ JobInv'
<1> USE DEF IInv
<1>1. ASSUME objectsUnchanged, JobInv' PROVE NoQueueLoop' /\ CacheInv' /\ JobInv'
  BY <1>1 DEF objectsUnchanged, NoQueueLoop, QueueLoop, CacheInv
<1>2. CASE PlaceQueue
  <2>1. JobInv'
    BY ZenonT(30), <1>2 DEF PlaceQueue, JobInv, TypeOK, Job
  <2> QED
    BY <1>1, <1>2, <2>1 DEF PlaceQueue
<1>3. CASE FindQueue
  <2>1. /\ job \in Job /\ job.dept \in Departments /\ job.seen = {} /\ ~job.found
        /\ job.step = "find" /\ UNCHANGED queues
    BY ZenonT(30), <1>3 DEF FindQueue, JobInv, TypeOK, objectsUnchanged
  <2>2. ASSUME job' = [job EXCEPT !.step = "name"] PROVE JobInv'
    BY <2>1, <2>2 DEF JobInv, Job
  <2>3. ASSUME NEW q \in OwnedBy(queueCache, job.dept),
               job' = CheckLoop([job EXCEPT !.queue = q, !.found = TRUE, !.copy = queueCache[q],
                                            !.fresh = q \in fresh], queueCache[q].parent)
        PROVE  JobInv'
    <3> DEFINE isFresh == q \in fresh
               j == [job EXCEPT !.queue = q, !.found = TRUE, !.copy = queueCache[q],
                                !.fresh = isFresh]
    <3>1. job' = CheckLoop(j, queueCache[q].parent)
      BY <2>3
    <3>2. isFresh \in BOOLEAN /\ q \in Queues /\ (isFresh => queues[q] = queueCache[q])
      BY DEF OwnedBy, CacheInv
    <3> HIDE DEF isFresh
    <3>3. /\ j \in Job /\ j.dept = job.dept /\ j.queue = q /\ j.seen = {}
          /\ j.found /\ j.copy = queueCache[q] /\ j.fresh = isFresh
      BY ZenonT(30), <2>1, <3>2 DEF Job, TypeOK
    <3> HIDE DEF j
    <3> QED
      BY <2>1, <3>1, <3>2, <3>3, CheckLoopInv
  <2> QED
    BY ZenonT(30), <1>1, <1>3, <2>2, <2>3 DEF FindQueue
<1>4. CASE NameQueue
  <2>1. /\ job \in Job /\ job.dept \in Departments /\ job.seen = {} /\ ~job.found
        /\ UNCHANGED queues
    BY <1>4 DEF NameQueue, JobInv, TypeOK, objectsUnchanged
  <2>2. PICK q \in GeneratedNames(job.dept) : job' = CheckLoop([job EXCEPT !.queue = q], NoQueue)
    BY <1>4 DEF NameQueue
  <2>3. q \in Queues
    BY <2>1, <2>2, ConstantsAssumption DEF GeneratedNames
  <2> DEFINE j == [job EXCEPT !.queue = q]
  <2>4. /\ j \in Job /\ j.dept = job.dept /\ j.queue = q /\ j.seen = {} /\ ~j.found
    BY <2>1, <2>3 DEF Job
  <2>5. job' = CheckLoop(j, NoQueue)
    BY <2>2
  <2> HIDE DEF j
  <2>6. JobInv'
    BY <2>1, <2>3, <2>4, <2>5, CheckLoopInv
  <2> QED
    BY <1>1, <1>4, <2>6 DEF NameQueue
<1>5. CASE WalkUp
  BY <1>1, <1>5, WalkInv DEF WalkUp, Get
<1>6. ASSUME job.step = "write", KeepQueue PROVE NoQueueLoop' /\ CacheInv' /\ JobInv'
  <2>1. JobInv'
    BY <1>6 DEF KeepQueue, JobInv, TypeOK, Job
  <2> QED
    BY <1>1, <1>6, <2>1 DEF KeepQueue
<1>7. ASSUME job.step = "write", StoreQueue, job.found => UpdateSucceeds
      PROVE  NoQueueLoop' /\ CacheInv' /\ JobInv'
  <2>1. NoQueueLoop'
    BY <1>7, StoreLoop
  <2>2. CacheInv'
    BY <1>7 DEF CacheInv, StoreQueue, controllerVars, TypeOK
  <2>3. JobInv'
    BY <1>7 DEF StoreQueue, JobInv, TypeOK, Job
  <2> QED
    BY <2>1, <2>2, <2>3
<1>8. CASE CreateQueue
  BY <1>6, <1>7, <1>8 DEF CreateQueue
<1>9. CASE UpdateQueue
  <2>1. ASSUME Requeue(job.dept), objectsUnchanged PROVE NoQueueLoop' /\ CacheInv' /\ JobInv'
    BY <1>1, <2>1, JobInvIdle DEF Requeue
  <2> QED
    BY <1>6, <1>7, <1>9, <2>1 DEF UpdateQueue
<1>10. CASE DeleteUnnecessaryQueues
  <2>1. \A q \in Queues : queues'[q].live => queues'[q] = queues[q]
    BY <1>10, DeletedQueueType DEF DeleteUnnecessaryQueues, TypeOK
  <2>2. \A q \in fresh' : queues'[q] = queues[q] \/ ~queues[q].live
    BY <1>10 DEF DeleteUnnecessaryQueues, TypeOK
  <2>3. CacheInv'
    BY <1>10, <2>2 DEF DeleteUnnecessaryQueues, CacheInv, Unnecessary, OwnedBy, TypeOK
  <2>4. JobInv'
    BY <1>10, JobInvIdle DEF DeleteUnnecessaryQueues
  <2> QED
    BY <2>1, <2>3, <2>4, DeleteLoop
<1> QED
  BY <1>2, <1>3, <1>4, <1>5, <1>8, <1>9, <1>10 DEF Handle

(* The initial state satisfies the invariant. *)
LEMMA InitInv == Init => IInv
<1> SUFFICES ASSUME Init PROVE IInv
  OBVIOUS
<1>1. CacheInv
  BY DEF Init, CacheInv
<1>2. JobInv
  BY DEF Init, JobInv, Idle
<1> QED
  BY <1>1, <1>2, InitType, InitLoop DEF IInv

(* Every step keeps the invariant. *)
LEMMA NextInv == ASSUME IInv, [Next]_vars PROVE IInv'
<1> USE DEF IInv
<1>1. TypeOK'
  BY NextType
<1>2. ASSUME UNCHANGED <<queues, queueCache, fresh>>, JobInv' PROVE IInv'
  BY <1>1, <1>2 DEF NoQueueLoop, QueueLoop, CacheInv
<1>3. CASE UserEdit
  <2>1. ASSUME NEW q \in Queues, DeleteQueue(q) PROVE IInv'
    BY <1>1, <2>1, RemoveInv DEF DeleteQueue
  <2>2. ASSUME NEW d \in Departments,
               \/ CreateDepartment(d) \/ SetParent(d) \/ SetQueue(d)
               \/ DeleteDepartment(d) \/ SetProject(d)
        PROVE  IInv'
    <3>1. UNCHANGED <<queues, queueCache, fresh, job>>
      BY ZenonT(30), <2>2 DEF CreateDepartment, SetParent, SetQueue, DeleteDepartment, SetProject, controllerVars
    <3> QED
      BY ZenonT(30), <1>2, <3>1, JobInvUnchanged
  <2> QED
    BY <1>3, <2>1, <2>2 DEF UserEdit
<1>4. ASSUME NEW q \in Queues, CollectQueue(q) PROVE IInv'
  BY <1>1, <1>4, RemoveInv DEF CollectQueue
<1>5. ASSUME NEW q \in Queues, SyncQueue(q) PROVE IInv'
  <2>1. UNCHANGED <<queues, job>>
    BY <1>5 DEF SyncQueue
  <2>2. CacheInv'
    BY <1>5 DEF SyncQueue, CacheInv, TypeOK
  <2> QED
    BY <1>1, <2>1, <2>2, JobInvUnchanged DEF NoQueueLoop, QueueLoop
<1>6. ASSUME NEW d \in Departments, SyncDepartment(d) PROVE IInv'
  BY <1>2, <1>6, JobInvUnchanged DEF SyncDepartment
<1>7. ASSUME NEW d \in Departments, Reconcile(d) PROVE IInv'
  <2>1. UNCHANGED <<queues, queueCache, fresh>>
    BY <1>7 DEF Reconcile, SkipMissing, Finalize, StartHandle, objectsUnchanged
  <2>2. ASSUME NEW spec, NEW step \in {"place", "cleanup"},
               job' = [Idle EXCEPT !.step = step, !.dept = d, !.spec = spec]
        PROVE  JobInv'
    BY <2>2 DEF JobInv, Idle
  <2>3. job' = Idle \/ job' = job => JobInv'
    BY ZenonT(30), <2>1, JobInvIdle, JobInvUnchanged
  <2>4. JobInv'
    BY ZenonT(30), <1>7, <2>2, <2>3 DEF Reconcile, SkipMissing, Finalize, StartHandle
  <2> QED
    BY <1>2, <2>1, <2>4
<1>8. CASE SyncProjects
  BY <1>2, <1>8, JobInvUnchanged DEF SyncProjects
<1>9. CASE Handle
  BY <1>1, <1>9, HandleInv
<1>10. CASE FailReconcile
  BY <1>2, <1>10, JobInvIdle DEF FailReconcile, Requeue
<1>11. CASE Restart
  BY <1>1, <1>11, JobInvIdle DEF Restart, CacheInv, NoQueueLoop, QueueLoop
<1>12. CASE UNCHANGED vars
  BY <1>2, <1>12, JobInvUnchanged DEF vars
<1> QED
  BY <1>3, <1>4, <1>5, <1>6, <1>7, <1>8, <1>9, <1>10, <1>11, <1>12 DEF Next

(* The invariant holds throughout. *)
LEMMA Invariance == Spec => []IInv
  BY InitInv, NextInv, PTL DEF Spec

(* The variables of the department controller always have their types. *)
THEOREM TypeCorrect == Spec => []TypeOK
  BY Invariance, PTL DEF IInv

(* The department controller never builds a loop of queues, whatever loop  *)
(* users make of the departments and however far the caches lag behind.    *)
THEOREM QueuesNeverLoop == Spec => []NoQueueLoop
  BY Invariance, PTL DEF IInv

-----------------------------------------------------------------------------
(* The tree of the webhook: a parent for every name, Missing for a name    *)
(* without a department.                                                   *)

Trees == [Departments -> Departments \cup {NoDept, Missing}]

(* A set that no parent leads out of, but to a name without a department.  *)
Closed(tree, S) ==
    \A x \in S : tree[x] \in Departments /\ tree[tree[x]] # Missing => tree[x] \in S

(* A department and every department above it. *)
Line(tree, d) ==
    {e \in Departments : \A S \in SUBSET Departments : d \in S /\ Closed(tree, S) => e \in S}

(* Every set of departments has one whose parent is outside it. *)
Forest(tree) == \A S \in SUBSET Departments : S = {} \/ \E x \in S : tree[x] \notin S

(* No department has too many above it. *)
Shallow(tree) == \A x \in Departments : Cardinality(Line(tree, x)) <= MaxDepth

(* One department is given another parent. *)
Moved(old, new, d, p) ==
    /\ new \in Trees
    /\ new[d] = p
    /\ \A x \in Departments \ {d} : new[x] = old[x]

(* A nonempty set of numbers has a least one. *)
LEMMA Least ==
    ASSUME NEW T, T \subseteq Nat, T # {}
    PROVE  \E m \in T : \A k \in T : m <= k
<1> DEFINE R == {ss \in Nat \X Nat : ss[1] < ss[2]}
<1>1. OpToRel(<, Nat) = R
  BY DEF OpToRel
<1>2. IsWellFoundedOn(R, Nat)
  BY <1>1, NatLessThanWellFounded
<1> HIDE DEF R
<1>3. PICK m \in T : \A k \in T : ~(<<k, m>> \in R)
  BY ZenonT(30), <1>2, WFMin
<1>4. ASSUME NEW k \in T PROVE m <= k
  <2>1. <<k, m>> \notin R /\ k \in Nat /\ m \in Nat
    BY <1>3
  <2>2. k < m => <<k, m>> \in R
    BY <2>1 DEF R
  <2> QED BY <2>1, <2>2
<1> QED BY <1>3, <1>4

(* What holds of 0, and of a number's successor up to n, holds up to n. *)
LEMMA UpTo ==
    ASSUME NEW n \in Nat, NEW T, 0 \in T, \A m \in 0 .. n - 1 : m \in T => m + 1 \in T
    PROVE  \A m \in 0 .. n : m \in T
<1> DEFINE U == {m \in 0 .. n : m \notin T}
<1>1. SUFFICES ASSUME U # {} PROVE FALSE
  OBVIOUS
<1>a. U \subseteq Nat
  OBVIOUS
<1>2. PICK m \in U : \A k \in U : m <= k
  <2> HIDE DEF U
  <2> QED BY <1>1, <1>a, Least
<1>3. m # 0
  BY <1>2
<1>4. m - 1 \in 0 .. n - 1 /\ m - 1 \notin U
  BY <1>2, <1>3
<1>5. m - 1 \in T
  BY <1>4
<1>6. (m - 1) + 1 \in T
  BY <1>4, <1>5
<1>7. (m - 1) + 1 = m /\ m \notin T
  BY <1>2
<1> QED BY <1>6, <1>7

(* The step up from one department to the next. *)
Up(tree, x) == IF x \in Departments THEN tree[x] ELSE x
IsWalk(tree, d, n, f) == f = [m \in 0 .. n |-> IF m = 0 THEN d ELSE Up(tree, f[m - 1])]

(* There is such a walk of every length. *)
LEMMA WalkExists ==
    ASSUME NEW tree, NEW d, NEW n \in Nat
    PROVE  \E f : IsWalk(tree, d, n, f)
<1> DEFINE T == {m \in Nat : \E f : IsWalk(tree, d, m, f)}
<1>1. 0 \in T
  <2> DEFINE f == [m \in 0 .. 0 |-> d]
  <2>1. f = [m \in 0 .. 0 |-> IF m = 0 THEN d ELSE Up(tree, f[m - 1])]
    OBVIOUS
  <2> QED BY ZenonT(30), <2>1 DEF IsWalk
<1>2. ASSUME NEW m \in 0 .. n - 1, m \in T PROVE m + 1 \in T
  <2>1. PICK f : IsWalk(tree, d, m, f)
    BY <1>2
  <2> DEFINE g == [k \in 0 .. m + 1 |-> IF k = 0 THEN d ELSE Up(tree, f[k - 1])]
  <2>2. \A k \in 0 .. m : f[k] = (IF k = 0 THEN d ELSE Up(tree, f[k - 1]))
    BY <2>1 DEF IsWalk
  <2>3. \A k \in 0 .. m : g[k] = f[k]
    BY <2>2
  <2>4. ASSUME NEW k \in 0 .. m + 1
        PROVE  g[k] = (IF k = 0 THEN d ELSE Up(tree, g[k - 1]))
    <3>1. CASE k = 0
      BY <3>1
    <3>2. CASE k # 0
      <4>1. k - 1 \in 0 .. m
        BY <3>2
      <4> QED BY <3>2, <4>1, <2>3
    <3> QED BY <3>1, <3>2
  <2>5. g = [k \in 0 .. m + 1 |-> IF k = 0 THEN d ELSE Up(tree, g[k - 1])]
    BY ZenonT(30), <2>4
  <2> HIDE DEF g
  <2>6. IsWalk(tree, d, m + 1, g)
    BY <2>5 DEF IsWalk
  <2> QED BY <2>6
<1> HIDE DEF T
<1>3. n \in T
  BY <1>1, <1>2, UpTo
<1> QED BY <1>3 DEF T

(* Above is the walk it describes. *)
LEMMA AboveWalks ==
    ASSUME NEW tree, NEW d
    PROVE  /\ Above(tree, d)[0] = d
           /\ \A n \in 0 .. MaxDepth : Above(tree, d)[n + 1] = Up(tree, Above(tree, d)[n])
<1>1. MaxDepth + 1 \in Nat /\ MaxDepth \in Nat
  BY ConstantsAssumption
<1> DEFINE up == Above(tree, d)
<1>2. up = CHOOSE f : IsWalk(tree, d, MaxDepth + 1, f)
  BY DEF Above, IsWalk, Up
<1>3. IsWalk(tree, d, MaxDepth + 1, up)
  BY <1>1, <1>2, WalkExists
<1> HIDE DEF up
<1>4. \A n \in 0 .. MaxDepth + 1 : up[n] = IF n = 0 THEN d ELSE Up(tree, up[n - 1])
  BY <1>3 DEF IsWalk
<1>5. up[0] = d
  BY <1>1, <1>4
<1>6. ASSUME NEW n \in 0 .. MaxDepth PROVE up[n + 1] = Up(tree, up[n])
  <2>1. n + 1 \in 0 .. MaxDepth + 1 /\ n + 1 # 0 /\ (n + 1) - 1 = n
    BY <1>1
  <2> QED BY <1>4, <2>1
<1> QED BY <1>5, <1>6 DEF up

(* Above a department is its parent. *)
LEMMA AboveStep ==
    ASSUME NEW tree, NEW d, NEW n \in 0 .. MaxDepth, Above(tree, d)[n] \in Departments
    PROVE  Above(tree, d)[n + 1] = tree[Above(tree, d)[n]]
<1>1. Above(tree, d)[n + 1] = Up(tree, Above(tree, d)[n])
  BY AboveWalks
<1> QED BY <1>1 DEF Up

(* A walk up visits departments, or has ended. *)
LEMMA AboveTyped ==
    ASSUME NEW tree \in Trees, NEW d \in Departments, NEW n \in 0 .. MaxDepth + 1
    PROVE  Above(tree, d)[n] \in Departments \cup {NoDept, Missing}
<1> DEFINE N == Departments \cup {NoDept, Missing}
           T == {m \in 0 .. MaxDepth + 1 : Above(tree, d)[m] \in N}
<1>1. MaxDepth \in Nat /\ MaxDepth + 1 \in Nat
  BY ConstantsAssumption
<1>2. 0 \in T
  BY <1>1, AboveWalks
<1>3. ASSUME NEW m \in 0 .. (MaxDepth + 1) - 1, m \in T PROVE m + 1 \in T
  <2>1. m \in 0 .. MaxDepth /\ m + 1 \in 0 .. MaxDepth + 1
    BY <1>1
  <2>2. Above(tree, d)[m + 1] = Up(tree, Above(tree, d)[m])
    BY <2>1, AboveWalks
  <2>3. Above(tree, d)[m] \in N
    BY <1>3
  <2>4. Up(tree, Above(tree, d)[m]) \in N
    BY <2>3 DEF Up, Trees
  <2> QED BY <2>1, <2>2, <2>4
<1> HIDE DEF T
<1>4. \A m \in 0 .. MaxDepth + 1 : m \in T
  BY <1>1, <1>2, <1>3, UpTo
<1> QED BY <1>4 DEF T

(* A walk from the m-th department goes on as the walk does. *)
LEMMA AboveAbove ==
    ASSUME NEW tree, NEW d, NEW m \in Nat, NEW n \in Nat, m + n <= MaxDepth + 1
    PROVE  Above(tree, Above(tree, d)[m])[n] = Above(tree, d)[m + n]
<1> DEFINE e == Above(tree, d)[m]
           T == {k \in 0 .. n : Above(tree, e)[k] = Above(tree, d)[m + k]}
<1>1. MaxDepth \in Nat
  BY ConstantsAssumption
<1> HIDE DEF e
<1>2. 0 \in T
  <2>1. Above(tree, e)[0] = e
    BY AboveWalks
  <2> QED BY <2>1 DEF e
<1>3. ASSUME NEW k \in 0 .. n - 1, k \in T PROVE k + 1 \in T
  <2>1. /\ k \in 0 .. MaxDepth /\ m + k \in 0 .. MaxDepth
        /\ k + 1 \in 0 .. n /\ m + (k + 1) = (m + k) + 1
    BY <1>1
  <2>2. Above(tree, e)[k + 1] = Up(tree, Above(tree, e)[k])
    BY <2>1, AboveWalks
  <2>3. Above(tree, d)[(m + k) + 1] = Up(tree, Above(tree, d)[m + k])
    BY <2>1, AboveWalks
  <2>4. Above(tree, e)[k] = Above(tree, d)[m + k]
    BY <1>3
  <2> QED BY <2>1, <2>2, <2>3, <2>4
<1> HIDE DEF T
<1>4. n \in T
  BY <1>2, <1>3, UpTo
<1> QED BY <1>4 DEF T, e

(* A walk stays in a set that no parent leads out of. *)
LEMMA AboveClosed ==
    ASSUME NEW tree, NEW d, NEW S \in SUBSET Departments, d \in S, Closed(tree, S),
           NEW n \in 0 .. MaxDepth + 1,
           \A m \in 1 .. n : /\ Above(tree, d)[m] \in Departments
                             /\ tree[Above(tree, d)[m]] # Missing
    PROVE  \A m \in 0 .. n : Above(tree, d)[m] \in S
<1> DEFINE T == {m \in 0 .. n : Above(tree, d)[m] \in S}
<1>1. MaxDepth \in Nat /\ n \in Nat
  BY ConstantsAssumption
<1>2. 0 \in T
  BY <1>1, AboveWalks
<1>3. ASSUME NEW m \in 0 .. n - 1, m \in T PROVE m + 1 \in T
  <2>1. m \in 0 .. MaxDepth /\ m + 1 \in 0 .. n /\ m + 1 \in 1 .. n
    BY <1>1
  <2>2. Above(tree, d)[m] \in S
    BY <1>3
  <2>3. Above(tree, d)[m + 1] = tree[Above(tree, d)[m]]
    BY <2>1, <2>2, AboveStep
  <2>4. Above(tree, d)[m + 1] \in Departments /\ tree[Above(tree, d)[m + 1]] # Missing
    BY <2>1
  <2>5. Above(tree, d)[m + 1] \in S
    BY <2>2, <2>3, <2>4 DEF Closed
  <2> QED BY <2>1, <2>5
<1> HIDE DEF T
<1>4. \A m \in 0 .. n : m \in T
  BY <1>1, <1>2, <1>3, UpTo
<1> QED BY <1>4 DEF T

(* In a forest a walk meets no department twice. *)
LEMMA NoneTwice ==
    ASSUME NEW tree \in Trees, Forest(tree), NEW d, NEW n \in 0 .. MaxDepth + 1,
           \A m \in 0 .. n : Above(tree, d)[m] \in Departments
    PROVE  \A i, j \in 0 .. n : i < j => Above(tree, d)[i] # Above(tree, d)[j]
<1>1. MaxDepth \in Nat /\ n \in Nat
  BY ConstantsAssumption
<1>2. SUFFICES ASSUME NEW i \in 0 .. n, NEW j \in 0 .. n, i < j,
                      Above(tree, d)[i] = Above(tree, d)[j]
               PROVE  FALSE
  OBVIOUS
<1> DEFINE up == Above(tree, d)
           S == {up[m] : m \in i .. j - 1}
<1>3. S \in SUBSET Departments /\ up[i] \in S
  BY <1>1, <1>2
<1>4. ASSUME NEW m \in i .. j - 1 PROVE tree[up[m]] \in S
  <2>1. m \in 0 .. MaxDepth /\ m \in 0 .. n /\ m + 1 \in i .. j
    BY <1>1, <1>2
  <2>2. up[m + 1] = tree[up[m]]
    BY <2>1, AboveStep
  <2>3. CASE m + 1 = j
    BY <2>2, <2>3, <1>2, <1>3
  <2>4. CASE m + 1 # j
    BY <2>1, <2>2, <2>4, <1>1, <1>2
  <2> QED BY <2>3, <2>4
<1>5. \A x \in S : tree[x] \in S
  BY <1>4
<1> HIDE DEF S
<1> QED BY <1>3, <1>5 DEF Forest

(* Walks that do not pass the department whose parent changes are the same. *)
LEMMA SameWalk ==
    ASSUME NEW old, NEW new, NEW d, NEW p, Moved(old, new, d, p), NEW x,
           NEW n \in 0 .. MaxDepth + 1, \A m \in 0 .. n - 1 : Above(new, x)[m] # d
    PROVE  \A m \in 0 .. n : Above(new, x)[m] = Above(old, x)[m]
<1> DEFINE T == {m \in 0 .. n : Above(new, x)[m] = Above(old, x)[m]}
<1>1. MaxDepth \in Nat /\ n \in Nat
  BY ConstantsAssumption
<1>2. 0 \in T
  BY <1>1, AboveWalks
<1>3. ASSUME NEW m \in 0 .. n - 1, m \in T PROVE m + 1 \in T
  <2>1. m \in 0 .. MaxDepth /\ m + 1 \in 0 .. n
    BY <1>1
  <2>2. /\ Above(new, x)[m + 1] = Up(new, Above(new, x)[m])
        /\ Above(old, x)[m + 1] = Up(old, Above(old, x)[m])
    BY <2>1, AboveWalks
  <2>3. Above(new, x)[m] = Above(old, x)[m] /\ Above(new, x)[m] # d
    BY <1>3
  <2>4. Up(new, Above(new, x)[m]) = Up(old, Above(new, x)[m])
    BY <2>3 DEF Up, Moved
  <2> QED BY <2>1, <2>2, <2>3, <2>4
<1> HIDE DEF T
<1>4. \A m \in 0 .. n : m \in T
  BY <1>1, <1>2, <1>3, UpTo
<1> QED BY <1>4 DEF T

(* At most as many departments as steps are met, and as many if none twice. *)
LEMMA CountMet ==
    ASSUME NEW f, NEW a \in Nat, NEW n \in Nat
    PROVE  /\ IsFiniteSet({f[m] : m \in a .. n}) /\ Cardinality({f[m] : m \in a .. n}) \in Nat
           /\ a <= n + 1 => Cardinality({f[m] : m \in a .. n}) <= (n + 1) - a
           /\ a = 0 /\ (\A i, j \in 0 .. n : i < j => f[i] # f[j])
                => Cardinality({f[m] : m \in a .. n}) = n + 1
<1> DEFINE I == a .. n
           met == {f[m] : m \in a .. n}
           g == [m \in I |-> f[m]]
<1>1. IsFiniteSet(I) /\ Cardinality(I) = (IF a > n THEN 0 ELSE n - a + 1)
  BY FS_Interval
<1>2. g \in Surjection(I, met)
  BY DEF Surjection
<1>3. a = 0 /\ (\A i, j \in 0 .. n : i < j => f[i] # f[j]) => g \in Injection(I, met)
  <2>1. SUFFICES ASSUME a = 0, \A i, j \in 0 .. n : i < j => f[i] # f[j]
                 PROVE  g \in Injection(I, met)
    OBVIOUS
  <2>2. ASSUME NEW i \in I, NEW j \in I, g[i] = g[j] PROVE i = j
    <3>1. i \in Int /\ j \in Int /\ i \in 0 .. n /\ j \in 0 .. n /\ f[i] = f[j]
      BY <2>1, <2>2
    <3>2. ~(i < j) /\ ~(j < i)
      BY <2>1, <3>1
    <3> QED BY <3>1, <3>2
  <2>3. g \in [I -> met]
    OBVIOUS
  <2> HIDE DEF g, met, I
  <2> QED BY <2>2, <2>3 DEF Injection, IsInjective
<1> HIDE DEF g, I
<1>4. IsFiniteSet(met) /\ Cardinality(met) <= Cardinality(I)
      /\ (Cardinality(met) = Cardinality(I) <=> g \in Injection(I, met))
  BY <1>1, <1>2, FS_Surjection
<1>5. Cardinality(met) \in Nat
  BY <1>4, FS_CardinalityType
<1>6. a <= n + 1 => Cardinality(I) = (n + 1) - a
  BY <1>1
<1> QED BY <1>3, <1>4, <1>5, <1>6

(* A department that Ancestors lists. *)
Listed(tree, d, n) ==
    /\ Above(tree, d)[n] \in Departments \ {d}
    /\ tree[Above(tree, d)[n]] # Missing
    /\ \A m \in 1 .. n - 1 : Above(tree, d)[m] # Above(tree, d)[n]

(* The ancestors are listed up to the first department that is not. *)
LEMMA Ancestors ==
    ASSUME NEW tree, NEW d
    PROVE  /\ AncestorCount(tree, d) \in 0 .. MaxDepth
           /\ \A m \in 1 .. AncestorCount(tree, d) : Listed(tree, d, m)
           /\ AncestorCount(tree, d) < MaxDepth => ~Listed(tree, d, AncestorCount(tree, d) + 1)
<1> DEFINE A == {n \in 1 .. MaxDepth : \A m \in 1 .. n : Listed(tree, d, m)}
           U == {n \in 1 .. MaxDepth : ~Listed(tree, d, n)}
<1>1. MaxDepth \in Nat
  BY ConstantsAssumption
<1>2. AncestorCount(tree, d) = Cardinality(A)
  BY DEF AncestorCount, Listed
<1>3. CASE U = {}
  <2>1. A = 1 .. MaxDepth
    BY <1>1, <1>3
  <2>2. Cardinality(A) = MaxDepth
    <3> HIDE DEF A
    <3> QED BY <1>1, <2>1, FS_Interval
  <2>3. \A m \in 1 .. MaxDepth : Listed(tree, d, m)
    BY <1>3
  <2> HIDE DEF A, U
  <2> QED BY <1>1, <1>2, <2>2, <2>3
<1>4. CASE U # {}
  <2>1. U \subseteq Nat
    BY <1>1
  <2>2. PICK k \in U : \A j \in U : k <= j
    <3> HIDE DEF U
    <3> QED BY ZenonT(30), <1>4, <2>1, Least
  <2>3. k \in 1 .. MaxDepth /\ ~Listed(tree, d, k) /\ \A m \in 1 .. k - 1 : Listed(tree, d, m)
    BY <2>2, <1>1
  <2> HIDE DEF U
  <2>4. A = 1 .. k - 1
    BY <2>3, <1>1
  <2> HIDE DEF A
  <2>5. Cardinality(A) = k - 1
    BY <2>3, <2>4, FS_Interval
  <2> QED BY <1>1, <1>2, <2>3, <2>5
<1> QED BY <1>3, <1>4

(* A level of the subtree that some department is at. *)
Inhabited(tree, d, n) ==
    \E x \in Departments \ {d} : /\ tree[x] # Missing
                                 /\ Above(tree, x)[n] = d
                                 /\ \A m \in 0 .. n - 1 : Above(tree, x)[m] # d

(* The height counts the levels. *)
LEMMA HeightCounts ==
    ASSUME NEW tree, NEW d, NEW n \in 0 .. MaxDepth - 1, \A m \in 1 .. n : Inhabited(tree, d, m)
    PROVE  Height(tree, d) \in Nat /\ Height(tree, d) >= n + 1
<1> DEFINE L == {m \in 0 .. MaxDepth - 1 : m = 0 \/ Inhabited(tree, d, m)}
<1>1. MaxDepth \in Nat \ {0}
  BY ConstantsAssumption
<1>2. Height(tree, d) = Cardinality(L)
  BY DEF Height, Inhabited
<1>3. L \in SUBSET (0 .. MaxDepth - 1) /\ 0 .. n \in SUBSET L
  BY <1>1
<1> HIDE DEF L
<1>4. IsFiniteSet(0 .. MaxDepth - 1)
  BY <1>1, FS_Interval
<1>5. IsFiniteSet(L)
  BY <1>3, <1>4, FS_Subset
<1>6. Cardinality(0 .. n) = n + 1
  BY <1>1, FS_Interval
<1>7. Cardinality(0 .. n) <= Cardinality(L) /\ Cardinality(L) \in Nat
  BY <1>3, <1>5, FS_Subset, FS_CardinalityType
<1> QED BY <1>2, <1>6, <1>7

(* A parent that does not lead back to the department closes no loop. *)
LEMMA ForestKept ==
    ASSUME NEW old \in Trees, NEW d \in Departments, NEW p \in Departments, Forest(old),
           NEW new, Moved(old, new, d, p),
           AncestorCount(new, d) < MaxDepth, ~InLoop(new, d)
    PROVE  Forest(new)
<1>1. MaxDepth \in Nat /\ Missing \notin Departments
  BY ConstantsAssumption
<1>2. new[d] = p /\ \A x \in Departments \ {d} : new[x] = old[x]
  BY DEF Moved
<1>3. SUFFICES ASSUME NEW S \in SUBSET Departments, S # {}, \A x \in S : new[x] \in S
               PROVE  FALSE
  BY DEF Forest
<1>4. d \in S
  <2>1. SUFFICES ASSUME d \notin S PROVE FALSE
    OBVIOUS
  <2>2. \A x \in S : old[x] \in S
    BY <1>2, <1>3, <2>1
  <2> QED BY <1>3, <2>2 DEF Forest
<1> DEFINE up == Above(new, d)
           c == AncestorCount(new, d)
<1>5. \A n \in 0 .. MaxDepth + 1 : up[n] \in S
  <2> DEFINE T == {n \in 0 .. MaxDepth + 1 : up[n] \in S}
  <2>1. 0 \in T
    BY <1>1, <1>4, AboveWalks
  <2>2. ASSUME NEW n \in 0 .. (MaxDepth + 1) - 1, n \in T PROVE n + 1 \in T
    <3>1. n \in 0 .. MaxDepth /\ n + 1 \in 0 .. MaxDepth + 1
      BY <1>1
    <3>2. up[n] \in S
      BY <2>2
    <3>3. up[n + 1] = new[up[n]]
      BY <3>1, <3>2, AboveStep
    <3> QED BY <1>3, <3>1, <3>2, <3>3
  <2> HIDE DEF T
  <2>3. \A n \in 0 .. MaxDepth + 1 : n \in T
    BY <1>1, <2>1, <2>2, UpTo
  <2> QED BY <2>3 DEF T
<1>6. /\ c \in 0 .. MaxDepth /\ c < MaxDepth
      /\ \A m \in 1 .. c : Listed(new, d, m)
      /\ ~Listed(new, d, c + 1)
  BY Ancestors
<1> HIDE DEF c
<1>7. up[c + 1] \in Departments /\ new[up[c + 1]] # Missing
  <2>1. c + 1 \in 0 .. MaxDepth + 1
    BY <1>1, <1>6
  <2> QED BY <1>1, <1>3, <1>5, <2>1
<1>8. up[c + 1] # d
  BY <1>6 DEF InLoop, c
<1>9. PICK m \in 1 .. (c + 1) - 1 : up[m] = up[c + 1]
  BY <1>6, <1>7, <1>8 DEF Listed
<1> DEFINE R == {up[i] : i \in m .. c}
<1>10. m \in 1 .. c
  BY <1>6, <1>9
<1>11. ASSUME NEW i \in m .. c PROVE up[i] \in Departments \ {d} /\ old[up[i]] \in R
  <2>1. i \in 1 .. c /\ i \in 0 .. MaxDepth /\ i + 1 \in m .. c + 1
    BY <1>1, <1>6, <1>10
  <2>a. Listed(new, d, i)
    BY <1>6, <2>1
  <2>2. up[i] \in Departments \ {d}
    BY <2>a DEF Listed
  <2>b. new[up[i]] = up[i + 1]
    BY <2>1, <2>2, AboveStep
  <2>3. old[up[i]] = up[i + 1]
    BY <1>2, <2>2, <2>b
  <2>4. CASE i + 1 = c + 1
    <3>1. up[m] \in R
      <4>1. m \in m .. c
        BY <1>6, <1>10
      <4> QED BY <4>1
    <3>2. up[i + 1] = up[m]
      BY <1>9, <2>4
    <3> QED BY <2>2, <2>3, <3>1, <3>2
  <2>5. CASE i + 1 # c + 1
    <3>1. i + 1 \in m .. c
      BY <1>6, <1>10, <2>1, <2>5
    <3> QED BY <2>2, <2>3, <3>1
  <2> QED BY <2>4, <2>5
<1>12. R \in SUBSET Departments /\ R # {} /\ \A x \in R : old[x] \in R
  <2>1. m \in m .. c
    BY <1>6, <1>10
  <2> QED BY <1>11, <2>1
<1> HIDE DEF R
<1> QED BY <1>12 DEF Forest

(* A line is part of every set that no parent leads out of. *)
LEMMA LineWithin ==
    ASSUME NEW tree, NEW x, NEW S \in SUBSET Departments, x \in S, Closed(tree, S)
    PROVE  /\ Line(tree, x) \subseteq S
           /\ IsFiniteSet(S) /\ IsFiniteSet(Line(tree, x))
           /\ Cardinality(Line(tree, x)) \in Nat /\ Cardinality(S) \in Nat
           /\ Cardinality(Line(tree, x)) <= Cardinality(S)
<1>1. Line(tree, x) \subseteq S
  BY DEF Line
<1>2. IsFiniteSet(S)
  BY ConstantsAssumption, FS_Subset
<1> QED BY <1>1, <1>2, FS_Subset, FS_CardinalityType

(* A line is itself such a set. *)
LEMMA LineClosed ==
    ASSUME NEW tree, NEW x \in Departments
    PROVE  /\ Line(tree, x) \in SUBSET Departments /\ x \in Line(tree, x)
           /\ Closed(tree, Line(tree, x))
<1>1. Line(tree, x) \in SUBSET Departments /\ x \in Line(tree, x)
  BY DEF Line
<1>2. ASSUME NEW y \in Line(tree, x), tree[y] \in Departments, tree[tree[y]] # Missing
      PROVE  tree[y] \in Line(tree, x)
  BY <1>2 DEF Line, Closed
<1> QED BY <1>1, <1>2 DEF Closed

(* The line of a department n steps below another is no longer than those  *)
(* steps and the ancestors of the other.                                   *)
LEMMA LineBound ==
    ASSUME NEW tree \in Trees, NEW x \in Departments, NEW d \in Departments,
           NEW n \in 0 .. MaxDepth - 1, Above(tree, x)[n] = d, AncestorCount(tree, d) < MaxDepth
    PROVE  /\ Cardinality(Line(tree, x)) \in Nat
           /\ Cardinality(Line(tree, x)) <= n + 1 + AncestorCount(tree, d)
<1>1. MaxDepth \in Nat /\ n \in Nat
  BY ConstantsAssumption
<1> DEFINE up == Above(tree, x)
           top == Above(tree, d)
           c == AncestorCount(tree, d)
           A == {up[m] : m \in 0 .. n}
           B == {top[m] : m \in 1 .. c}
           C == (A \cup B) \cap Departments
<1>2. c \in Nat /\ c < MaxDepth /\ (\A m \in 1 .. c : Listed(tree, d, m)) /\ ~Listed(tree, d, c + 1)
  BY <1>1, Ancestors
<1> HIDE DEF c
<1>3. x \in A /\ d \in A
  BY <1>1, AboveWalks
<1>4. ASSUME NEW m \in 0 .. n, up[m] \in Departments, tree[up[m]] \in Departments,
             tree[tree[up[m]]] # Missing
      PROVE  tree[up[m]] \in A \cup B
  <2>1. m \in 0 .. MaxDepth
    BY <1>1
  <2>2. up[m + 1] = tree[up[m]]
    BY <1>4, <2>1, AboveStep
  <2>3. CASE m # n
    <3>1. m + 1 \in 0 .. n
      BY <1>1, <2>3
    <3> QED BY <2>2, <3>1
  <2>4. CASE m = n
    <3>1. 0 \in 0 .. MaxDepth /\ top[0] = d
      BY <1>1, AboveWalks
    <3>2. top[0 + 1] = tree[d]
      BY <3>1, AboveStep
    <3>3. top[1] = tree[up[m]]
      BY <2>4, <3>2
    <3>4. CASE c = 0
      <4>1. c + 1 = 1 /\ ~Listed(tree, d, 1)
        BY <1>2, <3>4
      <4>2. top[1] = d
        BY <1>4, <3>3, <4>1 DEF Listed
      <4> QED BY <1>3, <3>3, <4>2
    <3>5. CASE c # 0
      <4>1. 1 \in 1 .. c
        BY <1>2, <3>5
      <4> QED BY <3>3, <4>1
    <3> QED BY <3>4, <3>5
  <2> QED BY <2>3, <2>4
<1>5. ASSUME NEW m \in 1 .. c, tree[top[m]] \in Departments, tree[tree[top[m]]] # Missing
      PROVE  tree[top[m]] \in A \cup B
  <2>1. m \in 0 .. MaxDepth /\ top[m] \in Departments
    BY <1>1, <1>2 DEF Listed
  <2>2. top[m + 1] = tree[top[m]]
    BY <2>1, AboveStep
  <2>3. CASE m # c
    <3>1. m + 1 \in 1 .. c
      BY <1>2, <2>3
    <3> QED BY <2>2, <3>1
  <2>4. CASE m = c
    <3>1. top[c + 1] = d \/ \E i \in 1 .. (c + 1) - 1 : top[i] = top[c + 1]
      BY <1>2, <1>5, <2>2, <2>4 DEF Listed
    <3>2. (c + 1) - 1 = c
      BY <1>2
    <3> QED BY <1>3, <2>2, <2>4, <3>1, <3>2
  <2> QED BY <2>3, <2>4
<1>6. C \in SUBSET Departments /\ x \in C /\ Closed(tree, C)
  <2>1. ASSUME NEW y \in C, tree[y] \in Departments, tree[tree[y]] # Missing
        PROVE  tree[y] \in C
    <3>1. CASE \E m \in 0 .. n : y = up[m]
      BY <1>4, <2>1, <3>1
    <3>2. CASE \E m \in 1 .. c : y = top[m]
      BY <1>5, <2>1, <3>2
    <3> QED BY <3>1, <3>2
  <2>2. x \in C
    BY <1>3
  <2> HIDE DEF C
  <2>3. Closed(tree, C)
    BY <2>1 DEF Closed
  <2> QED BY <2>2, <2>3 DEF C
<1>7. IsFiniteSet(A) /\ Cardinality(A) \in Nat /\ Cardinality(A) <= n + 1
  <2>1. 0 \in Nat /\ 0 <= n + 1 /\ (n + 1) - 0 = n + 1
    BY <1>1
  <2> HIDE DEF up
  <2>2. /\ IsFiniteSet(A) /\ Cardinality(A) \in Nat
        /\ 0 <= n + 1 => Cardinality(A) <= (n + 1) - 0
    BY ZenonT(30), <1>1, <2>1, CountMet
  <2> QED BY <2>1, <2>2
<1>8. IsFiniteSet(B) /\ Cardinality(B) \in Nat /\ Cardinality(B) <= c
  <2>1. 1 \in Nat /\ 1 <= c + 1 /\ (c + 1) - 1 = c
    BY <1>2
  <2> HIDE DEF top
  <2>2. /\ IsFiniteSet(B) /\ Cardinality(B) \in Nat
        /\ 1 <= c + 1 => Cardinality(B) <= (c + 1) - 1
    BY <1>2, <2>1, CountMet
  <2> QED BY <2>1, <2>2
<1> HIDE DEF A, B
<1>9. IsFiniteSet(A \cup B) /\ Cardinality(A \cup B) <= Cardinality(A) + Cardinality(B)
  <2>1. IsFiniteSet(A \cap B)
    BY <1>7, FS_Intersection
  <2>2. Cardinality(A \cap B) \in Nat
    BY <2>1, FS_CardinalityType
  <2>3. IsFiniteSet(A \cup B)
        /\ Cardinality(A \cup B) = Cardinality(A) + Cardinality(B) - Cardinality(A \cap B)
    BY <1>7, <1>8, FS_Union
  <2> QED BY <1>7, <1>8, <2>2, <2>3
<1>10. Cardinality(C) <= Cardinality(A \cup B) /\ Cardinality(A \cup B) \in Nat
  <2>1. C \in SUBSET (A \cup B)
    OBVIOUS
  <2> HIDE DEF C
  <2> QED BY <1>9, <2>1, FS_Subset, FS_CardinalityType
<1> HIDE DEF C
<1>11. /\ Cardinality(Line(tree, x)) \in Nat /\ Cardinality(C) \in Nat
       /\ Cardinality(Line(tree, x)) <= Cardinality(C)
  BY <1>6, LineWithin
<1> QED BY <1>1, <1>2, <1>7, <1>8, <1>9, <1>10, <1>11 DEF c

(* The walk up to a department of the line meets departments only. *)
LEMMA Reaches ==
    ASSUME NEW tree \in Trees, NEW x \in Departments, NEW d \in Line(tree, x),
           NEW k \in 0 .. MaxDepth, \A m \in 0 .. k : Above(tree, x)[m] # d
    PROVE  \A m \in 0 .. k + 1 : /\ Above(tree, x)[m] \in Departments
                                 /\ tree[Above(tree, x)[m]] # Missing
<1> DEFINE up == Above(tree, x)
           T == {m \in 0 .. k + 1 : ~(up[m] \in Departments /\ tree[up[m]] # Missing)}
<1>1. MaxDepth \in Nat /\ k \in Nat /\ Missing \notin Departments
  BY ConstantsAssumption
<1>2. up[0] = x
  BY <1>1, AboveWalks
<1> HIDE DEF up
<1>3. SUFFICES ASSUME T # {} PROVE FALSE
  BY DEF up
<1>4. PICK m \in T : \A i \in T : m <= i
  <2>1. T \subseteq Nat
    BY <1>1
  <2> HIDE DEF T
  <2> QED BY <1>3, <2>1, Least
<1>5. m \in 0 .. k + 1 /\ ~(up[m] \in Departments /\ tree[up[m]] # Missing)
  BY <1>4
<1>6. \A i \in 0 .. m - 1 : i \in 0 .. k /\ up[i] \in Departments
  BY <1>1, <1>4, <1>5
<1>a. \A i \in 0 .. k : up[i] # d
  BY DEF up
<1> HIDE DEF T
<1>7. CASE m = 0
  <2>1. tree[x] = Missing
    BY <1>2, <1>5, <1>7
  <2>2. {x} \in SUBSET Departments /\ x \in {x} /\ Closed(tree, {x})
    BY <1>1, <2>1 DEF Closed
  <2>3. d \in {x}
    BY <2>2 DEF Line
  <2> QED BY <1>1, <1>2, <1>a, <2>3
<1>8. CASE m # 0
  <2> DEFINE S == {up[i] : i \in 0 .. m - 1}
  <2>1. x \in S
    <3>1. 0 \in 0 .. m - 1
      BY <1>1, <1>5, <1>8
    <3> QED BY <1>2, <3>1
  <2>2. S \in SUBSET Departments
    BY <1>6
  <2>3. ASSUME NEW i \in 0 .. m - 1, tree[up[i]] \in Departments, tree[tree[up[i]]] # Missing
        PROVE  tree[up[i]] \in S
    <3>1. i \in 0 .. MaxDepth /\ up[i] \in Departments
      BY <1>1, <1>6
    <3>2. up[i + 1] = tree[up[i]]
      BY <3>1, AboveStep DEF up
    <3>3. i + 1 # m
      BY <1>5, <2>3, <3>2
    <3>4. i + 1 \in 0 .. m - 1
      BY <1>1, <1>5, <3>3
    <3> QED BY <3>2, <3>4
  <2>4. Closed(tree, S)
    BY <2>3 DEF Closed
  <2>5. d \notin S
    BY <1>6, <1>a
  <2> HIDE DEF S
  <2> QED BY <2>1, <2>2, <2>4, <2>5 DEF Line
<1> QED BY <1>7, <1>8

(* A department without a parent is the whole of its line. *)
LEMMA LineAlone ==
    ASSUME NEW tree, NEW x \in Departments, tree[x] \notin Departments
    PROVE  Cardinality(Line(tree, x)) <= MaxDepth
<1>1. {x} \in SUBSET Departments /\ x \in {x} /\ Closed(tree, {x})
  BY DEF Closed
<1>2. Cardinality({x}) = 1
  BY FS_Singleton
<1>3. Cardinality(Line(tree, x)) \in Nat /\ Cardinality(Line(tree, x)) <= Cardinality({x})
  BY <1>1, LineWithin
<1> QED BY <1>2, <1>3, ConstantsAssumption

(* A tree has no more parents than another. *)
Fewer(old, new) ==
    \A x \in Departments :
        new[x] \in Departments /\ new[new[x]] # Missing => new[x] = old[x] /\ old[old[x]] # Missing

(* Taking parents away makes no loop and lengthens no line. *)
LEMMA FewerKept ==
    ASSUME NEW old, NEW new, Fewer(old, new), Forest(old), Shallow(old)
    PROVE  Forest(new) /\ Shallow(new)
<1>1. Missing \notin Departments /\ MaxDepth \in Nat
  BY ConstantsAssumption
<1>2. ASSUME NEW S \in SUBSET Departments, S # {}, \A x \in S : new[x] \in S PROVE FALSE
  <2>1. \A x \in S : old[x] \in S
    BY <1>1, <1>2 DEF Fewer
  <2> QED BY <1>2, <2>1 DEF Forest
<1>3. ASSUME NEW x \in Departments PROVE Cardinality(Line(new, x)) <= MaxDepth
  <2>1. Line(old, x) \in SUBSET Departments /\ x \in Line(old, x) /\ Closed(old, Line(old, x))
    BY LineClosed
  <2>2. Closed(new, Line(old, x))
    BY <2>1 DEF Closed, Fewer
  <2>3. /\ Cardinality(Line(new, x)) \in Nat /\ Cardinality(Line(old, x)) \in Nat
        /\ Cardinality(Line(new, x)) <= Cardinality(Line(old, x))
    BY <2>1, <2>2, LineWithin
  <2>4. Cardinality(Line(old, x)) <= MaxDepth
    BY DEF Shallow
  <2> QED BY <1>1, <2>3, <2>4
<1> QED BY <1>2, <1>3 DEF Forest, Shallow

(* A line that a move does not touch is no longer than before. *)
LEMMA UntouchedLine ==
    ASSUME NEW old, NEW new, NEW d \in Departments, NEW p, Moved(old, new, d, p), Shallow(old),
           NEW x \in Departments, d \notin Line(new, x)
    PROVE  Cardinality(Line(new, x)) <= MaxDepth
<1> DEFINE S == Line(old, x) \cap Line(new, x)
<1>1. Line(old, x) \in SUBSET Departments /\ x \in Line(old, x) /\ Closed(old, Line(old, x))
  BY LineClosed
<1>2. Line(new, x) \in SUBSET Departments /\ x \in Line(new, x) /\ Closed(new, Line(new, x))
  BY LineClosed
<1>3. ASSUME NEW y \in S, new[y] \in Departments, new[new[y]] # Missing PROVE new[y] \in S
  <2>1. new[y] \in Line(new, x)
    BY <1>2, <1>3 DEF Closed
  <2>2. new[y] = old[y] /\ new[new[y]] = old[new[y]]
    BY <1>2, <1>3, <2>1 DEF Moved
  <2>3. new[y] \in Line(old, x)
    BY <1>1, <1>3, <2>2 DEF Closed
  <2> QED BY <2>1, <2>3
<1>4. S \in SUBSET Departments /\ x \in S
  BY <1>1, <1>2
<1>5. S \in SUBSET Line(old, x)
  OBVIOUS
<1> HIDE DEF S
<1>6. Closed(new, S)
  BY <1>3 DEF Closed
<1>7. /\ Cardinality(Line(new, x)) \in Nat /\ Cardinality(S) \in Nat
      /\ Cardinality(Line(new, x)) <= Cardinality(S)
  BY <1>4, <1>6, LineWithin
<1>8. IsFiniteSet(Line(old, x)) /\ Cardinality(Line(old, x)) \in Nat
  BY <1>1, LineWithin
<1>9. Cardinality(S) <= Cardinality(Line(old, x))
  BY <1>5, <1>8, FS_Subset
<1>10. Cardinality(Line(old, x)) <= MaxDepth /\ MaxDepth \in Nat
  BY ConstantsAssumption DEF Shallow
<1> QED BY <1>7, <1>8, <1>9, <1>10

(* A line that meets the department within the depth is counted by the     *)
(* levels below the department and the ancestors above it.                 *)
LEMMA NearLine ==
    ASSUME NEW tree \in Trees, NEW x \in Departments, NEW d \in Departments, d \in Line(tree, x),
           NEW k \in 0 .. MaxDepth - 1, Above(tree, x)[k] = d,
           AncestorCount(tree, d) + Height(tree, d) <= MaxDepth
    PROVE  Cardinality(Line(tree, x)) <= MaxDepth
<1> DEFINE up == Above(tree, x)
           T == {m \in 0 .. MaxDepth - 1 : up[m] = d}
<1>1. MaxDepth \in Nat /\ MaxDepth - 1 \in Nat
  BY ConstantsAssumption
<1>2. PICK n \in T : \A i \in T : n <= i
  <2>1. T \subseteq Nat /\ T # {}
    BY <1>1
  <2> HIDE DEF T
  <2> QED BY <2>1, Least
<1>3. n \in 0 .. MaxDepth - 1 /\ up[n] = d /\ \A i \in 0 .. n - 1 : up[i] # d
  BY <1>1, <1>2
<1> HIDE DEF T, up
<1>4. \A i \in 0 .. n - 1 : up[i] \in Departments /\ tree[up[i]] # Missing
  <2>1. CASE n = 0
    BY <2>1
  <2>2. CASE n # 0
    <3>1. n - 1 \in 0 .. MaxDepth
      BY <1>1, <1>3, <2>2
    <3>2. \A i \in 0 .. (n - 1) + 1 : up[i] \in Departments /\ tree[up[i]] # Missing
      BY <1>3, <3>1, Reaches DEF up
    <3>3. \A i \in 0 .. n - 1 : i \in 0 .. (n - 1) + 1
      BY <1>3, <2>2
    <3> QED BY <3>2, <3>3
  <2> QED BY <2>1, <2>2
<1>5. ASSUME NEW j \in 1 .. n PROVE Inhabited(tree, d, j)
  <2>1. n - j \in 0 .. n - 1 /\ j \in Nat /\ n - j \in Nat /\ (n - j) + j = n
    BY <1>1, <1>3
  <2> DEFINE y == up[n - j]
  <2>2. y \in Departments \ {d} /\ tree[y] # Missing
    BY <1>3, <1>4, <2>1
  <2>3. ASSUME NEW m \in 0 .. j PROVE Above(tree, y)[m] = up[(n - j) + m]
    <3>1. m \in Nat /\ (n - j) + m <= MaxDepth + 1
      BY <1>1, <1>3, <2>1
    <3> QED BY <2>1, <3>1, AboveAbove DEF up
  <2> HIDE DEF y
  <2>4. Above(tree, y)[j] = d
    <3>1. j \in 0 .. j
      BY <2>1
    <3> QED BY <1>3, <2>1, <2>3, <3>1
  <2>5. ASSUME NEW m \in 0 .. j - 1 PROVE Above(tree, y)[m] # d
    <3>1. m \in 0 .. j /\ (n - j) + m \in 0 .. n - 1
      BY <1>3, <2>1
    <3> QED BY <1>3, <2>3, <3>1
  <2> QED BY <2>2, <2>4, <2>5 DEF Inhabited
<1>6. Height(tree, d) \in Nat /\ Height(tree, d) >= n + 1
  BY <1>3, <1>5, HeightCounts
<1>7. AncestorCount(tree, d) \in Nat
  BY <1>1, Ancestors
<1>8. AncestorCount(tree, d) < MaxDepth
  BY <1>1, <1>3, <1>6, <1>7
<1>9. /\ Cardinality(Line(tree, x)) \in Nat
      /\ Cardinality(Line(tree, x)) <= n + 1 + AncestorCount(tree, d)
  BY <1>3, <1>8, LineBound DEF up
<1> QED BY <1>1, <1>3, <1>6, <1>7, <1>9

(* No line meets the moved department only beyond the depth: the part of   *)
(* it below the department was there before the move.                      *)
LEMMA FarLine ==
    ASSUME NEW old \in Trees, NEW new \in Trees, NEW d \in Departments, NEW p,
           Moved(old, new, d, p), Forest(old), Shallow(old),
           old[d] # Missing \/ \A y \in Departments : old[y] # d,
           NEW x \in Departments, d \in Line(new, x)
    PROVE  \E n \in 0 .. MaxDepth - 1 : Above(new, x)[n] = d
<1> DEFINE up == Above(new, x)
           was == Above(old, x)
<1>1. MaxDepth \in Nat /\ MaxDepth - 1 \in 0 .. MaxDepth /\ (MaxDepth - 1) + 1 = MaxDepth
  BY ConstantsAssumption
<1>2. SUFFICES ASSUME \A n \in 0 .. MaxDepth - 1 : up[n] # d PROVE FALSE
  OBVIOUS
<1> HIDE DEF up, was
<1>3. \A m \in 0 .. MaxDepth : up[m] \in Departments /\ new[up[m]] # Missing
  <2>1. \A m \in 0 .. (MaxDepth - 1) + 1 : up[m] \in Departments /\ new[up[m]] # Missing
    BY <1>1, <1>2, Reaches DEF up
  <2> QED BY <1>1, <2>1
<1>4. \A m \in 0 .. MaxDepth : up[m] = was[m]
  <2>1. MaxDepth \in 0 .. MaxDepth + 1
    BY <1>1
  <2> QED BY <1>2, <2>1, SameWalk DEF up, was
<1>5. ASSUME NEW m \in 1 .. MaxDepth PROVE was[m] \in Departments /\ old[was[m]] # Missing
  <2>1. /\ m \in 0 .. MaxDepth /\ (m - 1) + 1 = m
        /\ m - 1 \in 0 .. MaxDepth - 1 /\ m - 1 \in 0 .. MaxDepth
    BY <1>1
  <2>2. CASE up[m] # d
    BY <1>3, <1>4, <2>1, <2>2 DEF Moved
  <2>3. CASE up[m] = d
    <3>1. up[m - 1] \in Departments \ {d}
      BY <1>2, <1>3, <2>1
    <3>2. up[(m - 1) + 1] = new[up[m - 1]]
      BY <2>1, <3>1, AboveStep DEF up
    <3>3. old[up[m - 1]] = d
      BY <2>1, <2>3, <3>1, <3>2 DEF Moved
    <3>4. old[d] # Missing
      BY <3>1, <3>3
    <3> QED BY <1>4, <2>1, <2>3, <3>4
  <2> QED BY <2>2, <2>3
<1>6. was[0] = x
  BY <1>1, AboveWalks DEF was
<1>7. \A m \in 0 .. MaxDepth : was[m] \in Departments
  BY <1>3, <1>4
<1>8. Line(old, x) \in SUBSET Departments /\ x \in Line(old, x) /\ Closed(old, Line(old, x))
  BY LineClosed
<1>9. MaxDepth \in 0 .. MaxDepth + 1
  BY <1>1
<1>10. \A m \in 0 .. MaxDepth : was[m] \in Line(old, x)
  BY <1>5, <1>8, <1>9, AboveClosed DEF was
<1>11. \A i, j \in 0 .. MaxDepth : i < j => was[i] # was[j]
  BY <1>7, <1>9, NoneTwice DEF was
<1> DEFINE M == {was[m] : m \in 0 .. MaxDepth}
<1>12. Cardinality(M) = MaxDepth + 1
  BY <1>1, <1>11, CountMet
<1>13. M \in SUBSET Line(old, x)
  BY <1>10
<1> HIDE DEF M
<1>14. IsFiniteSet(Line(old, x)) /\ Cardinality(Line(old, x)) \in Nat
  BY ZenonT(30), <1>8, LineWithin
<1>15. Cardinality(M) <= Cardinality(Line(old, x))
  BY <1>13, <1>14, FS_Subset
<1>16. Cardinality(Line(old, x)) <= MaxDepth
  BY DEF Shallow
<1> QED BY <1>1, <1>12, <1>14, <1>15, <1>16

(* The check of a new parent keeps the tree a forest within the depth. *)
LEMMA MoveKept ==
    ASSUME NEW old \in Trees, NEW new \in Trees, NEW d \in Departments, NEW p \in Departments,
           Moved(old, new, d, p), Forest(old), Shallow(old),
           old[d] # Missing \/ \A y \in Departments : old[y] # d,
           ~InLoop(new, d), AncestorCount(new, d) + Height(new, d) <= MaxDepth
    PROVE  Forest(new) /\ Shallow(new)
<1>1. MaxDepth \in Nat /\ 0 \in 0 .. MaxDepth - 1
  BY ConstantsAssumption
<1>2. Height(new, d) \in Nat /\ Height(new, d) >= 0 + 1
  <2>1. \A m \in 1 .. 0 : Inhabited(new, d, m)
    OBVIOUS
  <2> QED BY <1>1, <2>1, HeightCounts
<1>3. AncestorCount(new, d) \in Nat
  BY <1>1, Ancestors
<1>4. AncestorCount(new, d) < MaxDepth
  BY <1>1, <1>2, <1>3
<1>5. Forest(new)
  BY <1>4, ForestKept
<1>6. ASSUME NEW x \in Departments PROVE Cardinality(Line(new, x)) <= MaxDepth
  <2>1. CASE d \notin Line(new, x)
    BY <2>1, UntouchedLine
  <2>2. CASE d \in Line(new, x)
    <3>1. PICK n \in 0 .. MaxDepth - 1 : Above(new, x)[n] = d
      BY <2>2, FarLine
    <3> QED BY ZenonT(30), <2>2, <3>1, NearLine
  <2> QED BY <2>1, <2>2
<1> QED BY <1>5, <1>6 DEF Shallow

-----------------------------------------------------------------------------
(* The departments as the tree of the webhook *)

(* The departments are a tree exactly when the webhook's tree of them is:  *)
(* the line of a department that exists holds only departments that do.    *)
LEMMA TreeOf ==
    TypeOK => /\ NewTree(depts) \in Trees
              /\ DepartmentTree <=> Forest(NewTree(depts)) /\ Shallow(NewTree(depts))
<1> SUFFICES ASSUME TypeOK
             PROVE  /\ NewTree(depts) \in Trees
                    /\ DepartmentTree <=> Forest(NewTree(depts)) /\ Shallow(NewTree(depts))
  OBVIOUS
<1> DEFINE tree == NewTree(depts)
<1>1. Missing \notin Departments \cup {NoDept} /\ NoDept \notin Departments
  BY ConstantsAssumption
<1>2. \A x \in Departments : depts[x].parent \in Departments \cup {NoDept}
  BY DEF TypeOK, Department
<1>3. tree \in Trees
  BY <1>2 DEF NewTree, Trees
<1>4. \A x \in Departments : /\ Exists(depts[x]) => tree[x] = depts[x].parent /\ tree[x] # Missing
                             /\ ~Exists(depts[x]) => tree[x] = Missing
  BY <1>1, <1>2 DEF NewTree
<1> HIDE DEF tree
<1>5. DepartmentForest <=> Forest(tree)
  <2>1. ASSUME NEW S \in SUBSET Departments, NEW x \in S
        PROVE  tree[x] \notin S <=> ~Exists(depts[x]) \/ depts[x].parent \notin S
    BY <1>1, <1>4
  <2> QED BY <2>1 DEF DepartmentForest, Forest
<1>6. ASSUME NEW x \in Departments, Exists(depts[x]) PROVE Lineage(x) = Line(tree, x)
  <2> DEFINE Upward(S) ==
               \A y \in S : depts[y].parent \in Departments /\ Exists(depts[depts[y].parent])
                             => depts[y].parent \in S
             E == {y \in Departments : Exists(depts[y])}
  <2>1. ASSUME NEW S \in SUBSET Departments, Upward(S) PROVE Closed(tree, S)
    BY <1>1, <1>4, <2>1 DEF Closed
  <2>2. Line(tree, x) \in SUBSET Departments /\ x \in Line(tree, x) /\ Closed(tree, Line(tree, x))
    BY LineClosed
  <2>3. Line(tree, x) \subseteq E
    <3>1. E \in SUBSET Departments /\ x \in E /\ Closed(tree, E)
      BY <1>4, <1>6 DEF Closed
    <3> HIDE DEF E
    <3> QED BY <3>1, LineWithin
  <2>4. Upward(Line(tree, x))
    BY <1>4, <2>2, <2>3 DEF Closed
  <2>5. Lineage(x) = {e \in Departments :
                        \A S \in SUBSET Departments : x \in S /\ Upward(S) => e \in S}
    BY DEF Lineage
  <2> HIDE DEF Upward
  <2>6. Lineage(x) \subseteq Line(tree, x)
    BY <2>2, <2>4, <2>5
  <2>7. Line(tree, x) \subseteq Lineage(x)
    BY <2>1, <2>5 DEF Line
  <2> QED BY <2>6, <2>7
<1>7. (\A x \in Departments : Exists(depts[x]) => Cardinality(Lineage(x)) <= MaxDepth)
        <=> Shallow(tree)
  <2>1. ASSUME NEW x \in Departments, ~Exists(depts[x]) PROVE Cardinality(Line(tree, x)) <= MaxDepth
    BY <1>1, <1>4, <2>1, LineAlone
  <2> QED BY <1>6, <2>1 DEF Shallow
<1> QED BY <1>3, <1>5, <1>7 DEF DepartmentTree, tree

(* The same after a step. *)
LEMMA TreeOfNext ==
    TypeOK' => /\ NewTree(depts') \in Trees
               /\ DepartmentTree' <=> Forest(NewTree(depts')) /\ Shallow(NewTree(depts'))
<1>1. (TypeOK => /\ NewTree(depts) \in Trees
                 /\ DepartmentTree <=> Forest(NewTree(depts)) /\ Shallow(NewTree(depts)))'
  BY TreeOf, PTL
<1> QED BY <1>1

(* A department has been given a parent that the webhook admits. *)
Reparented(d, p) ==
    /\ depts[d].st = "New" \/ Exists(depts[d])
    /\ Admitted(d, p)
    /\ Exists(depts'[d]) /\ depts'[d].parent = p
    /\ \A x \in Departments \ {d} : depts'[x] = depts[x]
    /\ UNCHANGED deptCache

(* No parent has changed, no department has come, the cache has caught up. *)
ParentsStay ==
    /\ \A x \in Departments : /\ depts'[x].parent = depts[x].parent
                              /\ depts'[x].st = "New" <=> depts[x].st = "New"
                              /\ Exists(depts'[x]) => Exists(depts[x])
    /\ \A x \in Departments : deptCache'[x] = deptCache[x] \/ deptCache'[x] = depts[x]

(* Only creating a department and changing its parent touch the parents. *)
LEMMA DepartmentSteps ==
    ASSUME TypeOK, [Next]_vars
    PROVE  \/ ParentsStay
           \/ \E d \in Departments, p \in Departments \cup {NoDept} : Reparented(d, p)
<1> DEFINE Goal == \/ ParentsStay
                   \/ \E d \in Departments, p \in Departments \cup {NoDept} : Reparented(d, p)
<1>1. UNCHANGED <<depts, deptCache>> => ParentsStay
  BY DEF ParentsStay
<1>2. depts \in [Departments -> Department] /\ deptCache \in [Departments -> Department]
  BY DEF TypeOK
<1>3. ASSUME NEW d \in Departments, CreateDepartment(d) PROVE Goal
  <2>1. PICK p \in Departments \cup {NoDept}, quota \in Quotas :
           /\ Admitted(d, p)
           /\ depts' = [depts EXCEPT ![d] = [st |-> "Active", parent |-> p, wants |-> TRUE,
                                             quota |-> quota, finalizer |-> FALSE]]
    BY ZenonT(30), <1>3 DEF CreateDepartment
  <2>2. depts[d].st = "New" /\ UNCHANGED deptCache
    BY ZenonT(30), <1>3 DEF CreateDepartment, controllerVars
  <2>3. /\ Exists(depts'[d]) /\ depts'[d].parent = p
        /\ \A x \in Departments \ {d} : depts'[x] = depts[x]
    BY <1>2, <2>1 DEF Exists
  <2>4. Reparented(d, p)
    BY ZenonT(30), <2>1, <2>2, <2>3 DEF Reparented
  <2> QED BY ZenonT(30), <2>4
<1>4. ASSUME NEW d \in Departments, SetParent(d) PROVE Goal
  <2>1. PICK p \in Departments \cup {NoDept} :
           Admitted(d, p) /\ depts' = [depts EXCEPT ![d].parent = p]
    BY ZenonT(30), <1>4 DEF SetParent
  <2>2. Exists(depts[d]) /\ UNCHANGED deptCache
    BY ZenonT(30), <1>4 DEF SetParent, controllerVars
  <2>3. /\ Exists(depts'[d]) /\ depts'[d].parent = p
        /\ \A x \in Departments \ {d} : depts'[x] = depts[x]
    BY <1>2, <2>1, <2>2 DEF Exists, Department
  <2>4. Reparented(d, p)
    BY ZenonT(30), <2>1, <2>2, <2>3 DEF Reparented
  <2> QED BY ZenonT(30), <2>4
<1>5. ASSUME NEW d \in Departments, SetQueue(d) PROVE ParentsStay
  <2>1. PICK wants \in BOOLEAN, quota \in Quotas :
           depts' = [depts EXCEPT ![d] = [depts[d] EXCEPT !.wants = wants, !.quota = quota]]
    BY ZenonT(30), <1>5 DEF SetQueue
  <2>2. UNCHANGED deptCache
    BY ZenonT(30), <1>5 DEF SetQueue, controllerVars
  <2>3. \A x \in Departments : depts'[x].parent = depts[x].parent /\ depts'[x].st = depts[x].st
    BY <1>2, <2>1 DEF Department
  <2> QED BY <2>2, <2>3 DEF ParentsStay, Exists
<1>6. ASSUME NEW d \in Departments, DeleteDepartment(d) PROVE ParentsStay
  <2>1. UNCHANGED deptCache
    BY <1>6 DEF DeleteDepartment, controllerVars
  <2> QED BY <1>2, <1>6, <2>1 DEF DeleteDepartment, Department, ParentsStay, Exists
<1>7. ASSUME NEW d \in Departments, SetProject(d) PROVE ParentsStay
  BY <1>1, <1>7 DEF SetProject, controllerVars
<1>8. ASSUME NEW q \in Queues, DeleteQueue(q) \/ CollectQueue(q) PROVE ParentsStay
  BY ZenonT(30), <1>1, <1>8 DEF DeleteQueue, CollectQueue, RemoveQueue, controllerVars
<1>9. ASSUME NEW q \in Queues, SyncQueue(q) PROVE ParentsStay
  BY <1>1, <1>9 DEF SyncQueue
<1>10. ASSUME NEW d \in Departments, SyncDepartment(d) PROVE ParentsStay
  BY <1>2, <1>10 DEF SyncDepartment, ParentsStay
<1>11. ASSUME NEW d \in Departments, Reconcile(d) PROVE ParentsStay
  <2>1. UNCHANGED deptCache
    BY <1>11 DEF Reconcile, SkipMissing, Finalize, StartHandle, objectsUnchanged
  <2>2. CASE SkipMissing(d)
    BY <1>1, <2>2 DEF SkipMissing, objectsUnchanged
  <2>3. CASE Finalize(d)
    <3>1. CASE UNCHANGED depts
      BY <1>1, <2>1, <3>1
    <3>2. CASE Exists(depts[d]) /\ depts' = [depts EXCEPT ![d].st = "Gone", ![d].finalizer = FALSE]
      BY <1>2, <2>1, <3>2 DEF ParentsStay, Exists, Department
    <3> QED BY ZenonT(30), <2>3, <3>1, <3>2 DEF Finalize, objectsUnchanged
  <2>4. CASE StartHandle(d)
    <3>1. CASE UNCHANGED depts
      BY <1>1, <2>1, <3>1
    <3>2. CASE depts' = [depts EXCEPT ![d].finalizer = TRUE]
      BY <1>2, <2>1, <3>2 DEF ParentsStay, Exists, Department
    <3> QED BY ZenonT(30), <2>4, <3>1, <3>2 DEF StartHandle, objectsUnchanged
  <2> QED BY <1>11, <2>2, <2>3, <2>4 DEF Reconcile
<1>12. CASE SyncProjects
  BY <1>1, <1>12 DEF SyncProjects
<1>13. CASE Handle
  <2>1. UNCHANGED <<depts, deptCache>>
    BY ZenonT(30), <1>13 DEF Handle, PlaceQueue, FindQueue, NameQueue, WalkUp, CreateQueue,
       UpdateQueue, KeepQueue, StoreQueue, DeleteUnnecessaryQueues, objectsUnchanged,
       controllerVars
  <2> QED BY <1>1, <2>1
<1>14. CASE FailReconcile
  BY <1>1, <1>14 DEF FailReconcile
<1>15. CASE Restart
  BY <1>15 DEF Restart, ParentsStay
<1>16. CASE UNCHANGED vars
  BY <1>1, <1>16 DEF vars
<1> QED
  BY ZenonT(30), <1>3, <1>4, <1>5, <1>6, <1>7, <1>8, <1>9, <1>10, <1>11, <1>12, <1>13, <1>14,
     <1>15, <1>16 DEF Next, UserEdit

(* No department and no cached one names a parent that never was. *)
Parented ==
    /\ \A x \in Departments : depts[x].parent \in Departments => depts[depts[x].parent].st # "New"
    /\ \A x \in Departments : deptCache[x].st # "New" => depts[x].st # "New"

(* At the start the parents are on the roster. *)
LEMMA InitParented == Init => Parented
<1> SUFFICES ASSUME Init PROVE Parented
  OBVIOUS
<1>1. \A x \in DOMAIN Roster : x \in Departments /\ Roster[x] \in DOMAIN Roster \cup {NoDept}
  BY ConstantsAssumption
<1>2. NoDept \notin Departments
  BY ConstantsAssumption
<1>3. ASSUME NEW x \in Departments PROVE deptCache[x] = depts[x]
  BY DEF Init
<1>4. ASSUME NEW x \in DOMAIN Roster PROVE depts[x].parent = Roster[x] /\ depts[x].st = "Active"
  BY <1>1 DEF Init, PlacedDepartment
<1>5. ASSUME NEW x \in Departments, x \notin DOMAIN Roster PROVE depts[x].parent = NoDept
  BY <1>5 DEF Init, NewDepartment
<1> QED BY <1>1, <1>2, <1>3, <1>4, <1>5 DEF Parented

(* The webhook asks that a new parent is there. *)
LEMMA ParentThere ==
    ASSUME WebhookEnabled, Parented, NEW d \in Departments, NEW p \in Departments, Admitted(d, p)
    PROVE  /\ p # d /\ ParentDepartment(p).st = "Active" /\ depts[p].st # "New"
<1>1. p # NoDept
  BY ConstantsAssumption
<1>2. p # d /\ ParentDepartment(p).st = "Active"
  BY <1>1 DEF Admitted, ParentAdmitted
<1> QED BY <1>2 DEF ParentDepartment, Parented

(* A step keeps it so, with the webhook. *)
LEMMA NextParented ==
    ASSUME WebhookEnabled, TypeOK, Parented, [Next]_vars PROVE Parented'
<1>1. CASE ParentsStay
  <2>1. ASSUME NEW x \in Departments, depts'[x].parent \in Departments
        PROVE  depts'[depts'[x].parent].st # "New"
    BY <1>1, <2>1 DEF ParentsStay, Parented
  <2>2. ASSUME NEW x \in Departments, deptCache'[x].st # "New" PROVE depts'[x].st # "New"
    BY <1>1, <2>2 DEF ParentsStay, Parented
  <2> QED BY <2>1, <2>2 DEF Parented
<1>2. ASSUME NEW d \in Departments, NEW p \in Departments \cup {NoDept}, Reparented(d, p)
      PROVE  Parented'
  <2>1. Admitted(d, p) /\ depts'[d].parent = p /\ UNCHANGED deptCache
        /\ \A x \in Departments \ {d} : depts'[x] = depts[x]
    BY <1>2 DEF Reparented
  <2>2. depts'[d].st # "New"
    BY <1>2 DEF Reparented, Exists
  <2>3. p \in Departments => p # d /\ depts[p].st # "New"
    BY <2>1, ParentThere
  <2>4. ASSUME NEW x \in Departments, depts'[x].parent \in Departments
        PROVE  depts'[depts'[x].parent].st # "New"
    <3>1. CASE x = d
      BY <2>1, <2>3, <2>4, <3>1
    <3>2. CASE x # d
      BY <2>1, <2>2, <2>4, <3>2 DEF Parented
    <3> QED BY <3>1, <3>2
  <2>5. ASSUME NEW x \in Departments, deptCache'[x].st # "New" PROVE depts'[x].st # "New"
    BY <2>1, <2>2, <2>5 DEF Parented
  <2> QED BY <2>4, <2>5 DEF Parented
<1> QED BY <1>1, <1>2, DepartmentSteps

(* A step from a tree that the webhook sees as it is leads to a tree. *)
LEMMA StepKeepsTree ==
    ASSUME WebhookEnabled, TypeOK, TypeOK', Parented, [Next]_vars, deptCache = depts, DepartmentTree
    PROVE  DepartmentTree'
<1> DEFINE old == NewTree(depts)
           new == NewTree(depts')
<1>1. Missing \notin Departments \cup {NoDept} /\ NoDept \notin Departments
  BY ConstantsAssumption
<1>2. old \in Trees /\ new \in Trees /\ Forest(old) /\ Shallow(old)
  BY TreeOf, TreeOfNext
<1>3. SUFFICES Forest(new) /\ Shallow(new)
  BY TreeOfNext
<1>a. \A x \in Departments : depts[x].parent \in Departments \cup {NoDept}
  BY DEF TypeOK, Department
<1>b. \A x \in Departments : depts'[x].parent \in Departments \cup {NoDept}
  BY DEF TypeOK, Department
<1>4. \A x \in Departments : /\ Exists(depts[x]) => old[x] = depts[x].parent /\ old[x] # Missing
                             /\ ~Exists(depts[x]) => old[x] = Missing
  BY <1>1, <1>a DEF NewTree
<1>5. \A x \in Departments : /\ Exists(depts'[x]) => new[x] = depts'[x].parent /\ new[x] # Missing
                             /\ ~Exists(depts'[x]) => new[x] = Missing
  BY <1>1, <1>b DEF NewTree
<1>6. CASE ParentsStay
  <2>1. Fewer(old, new)
    <3> HIDE DEF old, new
    <3> QED BY <1>1, <1>4, <1>5, <1>6 DEF Fewer, ParentsStay
  <2> HIDE DEF old, new
  <2> QED BY <1>2, <2>1, FewerKept
<1>7. ASSUME NEW d \in Departments, NEW p \in Departments \cup {NoDept}, Reparented(d, p)
      PROVE  Forest(new) /\ Shallow(new)
  <2>1. Admitted(d, p) /\ Exists(depts'[d]) /\ depts'[d].parent = p
        /\ (\A x \in Departments \ {d} : depts'[x] = depts[x])
        /\ (depts[d].st = "New" \/ Exists(depts[d]))
    BY <1>7 DEF Reparented
  <2>2. Moved(old, new, d, p)
    <3>1. \A x \in Departments \ {d} : new[x] = old[x]
      BY <2>1 DEF NewTree
    <3> HIDE DEF old, new
    <3> QED BY <1>2, <1>5, <2>1, <3>1 DEF Moved
  <2>3. old[d] # Missing \/ \A y \in Departments : old[y] # d
    <3> HIDE DEF old, new
    <3> QED BY <1>1, <1>4, <2>1 DEF Parented
  <2>4. CASE p = NoDept
    <3> HIDE DEF old, new
    <3>1. Fewer(old, new)
      BY <1>1, <2>2, <2>3, <2>4 DEF Fewer, Moved
    <3> QED BY <1>2, <3>1, FewerKept
  <2>5. CASE p \in Departments
    <3> DEFINE checked == [NewTree(deptCache) EXCEPT ![p] = ParentDepartment(p).parent, ![d] = p]
    <3>1. p # d /\ ParentDepartment(p).st = "Active"
      BY <2>1, <2>5, ParentThere
    <3>2. ~InLoop(checked, d) /\ AncestorCount(checked, d) + Height(checked, d) <= MaxDepth
      BY ZenonT(30), <1>1, <2>1, <2>5 DEF Admitted, ParentAdmitted
    <3>3. ParentDepartment(p) = depts[p] /\ Exists(depts[p])
      BY <3>1 DEF ParentDepartment, Exists
    <3>4. checked = new
      <4>1. checked = [old EXCEPT ![p] = depts[p].parent, ![d] = p]
        BY <3>3
      <4>2. checked \in Trees
        <5> HIDE DEF old
        <5> QED BY ZenonT(30), <1>2, <1>a, <2>5, <4>1 DEF Trees
      <4>3. \A x \in Departments : checked[x] = new[x]
        <5>1. old[p] = depts[p].parent
          BY <1>4, <2>5, <3>3
        <5> HIDE DEF old, new, checked
        <5> QED BY <1>2, <2>2, <2>5, <3>1, <4>1, <5>1 DEF Trees, Moved
      <4> HIDE DEF old, new, checked
      <4> QED BY <1>2, <4>2, <4>3 DEF Trees
    <3>5. ~InLoop(new, d) /\ AncestorCount(new, d) + Height(new, d) <= MaxDepth
      BY ZenonT(30), <3>2, <3>4
    <3> HIDE DEF old, new
    <3> QED BY <1>2, <2>2, <2>3, <2>5, <3>5, MoveKept
  <2> QED BY <2>4, <2>5
<1> QED BY <1>6, <1>7, DepartmentSteps

(* With the webhook, an edit admitted while its cache is up to date keeps  *)
(* the departments a forest of at most MaxDepth levels.                    *)
THEOREM TreeKept == WebhookEnabled => (Spec => AdmissionKeepsTree)
<1> SUFFICES ASSUME WebhookEnabled PROVE Spec => AdmissionKeepsTree
  OBVIOUS
<1>1. Init => IInv /\ Parented
  BY InitInv, InitParented
<1>2. IInv /\ Parented /\ [Next]_vars => (IInv /\ Parented)'
  BY NextInv, NextParented DEF IInv
<1>3. IInv /\ IInv' /\ Parented /\ [Next]_vars
        => [deptCache = depts /\ DepartmentTree => DepartmentTree']_vars
  BY StepKeepsTree DEF IInv
<1> QED BY <1>1, <1>2, <1>3, PTL DEF Spec, AdmissionKeepsTree
=============================================================================
