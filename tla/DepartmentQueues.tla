-------------------------- MODULE DepartmentQueues --------------------------
(***************************************************************************)
(* The department controller of the project-controller and the queue tree  *)
(* it builds for one node pool.                                            *)
(*                                                                         *)
(* A Department names its parent department; its queue must sit under the  *)
(* parent department's queue.  One worker reconciles departments, reading  *)
(* an informer cache that may lag behind the API server; only the check    *)
(* that a new parent closes no loop reads the API server itself, one GET   *)
(* per step.  Users edit departments, delete queues and departments;       *)
(* the department webhook admits edits from the same lagging cache; the    *)
(* garbage collector removes queues of departments that are gone; the      *)
(* controller fails calls and restarts.                                    *)
(***************************************************************************)
EXTENDS Integers, FiniteSets

CONSTANTS
    Departments,    \* department names
    Queues,         \* queue names
    NoDept,         \* spec.parent = ""
    NoQueue,        \* spec.parentQueue = ""
    Suggested,      \* department -> the queue name its spec suggests
    Suffixed,       \* department -> names with a random suffix it may draw
    Quotas,         \* the part of a queue spec that is not its placement
    Unowned,        \* queues that exist at the start without an owner
    Roster,         \* departments placed at the start -> their parents
    MaxDepth,       \* hierarchy.MaxDepth
    WebhookEnabled, \* the validating webhooks of departments and projects
    Readds,         \* whether users put back a queue entry they removed
    MaxEdits,       \* bound: edits by users
    MaxFailures,    \* bound: failed reconciles and controller restarts
    MaxMidSyncs     \* bound: queue events delivered in the middle of a reconcile

(* The parent of a name that no department has, in the webhook's tree. *)
Missing == "missing"

ASSUME ConstantsAssumption ==
    /\ IsFiniteSet(Departments)
    /\ NoDept \notin Departments
    /\ Missing \notin Departments \cup {NoDept}
    /\ NoQueue \notin Queues
    /\ Suggested \in [Departments -> Queues]
    /\ Suffixed \in [Departments -> SUBSET Queues]
    /\ Quotas # {}
    /\ Unowned \subseteq Queues
    /\ Roster \in [DOMAIN Roster -> DOMAIN Roster \cup {NoDept}]
    /\ DOMAIN Roster \subseteq Departments
    /\ \A d, e \in DOMAIN Roster : Suggested[d] = Suggested[e] => d = e
    /\ \A d \in DOMAIN Roster : Suggested[d] \notin Unowned
    /\ \A S \in SUBSET DOMAIN Roster : S # {} => \E d \in S : Roster[d] \notin S
    /\ MaxDepth \in Nat \ {0}
    /\ WebhookEnabled \in BOOLEAN
    /\ Readds \in BOOLEAN
    /\ MaxEdits \in Nat
    /\ MaxFailures \in Nat
    /\ MaxMidSyncs \in Nat

VARIABLES
    depts,      \* Department objects in the API server
    queues,     \* Queue objects in the API server
    projects,   \* departments some Project names as its parent
    deptCache,  \* the informer caches of the three kinds
    queueCache,
    projectCache,
    fresh,      \* queues whose cached resourceVersion is the live one
    unseen,     \* queue -> owners of versions the cache has not delivered yet
    workQueue,  \* departments waiting to be reconciled
    job,        \* the reconcile in progress
    edits, failures, midSyncs

vars == <<depts, queues, projects, deptCache, queueCache, projectCache,
          fresh, unseen, workQueue, job, edits, failures, midSyncs>>

-----------------------------------------------------------------------------
(* Objects *)

DeptState == {"New", "Active", "Deleting", "Gone"}
Department == [st : DeptState, parent : Departments \cup {NoDept},
               wants : BOOLEAN, quota : Quotas, finalizer : BOOLEAN]
Queue == [live : BOOLEAN, owner : Departments \cup {NoDept},
          parent : Queues \cup {NoQueue}, quota : Quotas]

Exists(dept) == dept.st \in {"Active", "Deleting"}

DeletedQueue(queue) == [queue EXCEPT !.live = FALSE, !.owner = NoDept, !.parent = NoQueue]

OwnedBy(tree, d) == {q \in Queues : tree[q].live /\ tree[q].owner = d}

Steps == {"idle", "place", "find", "name", "walk", "write", "cleanup"}

(* What a reconcile carries from one call to the next: the department as   *)
(* read (spec), the chosen parent queue, the queue and, when it was found  *)
(* in the cache, the cached copy it will send back in an Update.           *)
Job == [step : Steps, dept : Departments \cup {NoDept}, spec : Department,
        parent : Queues \cup {NoQueue}, queue : Queues \cup {NoQueue},
        found : BOOLEAN, copy : Queue, fresh : BOOLEAN,
        cursor : Queues \cup {NoQueue}, seen : SUBSET Queues, held : BOOLEAN]

AnyQuota == CHOOSE quota \in Quotas : TRUE
NoQueueObject == [live |-> FALSE, owner |-> NoDept, parent |-> NoQueue, quota |-> AnyQuota]
NewDepartment == [st |-> "New", parent |-> NoDept, wants |-> FALSE,
                  quota |-> AnyQuota, finalizer |-> FALSE]
Idle == [step |-> "idle", dept |-> NoDept, spec |-> NewDepartment,
         parent |-> NoQueue, queue |-> NoQueue, found |-> FALSE,
         copy |-> NoQueueObject, fresh |-> FALSE,
         cursor |-> NoQueue, seen |-> {}, held |-> FALSE]

(* The departments of the Roster have been reconciled under their parents. *)
PlacedDepartment(d) ==
    [st |-> "Active", parent |-> Roster[d], wants |-> TRUE, quota |-> AnyQuota, finalizer |-> TRUE]
PlacedQueue(d) ==
    [live |-> TRUE, owner |-> d, quota |-> AnyQuota,
     parent |-> IF Roster[d] = NoDept THEN NoQueue ELSE Suggested[Roster[d]]]

Init ==
    /\ depts = [d \in Departments |-> IF d \in DOMAIN Roster THEN PlacedDepartment(d)
                                     ELSE NewDepartment]
    /\ queues = [q \in Queues |->
          IF \E d \in DOMAIN Roster : Suggested[d] = q
          THEN PlacedQueue(CHOOSE d \in DOMAIN Roster : Suggested[d] = q)
          ELSE [NoQueueObject EXCEPT !.live = q \in Unowned]]
    /\ projects = {}
    /\ deptCache = depts
    /\ queueCache = queues
    /\ projectCache = projects
    /\ fresh = Queues
    /\ unseen = [q \in Queues |-> {}]
    /\ workQueue = {}
    /\ job = Idle
    /\ edits = 0
    /\ failures = 0
    /\ midSyncs = 0

-----------------------------------------------------------------------------
(* The department webhook: hierarchy.Tree over the cached departments.     *)

(* The n-th department above d, NoDept above a root, Missing above a name  *)
(* no department has.                                                      *)
Above(tree, d) ==
    LET up[n \in 0 .. MaxDepth + 1] ==
            IF n = 0 THEN d
            ELSE IF up[n - 1] \in Departments THEN tree[up[n - 1]] ELSE up[n - 1]
    IN  up

(* How many departments Ancestors lists, and whether it came back to d.    *)
AncestorCount(tree, d) ==
    LET up == Above(tree, d)
        listed(n) == /\ up[n] \in Departments \ {d}
                     /\ tree[up[n]] # Missing
                     /\ \A m \in 1 .. n - 1 : up[m] # up[n]
    IN  Cardinality({n \in 1 .. MaxDepth : \A m \in 1 .. n : listed(m)})

InLoop(tree, d) ==
    /\ AncestorCount(tree, d) < MaxDepth
    /\ Above(tree, d)[AncestorCount(tree, d) + 1] = d

(* Mutant: the subtree of the edited department is not counted. *)
MutantHeight(tree, d) == 1

(* Levels from d down to its deepest descendant: level n is inhabited when *)
(* some department first meets d n steps up.                               *)
Height(tree, d) ==
    Cardinality({n \in 0 .. MaxDepth - 1 :
        \/ n = 0
        \/ \E x \in Departments \ {d} :
              /\ tree[x] # Missing
              /\ Above(tree, x)[n] = d
              /\ \A m \in 0 .. n - 1 : Above(tree, x)[m] # d})

NewTree(cache) == [d \in Departments |-> IF Exists(cache[d]) THEN cache[d].parent ELSE Missing]

(* A parent the cache misses is read again live. *)
ParentDepartment(p) == IF Exists(deptCache[p]) THEN deptCache[p] ELSE depts[p]

ParentAdmitted(d, p) ==
    p # NoDept =>
       LET parent == ParentDepartment(p)
           tree == [NewTree(deptCache) EXCEPT ![p] = parent.parent, ![d] = p]
       IN  /\ parent.st = "Active"
           /\ ~InLoop(tree, d)
           /\ AncestorCount(tree, d) + Height(tree, d) <= MaxDepth

(* The schema refuses a department as its own parent, webhook or not. *)
Admitted(d, p) == p # d /\ (WebhookEnabled => ParentAdmitted(d, p))

-----------------------------------------------------------------------------
(* Users *)

Edit == edits < MaxEdits /\ edits' = edits + 1

controllerVars == <<deptCache, queueCache, projectCache, workQueue, failures, midSyncs>>

CreateDepartment(d) ==
    /\ Edit
    /\ depts[d].st = "New"
    /\ \E p \in Departments \cup {NoDept}, quota \in Quotas :
          /\ Admitted(d, p)
          /\ depts' = [depts EXCEPT ![d] = [st |-> "Active", parent |-> p, wants |-> TRUE,
                                            quota |-> quota, finalizer |-> FALSE]]
    /\ UNCHANGED <<queues, projects, fresh, unseen, job, controllerVars>>

(* An update with an unchanged parent is not checked again. *)
SetParent(d) ==
    /\ Edit
    /\ Exists(depts[d])
    /\ \E p \in Departments \cup {NoDept} :
          /\ p # depts[d].parent
          /\ Admitted(d, p)
          /\ depts' = [depts EXCEPT ![d].parent = p]
    /\ UNCHANGED <<queues, projects, fresh, unseen, job, controllerVars>>

(* spec.queues: the entry for the node pool is removed, put back, or given *)
(* another quota.                                                          *)
SetQueue(d) ==
    /\ Edit
    /\ Exists(depts[d])
    /\ \E wants \in BOOLEAN, quota \in Quotas :
          /\ wants # depts[d].wants \/ quota # depts[d].quota
          /\ wants => depts[d].wants \/ Readds
          /\ depts' = [depts EXCEPT ![d] = [depts[d] EXCEPT !.wants = wants, !.quota = quota]]
    /\ UNCHANGED <<queues, projects, fresh, unseen, job, controllerVars>>

DeleteDepartment(d) ==
    /\ Edit
    /\ depts[d].st = "Active"
    /\ depts' = [depts EXCEPT ![d].st = IF depts[d].finalizer THEN "Deleting" ELSE "Gone"]
    /\ UNCHANGED <<queues, projects, fresh, unseen, job, controllerVars>>

(* A project is created under d, or the last one under d goes away.  The   *)
(* project webhook asks only that the parent exists.                       *)
SetProject(d) ==
    /\ Edit
    /\ \/ d \in projects /\ projects' = projects \ {d}
       \/ /\ d \notin projects
          /\ WebhookEnabled => Exists(ParentDepartment(d))
          /\ projects' = projects \cup {d}
    /\ UNCHANGED <<depts, queues, fresh, unseen, job, controllerVars>>

(* Removing a queue makes the cached copies of it stale. *)
RemoveQueue(q) ==
    /\ queues[q].live
    /\ queues' = [queues EXCEPT ![q] = DeletedQueue(@)]
    /\ fresh' = fresh \ {q}
    /\ job' = [job EXCEPT !.fresh = job.fresh /\ job.queue # q]
    /\ UNCHANGED <<depts, projects, unseen, controllerVars>>

DeleteQueue(q) == Edit /\ RemoveQueue(q)

(* The garbage collector removes the queues of a department that is gone. *)
CollectQueue(q) ==
    /\ queues[q].owner \in Departments
    /\ depts[queues[q].owner].st = "Gone"
    /\ RemoveQueue(q)
    /\ UNCHANGED edits

-----------------------------------------------------------------------------
(* Informers: the cache catches up with one object and its event handlers  *)
(* enqueue the departments it concerns.                                    *)

SyncDepartment(d) ==
    /\ deptCache[d] # depts[d]
    /\ deptCache' = [deptCache EXCEPT ![d] = depts[d]]
    /\ workQueue' = workQueue \cup {d}
    /\ UNCHANGED <<depts, queues, projects, queueCache, projectCache, fresh, unseen,
                   job, edits, failures, midSyncs>>

(* QueuePlacementChangedPredicate: creates, deletes and parent changes. *)
PlacementChanged(old, new) == old.live # new.live \/ old.parent # new.parent

(* Mutant: a queue event wakes only its owner. *)
MutantMapQueueToChildDepartments(owners) == {}

MapQueueToChildDepartments(owners) ==
    {d \in Departments : Exists(deptCache[d]) /\ deptCache[d].parent \in owners}

SyncQueue(q) ==
    LET old == queueCache[q]
        new == queues[q]
        owners == ({old.owner, new.owner} \cup unseen[q]) \ {NoDept}
        children == IF PlacementChanged(old, new) \/ unseen[q] # {} THEN MapQueueToChildDepartments(owners) ELSE {}
    IN  /\ q \notin fresh
        /\ job.step # "idle" => midSyncs < MaxMidSyncs
        /\ midSyncs' = IF job.step = "idle" THEN midSyncs ELSE midSyncs + 1
        /\ queueCache' = [queueCache EXCEPT ![q] = new]
        /\ fresh' = fresh \cup {q}
        /\ unseen' = [unseen EXCEPT ![q] = {}]
        /\ workQueue' = workQueue \cup owners \cup children
        /\ UNCHANGED <<depts, queues, projects, deptCache, projectCache, job, edits, failures>>

SyncProjects ==
    /\ projectCache # projects
    /\ projectCache' = projects
    /\ UNCHANGED <<depts, queues, projects, deptCache, queueCache, fresh, unseen, workQueue,
                   job, edits, failures, midSyncs>>

-----------------------------------------------------------------------------
(* The reconciler.  Every error puts the department back on the work queue. *)

objectsUnchanged == UNCHANGED <<depts, queues, projects, deptCache, queueCache, projectCache,
                                fresh, unseen, edits, failures, midSyncs>>

Requeue(d) == job' = Idle /\ workQueue' = workQueue \cup {d}

(* Reading a department that the cache does not hold ends the reconcile. *)
SkipMissing(d) ==
    /\ ~Exists(deptCache[d])
    /\ job' = Idle
    /\ workQueue' = workQueue \ {d}
    /\ objectsUnchanged

(* finalize: a department goes only when the cache shows no project and no *)
(* department under it.  No other finalizer is modelled, so a department   *)
(* without this one is not met here: it is gone.                           *)
Referenced(d) ==
    \/ d \in projectCache
    \/ \E e \in Departments : Exists(deptCache[e]) /\ deptCache[e].parent = d

Finalize(d) ==
    /\ deptCache[d].st = "Deleting"
    /\ deptCache[d].finalizer
    /\ \/ /\ Referenced(d) \/ ~Exists(depts[d])
          /\ UNCHANGED <<job, workQueue>>
          /\ objectsUnchanged
       \/ /\ ~Referenced(d)
          /\ Exists(depts[d])
          /\ depts' = [depts EXCEPT ![d].st = "Gone", ![d].finalizer = FALSE]
          /\ job' = Idle
          /\ workQueue' = workQueue \ {d}
          /\ UNCHANGED <<queues, projects, deptCache, queueCache, projectCache, fresh, unseen,
                         edits, failures, midSyncs>>

(* addFinalizerIfNeeded: the patch answers with the live object, which the *)
(* rest of the reconcile then uses instead of the cached one.              *)
StartHandle(d) ==
    /\ deptCache[d].st = "Active"
    /\ LET enter(spec) == job' = [Idle EXCEPT !.step = IF spec.wants THEN "place" ELSE "cleanup",
                                              !.dept = d, !.spec = spec]
       IN  \/ /\ deptCache[d].finalizer
              /\ enter(deptCache[d])
              /\ workQueue' = workQueue \ {d}
              /\ objectsUnchanged
           \/ /\ ~deptCache[d].finalizer
              /\ Exists(depts[d])
              /\ depts' = [depts EXCEPT ![d].finalizer = TRUE]
              /\ enter(depts'[d])
              /\ workQueue' = workQueue \ {d}
              /\ UNCHANGED <<queues, projects, deptCache, queueCache, projectCache, fresh,
                             unseen, edits, failures, midSyncs>>
           \/ /\ ~deptCache[d].finalizer
              /\ ~Exists(depts[d])
              /\ UNCHANGED <<job, workQueue>>
              /\ objectsUnchanged

Reconcile(d) ==
    /\ job.step = "idle"
    /\ d \in workQueue
    /\ SkipMissing(d) \/ Finalize(d) \/ StartHandle(d)

(* departmentQueueName: the suggested name when the parent department owns *)
(* that queue, else any queue it owns.                                     *)
DepartmentQueueNames(p) ==
    IF p = NoDept \/ p \notin Departments THEN {NoQueue}
    ELSE IF ~Exists(deptCache[p]) \/ ~deptCache[p].wants \/ OwnedBy(queueCache, p) = {} THEN {NoQueue}
    ELSE IF Suggested[p] \in OwnedBy(queueCache, p) THEN {Suggested[p]}
    ELSE OwnedBy(queueCache, p)

PlaceQueue ==
    /\ job.step = "place"
    /\ \E parent \in DepartmentQueueNames(job.spec.parent) :
          job' = [job EXCEPT !.step = "find", !.parent = parent]
    /\ UNCHANGED workQueue
    /\ objectsUnchanged

(* holdAsRootOnLoop: only a new parent can close a loop. *)
CheckLoop(j, currentParent) ==
    IF j.parent = NoQueue \/ j.parent = currentParent
    THEN [j EXCEPT !.step = "write"]
    ELSE [j EXCEPT !.step = "walk", !.cursor = j.parent]

FindQueue ==
    /\ job.step = "find"
    /\ \/ /\ OwnedBy(queueCache, job.dept) = {}
          /\ job' = [job EXCEPT !.step = "name"]
       \/ \E q \in OwnedBy(queueCache, job.dept) :
             job' = CheckLoop([job EXCEPT !.queue = q, !.found = TRUE, !.copy = queueCache[q],
                                          !.fresh = q \in fresh],
                              queueCache[q].parent)
    /\ UNCHANGED workQueue
    /\ objectsUnchanged

(* isQueueTakenByOtherResource as the name generator calls it for a        *)
(* department: the two expected names arrive swapped, so every queue of a  *)
(* department counts as taken, the department's own included.              *)
Taken(q) == queueCache[q].live /\ queueCache[q].owner # NoDept

GeneratedNames(d) ==
    IF ~Taken(Suggested[d]) THEN {Suggested[d]}
    ELSE LET free == {q \in Suffixed[d] : ~Taken(q)}
         IN  IF free = {} THEN Suffixed[d] ELSE free

NameQueue ==
    /\ job.step = "name"
    /\ \E q \in GeneratedNames(job.dept) : job' = CheckLoop([job EXCEPT !.queue = q], NoQueue)
    /\ UNCHANGED workQueue
    /\ objectsUnchanged

(* Mutant: the walk reads the cache. *)
MutantGet(q) == queueCache[q]

(* The reader the walk uses goes to the API server: "the cache may not     *)
(* hold this controller's last write yet".                                 *)
Get(q) == queues[q]

(* wouldCloseQueueLoop: one live GET per step, up from the new parent. *)
WalkUp ==
    /\ job.step = "walk"
    /\ \/ /\ job.cursor = job.queue
          /\ job' = [job EXCEPT !.step = "write", !.parent = NoQueue, !.held = TRUE]
       \/ /\ job.cursor # job.queue
          /\ \/ job.cursor \in job.seen \cup {NoQueue}
             \/ job.cursor \in Queues /\ ~Get(job.cursor).live
          /\ job' = [job EXCEPT !.step = "write"]
       \/ /\ job.cursor \in Queues \ (job.seen \cup {job.queue})
          /\ Get(job.cursor).live
          /\ job' = [job EXCEPT !.cursor = Get(job.cursor).parent,
                                !.seen = @ \cup {job.cursor}]
    /\ UNCHANGED workQueue
    /\ objectsUnchanged

(* Mutant: the parent department's name is taken for its queue's name. *)
MutantExpected ==
    [live |-> TRUE, owner |-> job.dept, parent |-> job.spec.parent, quota |-> job.spec.quota]

Expected == [live |-> TRUE, owner |-> job.dept, parent |-> job.parent, quota |-> job.spec.quota]

StoreQueue ==
    /\ queues' = [queues EXCEPT ![job.queue] = Expected]
    /\ fresh' = fresh \ {job.queue}
    /\ unseen' = [unseen EXCEPT ![job.queue] = @ \cup {job.dept}]
    /\ job' = [job EXCEPT !.step = "cleanup", !.fresh = FALSE]
    /\ UNCHANGED <<depts, projects, controllerVars, edits>>

KeepQueue ==
    /\ job' = [job EXCEPT !.step = "cleanup"]
    /\ UNCHANGED workQueue
    /\ objectsUnchanged

(* createQueue: a queue that is already there is not an error. *)
CreateQueue ==
    /\ job.step = "write"
    /\ ~job.found
    /\ IF queues[job.queue].live THEN KeepQueue ELSE StoreQueue

(* updateExistingQueue sends the cached copy's resourceVersion, so it      *)
(* succeeds only if nobody wrote the queue since it was cached.            *)
UpdateSucceeds == queues[job.queue].live /\ job.fresh

UpdateQueue ==
    /\ job.step = "write"
    /\ job.found
    /\ \/ job.copy = Expected /\ KeepQueue
       \/ job.copy # Expected /\ UpdateSucceeds /\ StoreQueue
       \/ job.copy # Expected /\ ~UpdateSucceeds /\ Requeue(job.dept) /\ objectsUnchanged

(* deleteUnnecessaryQueues deletes by name the queues the cache shows for  *)
(* the department, except the one just reconciled.  Deleting a queue that  *)
(* is gone is an error.  A queue held as a root is tried again later.      *)
Unnecessary == OwnedBy(queueCache, job.dept) \ {job.queue}

DeleteUnnecessaryQueues ==
    /\ job.step = "cleanup"
    /\ queues' = [q \in Queues |-> IF q \in Unnecessary THEN DeletedQueue(queues[q]) ELSE queues[q]]
    /\ fresh' = fresh \ {q \in Unnecessary : queues[q].live}
    /\ job' = Idle
    /\ workQueue' = IF job.held \/ \E q \in Unnecessary : ~queues[q].live
                    THEN workQueue \cup {job.dept} ELSE workQueue
    /\ UNCHANGED <<depts, projects, deptCache, queueCache, projectCache, unseen, edits, failures, midSyncs>>

(* A call to the API server fails in the middle of a reconcile. *)
FailReconcile ==
    /\ failures < MaxFailures
    /\ failures' = failures + 1
    /\ job.step # "idle"
    /\ Requeue(job.dept)
    /\ UNCHANGED <<depts, queues, projects, deptCache, queueCache, projectCache, fresh, unseen,
                   edits, midSyncs>>

(* The controller restarts: caches are listed anew and every department is *)
(* enqueued.                                                               *)
Restart ==
    /\ failures < MaxFailures
    /\ failures' = failures + 1
    /\ deptCache' = depts
    /\ queueCache' = queues
    /\ projectCache' = projects
    /\ fresh' = Queues
    /\ unseen' = [q \in Queues |-> {}]
    /\ workQueue' = {d \in Departments : Exists(depts[d])}
    /\ job' = Idle
    /\ UNCHANGED <<depts, queues, projects, edits, midSyncs>>

-----------------------------------------------------------------------------
(* Specification *)

UserEdit ==
    \/ \E d \in Departments : \/ CreateDepartment(d) \/ SetParent(d) \/ SetQueue(d)
                              \/ DeleteDepartment(d) \/ SetProject(d)
    \/ \E q \in Queues : DeleteQueue(q)

Handle == PlaceQueue \/ FindQueue \/ NameQueue \/ WalkUp \/ CreateQueue \/ UpdateQueue
          \/ DeleteUnnecessaryQueues

Next ==
    \/ UserEdit
    \/ \E q \in Queues : CollectQueue(q) \/ SyncQueue(q)
    \/ \E d \in Departments : SyncDepartment(d) \/ Reconcile(d)
    \/ SyncProjects
    \/ Handle
    \/ FailReconcile
    \/ Restart

Spec == Init /\ [][Next]_vars

(* The work queue is first in, first out, so a waiting department is       *)
(* served; informers and the garbage collector keep running.  Users,       *)
(* failures and restarts owe nothing.  Queue events wait for the end of a  *)
(* reconcile once MaxMidSyncs is spent, hence their strong fairness.       *)
Fairness ==
    /\ \A d \in Departments : SF_vars(Reconcile(d)) /\ WF_vars(SyncDepartment(d))
    /\ \A q \in Queues : SF_vars(SyncQueue(q)) /\ WF_vars(CollectQueue(q))
    /\ WF_vars(SyncProjects)
    /\ WF_vars(Handle)

FairSpec == Spec /\ Fairness

-----------------------------------------------------------------------------
(* Properties *)

(* Every variable keeps its type. *)
TypeOK ==
    /\ depts \in [Departments -> Department]
    /\ queues \in [Queues -> Queue]
    /\ projects \subseteq Departments
    /\ deptCache \in [Departments -> Department]
    /\ queueCache \in [Queues -> Queue]
    /\ projectCache \subseteq Departments
    /\ fresh \subseteq Queues
    /\ unseen \in [Queues -> SUBSET Departments]
    /\ workQueue \subseteq Departments
    /\ job \in Job
    /\ edits \in Nat
    /\ failures \in Nat
    /\ midSyncs \in Nat

(* A set of live queues in which every parent is again in the set. *)
QueueLoop(S) == S # {} /\ \A q \in S : queues[q].live /\ queues[q].parent \in S

(* The live queues never form a loop, whatever loop the departments'       *)
(* parents form and however stale the caches are: holdAsRootOnLoop.        *)
NoQueueLoop == \A S \in SUBSET Queues : ~QueueLoop(S)

(* The departments' parents lead to a root: no loop among them. *)
DepartmentForest ==
    \A S \in SUBSET Departments :
        S = {} \/ \E d \in S : ~Exists(depts[d]) \/ depts[d].parent \notin S

(* A department and every department above it. *)
Lineage(d) ==
    {e \in Departments :
        \A S \in SUBSET Departments :
            /\ d \in S
            /\ \A x \in S : LET p == depts[x].parent
                           IN  p \in Departments /\ Exists(depts[p]) => p \in S
            => e \in S}

DepartmentTree ==
    /\ DepartmentForest
    /\ \A d \in Departments : Exists(depts[d]) => Cardinality(Lineage(d)) <= MaxDepth

(* While the webhook's cache is up to date, the edits it admits keep the   *)
(* departments a forest of at most MaxDepth levels: validateDepartment     *)
(* counts the levels above the edited department and below it.             *)
AdmissionKeepsTree == [][deptCache = depts /\ DepartmentTree => DepartmentTree']_vars

WantsQueue(d) == depts[d].st = "Active" /\ depts[d].wants

(* The queues d's queue may sit under.  The queue of a department that is  *)
(* being deleted is no longer kept up: it may be left or lost.             *)
ParentQueues(d) ==
    LET p == depts[d].parent
    IN  (IF p \in Departments /\ Exists(depts[p]) THEN OwnedBy(queues, p) ELSE {})
        \cup (IF p \in Departments /\ WantsQueue(p) THEN {} ELSE {NoQueue})

(* Every active department that asks for a queue has exactly one, with its *)
(* quota, under its parent department's queue.                             *)
Placed ==
    \A d \in Departments :
        /\ WantsQueue(d) =>
              \E q \in Queues : /\ OwnedBy(queues, d) = {q}
                                 /\ queues[q].parent \in ParentQueues(d)
                                 /\ queues[q].quota = depts[d].quota
        /\ depts[d].st = "Gone" \/ (depts[d].st = "Active" /\ ~depts[d].wants) =>
              OwnedBy(queues, d) = {}

(* Every event is delivered and every request served: nothing more happens *)
(* until a user, a failure or the ten-hourly resync of the informers.      *)
Settled ==
    /\ job.step = "idle" /\ workQueue = {}
    /\ deptCache = depts /\ fresh = Queues
    /\ \A q \in Queues : queues[q].live /\ queues[q].owner # NoDept =>
          depts[queues[q].owner].st # "Gone"

(* "Its queue for a node pool goes under the parent department's queue":   *)
(* a controller with nothing left to do has placed every queue.            *)
SettledPlaced == Settled /\ DepartmentForest => Placed

(* Once users stop, and if the departments form a forest, the queue tree   *)
(* becomes and stays the department tree: the watch on queues re-enqueues  *)
(* children, a held queue is retried, duplicates are deleted.              *)
Converges == <>[](DepartmentForest => Placed)
=============================================================================
