-------------------------- MODULE ProjectLifecycle --------------------------
(* The project controller around one project: its namespace, role binding,  *)
(* limit range and queues, its status, and its deletion with blockers.      *)
(*                                                                          *)
(* A reconcile works on a copy of the project from the cache and runs one   *)
(* handler after another; every handler reads the caches and makes at most  *)
(* one write per step.  Users, informers and the garbage collector act      *)
(* between any two steps.  Objects that only this controller reads (config  *)
(* maps, blocking workloads) change when its cache learns of the change.    *)
EXTENDS Naturals, FiniteSets

CONSTANTS
    Uids,        \* incarnations of the project
    Pools,       \* node pools the project may have queues in
    Names,       \* queue names
    Suggested,   \* node pool -> the queue name the spec suggests
    Suffixed,    \* node pool -> names with a random suffix
    Held,        \* queue name -> the other owner that holds it at the start
    Resources,   \* resources a queue's status may count
    Roles,       \* cluster roles a role binding may refer to
    Gone,        \* no such object
    Twin,        \* the department that has the project's name
    Other,       \* any other project or department
    Nobody,      \* no owner
    Setups,      \* namespace handling, Blocking deletion, AllowExternalQueues, whether the
                 \* project is new or has been reconciled, and the edits users make
    MaxEdits,    \* bound on edits
    MaxFailures  \* bound on failed calls and restarts

Edits == {"create", "delete", "pools", "enforce", "force", "override",
          "overrideQueue", "dropQueue", "usage", "seize",
          "dropBinding", "dropLimits", "dropNamespace", "makeNamespace",
          "bindings", "limits", "parents", "start", "stop"}

VARIABLES
    setup,     \* installation and project options that do not change
    live,      \* the objects of the API server
    seen,      \* the informer caches
    stale,     \* kinds whose cache lags behind
    alarms,    \* kinds with an undelivered event that passes the filters
    maps,      \* what the cache holds of other parties: the two ConfigMaps and the
               \* node pools in which the parent department has a queue
    work,      \* a configured blocker matches something in the namespace
    queued,    \* the project's key is in the work queue
    job,       \* the reconcile in progress
    born,      \* incarnations used so far
    edits, failures

vars == <<setup, live, seen, stale, alarms, maps, work, queued, job, born,
          edits, failures>>

Kinds == {"project", "namespace", "binding", "limits", "queues"}
Types == {"namespace", "bindings", "queues", "limits", "blockers"}
Conditions == [Types -> {"unset", "true", "false"}]
Status == [namespace : BOOLEAN, conds : Conditions,
           phase : {"none", "Ready", "NotReady", "Deleting"},
           quotas : SUBSET (Pools \X SUBSET Resources), total : SUBSET Resources]
Project == [uid : Uids, deleting : BOOLEAN, finalizer : BOOLEAN, pools : SUBSET Pools,
            enforce : BOOLEAN, force : BOOLEAN, override : BOOLEAN, status : Status]
Namespace == [label : {"none", "mine", "other"}, enforce : BOOLEAN, override : BOOLEAN]
Binding == [role : Roles, managed : BOOLEAN, owner : Uids \cup {Nobody}]
Limits == [value : {"low", "high"}, owner : Uids \cup {Nobody}, override : BOOLEAN]
Queue == [owner : Uids \cup {Twin, Other, Nobody}, pool : Pools, label : BOOLEAN,
          placed : BOOLEAN, override : BOOLEAN, usage : SUBSET Resources]
World == [project : Project \cup {Gone}, namespace : Namespace \cup {Gone},
          binding : Binding \cup {Gone}, limits : Limits \cup {Gone},
          queues : [Names -> Queue \cup {Gone}]]
Job == [step : {"namespace", "bindings", "rebind", "queues", "limits", "status", "blockers",
                "dropQueues", "dropLimits", "deletionStatus", "release"},
        copy : Project, failed : BOOLEAN, changed : BOOLEAN, bad : BOOLEAN,
        todo : SUBSET Pools, kept : SUBSET Names]

ASSUME ConstantsAssumption ==
    /\ Setups \subseteq [mode : {"create", "adopt", "require"}, blocking : BOOLEAN,
                         external : BOOLEAN, fresh : BOOLEAN, edits : SUBSET Edits]
    /\ Suggested \in [Pools -> Names]
    /\ Suffixed \in [Pools -> SUBSET Names]
    /\ DOMAIN Held \subseteq Names
    /\ \A n \in DOMAIN Held : Held[n] \in {Twin, Other, Nobody}
    /\ Pools # {} /\ Roles # {} /\ Uids # {}
    /\ Uids \cap {Twin, Other, Nobody} = {}
    /\ Twin # Other /\ Twin # Nobody /\ Other # Nobody
    /\ Gone \notin Project \cup Namespace \cup Binding \cup Limits \cup Queue
    /\ MaxEdits \in Nat /\ MaxFailures \in Nat

NoStatus == [namespace |-> FALSE, conds |-> [t \in Types |-> "unset"], phase |-> "none",
             quotas |-> {}, total |-> {}]
NewProject(u, ps) ==
    [uid |-> u, deleting |-> FALSE, finalizer |-> FALSE, pools |-> ps, enforce |-> FALSE,
     force |-> FALSE, override |-> FALSE, status |-> NoStatus]
NewQueue(u, r, placed) ==
    [owner |-> u, pool |-> r, label |-> TRUE, placed |-> placed, override |-> FALSE, usage |-> {}]
OthersQueue(o) == [owner |-> o, pool |-> CHOOSE r \in Pools : TRUE, label |-> FALSE,
                   placed |-> FALSE, override |-> FALSE, usage |-> {}]
Idle == [step |-> "idle"]

-----------------------------------------------------------------------------
(* Writes, events and failures.                                             *)

\* Whether the event of a change passes the predicates: GenerationChanged and the
\* override label for the project; for an update the filters look at the new object.
FilterProjectEvent(kind, old, new) ==
    LET o == IF new = Gone THEN old ELSE new IN
    CASE kind = "project" ->
           /\ ~o.override
           /\ (old = Gone \/ new = Gone) \/ new.deleting # old.deleting
                                         \/ new.pools # old.pools \/ new.enforce # old.enforce
      [] kind = "namespace" ->
           /\ ~o.override
           /\ o.label # "none"
           /\ (old # Gone /\ old.label = "mine") \/ (new # Gone /\ new.label = "mine")
      [] kind = "binding" ->  \* one owner reference, or the label of the cached namespace
           \/ o.owner \in Uids
           \/ seen.namespace # Gone /\ seen.namespace.label = "mine"
      [] kind = "limits" -> ~o.override /\ setup.mode = "create" /\ o.owner # Nobody
      [] kind = "queues" ->
           \E n \in Names :
              LET a == old[n]
                  b == new[n] IN
              /\ a # b
              /\ (a # Gone /\ a.owner \in Uids) \/ (b # Gone /\ b.owner \in Uids)
              /\ ~(IF b = Gone THEN a ELSE b).override

Store(kind, obj) ==
    /\ live' = [live EXCEPT ![kind] = obj]
    /\ stale' = IF obj = live[kind] THEN stale ELSE stale \cup {kind}
    /\ alarms' = IF obj # live[kind] /\ FilterProjectEvent(kind, live[kind], obj)
                 THEN alarms \cup {kind} ELSE alarms

Unstored == UNCHANGED <<live, stale, alarms>>

MayFail == failures < MaxFailures /\ failures' = failures + 1

\* One API write with its three outcomes: it is made, refused, or made with the answer lost.
Call(kind, obj, ok) ==
    \/ ok = "made" /\ Store(kind, obj) /\ UNCHANGED failures
    \/ ok = "refused" /\ obj # live[kind] /\ Unstored /\ MayFail
    \/ ok = "lost" /\ obj # live[kind] /\ Store(kind, obj) /\ MayFail

-----------------------------------------------------------------------------
(* Conditions and status.                                                   *)

UpdateProjectCondition(status, type, ok) ==
    [status EXCEPT !.conds[type] = IF ok THEN "true" ELSE "false"]

\* Recording a handler's result in the reconcile's copy.
Noted(type, ok) ==
    LET status == UpdateProjectCondition(job.copy.status, type, ok) IN
    [job EXCEPT !.copy.status = status,
                !.changed = @ \/ status # job.copy.status,
                !.failed = @ \/ ~ok]

setPhase(status, changed, onDeletion) ==
    IF ~changed THEN status
    ELSE [status EXCEPT !.phase =
            IF \A t \in Types : status.conds[t] # "false" THEN "Ready"
            ELSE IF onDeletion THEN "Deleting" ELSE "NotReady"]

ListProjectQueues == {n \in Names : seen.queues[n] # Gone /\ seen.queues[n].label}
Total(quotas) == UNION {e[2] : e \in quotas}

\* A merge patch merges a map key by key; an empty map is sent as null and clears it.
MergedTotal(old, new) == IF new = {} THEN {} ELSE old \cup new

\* The cached namespace of the project: status.namespace, else the one with its label.
KaiProjectToNamespace(p) ==
    p.status.namespace \/ (seen.namespace # Gone /\ seen.namespace.label = "mine")

\* The project after a status patch from this copy, which replaces every field but
\* merges the summed quota.
PatchedStatus(status) ==
    [live.project EXCEPT !.status =
        [status EXCEPT !.total = MergedTotal(live.project.status.total, Total(status.quotas))]]

-----------------------------------------------------------------------------
(* The start of a reconcile.                                                *)

\* Bug: the error is not returned, so nothing retries.
MutantDone(again) == job' = Idle /\ queued' = (queued /\ job # Idle)

\* What was queued during the reconcile stays queued.
Done(again) == job' = Idle /\ queued' = (again \/ (queued /\ job # Idle))

Begin(p, step) ==
    [step |-> step, copy |-> p, failed |-> FALSE, changed |-> FALSE, bad |-> FALSE,
     todo |-> p.pools, kept |-> {}]

\* Deleted or nothing left to do: early returns of retrieveProject and Finalize.
ReconcileNothing ==
    /\ queued /\ job = Idle
    /\ \/ seen.project = Gone
       \/ seen.project # Gone /\ seen.project.deleting
          /\ (~seen.project.finalizer \/ seen.project.override)
    /\ Done(FALSE)
    /\ Unstored
    /\ UNCHANGED <<setup, seen, maps, work, born, edits, failures>>

\* The finalizer patch is refused when the project is gone, or going without one.
AddFinalizer ==
    LET p == live.project IN
    IF p = Gone \/ (p.deleting /\ ~p.finalizer)
    THEN Done(TRUE) /\ Unstored /\ UNCHANGED failures
    ELSE \E ok \in {"made", "refused", "lost"} :
           /\ Call("project", [p EXCEPT !.finalizer = TRUE], ok)
           /\ IF ok = "made"
              THEN job' = Begin([p EXCEPT !.finalizer = TRUE], "namespace") /\ queued' = FALSE
              ELSE Done(TRUE)

Reconcile ==
    /\ queued /\ job = Idle
    /\ seen.project # Gone /\ ~seen.project.deleting
    /\ IF seen.project.finalizer
       THEN /\ job' = Begin(seen.project, "namespace") /\ queued' = FALSE
            /\ Unstored /\ UNCHANGED failures
       ELSE AddFinalizer
    /\ UNCHANGED <<setup, seen, maps, work, born, edits>>

Finalize ==
    /\ queued /\ job = Idle
    /\ seen.project # Gone /\ seen.project.deleting
    /\ seen.project.finalizer /\ ~seen.project.override
    /\ job' = Begin(seen.project, IF setup.blocking THEN "blockers" ELSE "dropQueues")
    /\ queued' = FALSE
    /\ Unstored
    /\ UNCHANGED <<setup, seen, maps, work, born, edits, failures>>

\* The handlers in the order they were registered; the status comes last.
Then == [namespace |-> "bindings", bindings |-> "queues", rebind |-> "queues",
         queues |-> "limits", limits |-> "status",
         blockers |-> "dropQueues", dropQueues |-> "dropLimits", dropLimits |-> "deletionStatus"]

\* A handler that makes one write: its condition is False when the write failed, and
\* always when the handler already met an error.
Handle(kind, type, outcome) ==
    /\ \E ok \in {"made", "refused", "lost"} :
         /\ Call(kind, outcome.obj, ok)
         /\ job' = [Noted(type, outcome.ok /\ ok = "made") EXCEPT !.step = Then[@]]
    /\ UNCHANGED <<setup, seen, maps, work, queued, born, edits>>

Fine(obj) == [ok |-> TRUE, obj |-> obj]
Err(kind) == [ok |-> FALSE, obj |-> live[kind]]

-----------------------------------------------------------------------------
(* The namespace handler.                                                   *)

\* An update carries the cached resource version.
Updated(kind, obj) == IF kind \in stale THEN Err(kind) ELSE Fine(obj)

GetNamespaceObject(p) == [label |-> "mine", enforce |-> p.enforce, override |-> FALSE]
NamespacesEqual(n, p) == n.label = "mine" /\ n.enforce = p.enforce

handleUserExternalNamespaceForProject(p, n) ==
    IF n = Gone \/ n.label = "other" THEN Err("namespace")
    ELSE IF NamespacesEqual(n, p) THEN Fine(live.namespace)
    ELSE Updated("namespace", [n EXCEPT !.label = "mine", !.enforce = p.enforce])

handleExistingNamespace(p, n) ==
    IF n.override \/ NamespacesEqual(n, p) THEN Fine(live.namespace)
    ELSE Updated("namespace", [n EXCEPT !.label = "mine", !.enforce = p.enforce])

\* AlreadyExists is success.
handleNonExistingNamespace(p) ==
    Fine(IF live.namespace # Gone THEN live.namespace ELSE GetNamespaceObject(p))

HandleNamespace ==
    LET p == job.copy
        n == seen.namespace IN
    /\ job.step = "namespace"
    /\ Handle("namespace", "namespace",
              CASE setup.mode = "require" -> IF KaiProjectToNamespace(p) THEN Fine(live.namespace)
                                       ELSE Err("namespace")
                [] setup.mode = "adopt" -> handleUserExternalNamespaceForProject(p, n)
                [] setup.mode = "create" /\ n = Gone -> handleNonExistingNamespace(p)
                [] OTHER -> handleExistingNamespace(p, n))

-----------------------------------------------------------------------------
(* The role-bindings handler.                                               *)

\* The binding the ConfigMap describes; "bare" has a service account without a namespace,
\* which only getOrCreate and update fill in.
buildRoleBinding(p) == [role |-> maps.bindings.role, managed |-> TRUE, owner |-> p.uid]

deleteOmittedRoleBindings(p, b) ==
    IF b # Gone /\ b.owner = p.uid /\ b.managed THEN Fine(Gone) ELSE Fine(live.binding)

getOrCreateRoleBinding(p) ==
    IF live.binding # Gone \/ live.namespace = Gone THEN Err("binding")
    ELSE Fine(buildRoleBinding(p))

shouldUpdateRoleBinding(b) == ~b.managed \/ b.role # maps.bindings.role

\* What becomes of a binding whose roleRef, which cannot be updated, has to change: it is
\* deleted, and created in a step of its own.
Recreate == [ok |-> TRUE, obj |-> Gone, then |-> "rebind"]

manageStaticRoleBinding(p, b) ==
    IF ~shouldUpdateRoleBinding(b) THEN Fine(live.binding)
    ELSE IF b.role # maps.bindings.role
    THEN IF live.binding = Gone THEN Err("binding") ELSE Recreate
    ELSE Updated("binding", [b EXCEPT !.managed = TRUE,
                                      !.owner = IF @ = Nobody THEN p.uid ELSE @])

\* The ConfigMap can be read and says which bindings there are.
getRoleBindingMapFromCm == maps.bindings.state # "broken"

\* handleResourceInner
BindingOutcome(p, b) ==
    IF ~KaiProjectToNamespace(p) THEN Err("binding")
    ELSE IF setup.mode = "require" /\ seen.namespace = Gone THEN Fine(live.binding)
    ELSE IF ~getRoleBindingMapFromCm THEN Err("binding")
    ELSE IF maps.bindings.state = "omitted" THEN deleteOmittedRoleBindings(p, b)
    ELSE IF b = Gone THEN getOrCreateRoleBinding(p)
    ELSE manageStaticRoleBinding(p, b)

HandleRoleBindings ==
    LET p == job.copy
        out == BindingOutcome(p, seen.binding) IN
    /\ job.step = "bindings"
    /\ \/ out # Recreate /\ Handle("binding", "bindings", out)
       \/ /\ out = Recreate
          /\ \E ok \in {"made", "refused", "lost"} :
               /\ Call("binding", Gone, ok)
               /\ job' = IF ok = "made"
                         THEN [job EXCEPT !.step = "rebind"]
                         ELSE [Noted("bindings", FALSE) EXCEPT !.step = Then[@]]
          /\ UNCHANGED <<setup, seen, maps, work, queued, born, edits>>

\* The created binding has the ConfigMap's subjects as they are: the API server refuses a
\* service account without a namespace.  AlreadyExists is success.
recreateRoleBinding ==
    /\ job.step = "rebind"
    /\ Handle("binding", "bindings",
              IF live.binding # Gone THEN Fine(live.binding)
              ELSE IF live.namespace = Gone \/ maps.bindings.bare THEN Err("binding")
              ELSE Fine(buildRoleBinding(job.copy)))

-----------------------------------------------------------------------------
(* The queue handler: one step per node pool, then the queues no longer     *)
(* needed.                                                                  *)

IsExternalQueue(q, u) == setup.external /\ q.owner # u

\* expects: which owner of the project's name the caller takes for itself.
isQueueTakenByOtherResource(n, u, expects) ==
    LET q == seen.queues[n] IN
    /\ q # Gone
    /\ \/ IsExternalQueue(q, u)
       \/ expects = "department" /\ q.owner \in Uids
       \/ expects = "project" /\ (q.owner = Twin \/ (q.owner \in Uids /\ ~q.label))
       \/ q.owner = Other

getExistingQueueByLabels(u, r) ==
    {n \in Names : /\ seen.queues[n] # Gone
                   /\ seen.queues[n].label /\ seen.queues[n].pool = r
                   /\ seen.queues[n].owner \in Uids
                   /\ ~IsExternalQueue(seen.queues[n], u)}

getExistingQueueOfProject(u, r) ==
    IF getExistingQueueByLabels(u, r) # {} THEN getExistingQueueByLabels(u, r)
    ELSE {n \in {Suggested[r]} : /\ seen.queues[n] # Gone
                                 /\ ~isQueueTakenByOtherResource(n, u, "project")}

\* The code passes the project's name where the callee expects the department's.
SuggestedQueueTaken(n, u) == isQueueTakenByOtherResource(n, u, "department")

generateQueueNameForResource(u, r) ==
    IF ~SuggestedQueueTaken(Suggested[r], u) THEN {Suggested[r]}
    ELSE {n \in Suffixed[r] : ~SuggestedQueueTaken(n, u)}

buildQueueFromSpec(p, r) == NewQueue(p.uid, r, r \in maps.parents)

Put(n, q) == [live.queues EXCEPT ![n] = q]

\* AlreadyExists is success.
createQueue(n, q) == Fine(IF live.queues[n] # Gone THEN live.queues ELSE Put(n, q))

\* Bug: the update carries no resource version.
MutantHandleExisting(n, expected) ==
    LET q == seen.queues[n]
        updated == [expected EXCEPT !.usage = q.usage] IN
    IF q = updated \/ q.override \/ IsExternalQueue(q, expected.owner) THEN Fine(live.queues)
    ELSE IF live.queues[n] = Gone THEN Err("queues")
    ELSE Fine(Put(n, updated))

\* The update carries the cached resource version: equal contents stand for equal versions.
updateExistingQueue(n, updated) ==
    IF live.queues[n] # seen.queues[n] THEN Err("queues") ELSE Fine(Put(n, updated))

\* The update keeps the status.
handleExisting(n, expected) ==
    LET q == seen.queues[n]
        updated == [expected EXCEPT !.usage = q.usage] IN
    IF q = updated \/ q.override \/ IsExternalQueue(q, expected.owner) THEN Fine(live.queues)
    ELSE updateExistingQueue(n, updated)

\* The result of a node pool and the name it is recorded under.
reconcileQueueObject(p, r) ==
    LET found == getExistingQueueOfProject(p.uid, r)
        expected == buildQueueFromSpec(p, r) IN
    IF found # {} THEN {<<n, handleExisting(n, expected)>> : n \in found}
    ELSE {<<n, createQueue(n, expected)>> : n \in generateQueueNameForResource(p.uid, r)}

HandleQueue ==
    /\ job.step = "queues" /\ job.todo # {}
    /\ \E r \in job.todo : \E res \in reconcileQueueObject(job.copy, r) :
       \E ok \in {"made", "refused", "lost"} :
         /\ Call("queues", res[2].obj, ok)
         /\ job' = IF res[2].ok /\ ok = "made"
                   THEN [job EXCEPT !.todo = @ \ {r}, !.kept = @ \cup {res[1]}]
                   ELSE [job EXCEPT !.todo = @ \ {r}, !.bad = TRUE]
    /\ UNCHANGED <<setup, seen, maps, work, queued, born, edits>>

Without(names) == [n \in Names |-> IF n \in names THEN Gone ELSE live.queues[n]]

\* Deleting queues one after another: each call may fail, a failure does not stop the rest.
DeleteQueues(targets, fine) ==
    /\ \E failed \in SUBSET (targets \cap {n \in Names : live.queues[n] # Gone}) :
         /\ IF failed = {} THEN UNCHANGED failures ELSE MayFail
         /\ Store("queues", Without(targets \ failed))
         /\ job' = [Noted("queues", fine /\ failed = {}) EXCEPT !.step = Then[@]]
    /\ UNCHANGED <<setup, seen, maps, work, queued, born, edits>>

deleteUnnecessaryQueues(p) ==
    {n \in ListProjectQueues \ job.kept : /\ seen.queues[n].owner \in Uids
                                          /\ ~IsExternalQueue(seen.queues[n], p.uid)}

\* Nothing is deleted when a node pool failed; a queue that is already gone is an error.
FinishQueues ==
    LET targets == IF job.bad THEN {} ELSE deleteUnnecessaryQueues(job.copy) IN
    /\ job.step = "queues" /\ job.todo = {}
    /\ DeleteQueues(targets, ~job.bad /\ \A n \in targets : live.queues[n] # Gone)

-----------------------------------------------------------------------------
(* The limit-range handler and the end of the reconcile.                    *)

buildLimitRange(p) == [value |-> maps.limits, owner |-> p.uid, override |-> FALSE]

\* Bug: a missing ConfigMap is not told from an empty one.
MutantHandleLimitRange(p, l) ==
    IF ~KaiProjectToNamespace(p) THEN Err("limits")
    ELSE IF l = Gone THEN IF live.limits # Gone \/ live.namespace = Gone THEN Err("limits")
                          ELSE Fine(buildLimitRange(p))
    ELSE IF l.override THEN Fine(live.limits)
    ELSE Updated("limits", [l EXCEPT !.value = maps.limits])

\* Without the ConfigMap nothing is done, not even for a limit range that exists.
handleLimitRange(p, l) ==
    IF maps.limits = "absent" THEN Fine(live.limits)
    ELSE IF ~KaiProjectToNamespace(p) THEN Err("limits")
    ELSE IF l = Gone THEN IF live.limits # Gone \/ live.namespace = Gone THEN Err("limits")
                          ELSE Fine(buildLimitRange(p))
    ELSE IF l.override THEN Fine(live.limits)
    ELSE Updated("limits", [l EXCEPT !.value = maps.limits])

HandleLimitRange ==
    /\ job.step = "limits"
    /\ Handle("limits", "limits", handleLimitRange(job.copy, seen.limits))

setQuotaStatuses(status) ==
    [status EXCEPT !.quotas = {<<seen.queues[n].pool, seen.queues[n].usage>> :
                                  n \in ListProjectQueues}]

getProjectStatus(status, changed) ==
    setQuotaStatuses(setPhase([status EXCEPT !.namespace = KaiProjectToNamespace(job.copy)],
                              changed, FALSE))

\* status.namespace, phase and quotas, patched when they or a condition changed.  The
\* project is there: this reconcile has put the finalizer on it.
ReconcileStatus ==
    LET old == job.copy.status
        found == KaiProjectToNamespace(job.copy)
        new == getProjectStatus(old, job.changed) IN
    /\ job.step = "status"
    /\ IF new = old /\ ~job.changed
       THEN Unstored /\ UNCHANGED failures /\ Done(job.failed \/ ~found)
       ELSE \E ok \in {"made", "refused", "lost"} :
              /\ Call("project", PatchedStatus(new), ok)
              /\ Done(job.failed \/ ~found \/ ok # "made")
    /\ UNCHANGED <<setup, seen, maps, work, born, edits>>

-----------------------------------------------------------------------------
(* Deletion.                                                                *)

\* Bug: the blockers' error does not end finalizeProject.
MutantCheckBlockers ==
    LET blocked == work \/ ~KaiProjectToNamespace(job.copy) IN
    /\ job.step = "blockers"
    /\ job' = [Noted("blockers", ~blocked) EXCEPT !.step = "dropQueues"]
    /\ Unstored
    /\ UNCHANGED <<setup, seen, maps, work, queued, born, edits, failures>>

\* A namespace that cannot be resolved and a failed list block like a workload.
CheckBlockers ==
    LET blocked == work \/ ~KaiProjectToNamespace(job.copy) IN
    /\ job.step = "blockers"
    /\ \/ ~blocked /\ UNCHANGED failures
          /\ job' = [Noted("blockers", TRUE) EXCEPT !.step = Then[@]]
       \/ /\ IF blocked THEN UNCHANGED failures ELSE MayFail
          /\ job' = [Noted("blockers", FALSE) EXCEPT !.step = "deletionStatus"]
    /\ Unstored
    /\ UNCHANGED <<setup, seen, maps, work, queued, born, edits>>

DeletesResource(q) == ~q.override /\ ~IsExternalQueue(q, job.copy.uid)

QueueOnDelete ==
    /\ job.step = "dropQueues"
    /\ DeleteQueues({n \in ListProjectQueues : DeletesResource(seen.queues[n])}, TRUE)

IsProjectOwner(p, obj) == obj.owner = p.uid

\* The limit range stays in the namespace, without its owner.
LimitRangeOnDelete ==
    LET l == seen.limits IN
    /\ job.step = "dropLimits"
    /\ \/ /\ ~KaiProjectToNamespace(job.copy)
          /\ job' = [job EXCEPT !.step = Then[@]]
          /\ Unstored /\ UNCHANGED <<setup, seen, maps, work, queued, born, edits, failures>>
       \/ /\ KaiProjectToNamespace(job.copy)
          /\ Handle("limits", "limits",
                    IF l # Gone /\ IsProjectOwner(job.copy, l)
                    THEN Updated("limits", [l EXCEPT !.owner = Nobody])
                    ELSE Fine(live.limits))

\* Bug: Finalize swallows the error of the deletion.
MutantReconcileStatusOnDeletion ==
    LET new == setPhase(job.copy.status, job.changed, TRUE)
        Next(force) == IF job.failed /\ ~force THEN Done(FALSE)
                       ELSE job' = [job EXCEPT !.step = "release"] /\ UNCHANGED queued IN
    /\ job.step = "deletionStatus"
    /\ IF ~job.changed \/ live.project = Gone
       THEN Unstored /\ UNCHANGED failures /\ Next(job.copy.force)
       ELSE \E ok \in {"made", "refused", "lost"} :
              /\ Call("project", PatchedStatus(new), ok)
              /\ Next(IF ok = "made" THEN live.project.force ELSE job.copy.force)
    /\ UNCHANGED <<setup, seen, maps, work, born, edits>>

\* The patch's failure is ignored; its answer refreshes the copy.  An error of the
\* deletion ends the reconcile unless the copy asks for force.
ReconcileStatusOnDeletion ==
    LET new == setPhase(job.copy.status, job.changed, TRUE)
        Next(force) == IF job.failed /\ ~force THEN Done(TRUE)
                       ELSE job' = [job EXCEPT !.step = "release"] /\ UNCHANGED queued IN
    /\ job.step = "deletionStatus"
    /\ IF ~job.changed \/ live.project = Gone
       THEN Unstored /\ UNCHANGED failures /\ Next(job.copy.force)
       ELSE \E ok \in {"made", "refused", "lost"} :
              /\ Call("project", PatchedStatus(new), ok)
              /\ Next(IF ok = "made" THEN live.project.force ELSE job.copy.force)
    /\ UNCHANGED <<setup, seen, maps, work, born, edits>>

\* Removing the last finalizer of a deleted project removes the project.
deleteFinalizer ==
    LET p == live.project IN
    /\ job.step = "release"
    /\ IF p = Gone
       THEN Unstored /\ UNCHANGED failures /\ Done(TRUE)
       ELSE \E ok \in {"made", "refused", "lost"} :
              /\ Call("project", IF p.deleting THEN Gone ELSE [p EXCEPT !.finalizer = FALSE], ok)
              /\ Done(ok # "made")
    /\ UNCHANGED <<setup, seen, maps, work, born, edits>>

-----------------------------------------------------------------------------
(* Informers, the garbage collector and restarts.                           *)

\* The caches the next step reads.  A delivery between two steps that do not read the kind
\* cannot be told from one just before the next step that reads it, so it happens there.
ReadNext ==
    CASE job.step = "idle" -> Kinds
      [] job.step = "bindings" -> {"namespace", "binding"}
      [] job.step \in {"queues", "dropQueues"} -> {"queues"}
      [] job.step \in {"limits", "dropLimits"} -> {"namespace", "limits"}
      [] job.step = "status" -> {"namespace", "queues"}
      [] job.step \in {"namespace", "blockers"} -> {"namespace"}
      [] OTHER -> {}

Sync(kind) ==
    /\ kind \in stale \cap ReadNext
    /\ seen' = [seen EXCEPT ![kind] = live[kind]]
    /\ stale' = stale \ {kind}
    /\ alarms' = alarms \ {kind}
    /\ queued' = (queued \/ kind \in alarms)
    /\ UNCHANGED <<setup, live, maps, work, job, born, edits, failures>>

Orphan(obj) == /\ obj # Gone /\ obj.owner \in Uids
               /\ ~(live.project # Gone /\ live.project.uid = obj.owner)

GarbageCollect ==
    /\ \/ \E kind \in {"binding", "limits"} : Orphan(live[kind]) /\ Store(kind, Gone)
       \/ \E n \in Names : Orphan(live.queues[n]) /\ Store("queues", Put(n, Gone))
    /\ UNCHANGED <<setup, seen, maps, work, queued, job, born, edits, failures>>

\* A restarted controller lists every object and queues what its filters pass.
Restart ==
    LET nothing == [kind \in Kinds |-> IF kind = "queues" THEN [n \in Names |-> Gone] ELSE Gone] IN
    /\ MayFail
    /\ seen' = live
    /\ stale' = {} /\ alarms' = {}
    /\ job' = Idle
    /\ queued' = \E kind \in Kinds : /\ live[kind] # nothing[kind]
                                     /\ FilterProjectEvent(kind, nothing[kind], live[kind])
    /\ UNCHANGED <<setup, live, maps, work, born, edits>>

-----------------------------------------------------------------------------
(* Users, the scheduler and other parties: each kind of edit at most once.  *)

Edit(kind) ==
    /\ kind \in setup.edits \ edits
    /\ Cardinality(edits) < MaxEdits
    /\ edits' = edits \cup {kind}
    /\ UNCHANGED <<setup, seen, job, failures>>

CreateProject ==
    /\ Edit("create")
    /\ live.project = Gone
    /\ \E u \in Uids \ born : /\ Store("project", NewProject(u, Pools))
                              /\ born' = born \cup {u}
    /\ UNCHANGED <<maps, work, queued>>

EditProject ==
    LET p == live.project IN
    /\ p # Gone
    /\ \/ /\ Edit("delete") /\ ~p.deleting
          /\ Store("project", IF p.finalizer THEN [p EXCEPT !.deleting = TRUE] ELSE Gone)
       \/ /\ Edit("pools")
          /\ \E ps \in SUBSET Pools \ {p.pools} : Store("project", [p EXCEPT !.pools = ps])
       \/ Edit("enforce") /\ Store("project", [p EXCEPT !.enforce = ~@])
       \/ Edit("force") /\ Store("project", [p EXCEPT !.force = TRUE])
       \/ Edit("override") /\ Store("project", [p EXCEPT !.override = TRUE])
    /\ UNCHANGED <<maps, work, queued, born>>

EditQueue ==
    /\ \E n \in Names : LET q == live.queues[n] IN
         \/ /\ q # Gone /\ q.owner \in Uids
            /\ \/ Edit("overrideQueue") /\ Store("queues", Put(n, [q EXCEPT !.override = TRUE]))
               \/ Edit("dropQueue") /\ Store("queues", Put(n, Gone))
               \/ Edit("usage") /\ \E use \in SUBSET Resources \ {q.usage} :
                                      Store("queues", Put(n, [q EXCEPT !.usage = use]))
         \* the name is free, or freed, and another project takes it
         \/ /\ Edit("seize") /\ ~(q # Gone /\ q.owner \in {Twin, Other})
            /\ Store("queues", Put(n, OthersQueue(Other)))
    /\ UNCHANGED <<maps, work, queued, born>>

DropNamespaced ==
    /\ \/ Edit("dropBinding") /\ live.binding # Gone /\ Store("binding", Gone)
       \/ Edit("dropLimits") /\ live.limits # Gone /\ Store("limits", Gone)
    /\ UNCHANGED <<maps, work, queued, born>>

\* A namespace goes with everything in it.
DropNamespace ==
    /\ Edit("dropNamespace") /\ live.namespace # Gone
    /\ live' = [live EXCEPT !.namespace = Gone, !.binding = Gone, !.limits = Gone]
    /\ LET dropped == {k \in {"namespace", "binding", "limits"} : live[k] # Gone} IN
       /\ stale' = stale \cup dropped
       /\ alarms' = alarms \cup {k \in dropped : FilterProjectEvent(k, live[k], Gone)}
    /\ work' = FALSE
    /\ UNCHANGED <<maps, queued, born>>

MakeNamespace ==
    /\ Edit("makeNamespace") /\ live.namespace = Gone
    /\ \E label \in {"none", "mine", "other"} :
          Store("namespace", [label |-> label, enforce |-> FALSE, override |-> FALSE])
    /\ UNCHANGED <<maps, work, queued, born>>

BindingMaps == [state : {"listed"}, role : Roles, bare : BOOLEAN]
               \cup [state : {"omitted", "broken"}, role : {CHOOSE r \in Roles : TRUE}, bare : {FALSE}]
LimitMaps == {"absent", "low", "high"}

\* MapRoleBindingsConfigMapToProjectEvents skips an overridden project.
EditBindingsMap ==
    /\ Edit("bindings")
    /\ \E m \in BindingMaps \ {maps.bindings} : maps' = [maps EXCEPT !.bindings = m]
    /\ queued' = (queued \/ (seen.project # Gone /\ ~seen.project.override))
    /\ Unstored
    /\ UNCHANGED <<work, born>>

\* The limit-range reconciler sends an event for every project through a channel, which no
\* filter sees.
EditLimitsMap ==
    /\ Edit("limits")
    /\ \E m \in LimitMaps \ {maps.limits} : maps' = [maps EXCEPT !.limits = m]
    /\ queued' = (queued \/ seen.project # Gone)
    /\ Unstored
    /\ UNCHANGED <<work, born>>

\* A queue of the parent department comes or goes; MapQueueToChildProjects is not filtered.
EditParents ==
    /\ Edit("parents")
    /\ \E ps \in SUBSET Pools \ {maps.parents} : maps' = [maps EXCEPT !.parents = ps]
    /\ queued' = (queued \/ seen.project # Gone)
    /\ Unstored
    /\ UNCHANGED <<work, born>>

\* Workloads are not started in the namespace of a project that is being deleted.
ChangeWork ==
    /\ \/ /\ Edit("start") /\ ~work /\ live.namespace # Gone
          /\ live.project # Gone /\ ~live.project.deleting
       \/ Edit("stop") /\ work
    /\ work' = ~work
    /\ Unstored
    /\ UNCHANGED <<maps, queued, born>>

-----------------------------------------------------------------------------
NamespaceAtStart ==
    IF setup.mode = "adopt" /\ setup.fresh THEN [label |-> "none", enforce |-> FALSE, override |-> FALSE]
    ELSE IF setup.mode = "create" /\ setup.fresh THEN Gone
    ELSE [label |-> "mine", enforce |-> FALSE, override |-> FALSE]

SettledStatus ==
    [namespace |-> TRUE, conds |-> [t \in Types |-> IF t = "blockers" THEN "unset" ELSE "true"],
     phase |-> "Ready", quotas |-> {<<r, {}>> : r \in Pools}, total |-> {}]

HeldQueue(n) == IF n \in DOMAIN Held THEN OthersQueue(Held[n]) ELSE Gone

Init ==
    /\ setup \in Setups
    /\ maps = [bindings |-> [state |-> "listed", role |-> CHOOSE r \in Roles : TRUE, bare |-> FALSE],
               limits |-> "low", parents |-> Pools]
    /\ LET u == CHOOSE v \in Uids : TRUE IN
         /\ born = {u}
         /\ live = IF setup.fresh
                   THEN [project |-> NewProject(u, Pools), namespace |-> NamespaceAtStart,
                         binding |-> Gone, limits |-> Gone,
                         queues |-> [n \in Names |-> HeldQueue(n)]]
                   ELSE [project |-> [NewProject(u, Pools) EXCEPT !.finalizer = TRUE,
                                                                  !.status = SettledStatus],
                         namespace |-> NamespaceAtStart,
                         binding |-> [role |-> maps.bindings.role, managed |-> TRUE, owner |-> u],
                         limits |-> [value |-> "low", owner |-> u, override |-> FALSE],
                         queues |-> [n \in Names |->
                            IF \E r \in Pools : Suggested[r] = n
                            THEN NewQueue(u, CHOOSE r \in Pools : Suggested[r] = n, TRUE)
                            ELSE HeldQueue(n)]]
    /\ seen = live
    /\ stale = {} /\ alarms = {}
    /\ work = FALSE
    /\ queued = setup.fresh
    /\ job = Idle
    /\ edits = {} /\ failures = 0

Controller ==
    \/ ReconcileNothing \/ Reconcile \/ Finalize
    \/ HandleNamespace \/ HandleRoleBindings \/ recreateRoleBinding
    \/ HandleQueue \/ FinishQueues \/ HandleLimitRange \/ ReconcileStatus
    \/ CheckBlockers \/ QueueOnDelete \/ LimitRangeOnDelete
    \/ ReconcileStatusOnDeletion \/ deleteFinalizer

Users == \/ CreateProject \/ EditProject \/ EditQueue \/ DropNamespaced \/ DropNamespace
         \/ MakeNamespace \/ EditBindingsMap \/ EditLimitsMap \/ EditParents \/ ChangeWork

Next == Controller \/ (\E kind \in Kinds : Sync(kind)) \/ GarbageCollect \/ Restart \/ Users

\* The worker runs, the informers deliver and the garbage collector collects.  An informer
\* delivers whatever the worker does; ReadNext lets it only now and then, hence SF.
Spec == /\ Init /\ [][Next]_vars
        /\ WF_vars(Controller)
        /\ \A kind \in Kinds : SF_vars(Sync(kind))
        /\ WF_vars(GarbageCollect)

-----------------------------------------------------------------------------
(* Properties.                                                              *)

\* Objects, caches and the reconcile in progress have the shape the code gives them.
TypeOK ==
    /\ setup \in Setups
    /\ live \in World /\ seen \in World
    /\ stale \subseteq Kinds /\ alarms \subseteq stale
    /\ maps \in [bindings : BindingMaps, limits : LimitMaps, parents : SUBSET Pools]
    /\ work \in BOOLEAN /\ queued \in BOOLEAN
    /\ job = Idle \/ job \in Job
    /\ born \subseteq Uids /\ edits \subseteq Edits /\ failures \in 0 .. MaxFailures

OwnedQueues(u) == {n \in Names : live.queues[n] # Gone /\ live.queues[n].owner = u}

\* One queue per node pool of the spec, under the parent's queue where there is one.
QueuesRight(p) ==
    \/ {"overrideQueue", "seize"} \cap edits # {}
    \/ /\ \A r \in p.pools : \E n \in OwnedQueues(p.uid) :
            /\ {m \in OwnedQueues(p.uid) : live.queues[m].pool = r} = {n}
            /\ live.queues[n].placed = (r \in maps.parents)
       /\ \A n \in OwnedQueues(p.uid) : live.queues[n].pool \in p.pools

BindingRight(p) ==
    CASE maps.bindings.state = "listed" ->
           /\ live.binding # Gone
           /\ live.binding.role = maps.bindings.role /\ live.binding.managed
      [] maps.bindings.state = "omitted" ->
           live.binding = Gone \/ live.binding.owner # p.uid \/ ~live.binding.managed
      [] OTHER -> TRUE

\* Only the limit range of a namespace with KRM's prefix, and with an owner, is watched.
LimitsRight(p) ==
    \/ maps.limits = "absent"
    \/ "dropLimits" \in edits /\ (setup.mode # "create" \/ "create" \in edits)
    \/ live.limits # Gone /\ live.limits.value = maps.limits

NamespaceRight(p) ==
    /\ live.namespace # Gone /\ live.namespace.label = "mine"
    /\ setup.mode = "require" \/ live.namespace.enforce = p.enforce

\* A namespace the project may not have: it waits for the administrator.
NamespaceWithheld ==
    /\ setup.mode # "create"
    /\ live.namespace = Gone \/ live.namespace.label # "mine"

ResourcesRight(p) ==
    /\ p.finalizer
    /\ QueuesRight(p)
    /\ NamespaceWithheld \/ (NamespaceRight(p) /\ BindingRight(p) /\ LimitsRight(p))

RightlyKept(p) ==
    /\ p.finalizer
    /\ p.override \/ (setup.blocking /\ ~p.force /\ (work \/ ~p.status.namespace))

NothingLeft ==
    /\ \A u \in Uids : OwnedQueues(u) = {}
    /\ live.binding = Gone \/ live.binding.owner = Nobody
    /\ live.limits = Gone \/ live.limits.owner = Nobody

Settled ==
    IF live.project = Gone THEN NothingLeft
    ELSE IF live.project.deleting THEN RightlyKept(live.project)
    ELSE live.project.override \/ ResourcesRight(live.project)

\* Nothing is left to do: no reconcile, no queued request, no undelivered event, no orphan.
AtRest == /\ job = Idle /\ ~queued /\ stale = {}
          /\ \A kind \in {"binding", "limits"} : ~Orphan(live[kind])
          /\ \A n \in Names : ~Orphan(live.queues[n])

\* When nothing is left to do, a project has its namespace, role binding, limit range and
\* exactly one queue per node pool, and a deleted one is gone with its queues or kept by a
\* blocker: no order of events, lags, failures and restarts makes the controller forget a
\* part (reconcileProject, Finalize and the filters of its events).
NothingForgotten == AtRest => Settled

\* The same is reached and kept once users stop, also when errors are retried for ever.
Settles == <>[]Settled

Blocked == /\ live.project # Gone /\ live.project.deleting
           /\ setup.blocking /\ work /\ ~live.project.force

\* While a blocker holds a Blocking project, its finalizer stays and its deletion removes
\* none of its queues (finalizeProject returns before the deletion handlers).
BlockedIsKept ==
    [][Blocked => /\ live'.project # Gone /\ live'.project.finalizer
                  /\ job.step = "dropQueues" => live'.queues = live.queues]_vars

\* A queue that another project or department took is never taken over, whatever the cache
\* still says of it (isQueueTakenByOtherResource, and updates with a resource version).
OthersKeepTheirQueues ==
    [][\A n \in Names : /\ live.queues[n] # Gone
                        /\ live.queues[n].owner \in {Twin, Other}
                        /\ live'.queues[n] # Gone
                        => live'.queues[n].owner = live.queues[n].owner]_vars

\* A project that is Ready when nothing is left to do has every queue
\* (conditions-and-phases: "Everything the project needs exists").
ReadyMeansQueues ==
    /\ AtRest
    /\ live.project # Gone /\ ~live.project.deleting
    /\ live.project.status.phase = "Ready"
    => \A r \in live.project.pools : \E n \in OwnedQueues(live.project.uid) :
          live.queues[n].pool = r

\* When nothing is left to do and everything the project needs exists, its phase is Ready.
PhaseFollows ==
    /\ AtRest
    /\ live.project # Gone /\ ~live.project.deleting
    => live.project.status.phase = "Ready"
=============================================================================
