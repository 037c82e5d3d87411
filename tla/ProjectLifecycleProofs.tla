---------------------- MODULE ProjectLifecycleProofs ----------------------
(* Proofs about ProjectLifecycle: its types, that a blocked project keeps     *)
(* its finalizer and its queues (BlockedIsKept), and that no queue of another *)
(* project or department changes hands (OthersKeepTheirQueues).               *)
(*                                                                           *)
(* A deletion works on what the cache has, and a project with the same name   *)
(* may have replaced the cached one meanwhile.  What saves it from the        *)
(* deletion of the first is its finalizer: no reconcile puts it on a project  *)
(* while the cache still has the deleted one.  And nothing that was not       *)
(* blocked when the blockers were read starts to be while the deletion goes   *)
(* on: workloads do not start under a project that is being deleted.          *)
EXTENDS ProjectLifecycle, TLAPS

\* Z3 first, then Zenon; a leaf that cites Zenon starts with it.
USE SMTT(30), ZenonT(30)

\* What an object of a kind may be.
Fits(kind, obj) ==
    /\ kind = "project" => obj \in Project \cup {Gone}
    /\ kind = "namespace" => obj \in Namespace \cup {Gone}
    /\ kind = "binding" => obj \in Binding \cup {Gone}
    /\ kind = "limits" => obj \in Limits \cup {Gone}
    /\ kind = "queues" => obj \in [Names -> Queue \cup {Gone}]

\* Only the object of that kind may change.
Rest(kind) == \A k \in Kinds \ {kind} : live'[k] = live[k]

-----------------------------------------------------------------------------
(* Types.                                                                    *)

\* The objects of a world.
LEMMA WorldIs ==
    ASSUME NEW w \in World
    PROVE  /\ w.project \in Project \cup {Gone} /\ w.namespace \in Namespace \cup {Gone}
           /\ w.binding \in Binding \cup {Gone} /\ w.limits \in Limits \cup {Gone}
           /\ w.queues \in [Names -> Queue \cup {Gone}]
           /\ \A kind \in Kinds : Fits(kind, w[kind])
BY DEF World, Kinds, Fits

\* What a write does: it may change the object, and the cache lags behind it.
LEMMA StoreIs ==
    ASSUME live \in World, stale \subseteq Kinds, alarms \subseteq stale,
           NEW kind \in Kinds, NEW obj, Fits(kind, obj), Store(kind, obj)
    PROVE  /\ live' \in World /\ stale' \subseteq Kinds /\ alarms' \subseteq stale'
           /\ live'[kind] = obj /\ Rest(kind)
<1>1. live' \in World /\ live'[kind] = obj /\ Rest(kind)
  <2>1. live' = [live EXCEPT ![kind] = obj]
    BY DEF Store
  <2> QED BY <2>1 DEF World, Kinds, Fits, Rest
<1>2. stale' \subseteq Kinds /\ alarms' \subseteq stale'
  <2> DEFINE passes == FilterProjectEvent(kind, live[kind], obj)
  <2>1. stale' = IF obj = live[kind] THEN stale ELSE stale \cup {kind}
    BY DEF Store
  <2>2. alarms' = IF obj # live[kind] /\ passes THEN alarms \cup {kind} ELSE alarms
    BY DEF Store
  <2> HIDE DEF passes
  <2> QED BY <2>1, <2>2
<1> QED BY <1>1, <1>2

\* One API write: made, refused or made with the answer lost.
LEMMA CallIs ==
    ASSUME TypeOK, NEW kind \in Kinds, NEW obj, Fits(kind, obj), NEW ok, Call(kind, obj, ok)
    PROVE  /\ live' \in World /\ stale' \subseteq Kinds /\ alarms' \subseteq stale'
           /\ live'[kind] \in {obj, live[kind]} /\ Rest(kind)
           /\ ok = "made" => live'[kind] = obj
           /\ failures' \in 0 .. MaxFailures
<1>1. failures' \in 0 .. MaxFailures
  BY ConstantsAssumption DEF Call, MayFail, TypeOK
<1>2. CASE Store(kind, obj) /\ ok # "refused"
  BY <1>1, <1>2, StoreIs DEF TypeOK
<1>3. CASE ok = "refused" /\ Unstored
  BY <1>1, <1>3 DEF Unstored, Rest, TypeOK
<1> QED BY <1>2, <1>3 DEF Call

\* A status with a handler's result, with its phase, with its quotas.
LEMMA StatusTyped ==
    ASSUME NEW status \in Status
    PROVE  /\ \A type \in Types, ok \in BOOLEAN : UpdateProjectCondition(status, type, ok) \in Status
           /\ \A changed, onDeletion \in BOOLEAN : setPhase(status, changed, onDeletion) \in Status
           /\ seen \in World => setQuotaStatuses(status) \in Status
           /\ \A found \in BOOLEAN : [status EXCEPT !.namespace = found] \in Status
<1>1. ASSUME NEW type \in Types, NEW ok \in BOOLEAN
      PROVE  UpdateProjectCondition(status, type, ok) \in Status
  BY DEF UpdateProjectCondition, Status, Conditions
<1>2. ASSUME NEW changed \in BOOLEAN, NEW onDeletion \in BOOLEAN
      PROVE  setPhase(status, changed, onDeletion) \in Status
  BY DEF setPhase, Status
<1>3. ASSUME seen \in World PROVE setQuotaStatuses(status) \in Status
  <2> DEFINE quotas == {<<seen.queues[n].pool, seen.queues[n].usage>> : n \in ListProjectQueues}
  <2>1. \A n \in ListProjectQueues : seen.queues[n] \in Queue
    BY <1>3, WorldIs DEF ListProjectQueues
  <2>2. quotas \subseteq Pools \X SUBSET Resources
    BY <2>1 DEF Queue
  <2> HIDE DEF quotas
  <2>3. [status EXCEPT !.quotas = quotas] \in Status
    BY <2>2 DEF Status
  <2> QED BY <2>3 DEF setQuotaStatuses, quotas
<1>4. ASSUME NEW found \in BOOLEAN PROVE [status EXCEPT !.namespace = found] \in Status
  BY DEF Status
<1> QED BY <1>1, <1>2, <1>3, <1>4

\* Two states of the project that differ at most in its settings and its status.
SameProject(p, q) ==
    /\ p # Gone /\ q # Gone
    /\ p.uid = q.uid /\ p.deleting = q.deleting /\ p.finalizer = q.finalizer /\ p.force = q.force

\* A status patch changes the status.
LEMMA PatchTyped ==
    ASSUME live.project \in Project, NEW status \in Status
    PROVE  /\ PatchedStatus(status) \in Project
           /\ SameProject(live.project, PatchedStatus(status))
<1> DEFINE new == [status EXCEPT !.total = MergedTotal(live.project.status.total, Total(status.quotas))]
<1>1. Total(status.quotas) \subseteq Resources
  BY DEF Total, Status
<1>2. live.project.status.total \subseteq Resources
  BY DEF Project, Status
<1>3. MergedTotal(live.project.status.total, Total(status.quotas)) \subseteq Resources
  BY <1>1, <1>2 DEF MergedTotal
<1>4. new \in Status
  BY <1>3 DEF Status
<1> HIDE DEF new
<1>5. PatchedStatus(status) = [live.project EXCEPT !.status = new]
  BY DEF PatchedStatus, new
<1>6. PatchedStatus(status) \in Project
  BY <1>4, <1>5 DEF Project
<1> QED BY <1>5, <1>6, ConstantsAssumption DEF SameProject, Project

\* Recording a handler's result.
LEMMA NotedIs ==
    ASSUME job \in Job, NEW type \in Types, NEW ok \in BOOLEAN
    PROVE  LET j == Noted(type, ok) IN
           /\ j \in Job /\ j.step = job.step /\ j.copy.force = job.copy.force
           /\ j.failed = (job.failed \/ ~ok)
<1> DEFINE status == UpdateProjectCondition(job.copy.status, type, ok)
           copy == [job.copy EXCEPT !.status = status]
           changed == job.changed \/ status # job.copy.status
           failed == job.failed \/ ~ok
<1>1. job.copy \in Project /\ job.failed \in BOOLEAN /\ job.changed \in BOOLEAN
  BY DEF Job
<1>2. status \in Status
  BY <1>1, StatusTyped DEF Project
<1>3. changed \in BOOLEAN /\ failed \in BOOLEAN
  BY <1>1
<1>4. Noted(type, ok) = [job EXCEPT !.copy = copy, !.changed = changed, !.failed = failed]
  BY <1>1 DEF Noted, Job, Project
<1> HIDE DEF status, changed, failed
<1>5. copy \in Project /\ copy.force = job.copy.force
  BY <1>1, <1>2 DEF Project
<1> HIDE DEF copy
<1>6. /\ Noted(type, ok) \in Job /\ Noted(type, ok).step = job.step
      /\ Noted(type, ok).copy = copy /\ Noted(type, ok).failed = failed
  BY ZenonT(30), <1>3, <1>4, <1>5 DEF Job
<1> QED BY <1>5, <1>6 DEF failed

-----------------------------------------------------------------------------
(* The invariant.                                                            *)

\* The steps of a reconcile that makes the project's resources, and of one that removes them.
Making == {"namespace", "bindings", "rebind", "queues", "limits", "status"}
Removing == {"blockers", "dropQueues", "dropLimits", "deletionStatus", "release"}

\* No incarnation is used twice.
IncarnationsBorn ==
    /\ live.project # Gone => live.project.uid \in born
    /\ seen.project # Gone => seen.project.uid \in born

\* A project that is being deleted still has the finalizer.
FinalizerInPlace == live.project # Gone /\ live.project.deleting => live.project.finalizer

\* What the API server may have when the cache has this project: the same further on, or
\* another one with its name, which no reconcile has put the finalizer on.
Later(p) ==
    live.project # Gone =>
        /\ live.project.uid = p.uid => /\ p.deleting => live.project.deleting
                                       /\ p.force => live.project.force
        /\ live.project.uid # p.uid /\ p.deleting => ~live.project.finalizer

\* The finalizer that the cache shows on a project keeps it, up to its deletion.
CacheLags ==
    seen.project # Gone =>
        /\ Later(seen.project)
        /\ seen.project.finalizer /\ ~seen.project.deleting =>
              live.project # Gone /\ live.project.finalizer

\* A reconcile that makes resources has its project; one that removes them works on what
\* the cache still has.
JobFits ==
    /\ job.step \in Making => live.project # Gone /\ live.project.finalizer
    /\ job.step \in Removing => /\ seen.project # Gone /\ seen.project.deleting
                                /\ job.copy.force = seen.project.force

\* The blockers have been passed.
Past == \/ job.step \in {"dropQueues", "dropLimits", "release"}
        \/ job.step = "deletionStatus" /\ ~job.failed

\* Past the blockers nothing blocks, and nothing starts to.
Passed == Past => ~Blocked

Inv == /\ IncarnationsBorn /\ FinalizerInPlace /\ CacheLags /\ JobFits /\ Passed

\* What a step does to a project that is blocked.
Kept == Blocked => /\ live'.project # Gone /\ live'.project.finalizer
                   /\ job.step = "dropQueues" => live'.queues = live.queues

\* A queue that belongs to another project or to a department.
Foreign(q) == q # Gone /\ q.owner \in {Twin, Other}

\* No such queue changes hands.
QueuesKept == \A n \in Names : Foreign(live.queues[n]) /\ live'.queues[n] # Gone
                                => live'.queues[n].owner = live.queues[n].owner

\* How a step may leave the reconcile in progress.
JobGoesOn ==
    \/ job' = Idle
    \/ job.step \in Making /\ job'.step \in Making
    \/ /\ job.step \in Removing /\ job'.step \in Removing
       /\ job'.copy.force = job.copy.force
       /\ Past' => Past

ProjectStays ==
    /\ live'.project = live.project \/ SameProject(live.project, live'.project)
    /\ seen'.project = seen.project
    /\ UNCHANGED <<setup, work, born>>

\* A step that leaves the project alone keeps the invariant.
LEMMA Quiet ==
    ASSUME TypeOK, Inv, ProjectStays, JobGoesOn
    PROVE  Inv' /\ Kept
<1>1. IncarnationsBorn' /\ FinalizerInPlace'
  BY DEF Inv, ProjectStays, SameProject, IncarnationsBorn, FinalizerInPlace
<1>2. CacheLags'
  BY DEF Inv, ProjectStays, SameProject, CacheLags, Later
<1>3. Idle.step \notin Making \cup Removing
  BY DEF Idle, Making, Removing
<1>4. Making \cap Removing = {}
  BY DEF Making, Removing
<1>5. JobFits'
  BY <1>3, <1>4 DEF Inv, ProjectStays, SameProject, JobGoesOn, JobFits
<1>6. Blocked' <=> Blocked
  BY DEF ProjectStays, SameProject, Blocked
<1>7. Past' => Past
  BY <1>4 DEF JobGoesOn, Past, Idle, Making
<1>8. Passed'
  BY <1>6, <1>7 DEF Inv, Passed
<1>9. Kept
  <2>1. Blocked => live'.project # Gone /\ live'.project.finalizer
    BY ZenonT(30) DEF Inv, FinalizerInPlace, Blocked, ProjectStays, SameProject
  <2>2. Blocked => job.step # "dropQueues"
    BY DEF Inv, Passed, Past
  <2> QED BY <2>1, <2>2 DEF Kept
<1> QED BY <1>1, <1>2, <1>5, <1>8, <1>9 DEF Inv

\* A write to another kind leaves the project alone.
LEMMA RestStays ==
    ASSUME NEW kind \in Kinds \ {"project"}, Rest(kind)
    PROVE  /\ live'.project = live.project
           /\ kind # "queues" => live'.queues = live.queues /\ QueuesKept
BY DEF Rest, Kinds, QueuesKept

-----------------------------------------------------------------------------
(* The handlers.                                                             *)

\* A handler with its result recorded hands over to the next one.
LEMMA NextHandler ==
    ASSUME job \in Job, job.step \in (Making \ {"status"}) \cup {"dropQueues", "dropLimits"},
           NEW j \in Job, j.step = job.step, j.copy.force = job.copy.force,
           job' = [j EXCEPT !.step = Then[@]]
    PROVE  job' \in Job /\ JobGoesOn
<1>1. /\ job.step \in Making => Then[job.step] \in Making
      /\ job.step = "dropQueues" => Then[job.step] = "dropLimits"
      /\ job.step = "dropLimits" => Then[job.step] = "deletionStatus"
  BY DEF Then, Making
<1>2. job' \in Job /\ job'.step = Then[job.step] /\ job'.copy.force = job.copy.force
  BY <1>1 DEF Job, Making
<1>3. CASE job.step \in Making
  BY <1>1, <1>2, <1>3 DEF JobGoesOn
<1>4. CASE job.step \in {"dropQueues", "dropLimits"}
  BY <1>1, <1>2, <1>4 DEF JobGoesOn, Past, Removing
<1> QED BY <1>2, <1>3, <1>4

\* A reconcile in progress.
LEMMA InJob ==
    ASSUME TypeOK, job.step # "idle"
    PROVE  job \in Job
BY DEF TypeOK, Idle

\* A handler that makes one write to a resource of the project.
LEMMA HandleIs ==
    ASSUME TypeOK, Inv, job.step \in (Making \ {"status"}) \cup {"dropLimits"},
           NEW kind \in Kinds \ {"project", "queues"}, NEW type \in Types,
           NEW out, out.ok \in BOOLEAN, Fits(kind, out.obj), Handle(kind, type, out)
    PROVE  TypeOK' /\ Inv' /\ Kept /\ QueuesKept
<1>1. PICK ok \in {"made", "refused", "lost"} :
         /\ Call(kind, out.obj, ok)
         /\ job' = [Noted(type, out.ok /\ ok = "made") EXCEPT !.step = Then[@]]
  BY DEF Handle
<1>2. UNCHANGED <<setup, seen, maps, work, queued, born, edits>>
  BY DEF Handle
<1>3. job \in Job
  BY InJob DEF Making
<1>4. /\ live' \in World /\ stale' \subseteq Kinds /\ alarms' \subseteq stale'
      /\ Rest(kind) /\ failures' \in 0 .. MaxFailures
  BY <1>1, CallIs
<1> DEFINE good == out.ok /\ ok = "made"
<1>5. good \in BOOLEAN
  OBVIOUS
<1> HIDE DEF good
<1>6. /\ Noted(type, good) \in Job /\ Noted(type, good).step = job.step
      /\ Noted(type, good).copy.force = job.copy.force
  BY <1>3, <1>5, NotedIs
<1>7. job' = [Noted(type, good) EXCEPT !.step = Then[@]]
  BY <1>1 DEF good
<1>8. job' \in Job /\ JobGoesOn
  BY <1>3, <1>6, <1>7, NextHandler
<1>9. ProjectStays /\ QueuesKept
  BY <1>2, <1>4, RestStays DEF ProjectStays
<1>10. TypeOK'
  BY <1>2, <1>4, <1>8 DEF TypeOK
<1> QED BY <1>8, <1>9, <1>10, Quiet

\* The objects in the two worlds.
LEMMA TypedObjects ==
    ASSUME TypeOK
    PROVE  /\ live \in World /\ seen \in World /\ setup \in Setups
           /\ \A kind \in Kinds : Fits(kind, live[kind])
           /\ live.project \in Project \cup {Gone} /\ seen.project \in Project \cup {Gone}
           /\ live.namespace \in Namespace \cup {Gone} /\ seen.namespace \in Namespace \cup {Gone}
           /\ live.binding \in Binding \cup {Gone} /\ seen.binding \in Binding \cup {Gone}
           /\ live.limits \in Limits \cup {Gone} /\ seen.limits \in Limits \cup {Gone}
           /\ live.queues \in [Names -> Queue \cup {Gone}]
           /\ seen.queues \in [Names -> Queue \cup {Gone}]
BY WorldIs DEF TypeOK

\* What a handler makes of an update with the cached resource version.
LEMMA UpdatedIs ==
    ASSUME TypeOK, NEW kind \in Kinds, NEW obj, Fits(kind, obj)
    PROVE  /\ Updated(kind, obj).ok \in BOOLEAN /\ Fits(kind, Updated(kind, obj).obj)
           /\ Err(kind).ok \in BOOLEAN /\ Fits(kind, Err(kind).obj)
           /\ Fine(obj).ok \in BOOLEAN /\ Fine(obj).obj = obj
BY TypedObjects DEF Updated, Fine, Err

\* The namespace handler.
LEMMA NamespaceStep ==
    ASSUME TypeOK, Inv, HandleNamespace
    PROVE  TypeOK' /\ Inv' /\ Kept /\ QueuesKept
<1> DEFINE p == job.copy
           n == seen.namespace
           set == [n EXCEPT !.label = "mine", !.enforce = p.enforce]
           out == CASE setup.mode = "require" -> IF KaiProjectToNamespace(p) THEN Fine(live.namespace)
                                                 ELSE Err("namespace")
                    [] setup.mode = "adopt" -> handleUserExternalNamespaceForProject(p, n)
                    [] setup.mode = "create" /\ n = Gone -> handleNonExistingNamespace(p)
                    [] OTHER -> handleExistingNamespace(p, n)
           Good(o) == o.ok \in BOOLEAN /\ Fits("namespace", o.obj)
<1>1. job.step = "namespace" /\ Handle("namespace", "namespace", out)
  BY DEF HandleNamespace
<1>2. job \in Job /\ p.enforce \in BOOLEAN
  BY <1>1, InJob DEF Job, Project
<1>3. "namespace" \in Kinds \ {"project", "queues"} /\ "namespace" \in Types
  BY DEF Kinds, Types
<1>4. n # Gone => Fits("namespace", set)
  BY ZenonT(30), <1>2, TypedObjects DEF Fits, Namespace
<1>5. Fits("namespace", live.namespace) /\ Fits("namespace", GetNamespaceObject(p))
  BY <1>2, TypedObjects DEF Fits, Namespace, GetNamespaceObject
<1>6. /\ Good(Fine(live.namespace)) /\ Good(Err("namespace")) /\ Good(Fine(GetNamespaceObject(p)))
      /\ n # Gone => Good(Updated("namespace", set))
  BY <1>3, <1>4, <1>5, UpdatedIs
<1> HIDE DEF Good
<1>7. Good(handleUserExternalNamespaceForProject(p, n))
  BY <1>6 DEF handleUserExternalNamespaceForProject
<1>8. Good(handleNonExistingNamespace(p))
  BY <1>6 DEF handleNonExistingNamespace
<1>9. n # Gone => Good(handleExistingNamespace(p, n))
  BY <1>6 DEF handleExistingNamespace
<1>10. setup.mode \in {"create", "adopt", "require"}
  BY ConstantsAssumption, TypedObjects
<1>11. Good(out)
  BY <1>6, <1>7, <1>8, <1>9, <1>10
<1> HIDE DEF out
<1> QED BY <1>1, <1>3, <1>11, HandleIs DEF Good, Making

\* What the role-bindings handler writes.
LEMMA BindingTyped ==
    ASSUME TypeOK, NEW p \in Project
    PROVE  /\ BindingOutcome(p, seen.binding).ok \in BOOLEAN
           /\ Fits("binding", BindingOutcome(p, seen.binding).obj)
           /\ Fits("binding", buildRoleBinding(p)) /\ Fits("binding", Gone)
<1> DEFINE b == seen.binding
           kept == [b EXCEPT !.managed = TRUE, !.owner = IF @ = Nobody THEN p.uid ELSE @]
           Good(o) == o.ok \in BOOLEAN /\ Fits("binding", o.obj)
<1>1. maps.bindings.role \in Roles
  BY ZenonT(30), ConstantsAssumption DEF TypeOK, BindingMaps
<1>2. "binding" \in Kinds
  BY DEF Kinds
<1>3. /\ Fits("binding", buildRoleBinding(p)) /\ Fits("binding", Gone)
      /\ Fits("binding", live.binding)
  BY <1>1, TypedObjects DEF Fits, Binding, buildRoleBinding, Project
<1>4. b # Gone => Fits("binding", kept)
  BY ZenonT(30), TypedObjects DEF Fits, Binding, Project
<1>5. /\ Good(Fine(live.binding)) /\ Good(Err("binding")) /\ Good(Fine(Gone))
      /\ Good(Fine(buildRoleBinding(p)))
      /\ b # Gone => Good(Updated("binding", kept))
  BY <1>2, <1>3, <1>4, UpdatedIs
<1> HIDE DEF Good
<1>6. Good(deleteOmittedRoleBindings(p, b))
  BY <1>5 DEF deleteOmittedRoleBindings
<1>7. Good(getOrCreateRoleBinding(p))
  BY <1>5 DEF getOrCreateRoleBinding
<1>8. b # Gone => Good(manageStaticRoleBinding(p, b))
  <2>1. Good(Recreate)
    BY <1>3 DEF Good, Recreate
  <2> QED BY <1>5, <2>1 DEF manageStaticRoleBinding
<1>9. Good(BindingOutcome(p, b))
  BY <1>5, <1>6, <1>7, <1>8 DEF BindingOutcome
<1> QED BY <1>3, <1>9 DEF Good

\* The role-bindings handler.
LEMMA BindingsStep ==
    ASSUME TypeOK, Inv, HandleRoleBindings
    PROVE  TypeOK' /\ Inv' /\ Kept /\ QueuesKept
<1> DEFINE out == BindingOutcome(job.copy, seen.binding)
<1>1. job.step = "bindings"
  BY DEF HandleRoleBindings
<1>2. job \in Job /\ job.copy \in Project
  BY <1>1, InJob DEF Job
<1>3. out.ok \in BOOLEAN /\ Fits("binding", out.obj) /\ Fits("binding", Gone)
  BY <1>2, BindingTyped
<1>4. "binding" \in Kinds \ {"project", "queues"} /\ "bindings" \in Types /\ FALSE \in BOOLEAN
  BY DEF Kinds, Types
<1>5. CASE out # Recreate /\ Handle("binding", "bindings", out)
  <2> HIDE DEF out
  <2> QED BY <1>1, <1>3, <1>4, <1>5, HandleIs DEF Making
<1>6. ASSUME NEW ok \in {"made", "refused", "lost"}, Call("binding", Gone, ok),
             job' = IF ok = "made" THEN [job EXCEPT !.step = "rebind"]
                    ELSE [Noted("bindings", FALSE) EXCEPT !.step = Then[@]],
             UNCHANGED <<setup, seen, maps, work, queued, born, edits>>
      PROVE  TypeOK' /\ Inv' /\ Kept /\ QueuesKept
  <2> HIDE DEF out
  <2>1. /\ live' \in World /\ stale' \subseteq Kinds /\ alarms' \subseteq stale'
        /\ Rest("binding") /\ failures' \in 0 .. MaxFailures
    BY <1>3, <1>4, <1>6, CallIs
  <2>2. ASSUME job' = [job EXCEPT !.step = "rebind"]
        PROVE  JobGoesOn /\ job' \in Job
    BY <1>1, <1>2, <2>2 DEF JobGoesOn, Making, Job
  <2>3. ASSUME job' = [Noted("bindings", FALSE) EXCEPT !.step = Then[@]]
        PROVE  JobGoesOn /\ job' \in Job
    <3>1. /\ Noted("bindings", FALSE) \in Job /\ Noted("bindings", FALSE).step = job.step
          /\ Noted("bindings", FALSE).copy.force = job.copy.force
      BY ZenonT(30), <1>2, <1>4, NotedIs
    <3> QED BY ZenonT(30), <1>1, <1>2, <2>3, <3>1, NextHandler DEF Making
  <2>4. JobGoesOn /\ job' \in Job
    BY <1>6, <2>2, <2>3
  <2>5. ProjectStays /\ QueuesKept
    BY <1>4, <1>6, <2>1, RestStays DEF ProjectStays
  <2>6. TypeOK'
    BY ZenonT(30), <1>6, <2>1, <2>4 DEF TypeOK
  <2> QED BY <2>4, <2>5, <2>6, Quiet
<1> QED BY ZenonT(30), <1>5, <1>6 DEF HandleRoleBindings

\* Creating the role binding that was just deleted.
LEMMA RebindStep ==
    ASSUME TypeOK, Inv, recreateRoleBinding
    PROVE  TypeOK' /\ Inv' /\ Kept /\ QueuesKept
<1> DEFINE out == IF live.binding # Gone THEN Fine(live.binding)
                  ELSE IF live.namespace = Gone \/ maps.bindings.bare THEN Err("binding")
                  ELSE Fine(buildRoleBinding(job.copy))
<1>1. job.step = "rebind" /\ Handle("binding", "bindings", out)
  BY DEF recreateRoleBinding
<1>2. job \in Job /\ job.copy \in Project
  BY <1>1, InJob DEF Job
<1>3. "binding" \in Kinds \ {"project", "queues"} /\ "bindings" \in Types
  BY DEF Kinds, Types
<1>4. Fits("binding", buildRoleBinding(job.copy)) /\ Fits("binding", live.binding)
  BY <1>2, <1>3, BindingTyped, TypedObjects
<1>5. out.ok \in BOOLEAN /\ Fits("binding", out.obj)
  BY <1>3, <1>4, UpdatedIs
<1> HIDE DEF out
<1> QED BY <1>1, <1>3, <1>5, HandleIs DEF Making

\* The limit-range handler.
LEMMA LimitsStep ==
    ASSUME TypeOK, Inv, HandleLimitRange
    PROVE  TypeOK' /\ Inv' /\ Kept /\ QueuesKept
<1> DEFINE p == job.copy
           l == seen.limits
           set == [l EXCEPT !.value = maps.limits]
           out == handleLimitRange(p, l)
           Good(o) == o.ok \in BOOLEAN /\ Fits("limits", o.obj)
<1>1. job.step = "limits" /\ Handle("limits", "limits", out)
  BY DEF HandleLimitRange
<1>2. job \in Job /\ p.uid \in Uids
  BY <1>1, InJob DEF Job, Project
<1>3. "limits" \in Kinds \ {"project", "queues"} /\ "limits" \in Types
  BY DEF Kinds, Types
<1>4. maps.limits # "absent" => maps.limits \in {"low", "high"}
  BY DEF TypeOK, LimitMaps
<1>5. Fits("limits", live.limits) /\ (maps.limits # "absent" => Fits("limits", buildLimitRange(p)))
  BY <1>2, <1>4, TypedObjects DEF Fits, Limits, buildLimitRange
<1>6. maps.limits # "absent" /\ l # Gone => Fits("limits", set)
  BY <1>4, TypedObjects DEF Fits, Limits
<1>7. /\ Good(Fine(live.limits)) /\ Good(Err("limits"))
      /\ maps.limits # "absent" => Good(Fine(buildLimitRange(p)))
      /\ maps.limits # "absent" /\ l # Gone => Good(Updated("limits", set))
  BY <1>3, <1>5, <1>6, UpdatedIs
<1> HIDE DEF Good
<1>8. Good(out)
  BY <1>7 DEF handleLimitRange
<1> HIDE DEF out
<1> QED BY <1>1, <1>3, <1>8, HandleIs DEF Good, Making

\* The limit range of a deleted project.
LEMMA DropLimitsStep ==
    ASSUME TypeOK, Inv, LimitRangeOnDelete
    PROVE  TypeOK' /\ Inv' /\ Kept /\ QueuesKept
<1> DEFINE l == seen.limits
           set == [l EXCEPT !.owner = Nobody]
           out == IF l # Gone /\ IsProjectOwner(job.copy, l) THEN Updated("limits", set)
                  ELSE Fine(live.limits)
<1>1. job.step = "dropLimits"
  BY DEF LimitRangeOnDelete
<1>2. job \in Job
  BY <1>1, InJob
<1>3. "limits" \in Kinds \ {"project", "queues"} /\ "limits" \in Types
  BY DEF Kinds, Types
<1>4. CASE /\ job' = [job EXCEPT !.step = Then[@]] /\ Unstored
           /\ UNCHANGED <<setup, seen, maps, work, queued, born, edits, failures>>
  <2>1. job' \in Job /\ JobGoesOn
    BY <1>1, <1>2, <1>4, NextHandler
  <2>2. ProjectStays /\ QueuesKept
    BY <1>4 DEF ProjectStays, QueuesKept, Unstored
  <2>3. TypeOK'
    BY <1>4, <2>1 DEF TypeOK, Unstored
  <2> QED BY <2>1, <2>2, <2>3, Quiet
<1>5. CASE Handle("limits", "limits", out)
  <2>1. Fits("limits", live.limits) /\ (l # Gone => Fits("limits", set))
    BY TypedObjects DEF Fits, Limits
  <2>2. out.ok \in BOOLEAN /\ Fits("limits", out.obj)
    BY <1>3, <2>1, UpdatedIs
  <2> HIDE DEF out
  <2> QED BY <1>1, <1>3, <1>5, <2>2, HandleIs
<1> QED BY <1>4, <1>5 DEF LimitRangeOnDelete

-----------------------------------------------------------------------------
(* The queues.                                                               *)

\* A new queue and the queues with it.
LEMMA QueueTyped ==
    ASSUME TypeOK, NEW n \in Names, NEW q \in Queue \cup {Gone}
    PROVE  /\ Fits("queues", Put(n, q)) /\ Fits("queues", live.queues)
           /\ Put(n, q)[n] = q /\ \A m \in Names \ {n} : Put(n, q)[m] = live.queues[m]
BY TypedObjects DEF Fits, Put

\* The queue that the handler finds for a node pool is not another's, unless the update of
\* it is refused or there is nothing to update; where it finds none it takes a free name.
LEMMA QueueOutcome ==
    ASSUME TypeOK, NEW p \in Project, NEW r \in Pools, NEW res \in reconcileQueueObject(p, r)
    PROVE  /\ res[1] \in Names /\ res[2].ok \in BOOLEAN /\ Fits("queues", res[2].obj)
           /\ \/ res[2].obj = live.queues
              \/ \E q \in Queue : /\ ~Foreign(live.queues[res[1]])
                                  /\ res[2].obj = Put(res[1], q)
<1> DEFINE found == getExistingQueueOfProject(p.uid, r)
           expected == buildQueueFromSpec(p, r)
<1>1. expected \in Queue
  <2>1. (r \in maps.parents) \in BOOLEAN /\ p.uid \in Uids
    BY DEF Project
  <2> QED BY ZenonT(30), <2>1 DEF buildQueueFromSpec, NewQueue, Queue
<1>2. Suggested[r] \in Names /\ Suffixed[r] \subseteq Names
  BY ConstantsAssumption
<1>3. \A n \in found : n \in Names /\ seen.queues[n] # Gone /\ ~Foreign(seen.queues[n])
  <2>1. ASSUME NEW n \in getExistingQueueByLabels(p.uid, r)
        PROVE  n \in Names /\ seen.queues[n] # Gone /\ ~Foreign(seen.queues[n])
    BY ConstantsAssumption DEF getExistingQueueByLabels, Foreign
  <2>2. ASSUME NEW n \in {Suggested[r]}, seen.queues[n] # Gone,
               ~isQueueTakenByOtherResource(n, p.uid, "project")
        PROVE  n \in Names /\ seen.queues[n] # Gone /\ ~Foreign(seen.queues[n])
    BY <1>2, <2>2 DEF isQueueTakenByOtherResource, Foreign
  <2> QED BY <2>1, <2>2 DEF getExistingQueueOfProject
<1>4. ASSUME NEW n \in found, res = <<n, handleExisting(n, expected)>>
      PROVE  /\ res[1] \in Names /\ res[2].ok \in BOOLEAN /\ Fits("queues", res[2].obj)
             /\ \/ res[2].obj = live.queues
                \/ \E q \in Queue : ~Foreign(live.queues[res[1]]) /\ res[2].obj = Put(res[1], q)
  <2> DEFINE new == [expected EXCEPT !.usage = seen.queues[n].usage]
  <2>1. n \in Names /\ seen.queues[n] \in Queue /\ ~Foreign(seen.queues[n])
    BY <1>3, TypedObjects
  <2>2. new \in Queue
    BY <1>1, <2>1 DEF Queue
  <2>3. \/ handleExisting(n, expected) = Fine(live.queues)
        \/ handleExisting(n, expected) = updateExistingQueue(n, new)
    BY DEF handleExisting
  <2> HIDE DEF new, expected, found
  <2>4. \/ handleExisting(n, expected) = Fine(live.queues)
        \/ handleExisting(n, expected) = Err("queues")
        \/ handleExisting(n, expected) = Fine(Put(n, new)) /\ live.queues[n] = seen.queues[n]
    BY <2>3 DEF updateExistingQueue
  <2>5. Fits("queues", Put(n, new)) /\ Fits("queues", live.queues)
    BY <2>1, <2>2, QueueTyped
  <2>6. res[1] = n /\ res[2] = handleExisting(n, expected)
    BY <1>4
  <2>7. CASE res[2] = Fine(live.queues) \/ res[2] = Err("queues")
    <3>1. Err("queues").obj = live.queues /\ Err("queues").ok = FALSE
      BY TypedObjects DEF Err, World
    <3>2. Fine(live.queues).obj = live.queues /\ Fine(live.queues).ok = TRUE
      BY DEF Fine
    <3>3. res[2].ok \in BOOLEAN /\ res[2].obj = live.queues
      BY ZenonT(30), <2>7, <3>1, <3>2
    <3> QED BY ZenonT(30), <2>1, <2>5, <2>6, <3>3
  <2>8. CASE res[2] = Fine(Put(n, new)) /\ live.queues[n] = seen.queues[n]
    <3>1. res[2].ok \in BOOLEAN /\ res[2].obj = Put(n, new)
      BY <2>8 DEF Fine
    <3> QED BY <2>1, <2>2, <2>5, <2>6, <2>8, <3>1
  <2> QED BY ZenonT(30), <2>4, <2>6, <2>7, <2>8
<1>5. ASSUME NEW n \in generateQueueNameForResource(p.uid, r), res = <<n, createQueue(n, expected)>>
      PROVE  /\ res[1] \in Names /\ res[2].ok \in BOOLEAN /\ Fits("queues", res[2].obj)
             /\ \/ res[2].obj = live.queues
                \/ \E q \in Queue : ~Foreign(live.queues[res[1]]) /\ res[2].obj = Put(res[1], q)
  <2>1. n \in Names
    BY <1>2 DEF generateQueueNameForResource
  <2> HIDE DEF expected, found
  <2>2. Fits("queues", Put(n, expected)) /\ Fits("queues", live.queues)
    BY <1>1, <2>1, QueueTyped
  <2>3. \/ createQueue(n, expected) = Fine(live.queues)
        \/ createQueue(n, expected) = Fine(Put(n, expected)) /\ live.queues[n] = Gone
    BY DEF createQueue
  <2>4. res[1] = n /\ res[2] = createQueue(n, expected)
    BY <1>5
  <2>5. CASE res[2] = Fine(live.queues)
    BY <2>1, <2>2, <2>4, <2>5 DEF Fine
  <2>6. CASE res[2] = Fine(Put(n, expected)) /\ live.queues[n] = Gone
    <3>1. res[2].ok \in BOOLEAN /\ res[2].obj = Put(n, expected) /\ ~Foreign(live.queues[n])
      BY <2>6 DEF Fine, Foreign
    <3> QED BY <1>1, <2>1, <2>2, <2>4, <3>1
  <2> QED BY <2>3, <2>4, <2>5, <2>6
<1> QED BY <1>4, <1>5 DEF reconcileQueueObject

\* The queue of one node pool.
LEMMA QueueStep ==
    ASSUME TypeOK, Inv, HandleQueue
    PROVE  TypeOK' /\ Inv' /\ Kept /\ QueuesKept
<1>1. PICK r \in job.todo : \E res \in reconcileQueueObject(job.copy, r) :
         \E ok \in {"made", "refused", "lost"} :
           /\ Call("queues", res[2].obj, ok)
           /\ job' = IF res[2].ok /\ ok = "made"
                     THEN [job EXCEPT !.todo = @ \ {r}, !.kept = @ \cup {res[1]}]
                     ELSE [job EXCEPT !.todo = @ \ {r}, !.bad = TRUE]
  BY ZenonT(30) DEF HandleQueue
<1>2. PICK res \in reconcileQueueObject(job.copy, r) :
         \E ok \in {"made", "refused", "lost"} :
           /\ Call("queues", res[2].obj, ok)
           /\ job' = IF res[2].ok /\ ok = "made"
                     THEN [job EXCEPT !.todo = @ \ {r}, !.kept = @ \cup {res[1]}]
                     ELSE [job EXCEPT !.todo = @ \ {r}, !.bad = TRUE]
  BY ZenonT(30), <1>1
<1>3. PICK ok \in {"made", "refused", "lost"} :
         /\ Call("queues", res[2].obj, ok)
         /\ job' = IF res[2].ok /\ ok = "made"
                   THEN [job EXCEPT !.todo = @ \ {r}, !.kept = @ \cup {res[1]}]
                   ELSE [job EXCEPT !.todo = @ \ {r}, !.bad = TRUE]
  BY <1>2
<1>4. job.step = "queues" /\ UNCHANGED <<setup, seen, maps, work, queued, born, edits>>
  BY DEF HandleQueue
<1>5. job \in Job /\ job.copy \in Project /\ r \in Pools
  BY <1>4, InJob DEF Job
<1>6. /\ res[1] \in Names /\ Fits("queues", res[2].obj)
      /\ \/ res[2].obj = live.queues
         \/ \E q \in Queue : ~Foreign(live.queues[res[1]]) /\ res[2].obj = Put(res[1], q)
  BY <1>5, QueueOutcome
<1>7. "queues" \in Kinds \ {"project"}
  BY DEF Kinds
<1>8. /\ live' \in World /\ stale' \subseteq Kinds /\ alarms' \subseteq stale'
      /\ live'.queues \in {res[2].obj, live.queues} /\ Rest("queues")
      /\ failures' \in 0 .. MaxFailures
  BY <1>3, <1>6, <1>7, CallIs
<1>9. job' \in Job /\ job'.step = "queues"
  BY ZenonT(30), <1>3, <1>4, <1>5, <1>6 DEF Job
<1>10. JobGoesOn
  BY <1>4, <1>9 DEF JobGoesOn, Making
<1>11. ProjectStays
  BY <1>4, <1>7, <1>8, RestStays DEF ProjectStays
<1>12. TypeOK'
  BY <1>4, <1>8, <1>9 DEF TypeOK
<1>13. QueuesKept
  <2>1. CASE live'.queues = live.queues
    BY <2>1 DEF QueuesKept
  <2>2. ASSUME NEW q \in Queue, ~Foreign(live.queues[res[1]]), live'.queues = Put(res[1], q)
        PROVE  QueuesKept
    BY <1>6, <2>2, QueueTyped DEF QueuesKept
  <2> QED BY <1>6, <1>8, <2>1, <2>2
<1> QED BY <1>10, <1>11, <1>12, <1>13, Quiet

\* Deleting queues takes none over.
LEMMA DeletionStep ==
    ASSUME TypeOK, Inv, job.step \in {"queues", "dropQueues"},
           NEW targets \in SUBSET Names, NEW fine \in BOOLEAN, DeleteQueues(targets, fine)
    PROVE  TypeOK' /\ Inv' /\ Kept /\ QueuesKept
<1>1. PICK failed \in SUBSET (targets \cap {n \in Names : live.queues[n] # Gone}) :
         /\ IF failed = {} THEN UNCHANGED failures ELSE MayFail
         /\ Store("queues", Without(targets \ failed))
         /\ job' = [Noted("queues", fine /\ failed = {}) EXCEPT !.step = Then[@]]
  BY ZenonT(30) DEF DeleteQueues
<1>2. UNCHANGED <<setup, seen, maps, work, queued, born, edits>>
  BY DEF DeleteQueues
<1>3. job \in Job
  BY InJob
<1>4. "queues" \in Kinds \ {"project"} /\ "queues" \in Types
  BY DEF Kinds, Types
<1>5. /\ Fits("queues", Without(targets \ failed))
      /\ \A n \in Names : Without(targets \ failed)[n] \in {Gone, live.queues[n]}
  BY TypedObjects DEF Fits, Without
<1>6. /\ live' \in World /\ stale' \subseteq Kinds /\ alarms' \subseteq stale'
      /\ live'.queues = Without(targets \ failed) /\ Rest("queues")
  BY <1>1, <1>4, <1>5, StoreIs DEF TypeOK
<1>7. failures' \in 0 .. MaxFailures
  BY <1>1, ConstantsAssumption DEF MayFail, TypeOK
<1> DEFINE good == fine /\ failed = {}
<1>8. good \in BOOLEAN /\ job' = [Noted("queues", good) EXCEPT !.step = Then[@]]
  BY <1>1
<1> HIDE DEF good
<1>9. /\ Noted("queues", good) \in Job /\ Noted("queues", good).step = job.step
      /\ Noted("queues", good).copy.force = job.copy.force
  BY <1>3, <1>4, <1>8, NotedIs
<1>10. job' \in Job /\ JobGoesOn
  BY <1>3, <1>8, <1>9, NextHandler DEF Making
<1>11. ProjectStays
  BY <1>2, <1>4, <1>6, RestStays DEF ProjectStays
<1>12. TypeOK'
  BY <1>2, <1>6, <1>7, <1>10 DEF TypeOK
<1>13. QueuesKept
  BY <1>5, <1>6 DEF QueuesKept
<1> QED BY <1>10, <1>11, <1>12, <1>13, Quiet

\* The queues that are no longer needed, and those of a deleted project.
LEMMA UnneededQueues ==
    ASSUME TypeOK, Inv, FinishQueues \/ QueueOnDelete
    PROVE  TypeOK' /\ Inv' /\ Kept /\ QueuesKept
<1>1. CASE FinishQueues
  <2> DEFINE targets == IF job.bad THEN {} ELSE deleteUnnecessaryQueues(job.copy)
             fine == ~job.bad /\ \A n \in targets : live.queues[n] # Gone
  <2>1. job.step = "queues" /\ DeleteQueues(targets, fine)
    BY <1>1 DEF FinishQueues
  <2>2. targets \in SUBSET Names /\ fine \in BOOLEAN
    BY DEF deleteUnnecessaryQueues, ListProjectQueues
  <2> HIDE DEF targets, fine
  <2> QED BY <2>1, <2>2, DeletionStep
<1>2. CASE QueueOnDelete
  <2> DEFINE targets == {n \in ListProjectQueues : DeletesResource(seen.queues[n])}
  <2>1. job.step = "dropQueues" /\ DeleteQueues(targets, TRUE)
    BY ZenonT(30), <1>2 DEF QueueOnDelete
  <2>2. targets \in SUBSET Names
    BY DEF ListProjectQueues
  <2> HIDE DEF targets
  <2> QED BY ZenonT(30), <2>1, <2>2, DeletionStep
<1> QED BY <1>1, <1>2

-----------------------------------------------------------------------------
(* The start and the end of a reconcile.                                     *)

\* The end of a reconcile.
LEMMA DoneIs ==
    ASSUME NEW again, Done(again)
    PROVE  job' = Idle /\ queued' \in BOOLEAN
BY DEF Done

\* The start of a reconcile.
LEMMA BeginIs ==
    ASSUME NEW p \in Project, NEW step \in Making \cup Removing
    PROVE  Begin(p, step) \in Job /\ Begin(p, step).step = step /\ Begin(p, step).copy = p
BY DEF Begin, Job, Project, Making, Removing

\* A write of the project.
LEMMA ProjectCall ==
    ASSUME TypeOK, NEW obj \in Project \cup {Gone}, NEW ok, Call("project", obj, ok)
    PROVE  /\ live' \in World /\ stale' \subseteq Kinds /\ alarms' \subseteq stale'
           /\ live'.project \in {obj, live.project} /\ live'.queues = live.queues
           /\ ok = "made" => live'.project = obj
           /\ failures' \in 0 .. MaxFailures
<1>1. "project" \in Kinds /\ Fits("project", obj)
  BY DEF Kinds, Fits
<1>2. "queues" \in Kinds \ {"project"}
  BY DEF Kinds
<1> QED BY <1>1, <1>2, CallIs DEF Rest

\* An early return.
LEMMA NothingStep ==
    ASSUME TypeOK, Inv, ReconcileNothing
    PROVE  TypeOK' /\ Inv' /\ Kept /\ QueuesKept
<1>1. job' = Idle /\ queued' \in BOOLEAN
  BY ZenonT(30), DoneIs DEF ReconcileNothing
<1>2. ProjectStays /\ JobGoesOn /\ QueuesKept
  BY <1>1 DEF ReconcileNothing, Unstored, ProjectStays, JobGoesOn, QueuesKept
<1>3. TypeOK'
  BY <1>1 DEF ReconcileNothing, Unstored, TypeOK
<1> QED BY <1>2, <1>3, Quiet

\* The status at the end: the project is there to be patched.
LEMMA StatusStep ==
    ASSUME TypeOK, Inv, ReconcileStatus
    PROVE  TypeOK' /\ Inv' /\ Kept /\ QueuesKept
<1> DEFINE new == getProjectStatus(job.copy.status, job.changed)
<1>1. job.step = "status" /\ UNCHANGED <<setup, seen, maps, work, born, edits>>
  BY DEF ReconcileStatus
<1>2. job \in Job /\ job.copy.status \in Status /\ job.changed \in BOOLEAN
  BY <1>1, InJob DEF Job, Project
<1>3. live.project \in Project
  BY <1>1, TypedObjects DEF Inv, JobFits, Making
<1>4. new \in Status
  <2>1. KaiProjectToNamespace(job.copy) \in BOOLEAN
    BY <1>2 DEF KaiProjectToNamespace, Status
  <2>2. [job.copy.status EXCEPT !.namespace = KaiProjectToNamespace(job.copy)] \in Status
    BY <1>2, <2>1, StatusTyped
  <2>3. setPhase([job.copy.status EXCEPT !.namespace = KaiProjectToNamespace(job.copy)],
                 job.changed, FALSE) \in Status
    BY ZenonT(30), <1>2, <2>2, StatusTyped
  <2> QED BY ZenonT(30), <2>3, StatusTyped, TypedObjects DEF getProjectStatus
<1> HIDE DEF new
<1>5. PatchedStatus(new) \in Project /\ SameProject(live.project, PatchedStatus(new))
  BY <1>3, <1>4, PatchTyped
<1>6. /\ job' = Idle /\ queued' \in BOOLEAN
      /\ \/ Unstored /\ UNCHANGED failures
         \/ \E ok \in {"made", "refused", "lost"} : Call("project", PatchedStatus(new), ok)
  BY DoneIs DEF ReconcileStatus, new
<1>7. /\ live' \in World /\ stale' \subseteq Kinds /\ alarms' \subseteq stale'
      /\ live'.project \in {PatchedStatus(new), live.project} /\ live'.queues = live.queues
      /\ failures' \in 0 .. MaxFailures
  BY <1>5, <1>6, ProjectCall DEF Unstored, TypeOK
<1>8. ProjectStays /\ JobGoesOn /\ QueuesKept
  BY ZenonT(30), <1>1, <1>5, <1>6, <1>7 DEF ProjectStays, JobGoesOn, QueuesKept
<1>9. TypeOK'
  BY <1>1, <1>6, <1>7 DEF TypeOK
<1> QED BY <1>8, <1>9, Quiet

\* The finalizer is put on the project, whatever project has the name now.
LEMMA ReconcileStep ==
    ASSUME TypeOK, Inv, Reconcile
    PROVE  TypeOK' /\ Inv' /\ Kept /\ QueuesKept
<1>1. /\ job = Idle /\ UNCHANGED <<setup, seen, maps, work, born, edits>>
      /\ seen.project \in Project /\ seen.project # Gone /\ ~seen.project.deleting
  BY ZenonT(30), TypedObjects DEF Reconcile
<1>2. Idle.step \notin Making \cup Removing /\ "namespace" \in Making /\ Making \cap Removing = {}
  BY DEF Idle, Making, Removing
<1>3. ~Past
  BY <1>1 DEF Past, Idle
<1>4. CASE /\ seen.project.finalizer /\ job' = Begin(seen.project, "namespace") /\ queued' = FALSE
           /\ Unstored /\ UNCHANGED failures
  <2>1. job' \in Job /\ job'.step = "namespace"
    BY <1>1, <1>2, <1>4, BeginIs
  <2>2. TypeOK' /\ QueuesKept
    BY ZenonT(30), <1>1, <1>4, <2>1 DEF TypeOK, Unstored, QueuesKept
  <2>3. live' = live
    BY <1>4 DEF Unstored
  <2>4. IncarnationsBorn' /\ FinalizerInPlace' /\ CacheLags'
    BY ZenonT(30), <1>1, <2>3 DEF Inv, IncarnationsBorn, FinalizerInPlace, CacheLags, Later
  <2>5. JobFits'
    BY <1>1, <1>2, <1>4, <2>1, <2>3 DEF Inv, CacheLags, JobFits
  <2>6. Passed' /\ Kept
    BY <1>1, <2>1, <2>3, TypedObjects DEF Inv, FinalizerInPlace, Passed, Past, Blocked, Kept
  <2> QED BY <2>2, <2>4, <2>5, <2>6 DEF Inv
<1>5. CASE AddFinalizer
  <2> DEFINE p == live.project
             new == [p EXCEPT !.finalizer = TRUE]
  <2>1. CASE Done(TRUE) /\ Unstored /\ UNCHANGED failures
    <3>1. job' = Idle /\ queued' \in BOOLEAN
      BY ZenonT(30), <2>1, DoneIs
    <3>2. ProjectStays /\ JobGoesOn /\ QueuesKept
      BY <1>1, <2>1, <3>1 DEF Unstored, ProjectStays, JobGoesOn, QueuesKept
    <3>3. TypeOK'
      BY <1>1, <2>1, <3>1 DEF Unstored, TypeOK
    <3> QED BY <3>2, <3>3, Quiet
  <2>2. ASSUME p # Gone, NEW ok \in {"made", "refused", "lost"}, Call("project", new, ok),
               IF ok = "made" THEN job' = Begin(new, "namespace") /\ queued' = FALSE ELSE Done(TRUE)
        PROVE  TypeOK' /\ Inv' /\ Kept /\ QueuesKept
    <3>1. p \in Project
      BY <2>2, TypedObjects
    <3>2. /\ new \in Project /\ new.finalizer /\ new # Gone
          /\ new.uid = p.uid /\ new.deleting = p.deleting /\ new.force = p.force
      BY ZenonT(30), <3>1, ConstantsAssumption DEF Project
    <3> HIDE DEF new
    <3>3. /\ live' \in World /\ stale' \subseteq Kinds /\ alarms' \subseteq stale'
          /\ live'.project \in {new, p} /\ live'.queues = live.queues
          /\ ok = "made" => live'.project = new
          /\ failures' \in 0 .. MaxFailures
      BY <2>2, <3>2, ProjectCall
    <3>4. /\ queued' \in BOOLEAN
          /\ \/ job' = Idle
             \/ job' \in Job /\ job'.step = "namespace" /\ live'.project = new
      <4>1. Begin(new, "namespace") \in Job /\ Begin(new, "namespace").step = "namespace"
        BY <1>2, <3>2, BeginIs
      <4>2. CASE ok = "made"
        BY ZenonT(30), <2>2, <3>3, <4>1, <4>2
      <4>3. CASE ok # "made"
        BY ZenonT(30), <2>2, <4>3, DoneIs
      <4> QED BY <4>2, <4>3
    <3>5. TypeOK' /\ QueuesKept
      BY <1>1, <3>3, <3>4 DEF TypeOK, QueuesKept
    <3>6. IncarnationsBorn' /\ FinalizerInPlace'
      BY ZenonT(30), <1>1, <2>2, <3>2, <3>3 DEF Inv, IncarnationsBorn, FinalizerInPlace
    <3>7. CacheLags'
      BY <1>1, <2>2, <3>2, <3>3 DEF Inv, CacheLags, Later
    <3>8. JobFits'
      BY <1>2, <3>2, <3>4 DEF JobFits
    <3>9. Passed'
      BY <3>4 DEF Passed, Past, Idle
    <3>10. Kept
      BY <1>1, <2>2, <3>2, <3>3 DEF Inv, FinalizerInPlace, Blocked, Kept
    <3> QED BY <3>5, <3>6, <3>7, <3>8, <3>9, <3>10 DEF Inv
  <2> QED BY ZenonT(30), <1>5, <2>1, <2>2 DEF AddFinalizer
<1> QED BY ZenonT(30), <1>4, <1>5 DEF Reconcile

\* The start of a deletion.
LEMMA FinalizeStep ==
    ASSUME TypeOK, Inv, Finalize
    PROVE  TypeOK' /\ Inv' /\ Kept /\ QueuesKept
<1> DEFINE step == IF setup.blocking THEN "blockers" ELSE "dropQueues"
<1>1. /\ job = Idle /\ UNCHANGED <<setup, seen, maps, work, born, edits, failures>>
      /\ seen.project \in Project /\ seen.project # Gone /\ seen.project.deleting
      /\ job' = Begin(seen.project, step) /\ queued' = FALSE /\ Unstored
  BY ZenonT(30), TypedObjects DEF Finalize
<1>2. step \in Removing /\ step \notin Making
  BY DEF Making, Removing
<1>3. job' \in Job /\ job'.step = step /\ job'.copy = seen.project
  BY <1>1, <1>2, BeginIs
<1>4. live' = live
  BY <1>1 DEF Unstored
<1>5. TypeOK' /\ QueuesKept
  BY ZenonT(30), <1>1, <1>3 DEF TypeOK, Unstored, QueuesKept
<1>6. IncarnationsBorn' /\ FinalizerInPlace' /\ CacheLags'
  BY ZenonT(30), <1>1, <1>4 DEF Inv, IncarnationsBorn, FinalizerInPlace, CacheLags, Later
<1>7. JobFits'
  BY ZenonT(30), <1>1, <1>2, <1>3 DEF JobFits
<1>8. Passed'
  BY ZenonT(30), <1>1, <1>3 DEF Passed, Past, Blocked
<1>9. Kept
  BY <1>1, <1>4 DEF Inv, FinalizerInPlace, Blocked, Kept
<1> QED BY <1>5, <1>6, <1>7, <1>8, <1>9 DEF Inv

-----------------------------------------------------------------------------
(* Deletion.                                                                 *)

\* The blockers: past them nothing blocks.
LEMMA BlockersStep ==
    ASSUME TypeOK, Inv, CheckBlockers
    PROVE  TypeOK' /\ Inv' /\ Kept /\ QueuesKept
<1> DEFINE blocked == work \/ ~KaiProjectToNamespace(job.copy)
<1>1. /\ job.step = "blockers" /\ Unstored
      /\ UNCHANGED <<setup, seen, maps, work, queued, born, edits>>
  BY DEF CheckBlockers
<1>2. job \in Job /\ "blockers" \in Types
  BY <1>1, InJob DEF Types
<1>3. live' = live
  BY <1>1 DEF Unstored
<1>4. \A ok \in BOOLEAN : /\ Noted("blockers", ok) \in Job
                          /\ Noted("blockers", ok).step = "blockers"
                          /\ Noted("blockers", ok).copy.force = job.copy.force
                          /\ Noted("blockers", ok).failed = (job.failed \/ ~ok)
  BY ZenonT(30), <1>1, <1>2, NotedIs
<1>5. Then["blockers"] = "dropQueues"
  BY DEF Then
<1>6. CASE ~blocked /\ UNCHANGED failures /\ job' = [Noted("blockers", TRUE) EXCEPT !.step = Then[@]]
  <2>1. job' \in Job /\ job'.step = "dropQueues" /\ job'.copy.force = job.copy.force
    BY ZenonT(30), <1>4, <1>5, <1>6 DEF Job
  <2>2. TypeOK' /\ QueuesKept
    BY ZenonT(30), <1>1, <1>6, <2>1 DEF TypeOK, Unstored, QueuesKept
  <2>3. IncarnationsBorn' /\ FinalizerInPlace' /\ CacheLags'
    BY ZenonT(30), <1>1, <1>3 DEF Inv, IncarnationsBorn, FinalizerInPlace, CacheLags, Later
  <2>4. JobFits'
    BY <1>1, <2>1 DEF Inv, JobFits, Making, Removing
  <2>5. Passed' /\ Kept
    BY <1>1, <1>3, <1>6 DEF Passed, Blocked, Kept
  <2> QED BY <2>2, <2>3, <2>4, <2>5 DEF Inv
<1>7. CASE /\ IF blocked THEN UNCHANGED failures ELSE MayFail
           /\ job' = [Noted("blockers", FALSE) EXCEPT !.step = "deletionStatus"]
  <2>1. /\ job' \in Job /\ job'.step = "deletionStatus" /\ job'.failed
        /\ job'.copy.force = job.copy.force
    BY ZenonT(30), <1>4, <1>7 DEF Job
  <2>2. failures' \in 0 .. MaxFailures
    BY <1>7, ConstantsAssumption DEF MayFail, TypeOK
  <2>3. TypeOK' /\ QueuesKept
    BY ZenonT(30), <1>1, <2>1, <2>2 DEF TypeOK, Unstored, QueuesKept
  <2>4. JobGoesOn
    BY <1>1, <2>1 DEF JobGoesOn, Past, Removing
  <2>5. ProjectStays
    BY <1>1, <1>3 DEF ProjectStays
  <2> QED BY <2>3, <2>4, <2>5, Quiet
<1> QED BY ZenonT(30), <1>6, <1>7 DEF CheckBlockers

\* An error ends the deletion unless the project, as read or as patched, asks for force.
LEMMA DeletionStatusStep ==
    ASSUME TypeOK, Inv, ReconcileStatusOnDeletion
    PROVE  TypeOK' /\ Inv' /\ Kept /\ QueuesKept
<1> DEFINE new == setPhase(job.copy.status, job.changed, TRUE)
           Goes(force) == IF job.failed /\ ~force THEN Done(TRUE)
                          ELSE job' = [job EXCEPT !.step = "release"] /\ UNCHANGED queued
<1>1. job.step = "deletionStatus" /\ UNCHANGED <<setup, seen, maps, work, born, edits>>
  BY DEF ReconcileStatusOnDeletion
<1>2. job \in Job /\ job.copy.status \in Status /\ job.changed \in BOOLEAN
  BY <1>1, InJob DEF Job, Project
<1>3. new \in Status
  BY ZenonT(30), <1>2, StatusTyped
<1>4. \/ Unstored /\ UNCHANGED failures /\ Goes(job.copy.force)
      \/ /\ live.project # Gone
         /\ \E ok \in {"made", "refused", "lost"} :
              /\ Call("project", PatchedStatus(new), ok)
              /\ Goes(IF ok = "made" THEN live.project.force ELSE job.copy.force)
  BY ZenonT(30) DEF ReconcileStatusOnDeletion
<1>5. live.project # Gone => /\ PatchedStatus(new) \in Project
                             /\ SameProject(live.project, PatchedStatus(new))
  BY ZenonT(30), <1>3, PatchTyped, TypedObjects
<1> HIDE DEF new
<1>6. /\ live' \in World /\ stale' \subseteq Kinds /\ alarms' \subseteq stale'
      /\ live'.project = live.project \/ SameProject(live.project, live'.project)
      /\ live'.queues = live.queues /\ failures' \in 0 .. MaxFailures
  <2>1. CASE Unstored /\ UNCHANGED failures
    BY <2>1 DEF Unstored, TypeOK
  <2>2. ASSUME live.project # Gone, NEW ok, Call("project", PatchedStatus(new), ok)
        PROVE  <1>6!:
    BY <1>5, <2>2, ProjectCall
  <2> QED BY ZenonT(30), <1>4, <2>1, <2>2
<1>7. \/ job' = Idle /\ queued' \in BOOLEAN
      \/ /\ job' = [job EXCEPT !.step = "release"] /\ UNCHANGED queued
         /\ \/ ~job.failed \/ job.copy.force
            \/ live.project # Gone /\ live.project.force
  BY ZenonT(30), <1>4, DoneIs
<1>8. ProjectStays /\ QueuesKept
  BY <1>1, <1>6 DEF ProjectStays, QueuesKept
<1>9. CASE job' = Idle /\ queued' \in BOOLEAN
  <2>1. TypeOK'
    BY <1>1, <1>6, <1>9 DEF TypeOK
  <2> QED BY <1>8, <1>9, <2>1, Quiet DEF JobGoesOn
<1>10. CASE /\ job' = [job EXCEPT !.step = "release"] /\ UNCHANGED queued
            /\ \/ ~job.failed \/ job.copy.force
               \/ live.project # Gone /\ live.project.force
  <2>1. job' \in Job /\ job'.step = "release" /\ job'.copy.force = job.copy.force
    BY <1>2, <1>10 DEF Job
  <2>2. TypeOK'
    BY <1>1, <1>6, <1>10, <2>1 DEF TypeOK
  <2>3. ~Blocked
    <3>1. CASE ~job.failed
      BY <1>1, <3>1 DEF Inv, Passed, Past
    <3>2. CASE job.copy.force
      BY ZenonT(30), <1>1, <3>2 DEF Inv, JobFits, Removing, CacheLags, Later, FinalizerInPlace, Blocked
    <3> QED BY <1>10, <3>1, <3>2 DEF Blocked
  <2>4. IncarnationsBorn' /\ FinalizerInPlace'
    BY ZenonT(30), <1>8 DEF Inv, ProjectStays, SameProject, IncarnationsBorn, FinalizerInPlace
  <2>5. CacheLags'
    BY <1>8 DEF Inv, ProjectStays, SameProject, CacheLags, Later
  <2>6. JobFits'
    BY ZenonT(30), <1>1, <2>1 DEF Inv, JobFits, Making, Removing
  <2>7. Passed' /\ Kept
    BY <1>8, <2>3 DEF ProjectStays, SameProject, Passed, Kept, Blocked
  <2> QED BY <1>8, <2>2, <2>4, <2>5, <2>6, <2>7 DEF Inv
<1> QED BY <1>7, <1>9, <1>10

\* The finalizer is taken from whatever project has the name now.
LEMMA ReleaseStep ==
    ASSUME TypeOK, Inv, deleteFinalizer
    PROVE  TypeOK' /\ Inv' /\ Kept /\ QueuesKept
<1> DEFINE p == live.project
           new == IF p.deleting THEN Gone ELSE [p EXCEPT !.finalizer = FALSE]
<1>1. job.step = "release" /\ UNCHANGED <<setup, seen, maps, work, born, edits>>
  BY DEF deleteFinalizer
<1>2. ~Blocked /\ seen.project # Gone /\ seen.project.deleting
  BY <1>1 DEF Inv, Passed, Past, JobFits, Removing
<1>3. job' = Idle /\ queued' \in BOOLEAN
  BY ZenonT(30), DoneIs DEF deleteFinalizer
<1>4. CASE p = Gone /\ Unstored /\ UNCHANGED failures
  <2>1. ProjectStays /\ JobGoesOn /\ QueuesKept
    BY ZenonT(30), <1>1, <1>3, <1>4 DEF Unstored, ProjectStays, JobGoesOn, QueuesKept
  <2>2. TypeOK'
    BY <1>1, <1>3, <1>4 DEF Unstored, TypeOK
  <2> QED BY <2>1, <2>2, Quiet
<1>5. ASSUME p # Gone, NEW ok, Call("project", new, ok)
      PROVE  TypeOK' /\ Inv' /\ Kept /\ QueuesKept
  <2>1. p \in Project
    BY <1>5, TypedObjects
  <2>2. /\ new \in Project \cup {Gone}
        /\ new # Gone => /\ ~new.finalizer /\ ~new.deleting
                         /\ new.uid = p.uid /\ new.deleting = p.deleting /\ new.force = p.force
    BY ZenonT(30), <2>1 DEF Project
  <2> HIDE DEF new
  <2>3. /\ live' \in World /\ stale' \subseteq Kinds /\ alarms' \subseteq stale'
        /\ live'.project \in {new, p} /\ live'.queues = live.queues
        /\ failures' \in 0 .. MaxFailures
    BY ZenonT(30), <1>5, <2>2, ProjectCall
  <2>4. TypeOK' /\ QueuesKept
    BY ZenonT(30), <1>1, <1>3, <2>3 DEF TypeOK, QueuesKept
  <2>5. IncarnationsBorn' /\ FinalizerInPlace'
    BY ZenonT(30), <1>1, <1>5, <2>2, <2>3 DEF Inv, IncarnationsBorn, FinalizerInPlace
  <2>6. CacheLags'
    BY ZenonT(30), <1>1, <1>2, <1>5, <2>2, <2>3 DEF Inv, CacheLags, Later
  <2>7. JobFits' /\ Passed'
    BY <1>3 DEF JobFits, Passed, Past, Idle, Making, Removing
  <2> QED BY <1>2, <2>4, <2>5, <2>6, <2>7 DEF Inv, Kept
<1> QED BY ZenonT(30), <1>4, <1>5 DEF deleteFinalizer

-----------------------------------------------------------------------------
(* Informers, the garbage collector, restarts and users.                     *)

\* The cache of the project changes only between reconciles.
LEMMA SyncStep ==
    ASSUME TypeOK, Inv, NEW kind \in Kinds, Sync(kind)
    PROVE  TypeOK' /\ Inv' /\ Kept /\ QueuesKept
<1>1. /\ kind \in ReadNext /\ live' = live /\ seen' = [seen EXCEPT ![kind] = live[kind]]
      /\ UNCHANGED <<setup, live, maps, work, job, born, edits, failures>>
      /\ stale' = stale \ {kind} /\ alarms' = alarms \ {kind}
      /\ queued' = (queued \/ kind \in alarms)
  BY ZenonT(30) DEF Sync
<1>2. /\ seen' \in World
      /\ kind = "project" => seen'.project = live.project
      /\ kind # "project" => seen'.project = seen.project
  BY ZenonT(30), <1>1, TypedObjects DEF World, Kinds
<1>3. TypeOK' /\ QueuesKept
  BY <1>1, <1>2 DEF TypeOK, QueuesKept
<1>4. CASE kind # "project"
  <2>1. ProjectStays
    BY ZenonT(30), <1>1, <1>2, <1>4 DEF ProjectStays
  <2>2. job = Idle \/ job.step \in Making \/ job.step \in Removing
    BY DEF TypeOK, Job, Making, Removing
  <2>3. JobGoesOn
    BY <1>1, <2>2 DEF JobGoesOn, Past
  <2> QED BY <1>3, <2>1, <2>3, Quiet
<1>5. CASE kind = "project"
  <2>1. job.step \notin Making \cup Removing
    <3>1. "project" \in ReadNext
      BY <1>1, <1>5
    <3> QED BY <3>1 DEF ReadNext, Making, Removing
  <2>2. IncarnationsBorn' /\ FinalizerInPlace' /\ CacheLags'
    <3>1. live'.project = live.project /\ seen'.project = live.project /\ born' = born
      BY ZenonT(30), <1>1, <1>2, <1>5
    <3>2. IncarnationsBorn' /\ FinalizerInPlace'
      BY <3>1 DEF Inv, IncarnationsBorn, FinalizerInPlace
    <3>3. CacheLags'
      BY ZenonT(30), <3>1 DEF CacheLags, Later
    <3> QED BY <3>2, <3>3
  <2>3. JobFits' /\ Passed'
    BY <1>1, <2>1 DEF JobFits, Passed, Past, Removing
  <2>4. Kept
    BY <1>1 DEF Inv, FinalizerInPlace, Blocked, Kept
  <2> QED BY <1>3, <2>2, <2>3, <2>4 DEF Inv
<1> QED BY <1>4, <1>5

\* A step that leaves the reconcile in progress alone.
LEMMA JobStays ==
    ASSUME TypeOK, job' = job
    PROVE  JobGoesOn
<1>1. job = Idle \/ job.step \in Making \/ job.step \in Removing
  BY DEF TypeOK, Job, Making, Removing
<1> QED BY <1>1 DEF JobGoesOn, Past

\* The garbage collector removes objects of projects.
LEMMA CollectStep ==
    ASSUME TypeOK, Inv, GarbageCollect
    PROVE  TypeOK' /\ Inv' /\ Kept /\ QueuesKept
<1>1. UNCHANGED <<setup, seen, maps, work, queued, job, born, edits, failures>>
  BY DEF GarbageCollect
<1>2. ASSUME NEW kind \in {"binding", "limits"}, Store(kind, Gone)
      PROVE  TypeOK' /\ Inv' /\ Kept /\ QueuesKept
  <2>1. kind \in Kinds \ {"project", "queues"} /\ Fits(kind, Gone)
    BY ZenonT(30) DEF Kinds, Fits
  <2>2. /\ live' \in World /\ stale' \subseteq Kinds /\ alarms' \subseteq stale' /\ Rest(kind)
    BY ZenonT(30), <1>2, <2>1, StoreIs DEF TypeOK
  <2>3. TypeOK' /\ ProjectStays /\ QueuesKept
    BY <1>1, <2>1, <2>2, RestStays DEF TypeOK, ProjectStays
  <2> QED BY <1>1, <2>3, JobStays, Quiet
<1>3. ASSUME NEW n \in Names, Store("queues", Put(n, Gone))
      PROVE  TypeOK' /\ Inv' /\ Kept /\ QueuesKept
  <2>1. "queues" \in Kinds \ {"project"} /\ Fits("queues", Put(n, Gone)) /\ Put(n, Gone)[n] = Gone
        /\ \A m \in Names \ {n} : Put(n, Gone)[m] = live.queues[m]
    BY QueueTyped DEF Kinds
  <2>2. /\ live' \in World /\ stale' \subseteq Kinds /\ alarms' \subseteq stale' /\ Rest("queues")
        /\ live'.queues = Put(n, Gone)
    BY ZenonT(30), <1>3, <2>1, StoreIs DEF TypeOK
  <2>3. TypeOK' /\ ProjectStays
    BY ZenonT(30), <1>1, <2>1, <2>2, RestStays DEF TypeOK, ProjectStays
  <2>4. QueuesKept
    BY <2>1, <2>2 DEF QueuesKept
  <2> QED BY ZenonT(30), <1>1, <2>3, <2>4, JobStays, Quiet
<1> QED BY <1>2, <1>3 DEF GarbageCollect

\* A restart forgets the reconcile and reads everything.
LEMMA RestartStep ==
    ASSUME TypeOK, Inv, Restart
    PROVE  TypeOK' /\ Inv' /\ Kept /\ QueuesKept
<1>1. /\ seen' = live /\ stale' = {} /\ alarms' = {} /\ job' = Idle
      /\ UNCHANGED <<setup, live, maps, work, born, edits>> /\ MayFail
  BY DEF Restart
<1>2. queued' \in BOOLEAN
  BY ZenonT(30) DEF Restart
<1>3. failures' \in 0 .. MaxFailures
  BY <1>1, ConstantsAssumption DEF MayFail, TypeOK
<1>4. TypeOK' /\ QueuesKept
  BY ZenonT(30), <1>1, <1>2, <1>3 DEF TypeOK, QueuesKept
<1>5. IncarnationsBorn' /\ FinalizerInPlace' /\ CacheLags'
  BY ZenonT(30), <1>1 DEF Inv, IncarnationsBorn, FinalizerInPlace, CacheLags, Later
<1>6. JobFits' /\ Passed'
  BY ZenonT(30), <1>1 DEF JobFits, Passed, Past, Idle, Making, Removing
<1>7. Kept
  BY <1>1 DEF Inv, FinalizerInPlace, Blocked, Kept
<1> QED BY <1>4, <1>5, <1>6, <1>7 DEF Inv

\* An edit.
LEMMA EditIs ==
    ASSUME TypeOK, NEW kind, Edit(kind)
    PROVE  edits' \subseteq Edits /\ UNCHANGED <<setup, seen, job, failures>>
<1>1. setup.edits \subseteq Edits
  BY ConstantsAssumption DEF TypeOK
<1> QED BY <1>1 DEF Edit, TypeOK

\* A write of the project by a user.
LEMMA ProjectStore ==
    ASSUME TypeOK, NEW obj \in Project \cup {Gone}, Store("project", obj)
    PROVE  /\ live' \in World /\ stale' \subseteq Kinds /\ alarms' \subseteq stale'
           /\ live'.project = obj /\ live'.queues = live.queues
<1>1. "project" \in Kinds /\ Fits("project", obj)
  BY DEF Kinds, Fits
<1>2. "queues" \in Kinds \ {"project"}
  BY ZenonT(30) DEF Kinds
<1>3. /\ live' \in World /\ stale' \subseteq Kinds /\ alarms' \subseteq stale'
      /\ live'.project = obj /\ Rest("project")
  BY <1>1, StoreIs DEF TypeOK
<1> QED BY <1>2, <1>3 DEF Rest

\* A project with the name of the deleted one is a new incarnation without the finalizer.
LEMMA CreateStep ==
    ASSUME TypeOK, Inv, CreateProject
    PROVE  TypeOK' /\ Inv' /\ Kept /\ QueuesKept
<1>1. PICK u \in Uids \ born : Store("project", NewProject(u, Pools)) /\ born' = born \cup {u}
  BY DEF CreateProject
<1>2. /\ live.project = Gone /\ UNCHANGED <<maps, work, queued>>
      /\ edits' \subseteq Edits /\ UNCHANGED <<setup, seen, job, failures>>
  BY ZenonT(30), EditIs DEF CreateProject
<1> DEFINE new == NewProject(u, Pools)
<1>3. NoStatus \in Status
  BY DEF NoStatus, Status, Conditions
<1>4. new \in Project /\ new.uid = u /\ ~new.deleting /\ ~new.finalizer
  BY <1>3 DEF NewProject, Project
<1> HIDE DEF new
<1>5. /\ live' \in World /\ stale' \subseteq Kinds /\ alarms' \subseteq stale'
      /\ live'.project = new /\ live'.queues = live.queues
  BY ZenonT(30), <1>1, <1>4, ProjectStore DEF new
<1>6. TypeOK' /\ QueuesKept
  BY ZenonT(30), <1>1, <1>2, <1>5 DEF TypeOK, QueuesKept
<1>7. IncarnationsBorn' /\ FinalizerInPlace'
  BY ZenonT(30), <1>1, <1>2, <1>4, <1>5 DEF Inv, IncarnationsBorn, FinalizerInPlace
<1>8. CacheLags'
  BY ZenonT(30), <1>1, <1>2, <1>4, <1>5 DEF Inv, IncarnationsBorn, CacheLags, Later
<1>9. JobFits' /\ Passed' /\ Kept
  BY <1>2, <1>4, <1>5 DEF Inv, JobFits, Passed, Blocked, Kept
<1> QED BY <1>6, <1>7, <1>8, <1>9 DEF Inv

\* A user deletes or changes the project.
LEMMA EditProjectStep ==
    ASSUME TypeOK, Inv, EditProject
    PROVE  TypeOK' /\ Inv' /\ Kept /\ QueuesKept
<1> DEFINE p == live.project
<1>1. /\ p # Gone /\ UNCHANGED <<maps, work, queued, born>>
      /\ edits' \subseteq Edits /\ UNCHANGED <<setup, seen, job, failures>>
  BY ZenonT(30), EditIs DEF EditProject
<1>2. p \in Project
  BY <1>1, TypedObjects
<1>3. ASSUME NEW obj \in Project, Store("project", obj), obj.uid = p.uid,
             obj.finalizer = p.finalizer, p.force => obj.force, p.deleting => obj.deleting,
             obj.deleting /\ ~p.deleting => p.finalizer
      PROVE  TypeOK' /\ Inv' /\ Kept /\ QueuesKept
  <2>1. /\ live' \in World /\ stale' \subseteq Kinds /\ alarms' \subseteq stale'
        /\ live'.project = obj /\ live'.queues = live.queues /\ obj # Gone
    BY <1>3, ProjectStore, ConstantsAssumption
  <2>2. TypeOK' /\ QueuesKept
    BY ZenonT(30), <1>1, <2>1 DEF TypeOK, QueuesKept
  <2>3. IncarnationsBorn' /\ FinalizerInPlace'
    BY ZenonT(30), <1>1, <1>3, <2>1 DEF Inv, IncarnationsBorn, FinalizerInPlace
  <2>4. CacheLags'
    BY ZenonT(30), <1>1, <1>3, <2>1 DEF Inv, CacheLags, Later
  <2>5. JobFits'
    <3>1. /\ seen' = seen /\ job' = job /\ live'.project # Gone
          /\ live'.project.finalizer = live.project.finalizer
      BY ZenonT(30), <1>1, <1>3, <2>1
    <3> QED BY ZenonT(30), <3>1 DEF Inv, JobFits
  <2>6. Past => obj.deleting = p.deleting
    <3>1. Past => job.step \in Removing
      BY ZenonT(30) DEF Past, Removing
    <3> QED BY <1>1, <1>2, <1>3, <3>1 DEF Inv, JobFits, CacheLags, Later, Project
  <2>7. Passed'
    BY ZenonT(30), <1>1, <1>3, <2>1, <2>6 DEF Inv, Passed, Past, Blocked
  <2>8. Kept
    <3>1. Blocked => live.project.finalizer
      BY DEF Inv, FinalizerInPlace, Blocked
    <3> QED BY <1>3, <2>1, <3>1 DEF Kept
  <2> QED BY ZenonT(30), <2>2, <2>3, <2>4, <2>5, <2>7, <2>8 DEF Inv
<1>4. CASE ~p.deleting /\ ~p.finalizer /\ Store("project", Gone)
  <2>1. /\ live' \in World /\ stale' \subseteq Kinds /\ alarms' \subseteq stale'
        /\ live'.project = Gone /\ live'.queues = live.queues
    BY ZenonT(30), <1>4, ProjectStore
  <2>2. TypeOK' /\ QueuesKept
    BY ZenonT(30), <1>1, <2>1 DEF TypeOK, QueuesKept
  <2>3. IncarnationsBorn' /\ FinalizerInPlace'
    BY ZenonT(30), <1>1, <2>1 DEF Inv, IncarnationsBorn, FinalizerInPlace
  <2>4. CacheLags' /\ JobFits'
    BY ZenonT(30), <1>1, <1>4, <2>1 DEF Inv, CacheLags, Later, JobFits
  <2>5. Passed' /\ Kept
    BY <1>4, <2>1 DEF Passed, Blocked, Kept
  <2> QED BY ZenonT(30), <2>2, <2>3, <2>4, <2>5 DEF Inv
<1>5. CASE ~p.deleting /\ p.finalizer /\ Store("project", [p EXCEPT !.deleting = TRUE])
  <2> DEFINE obj == [p EXCEPT !.deleting = TRUE]
  <2>1. /\ obj \in Project /\ obj.uid = p.uid /\ obj.finalizer = p.finalizer
        /\ obj.force = p.force /\ obj.deleting
    BY ZenonT(30), <1>2 DEF Project
  <2> HIDE DEF obj
  <2>2. Store("project", obj)
    BY <1>5 DEF obj
  <2> QED BY ZenonT(30), <1>3, <1>5, <2>1, <2>2
<1>6. ASSUME NEW ps \in SUBSET Pools, Store("project", [p EXCEPT !.pools = ps])
      PROVE  TypeOK' /\ Inv' /\ Kept /\ QueuesKept
  <2> DEFINE obj == [p EXCEPT !.pools = ps]
  <2>1. /\ obj \in Project /\ obj.uid = p.uid /\ obj.finalizer = p.finalizer
        /\ obj.force = p.force /\ obj.deleting = p.deleting
    BY <1>2 DEF Project
  <2> HIDE DEF obj
  <2>2. Store("project", obj)
    BY ZenonT(30), <1>6 DEF obj
  <2> QED BY <1>3, <2>1, <2>2
<1>7. CASE Store("project", [p EXCEPT !.enforce = ~@])
  <2> DEFINE obj == [p EXCEPT !.enforce = ~@]
  <2>1. /\ obj \in Project /\ obj.uid = p.uid /\ obj.finalizer = p.finalizer
        /\ obj.force = p.force /\ obj.deleting = p.deleting
    BY ZenonT(30), <1>2 DEF Project
  <2> HIDE DEF obj
  <2>2. Store("project", obj)
    BY ZenonT(30), <1>7 DEF obj
  <2> QED BY <1>3, <2>1, <2>2
<1>8. CASE Store("project", [p EXCEPT !.force = TRUE])
  <2> DEFINE obj == [p EXCEPT !.force = TRUE]
  <2>1. /\ obj \in Project /\ obj.uid = p.uid /\ obj.finalizer = p.finalizer
        /\ obj.force /\ obj.deleting = p.deleting
    BY ZenonT(30), <1>2 DEF Project
  <2> HIDE DEF obj
  <2>2. Store("project", obj)
    BY <1>8 DEF obj
  <2> QED BY <1>3, <2>1, <2>2
<1>9. CASE Store("project", [p EXCEPT !.override = TRUE])
  <2> DEFINE obj == [p EXCEPT !.override = TRUE]
  <2>1. /\ obj \in Project /\ obj.uid = p.uid /\ obj.finalizer = p.finalizer
        /\ obj.force = p.force /\ obj.deleting = p.deleting
    BY ZenonT(30), <1>2 DEF Project
  <2> HIDE DEF obj
  <2>2. Store("project", obj)
    BY <1>9 DEF obj
  <2> QED BY <1>3, <2>1, <2>2
<1> QED BY ZenonT(30), <1>1, <1>4, <1>5, <1>6, <1>7, <1>8, <1>9 DEF EditProject

\* A write of another kind by a user.
LEMMA UserStore ==
    ASSUME TypeOK, Inv, NEW kind \in Kinds \ {"project"}, NEW obj, Fits(kind, obj), Store(kind, obj),
           edits' \subseteq Edits, UNCHANGED <<setup, seen, job, failures, maps, work, queued, born>>
    PROVE  /\ TypeOK' /\ Inv' /\ Kept /\ live'[kind] = obj
           /\ kind # "queues" => QueuesKept
<1>1. /\ live' \in World /\ stale' \subseteq Kinds /\ alarms' \subseteq stale'
      /\ live'[kind] = obj /\ Rest(kind)
  BY ZenonT(30), StoreIs DEF TypeOK
<1>2. TypeOK' /\ ProjectStays /\ (kind # "queues" => QueuesKept)
  BY <1>1, RestStays DEF TypeOK, ProjectStays
<1> QED BY ZenonT(30), <1>1, <1>2, JobStays, Quiet

\* A user, the scheduler or another project changes a queue.
LEMMA EditQueueStep ==
    ASSUME TypeOK, Inv, EditQueue
    PROVE  TypeOK' /\ Inv' /\ Kept /\ QueuesKept
<1>1. /\ UNCHANGED <<maps, work, queued, born>>
      /\ edits' \subseteq Edits /\ UNCHANGED <<setup, seen, job, failures>>
  BY EditIs DEF EditQueue
<1>2. ASSUME NEW n \in Names, NEW q \in Queue \cup {Gone}, Store("queues", Put(n, q)),
             ~Foreign(live.queues[n])
      PROVE  TypeOK' /\ Inv' /\ Kept /\ QueuesKept
  <2>1. "queues" \in Kinds \ {"project"} /\ Fits("queues", Put(n, q))
        /\ \A m \in Names \ {n} : Put(n, q)[m] = live.queues[m]
    BY QueueTyped DEF Kinds
  <2>2. TypeOK' /\ Inv' /\ Kept /\ live'.queues = Put(n, q)
    BY ZenonT(30), <1>1, <1>2, <2>1, UserStore
  <2>3. QueuesKept
    BY ZenonT(30), <1>2, <2>1, <2>2 DEF QueuesKept
  <2> QED BY ZenonT(30), <2>2, <2>3
<1>3. PICK n \in Names :
        LET q == live.queues[n] IN
         \/ /\ q # Gone /\ q.owner \in Uids
            /\ \/ Store("queues", Put(n, [q EXCEPT !.override = TRUE]))
               \/ Store("queues", Put(n, Gone))
               \/ \E use \in SUBSET Resources : Store("queues", Put(n, [q EXCEPT !.usage = use]))
         \/ ~(q # Gone /\ q.owner \in {Twin, Other}) /\ Store("queues", Put(n, OthersQueue(Other)))
  BY ZenonT(30) DEF EditQueue
<1> DEFINE q == live.queues[n]
<1>4. CASE q # Gone /\ q.owner \in Uids
           /\ \/ Store("queues", Put(n, [q EXCEPT !.override = TRUE]))
              \/ Store("queues", Put(n, Gone))
              \/ \E use \in SUBSET Resources : Store("queues", Put(n, [q EXCEPT !.usage = use]))
  <2>1. q \in Queue /\ ~Foreign(q)
    BY <1>4, TypedObjects, ConstantsAssumption DEF Foreign
  <2>2. [q EXCEPT !.override = TRUE] \in Queue
    BY ZenonT(30), <2>1 DEF Queue
  <2>3. \A use \in SUBSET Resources : [q EXCEPT !.usage = use] \in Queue
    BY <2>1 DEF Queue
  <2> QED BY ZenonT(30), <1>2, <1>4, <2>1, <2>2, <2>3
<1>5. CASE ~Foreign(q) /\ Store("queues", Put(n, OthersQueue(Other)))
  <2>1. OthersQueue(Other) \in Queue
    BY ZenonT(30), ConstantsAssumption DEF OthersQueue, Queue
  <2> QED BY <1>2, <1>5, <2>1
<1> QED BY <1>3, <1>4, <1>5 DEF Foreign

\* A user deletes or makes something in or around the namespace.
LEMMA NamespacedStep ==
    ASSUME TypeOK, Inv, DropNamespaced \/ MakeNamespace
    PROVE  TypeOK' /\ Inv' /\ Kept /\ QueuesKept
<1>1. /\ UNCHANGED <<maps, work, queued, born>>
      /\ edits' \subseteq Edits /\ UNCHANGED <<setup, seen, job, failures>>
  BY ZenonT(30), EditIs DEF DropNamespaced, MakeNamespace
<1>2. \E kind \in {"binding", "limits", "namespace"} : \E obj : Fits(kind, obj) /\ Store(kind, obj)
  <2>1. Fits("binding", Gone) /\ Fits("limits", Gone)
    BY ZenonT(30) DEF Fits
  <2>2. \A label \in {"none", "mine", "other"} :
           Fits("namespace", [label |-> label, enforce |-> FALSE, override |-> FALSE])
    BY DEF Fits, Namespace
  <2> QED BY ZenonT(30), <2>1, <2>2 DEF DropNamespaced, MakeNamespace
<1>3. {"binding", "limits", "namespace"} \subseteq Kinds \ {"project", "queues"}
  BY DEF Kinds
<1> QED BY <1>1, <1>2, <1>3, UserStore

\* A namespace goes with everything in it, the workloads included.
LEMMA DropNamespaceStep ==
    ASSUME TypeOK, Inv, DropNamespace
    PROVE  TypeOK' /\ Inv' /\ Kept /\ QueuesKept
<1> DEFINE dropped == {k \in {"namespace", "binding", "limits"} : live[k] # Gone}
           loud == {k \in dropped : FilterProjectEvent(k, live[k], Gone)}
<1>1. /\ UNCHANGED <<maps, queued, born>> /\ work' = FALSE
      /\ edits' \subseteq Edits /\ UNCHANGED <<setup, seen, job, failures>>
      /\ live' = [live EXCEPT !.namespace = Gone, !.binding = Gone, !.limits = Gone]
      /\ stale' = stale \cup dropped /\ alarms' = alarms \cup loud
  BY EditIs DEF DropNamespace
<1>2. loud \subseteq dropped /\ dropped \subseteq Kinds
  BY DEF Kinds
<1> HIDE DEF loud, dropped
<1>3. live' \in World /\ live'.project = live.project /\ live'.queues = live.queues
  BY ZenonT(30), <1>1, TypedObjects DEF World
<1>4. TypeOK' /\ QueuesKept
  BY ZenonT(30), <1>1, <1>2, <1>3 DEF TypeOK, QueuesKept
<1>5. IncarnationsBorn' /\ FinalizerInPlace' /\ CacheLags' /\ JobFits'
  BY <1>1, <1>3 DEF Inv, IncarnationsBorn, FinalizerInPlace, CacheLags, Later, JobFits
<1>6. Passed' /\ Kept
  BY <1>1, <1>3 DEF Inv, FinalizerInPlace, Passed, Blocked, Kept
<1> QED BY <1>4, <1>5, <1>6 DEF Inv

\* What other parties change; a workload starts only while the project is not being deleted.
LEMMA OtherPartiesStep ==
    ASSUME TypeOK, Inv, EditBindingsMap \/ EditLimitsMap \/ EditParents \/ ChangeWork
    PROVE  TypeOK' /\ Inv' /\ Kept /\ QueuesKept
<1>1. /\ UNCHANGED <<setup, seen, job, failures, born>> /\ edits' \subseteq Edits /\ Unstored
  BY EditIs DEF EditBindingsMap, EditLimitsMap, EditParents, ChangeWork
<1>2. live' = live /\ QueuesKept
  BY <1>1 DEF Unstored, QueuesKept
<1>3. CASE EditBindingsMap \/ EditLimitsMap \/ EditParents
  <2>1. UNCHANGED work /\ queued' \in BOOLEAN
    BY ZenonT(30), <1>3 DEF EditBindingsMap, EditLimitsMap, EditParents
  <2>2. maps' \in [bindings : BindingMaps, limits : LimitMaps, parents : SUBSET Pools]
    <3>1. maps \in [bindings : BindingMaps, limits : LimitMaps, parents : SUBSET Pools]
      BY DEF TypeOK
    <3>2. CASE EditBindingsMap
      BY <3>1, <3>2 DEF EditBindingsMap
    <3>3. CASE EditLimitsMap
      BY <3>1, <3>3 DEF EditLimitsMap
    <3>4. CASE EditParents
      BY ZenonT(30), <3>1, <3>4 DEF EditParents
    <3> QED BY ZenonT(30), <1>3, <3>2, <3>3, <3>4
  <2>3. TypeOK'
    BY ZenonT(30), <1>1, <2>1, <2>2 DEF TypeOK, Unstored
  <2>4. ProjectStays
    BY <1>1, <1>2, <2>1 DEF ProjectStays
  <2> QED BY <1>1, <1>2, <2>3, <2>4, JobStays, Quiet
<1>4. CASE ChangeWork
  <2>1. /\ UNCHANGED <<maps, queued>> /\ work' = ~work /\ work' \in BOOLEAN
        /\ work' => ~live.project.deleting
    BY ZenonT(30), <1>4 DEF ChangeWork, TypeOK
  <2>2. TypeOK'
    BY <1>1, <2>1 DEF TypeOK, Unstored
  <2>3. IncarnationsBorn' /\ FinalizerInPlace' /\ CacheLags' /\ JobFits'
    BY ZenonT(30), <1>1, <1>2 DEF Inv, IncarnationsBorn, FinalizerInPlace, CacheLags, Later, JobFits
  <2>4. Passed' /\ Kept
    BY ZenonT(30), <1>1, <1>2, <2>1 DEF Inv, FinalizerInPlace, Passed, Blocked, Kept
  <2> QED BY <1>2, <2>2, <2>3, <2>4 DEF Inv
<1> QED BY <1>3, <1>4

-----------------------------------------------------------------------------
(* The theorems.                                                             *)

\* Every step keeps types, invariant and promises.
LEMMA NextKeeps ==
    ASSUME TypeOK, Inv, Next
    PROVE  TypeOK' /\ Inv' /\ Kept /\ QueuesKept
<1>1. CASE ReconcileNothing \/ Reconcile \/ Finalize
  BY <1>1, NothingStep, ReconcileStep, FinalizeStep
<1>2. CASE HandleNamespace \/ HandleRoleBindings \/ recreateRoleBinding
  BY <1>2, NamespaceStep, BindingsStep, RebindStep
<1>3. CASE HandleQueue \/ FinishQueues \/ HandleLimitRange \/ ReconcileStatus
  BY <1>3, QueueStep, UnneededQueues, LimitsStep, StatusStep
<1>4. CASE \/ CheckBlockers \/ QueueOnDelete \/ LimitRangeOnDelete
           \/ ReconcileStatusOnDeletion \/ deleteFinalizer
  BY <1>4, BlockersStep, UnneededQueues, DropLimitsStep, DeletionStatusStep, ReleaseStep
<1>5. CASE (\E kind \in Kinds : Sync(kind)) \/ GarbageCollect \/ Restart
  BY <1>5, SyncStep, CollectStep, RestartStep
<1>6. CASE Users
  BY <1>6, CreateStep, EditProjectStep, EditQueueStep, NamespacedStep, DropNamespaceStep,
     OtherPartiesStep DEF Users
<1> QED BY <1>1, <1>2, <1>3, <1>4, <1>5, <1>6 DEF Next, Controller

\* The start.
LEMMA InitHolds ==
    ASSUME Init
    PROVE  TypeOK /\ Inv
<1> DEFINE u == CHOOSE v \in Uids : TRUE
           fresh == NewProject(u, Pools)
           old == [fresh EXCEPT !.finalizer = TRUE, !.status = SettledStatus]
<1>1. u \in Uids
  BY ZenonT(30), ConstantsAssumption
<1> HIDE DEF u
<1>2. NoStatus \in Status /\ SettledStatus \in Status
  <2>1. NoStatus \in Status
    BY DEF NoStatus, Status, Conditions
  <2>2. {<<r, {}>> : r \in Pools} \in SUBSET (Pools \X SUBSET Resources)
    OBVIOUS
  <2>3. [t \in Types |-> IF t = "blockers" THEN "unset" ELSE "true"] \in Conditions
    BY ZenonT(30) DEF Conditions
  <2> QED BY ZenonT(30), <2>1, <2>2, <2>3 DEF SettledStatus, Status
<1>3. fresh \in Project /\ fresh.uid = u /\ ~fresh.deleting
  BY <1>1, <1>2 DEF NewProject, Project
<1> HIDE DEF fresh
<1>4. old \in Project /\ old.uid = u /\ ~old.deleting /\ old.finalizer
  BY ZenonT(30), <1>2, <1>3 DEF Project
<1> HIDE DEF old
<1>5. NamespaceAtStart \in Namespace \cup {Gone}
  BY ZenonT(30) DEF NamespaceAtStart, Namespace
<1>6. \A n \in Names : HeldQueue(n) \in Queue \cup {Gone}
  BY ConstantsAssumption DEF HeldQueue, OthersQueue, Queue
<1>7. \A n \in Names : (\E r \in Pools : Suggested[r] = n) =>
         NewQueue(u, CHOOSE r \in Pools : Suggested[r] = n, TRUE) \in Queue
  BY ZenonT(30), <1>1 DEF NewQueue, Queue
<1>8. /\ maps \in [bindings : BindingMaps, limits : LimitMaps, parents : SUBSET Pools]
      /\ maps.bindings.role \in Roles
  BY ZenonT(30), ConstantsAssumption DEF Init, BindingMaps, LimitMaps
<1> DEFINE before == [role |-> maps.bindings.role, managed |-> TRUE, owner |-> u]
           range == [value |-> "low", owner |-> u, override |-> FALSE]
           queues == [n \in Names |-> IF \E r \in Pools : Suggested[r] = n
                                      THEN NewQueue(u, CHOOSE r \in Pools : Suggested[r] = n, TRUE)
                                      ELSE HeldQueue(n)]
           others == [n \in Names |-> HeldQueue(n)]
<1>9. before \in Binding /\ range \in Limits
  BY <1>1, <1>8 DEF Binding, Limits
<1>10. queues \in [Names -> Queue \cup {Gone}] /\ others \in [Names -> Queue \cup {Gone}]
  BY ZenonT(30), <1>6, <1>7
<1>11. \/ live = [project |-> fresh, namespace |-> NamespaceAtStart, binding |-> Gone,
                  limits |-> Gone, queues |-> others]
       \/ live = [project |-> old, namespace |-> NamespaceAtStart, binding |-> before,
                  limits |-> range, queues |-> queues]
  BY DEF Init, u, fresh, old
<1>12. born = {u} /\ seen = live /\ job = Idle
  BY ZenonT(30) DEF Init, u
<1> HIDE DEF before, range, queues, others
<1>13. live \in World /\ live.project \in {fresh, old}
  BY <1>3, <1>4, <1>5, <1>9, <1>10, <1>11 DEF World
<1>14. /\ setup \in Setups /\ stale = {} /\ alarms = {} /\ work = FALSE
       /\ queued = setup.fresh /\ edits = {} /\ failures = 0
  BY DEF Init
<1>15. TypeOK
  <2>1. setup.fresh \in BOOLEAN /\ 0 \in 0 .. MaxFailures
    BY <1>14, ConstantsAssumption
  <2>2. queued \in BOOLEAN /\ work \in BOOLEAN /\ failures \in 0 .. MaxFailures
    BY Zenon, <1>14, <2>1
  <2>3. stale \subseteq Kinds /\ alarms \subseteq stale /\ edits \subseteq Edits /\ born \subseteq Uids
    BY ZenonT(30), <1>1, <1>12, <1>14
  <2> QED BY Zenon, <1>8, <1>12, <1>13, <1>14, <2>2, <2>3 DEF TypeOK
<1>16. IncarnationsBorn /\ FinalizerInPlace /\ CacheLags
  BY ZenonT(30), <1>3, <1>4, <1>12, <1>13 DEF IncarnationsBorn, FinalizerInPlace, CacheLags, Later
<1>17. JobFits /\ Passed
  BY <1>12 DEF JobFits, Passed, Past, Idle, Making, Removing
<1> QED BY <1>15, <1>16, <1>17 DEF Inv

\* A step that changes nothing keeps the invariant.
LEMMA StutterKeeps ==
    ASSUME TypeOK, Inv, UNCHANGED vars
    PROVE  TypeOK' /\ Inv' /\ Kept /\ QueuesKept
<1>1. TypeOK' /\ QueuesKept
  BY DEF vars, TypeOK, QueuesKept
<1>2. ProjectStays
  BY DEF vars, ProjectStays
<1>3. job' = job
  BY DEF vars
<1> QED BY ZenonT(30), <1>1, <1>2, <1>3, JobStays, Quiet

\* The invariant holds in every behaviour.
LEMMA Invariance == Spec => [](TypeOK /\ Inv)
<1>1. Init => TypeOK /\ Inv
  BY InitHolds
<1>2. TypeOK /\ Inv /\ [Next]_vars => (TypeOK /\ Inv)'
  BY NextKeeps, StutterKeeps
<1> QED BY <1>1, <1>2, PTL DEF Spec

\* Objects, caches and the reconcile keep their shape: in particular the status that
\* reconcileProject patches at its end has a project to go to.
THEOREM TypeCorrect == Spec => []TypeOK
BY Invariance, PTL

\* While a blocker holds a project, its finalizer stays and its deletion removes none of its
\* queues, whatever the caches show and whoever creates a project with its name.
THEOREM BlockedKept == Spec => BlockedIsKept
<1>1. TypeOK /\ Inv /\ [Next]_vars =>
         [Blocked => /\ live'.project # Gone /\ live'.project.finalizer
                     /\ job.step = "dropQueues" => live'.queues = live.queues]_vars
  BY NextKeeps DEF Kept
<1> QED BY <1>1, Invariance, PTL DEF Spec, BlockedIsKept

\* A queue of another project or department never changes hands.
THEOREM OthersKept == Spec => OthersKeepTheirQueues
<1>1. TypeOK /\ Inv /\ [Next]_vars =>
         [\A n \in Names : /\ live.queues[n] # Gone
                           /\ live.queues[n].owner \in {Twin, Other}
                           /\ live'.queues[n] # Gone
                           => live'.queues[n].owner = live.queues[n].owner]_vars
  BY NextKeeps DEF QueuesKept, Foreign
<1> QED BY <1>1, Invariance, PTL DEF Spec, OthersKeepTheirQueues
====
