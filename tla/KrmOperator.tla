---------------------------- MODULE KrmOperator ----------------------------
(* The operator that installs the three services (pkg/operator).            *)
(*                                                                          *)
(* Each operand turns the KRMConfig into objects, starting from what the    *)
(* cache holds of them; the reconciler compares them with the objects that  *)
(* KRMConfig owns, creates, deletes and updates, and writes the conditions  *)
(* of KRMConfig from what each operand remembers it wanted last.            *)
(*                                                                          *)
(* An object's data is the revision of the KRMConfig it was made from; the  *)
(* exception is the certificate volume of a Deployment, which the builders  *)
(* set but never clear.  Requests for KRMConfigs other than the singleton   *)
(* are ignored by the code and left out here.                               *)
EXTENDS Integers, Sequences, FiniteSets

CONSTANTS
    Operands,      \* the operands, in the order of KRMConfigReconcilerOperands
    KindsOf,       \* KindsOf[o]: kinds of the objects of o
    Namespaces,
    Gone,          \* no such object
    Setups,        \* initial situations, with what may happen: records [config, objects, crds,
                   \* kinds (of changes other people make), edits (how many), failures (how many
                   \* requests fail or restarts happen)]
    MaxEdits       \* the most edits of a setup

\* ServiceAccount, Service and ConfigMap behave alike: "account".
Kinds == {"account", "deployment", "monitor", "vpa"}
Optional == {"monitor", "vpa"}             \* registerOptional
BuiltFresh == {"vpa"}                      \* BuildVPA reads nothing

VARIABLES
    setup,
    live,          \* what is stored: [config, objects, missing, kai, crds]
    seen,          \* what the caches hold: [config, objects, missing]
    stale,         \* stale[kind]: "none", or events on their way, "quiet" or "loud" (they queue a reconcile)
    queued,        \* the singleton waits in the work queue
    timer,         \* a RequeueAfter runs
    job,           \* the reconcile in progress
    last,          \* lastDesiredState of each operand: the keys of the objects
    available,     \* optional kinds found when the manager started
    edits, failures

vars == <<setup, live, seen, stale, queued, timer, job, last, available, edits, failures>>

Names == {Operands[i] : i \in DOMAIN Operands}
Keys == {k \in [op : Names, kind : Kinds, ns : Namespaces] : k.kind \in KindsOf[k.op]}
Conditions == {"Deployed", "Available", "DependenciesFulfilled", "Ready", "Reconciling"}
Unset == [status |-> FALSE, gen |-> 0]

\* uid tells one KRMConfig from the next one of that name; rev stands for the settings that only
\* show in the data of the objects.
Config == [uid : 1 .. MaxEdits + 1, gen : 1 .. MaxEdits + 1, rev : 1 .. MaxEdits + 1, ns : Namespaces,
           enabled : SUBSET Names, vpa : BOOLEAN, webhooks : BOOLEAN,
           conditions : [Conditions -> [status : BOOLEAN, gen : Nat]]]

\* owner: the uid of the KRMConfig in its owner reference, 0 for none.  rolled: what the
\* deployment controller has last acted on; up: it reports the replicas updated and available.
Object == [rev : 0 .. MaxEdits + 1, volume : BOOLEAN, owner : 0 .. MaxEdits + 1,
           rolled : (0 .. MaxEdits + 1) \X BOOLEAN, up : BOOLEAN]

Store == [config : Config \cup {Gone}, objects : [Keys -> Object \cup {Gone}], missing : SUBSET Names,
          kai : BOOLEAN, crds : SUBSET Optional]
Cache == [config : Config \cup {Gone}, objects : [Keys -> Object \cup {Gone}], missing : SUBSET Names]
EventKinds == {"config", "objects", "missing"}

\* At the start a KRMConfig of the first generation is there.
ASSUME OperatorAssumption ==
    /\ \A i, j \in DOMAIN Operands : Operands[i] = Operands[j] => i = j
    /\ \A i \in DOMAIN Operands : KindsOf[Operands[i]] \subseteq Kinds
    /\ MaxEdits \in Nat /\ Gone \notin Config /\ Gone \notin Object
    /\ \A s \in Setups :
         /\ s.config \in Config /\ s.config.gen = 1 /\ s.config.rev = 1
         /\ s.objects \in [Keys -> Object \cup {Gone}] /\ s.crds \subseteq Optional
         /\ s.edits \in 0 .. MaxEdits /\ s.failures \in Nat

Idle == [step |-> "idle"]
Rest == UNCHANGED <<setup, edits>>

-----------------------------------------------------------------------------
(* Events.                                                                  *)

Louder(kind, loud) == [stale EXCEPT ![kind] = IF loud \/ @ = "loud" THEN "loud" ELSE "quiet"]

\* InitWithBuilder: an owned object wakes its owner, by the owner's kind and name, if the kind is
\* watched.
Wakes(k, old, new) == /\ k.kind \in Optional => k.kind \in available
                      /\ \E o \in {old, new} \ {Gone} : o.owner # 0

StoreObjects(objects) ==
    LET changed == {k \in Keys : objects[k] # live.objects[k]} IN
    /\ live' = [live EXCEPT !.objects = objects]
    /\ stale' = IF changed = {} THEN stale
                ELSE Louder("objects", \E k \in changed : Wakes(k, live.objects[k], objects[k]))

\* For(&KRMConfig{}): every change wakes, the operator's own conditions included.
StoreConfig(config) ==
    /\ live' = [live EXCEPT !.config = config]
    /\ stale' = IF config = live.config THEN stale ELSE Louder("config", TRUE)

Sync(kind) ==
    /\ stale[kind] # "none"
    /\ seen' = [seen EXCEPT ![kind] = live[kind]]
    /\ queued' = (queued \/ stale[kind] = "loud")
    /\ stale' = [stale EXCEPT ![kind] = "none"]
    /\ UNCHANGED <<live, timer, job, last, available, failures>> /\ Rest

\* RequeueAfter: r.dependencyCheckInterval, which is positive unless it is turned off.
Recheck == /\ timer /\ timer' = FALSE /\ queued' = TRUE
           /\ UNCHANGED <<live, seen, stale, job, last, available, failures>> /\ Rest

-----------------------------------------------------------------------------
(* The state the operands want.                                             *)

\* A ServiceMonitor is wanted only where its kind exists, a VPA wherever it is asked for.
ServiceMonitorForKRMConfig(config) == "monitor" \in live.crds
BuildVPAFromObjects(config) == config.vpa

KeysWanted(config, o) ==
    IF o \notin config.enabled THEN {}
    ELSE {k \in Keys : /\ k.op = o /\ k.ns = config.ns
                       /\ k.kind = "vpa" => BuildVPAFromObjects(config)
                       /\ k.kind = "monitor" => ServiceMonitorForKRMConfig(config)}

New == [rev |-> 0, volume |-> FALSE, owner |-> 0, rolled |-> <<0, FALSE>>, up |-> FALSE]

\* What a builder starts from: the object the cache holds, whoever owns it.
ObjectForKRMConfig(k, cached) == IF cached = Gone \/ k.kind \in BuiltFresh THEN New ELSE cached

\* Without webhooks the volumes are left as they are.
deploymentForKRMConfig(config, object) == [object EXCEPT !.volume = @ \/ config.webhooks]

\* Bug: what the cached object has is added to.
MutantBuild(config, k, cached) ==
    [ObjectForKRMConfig(k, cached) EXCEPT !.rev = @ + config.rev]

\* The object with the operator's fields set.
Build(config, k, cached) ==
    LET object == [ObjectForKRMConfig(k, cached) EXCEPT !.rev = config.rev] IN
    IF k.kind = "deployment" THEN deploymentForKRMConfig(config, object) ELSE object

\* Bug: only what is in the present namespace is found.
MutantCollect(config) ==
    {k \in Keys : /\ seen.objects[k] # Gone /\ seen.objects[k].owner # 0 /\ k.ns = config.ns
                  /\ k.kind \in Optional => k.kind \in available}

\* Collect: what any KRMConfig of that name owns, of the kinds known at the start.
Collect(config) ==
    {k \in Keys : /\ seen.objects[k] # Gone /\ seen.objects[k].owner # 0
                  /\ k.kind \in Optional => k.kind \in available}

\* calculateActionsOnObjects, after inheritFieldsFromCurrent: what is copied from the current
\* object into one that was built without reading it.
Inherit(k, current, new) ==
    IF k.kind \in BuiltFresh
    THEN [new EXCEPT !.owner = current.owner, !.rolled = current.rolled, !.up = current.up] ELSE new

\* The containers of a Deployment are built anew, without the API server's defaults: it never
\* compares equal.
Differs(k, current, new) == k.kind = "deployment" \/ new # current

\* getDesiredState: one operand after the other; an error ends it, and the operands before it
\* have remembered what they want (failed = 0: no error).  Then getCurrentState, which may fail
\* too, and calculateActionsOnObjects.  A cache that moves on between these reads makes an update
\* conflict, which can happen anyway.
DesiredState(failed) ==
    LET wanted == UNION {KeysWanted(job.config, o) : o \in Names}
        current == Collect(job.config)
        built == [k \in wanted |-> Build(job.config, k, seen.objects[k])]
        new == [k \in wanted |-> IF k \in current THEN Inherit(k, seen.objects[k], built[k]) ELSE built[k]] IN
    /\ job.step = "desired"
    /\ failed # 0 => failures < setup.failures
    /\ failures' = IF failed # 0 THEN failures + 1 ELSE failures
    /\ last' = [o \in Names |-> IF \E i \in DOMAIN Operands : Operands[i] = o /\ (failed = 0 \/ i < failed)
                                THEN KeysWanted(job.config, o) ELSE last[o]]
    /\ job' = IF failed # 0 THEN [step |-> "status", config |-> job.config, failed |-> TRUE]
              ELSE [step |-> "create", config |-> job.config, desired |-> new,
                    read |-> [k \in wanted |-> IF k.kind \in BuiltFresh /\ k \notin current THEN Gone
                                               ELSE seen.objects[k]],
                    create |-> wanted \ current, delete |-> current \ wanted,
                    update |-> {k \in wanted \cap current : Differs(k, seen.objects[k], new[k])}]
    /\ UNCHANGED <<live, seen, stale, queued, timer, available>> /\ Rest

-----------------------------------------------------------------------------
(* The calls that bring it about.  A call returns the object it leaves      *)
(* behind, or Failed.                                                       *)

Failed == [failed |-> TRUE]

\* What an update stores: the status is not part of it, the owner is the KRMConfig that was read.
Stored(new, old, uid) == [new EXCEPT !.owner = uid, !.rolled = old.rolled, !.up = old.up]

\* With the resource version of the copy that was read.  Without one, the API server refuses it
\* for custom resources and does it for the others.
Update(k) ==
    LET version == job.read[k]  object == live.objects[k] IN
    IF object = Gone \/ (IF version = Gone THEN k.kind \in Optional ELSE object # version) THEN Failed
    ELSE Stored(job.desired[k], object, job.config.uid)

\* createObjectForKRMConfig, takeOwnership: an object that was read, or turns out to exist, is
\* updated.
Create(k) ==
    IF job.read[k] # Gone \/ live.objects[k] # Gone THEN Update(k)
    ELSE IF k.kind \in Optional \ live.crds THEN Failed
    ELSE Stored(job.desired[k], New, job.config.uid)

\* By name; one that is gone already is no error.
Delete(k) == Gone

Call(k) == CASE job.step = "create" -> Create(k)
             [] job.step = "delete" -> Delete(k)
             [] OTHER -> Update(k)

\* The calls of one phase, in any order but accounts before the rest when creating: the first to
\* fail ends the reconcile.  `done` are the calls that were made, `bad` the ones that a broken
\* request made fail.
Calls(objs, next) ==
    \E done \in SUBSET objs, bad \in {{}} \cup {{k} : k \in objs} :
      LET fails == {k \in objs : k \in bad \/ Call(k) = Failed}
          accounts == {k \in objs : k.kind = "account"} IN
      /\ bad # {} => failures < setup.failures
      /\ done \cap fails = {}
      /\ IF fails = {} THEN done = objs
         ELSE job.step = "create" => \E k \in fails : IF k \in accounts THEN done \subseteq accounts
                                                     ELSE accounts \subseteq done
      /\ failures' = IF bad = {} THEN failures ELSE failures + 1
      /\ StoreObjects([k \in Keys |-> IF k \in done THEN Call(k) ELSE live.objects[k]])
      /\ job' = IF fails = {} THEN next
                ELSE [step |-> "status", config |-> job.config, failed |-> TRUE]

Deploy ==
    /\ \/ job.step = "create" /\ Calls(job.create, [job EXCEPT !.step = "delete"])
       \/ job.step = "delete" /\ Calls(job.delete, [job EXCEPT !.step = "update"])
       \/ job.step = "update" /\ Calls(job.update, [step |-> "status", config |-> job.config, failed |-> FALSE])
    /\ UNCHANGED <<seen, queued, timer, last, available>> /\ Rest

-----------------------------------------------------------------------------
(* The conditions.                                                          *)

Remembered == UNION {last[o] : o \in Names}

\* AllObjectsExists, AllControllersAvailable: of the remembered objects, as the cache has them.
IsDeployed == \A k \in Remembered : seen.objects[k] # Gone
IsAvailable == IsDeployed /\ \A k \in Remembered : k.kind = "deployment" => seen.objects[k].up

\* Of each enabled operand: the CustomResourceDefinitions it lacks, from the cache.
HasMissingDependencies(config) == seen.missing \cap config.enabled # {}

\* KAIScheduler.Check reads past the cache whether a supported KAI Scheduler is there and ready.
DependenciesFulfilled(config) == live.kai /\ ~HasMissingDependencies(config)

Condition(type, status) == [type |-> type, status |-> status]

\* ReconcileStatus; the check of the dependencies may fail, which is no error of the reconcile.
ConditionsNow(config, checked) ==
    LET met == DependenciesFulfilled(config) /\ checked IN
    <<Condition("Deployed", IsDeployed), Condition("Available", IsAvailable),
      Condition("DependenciesFulfilled", met),
      Condition("Ready", IsDeployed /\ IsAvailable /\ met), Condition("Reconciling", FALSE)>>

\* reconcileCondition, for one condition after the other: if it differs from the copy, the copy's
\* whole list with this change is written, and the answer replaces the copy's.  With an error
\* after n writes, the others are not made.
Differing(config, todo) ==
    {i \in DOMAIN todo : config.conditions[todo[i].type] # [status |-> todo[i].status, gen |-> config.gen]}

Written(config, todo, n) ==
    LET made == {i \in Differing(config, todo) :
                   Cardinality({j \in Differing(config, todo) : j < i}) < n} IN
    [c \in DOMAIN config.conditions |->
       IF \E i \in made : todo[i].type = c
       THEN [status |-> todo[CHOOSE i \in made : todo[i].type = c].status, gen |-> config.gen]
       ELSE config.conditions[c]]

\* Bug: no RequeueAfter.
MutantFinish(failed) == /\ job' = Idle
                        /\ queued' = (queued \/ failed) /\ timer' = timer

\* An error queues the request again, success sets the timer.
Finish(failed) == /\ job' = Idle
                  /\ queued' = (queued \/ failed) /\ timer' = (timer \/ ~failed)

reconcileConditions(n) ==
    LET all == Cardinality(Differing(job.config, job.todo))
        conditions == Written(job.config, job.todo, n) IN
    /\ n <= all /\ (live.config = Gone => n = 0)
    /\ n < all /\ live.config # Gone => failures < setup.failures
    /\ failures' = IF n < all /\ live.config # Gone THEN failures + 1 ELSE failures
    /\ IF n = 0 THEN UNCHANGED <<live, stale>> ELSE StoreConfig([live.config EXCEPT !.conditions = conditions])
    /\ LET config == [job.config EXCEPT !.conditions = conditions]
           failed == n < all IN
       IF job.step = "begin"
       THEN /\ job' = IF failed THEN [step |-> "status", config |-> config, failed |-> TRUE]
                      ELSE [step |-> "desired", config |-> config]
            /\ UNCHANGED <<queued, timer>>
       ELSE Finish(failed \/ job.failed)
    /\ UNCHANGED <<seen, last, available>> /\ Rest

\* Reconcile, up to UpdateStartReconcileStatus: nothing to announce if Reconciling is of this
\* generation.
Reconcile ==
    /\ job = Idle /\ queued /\ queued' = FALSE
    /\ LET config == seen.config IN
       job' = CASE config = Gone -> Idle
                [] config # Gone /\ config.conditions["Reconciling"].gen = config.gen ->
                     [step |-> "desired", config |-> config]
                [] OTHER -> [step |-> "begin", config |-> config,
                             todo |-> <<Condition("Reconciling", TRUE), Condition("Deployed", IsDeployed)>>]
    /\ UNCHANGED <<live, seen, stale, timer, last, available, failures>> /\ Rest

\* The deferred ReconcileStatus, whatever happened before: the conditions are worked out, then
\* written.
Evaluate ==
    /\ job.step = "status"
    /\ \E checked \in BOOLEAN :
         /\ ~checked => failures < setup.failures
         /\ failures' = IF checked THEN failures ELSE failures + 1
         /\ job' = [step |-> "report", config |-> job.config, failed |-> job.failed,
                    todo |-> ConditionsNow(job.config, checked)]
    /\ UNCHANGED <<live, seen, stale, queued, timer, last, available>> /\ Rest

Report == job.step \in {"begin", "report"} /\ \E n \in 0 .. Len(job.todo) : reconcileConditions(n)

\* The process ends and a new one starts: SetOperands, SetupWithManager.
Restart ==
    /\ failures < setup.failures /\ failures' = failures + 1
    /\ seen' = [config |-> live.config, objects |-> live.objects, missing |-> live.missing]
    /\ stale' = [kind \in EventKinds |-> "none"]
    /\ queued' = TRUE /\ timer' = FALSE /\ job' = Idle
    /\ last' = [o \in Names |-> {}] /\ available' = live.crds
    /\ UNCHANGED live /\ Rest

-----------------------------------------------------------------------------
(* Other people and programs.                                               *)

Outside == UNCHANGED <<setup, seen, queued, timer, job, last, available, failures>>
Edit(kind) == kind \in setup.kinds /\ edits < setup.edits /\ edits' = edits + 1

Fresh == [c \in Conditions |-> Unset]

EditConfig ==
    LET old == live.config
        set(new) == StoreConfig([new EXCEPT !.gen = old.gen + 1]) IN
    /\ \/ /\ old # Gone
          /\ \/ Edit("data") /\ set([old EXCEPT !.rev = @ + 1])
             \/ Edit("namespace") /\ \E ns \in Namespaces \ {old.ns} : set([old EXCEPT !.ns = ns])
             \/ Edit("enable") /\ \E o \in Names :
                    set([old EXCEPT !.enabled = IF o \in @ THEN @ \ {o} ELSE @ \cup {o}])
             \/ Edit("autoscale") /\ set([old EXCEPT !.vpa = ~@])
             \/ Edit("webhooks") /\ set([old EXCEPT !.webhooks = ~@, !.rev = @ + 1])
             \/ Edit("remove") /\ StoreConfig(Gone)
       \/ /\ old = Gone /\ Edit("restore")
          /\ StoreConfig([setup.config EXCEPT !.uid = edits + 1, !.conditions = Fresh])
    /\ Outside

EditObject ==
    \E k \in Keys :
      LET set(object) == StoreObjects([live.objects EXCEPT ![k] = object]) IN
      /\ live.objects[k] # Gone
      /\ \/ Edit("delete") /\ set(Gone)
         \/ Edit("tamper") /\ set([live.objects[k] EXCEPT !.rev = 0])
         \/ Edit("orphan") /\ set([live.objects[k] EXCEPT !.owner = 0])
         \/ Edit("fail") /\ live.objects[k].up /\ set([live.objects[k] EXCEPT !.up = FALSE])
      /\ Outside

EditCluster ==
    /\ \/ /\ Edit("kai") /\ live' = [live EXCEPT !.kai = ~@] /\ UNCHANGED stale
       \/ /\ Edit("missing")
          /\ \E o \in Names : live' = [live EXCEPT !.missing = IF o \in @ THEN @ \ {o} ELSE @ \cup {o}]
          /\ stale' = Louder("missing", FALSE)
       \/ /\ \E kind \in Optional \ live.crds : Edit(kind) /\ live' = [live EXCEPT !.crds = @ \cup {kind}]
          /\ UNCHANGED stale
    /\ Outside

\* The deployment controller starts to roll out a new template; pods that mount a Secret that
\* does not exist never start.  The Helm chart has the Secret when the webhooks are on.
RollOut ==
    \E k \in {key \in Keys : key.kind = "deployment"} :
      LET object == live.objects[k] IN
      /\ object # Gone
      /\ IF object.rolled # <<object.rev, object.volume>>
         THEN StoreObjects([live.objects EXCEPT ![k].rolled = <<object.rev, object.volume>>, ![k].up = FALSE])
         ELSE /\ ~object.up /\ (object.volume => live.config # Gone /\ live.config.webhooks)
              /\ StoreObjects([live.objects EXCEPT ![k].up = TRUE])
      /\ UNCHANGED edits /\ Outside

\* The garbage collector removes what belongs to a KRMConfig that is gone.
CollectGarbage ==
    \E k \in Keys :
      /\ live.objects[k] # Gone /\ live.objects[k].owner # 0
      /\ live.config # Gone => live.config.uid # live.objects[k].owner
      /\ StoreObjects([live.objects EXCEPT ![k] = Gone])
      /\ UNCHANGED edits /\ Outside

-----------------------------------------------------------------------------
Init ==
    /\ setup \in Setups
    /\ live = [config |-> setup.config, crds |-> setup.crds, kai |-> TRUE, missing |-> {},
               objects |-> setup.objects]
    /\ seen = [config |-> live.config, objects |-> live.objects, missing |-> live.missing]
    /\ stale = [kind \in EventKinds |-> "none"]
    /\ queued = TRUE /\ timer = FALSE /\ job = Idle
    /\ last = [o \in Names |-> {}] /\ available = setup.crds
    /\ edits = 0 /\ failures = 0

Operate == \/ Reconcile \/ \E i \in 0 .. Len(Operands) + 1 : DesiredState(i)
           \/ Deploy \/ Evaluate \/ Report

Next ==
    \/ \E kind \in EventKinds : Sync(kind)
    \/ Recheck \/ Operate \/ Restart
    \/ EditConfig \/ EditObject \/ EditCluster \/ RollOut \/ CollectGarbage

Spec == Init /\ [][Next]_vars

\* The informers deliver, a request that waits is taken up and a reconcile goes on, timers fire,
\* and the cluster's own controllers work.
Fairness ==
    /\ \A kind \in EventKinds : WF_vars(Sync(kind))
    /\ WF_vars(Recheck) /\ WF_vars(Operate) /\ WF_vars(RollOut) /\ WF_vars(CollectGarbage)

FairSpec == Spec /\ Fairness

-----------------------------------------------------------------------------
(* Properties.                                                              *)

\* What is stored, cached and remembered.
TypeOK ==
    /\ setup \in Setups /\ live \in Store /\ seen \in Cache
    /\ stale \in [EventKinds -> {"none", "quiet", "loud"}]
    /\ last \in [Names -> SUBSET Keys] /\ queued \in BOOLEAN /\ timer \in BOOLEAN
    /\ available \subseteq Optional
    /\ edits \in 0 .. setup.edits /\ failures \in 0 .. setup.failures

AtRest == ~queued /\ job = Idle /\ \A kind \in EventKinds : stale[kind] = "none"

Wanted == UNION {KeysWanted(live.config, o) : o \in Names}

\* Everything KRMConfig asks for is there, made from its present settings and its own, and
\* nothing that it once asked for is left, except of a kind that the operator cannot list.
Installed(keys) ==
    \A k \in keys :
      LET object == live.objects[k] IN
      IF live.config # Gone /\ k \in Wanted
      THEN object # Gone /\ object.owner = live.config.uid /\ object.rev = live.config.rev
      ELSE object # Gone => object.owner = 0 \/ k.kind \in Optional \ available

Met(type) == live.config.conditions[type].status
AllUp == \A k \in Wanted : k.kind = "deployment" => live.objects[k].up

\* The conditions say of this generation what is so.
Told ==
    live.config # Gone =>
      /\ \A c \in Conditions : live.config.conditions[c].gen = live.config.gen
      /\ Met("Deployed") /\ Met("Available") = AllUp
      /\ Met("DependenciesFulfilled") = (live.kai /\ live.missing \cap live.config.enabled = {})
      /\ Met("Ready") = (Met("Available") /\ Met("DependenciesFulfilled")) /\ ~Met("Reconciling")

\* Once people leave it alone, the operator has installed what KRMConfig asks for, removed the
\* rest, and its conditions say so, whatever failed, was restarted or was read too early on the
\* way; a dependency that came or went is noticed by the periodic check.
Converges == <>[](Installed(Keys) /\ Told)

Abandoned == {k \in Keys : live.objects[k] # Gone /\ live.objects[k].owner # 0
                           /\ (live.config # Gone => live.objects[k].owner # live.config.uid)}

\* When the operator waits for nothing but its timer, what it watches is as KRMConfig asks,
\* unless the garbage collector has yet to remove what an earlier KRMConfig left.
SettledInstalled ==
    AtRest /\ Abandoned = {} => Installed({k \in Keys : k.kind \notin Optional \ available})

\* krmconfig_controller.go:90-91: the status is deferred "so a failure below still reports as a
\* non-ready condition rather than only as a log line".  What a reconcile that failed reports is
\* not Ready.
FailureShows ==
    job.step = "report" /\ job.failed => \E i \in DOMAIN job.todo : job.todo[i] = Condition("Ready", FALSE)

\* operands/nodepool-controller/resources.go:58-59: "mounting a Secret the chart did not mint
\* would leave the pod pending"; the Deployment has the volume "only when the webhook is served".
VolumeOnlyWithWebhooks ==
    AtRest /\ live.config # Gone =>
        \A k \in Wanted : k.kind = "deployment" /\ ~live.config.webhooks => ~live.objects[k].volume

\* deployable.go:58-59: "Deploy creates before deleting, so a rename never leaves the service
\* absent in between."  The operator's deletions leave a Deployment of each operand it wants.
NeverAbsent ==
    [][\A o \in Names :
         /\ job.step = "delete" /\ job' # job /\ \E k \in DOMAIN job.desired : k.op = o
         /\ \E k \in Keys : k.op = o /\ k.kind = "deployment" /\ live.objects[k] # Gone
         => \E k \in Keys : k.op = o /\ k.kind = "deployment" /\ live'.objects[k] # Gone]_live
=============================================================================
