-------------------------- MODULE KrmOperatorProofs --------------------------
(* Proofs about KrmOperator: its types, and that what KRMConfig asks for is  *)
(* installed when the operator waits for nothing (SettledInstalled).         *)
(*                                                                          *)
(* The argument is about the events.  As long as none that queues a          *)
(* reconcile is on its way or in the queue, KRMConfig is as the reconcile in *)
(* progress read it, and an object that KRMConfig owns is as the cache has   *)
(* it.  Each call of the reconcile that changes such an object is itself an  *)
(* event, so a reconcile after which nothing waits has changed nothing: what *)
(* it wanted was there.                                                      *)
EXTENDS KrmOperator, TLAPS

\* Z3 first, then Zenon; a leaf that cites Zenon starts with it.
USE SMTT(30), ZenonT(30)

\* Kinds whose events arrive, and objects that belong to a KRMConfig: with both, a change wakes.
Watched(k) == k.kind \in Optional => k.kind \in available
Owned(object) == object # Gone /\ object.owner # 0
Alike(a, b) == a = b \/ (~Owned(a) /\ ~Owned(b))

\* A reconcile is queued, or will be.
Awake == queued \/ stale["config"] = "loud" \/ stale["objects"] = "loud"

\* What a KRMConfig asks for, of the kinds that are watched.
Asked(config, k) == /\ k.op \in config.enabled /\ k.ns = config.ns
                    /\ k.kind = "vpa" => config.vpa

\* The same KRMConfig with the same settings.
Same(a, b) == a.rev = b.rev /\ a.ns = b.ns /\ a.enabled = b.enabled /\ a.vpa = b.vpa

\* The reconcile in progress.
Deploying == {"create", "delete", "update"}
Steps == {"idle", "begin", "desired", "status", "report"} \cup Deploying
IsTodo(todo) == \A i \in DOMAIN todo : /\ todo[i].type \in Conditions
                                       /\ todo[i].status \in BOOLEAN
IsPlan(plan) ==
    /\ plan = [step |-> plan.step, config |-> plan.config, desired |-> plan.desired,
               read |-> plan.read, create |-> plan.create, delete |-> plan.delete,
               update |-> plan.update]
    /\ DOMAIN plan.desired \subseteq Keys
    /\ plan.desired \in [DOMAIN plan.desired -> Object]
    /\ plan.read \in [DOMAIN plan.desired -> Object \cup {Gone}]
    /\ plan.create \subseteq DOMAIN plan.desired /\ plan.update \subseteq DOMAIN plan.desired
    /\ plan.delete \subseteq Keys
JobTyped ==
    /\ job.step \in Steps
    /\ job.step = "idle" => job = Idle
    /\ job.step # "idle" => job.config \in Config
    /\ job.step \in {"begin", "report"} => IsTodo(job.todo)
    /\ job.step \in {"status", "report"} => job.failed \in BOOLEAN
    /\ job.step \in Deploying => IsPlan(job)

\* Settings and generations count the edits.
Counted == live.config # Gone => live.config.gen <= edits + 1 /\ live.config.rev <= edits + 1

Typed == TypeOK /\ JobTyped /\ Counted

\* The caches lag behind no further than the events on their way.
Lags ==
    /\ stale["config"] # "loud" => seen.config = live.config
    /\ stale["objects"] # "loud" =>
         \A k \in Keys : Watched(k) => Alike(seen.objects[k], live.objects[k])
    /\ available \subseteq live.crds

\* An object is there exactly if KRMConfig asks for it, with its settings.
Right(k) == /\ Asked(live.config, k) <=> Owned(live.objects[k])
            /\ Asked(live.config, k) => live.objects[k].rev = live.config.rev
Good == live.config # Gone => \A k \in Keys : Watched(k) => Right(k)

\* What the calls of the reconcile still have to do for an object.
Planned(k) ==
    /\ k \in DOMAIN job.desired <=> Asked(live.config, k)
    /\ k \in DOMAIN job.desired => job.desired[k].rev = live.config.rev
    /\ k \in DOMAIN job.desired /\ ~Owned(live.objects[k]) => job.step = "create" /\ k \in job.create
    /\ k \notin DOMAIN job.desired /\ Owned(live.objects[k]) =>
         job.step \in {"create", "delete"} /\ k \in job.delete
    /\ k \in DOMAIN job.desired /\ Owned(live.objects[k]) =>
         k \in job.update \/ live.objects[k].rev = live.config.rev

Reported == job.step \in {"status", "report"} /\ ~job.failed

\* Unless a reconcile is still to come, the one in progress knows all it needs, and without one
\* everything is right.
Followed ==
    ~Awake =>
      /\ job = Idle \/ Reported => Good
      /\ job # Idle => live.config # Gone /\ Same(job.config, live.config)
      /\ job.step \in Deploying => \A k \in Keys : Watched(k) => Planned(k)

\* The inductive invariant.
Inv == Typed /\ Lags /\ Followed

-----------------------------------------------------------------------------
(* The parts of the model that compute, and their types.                    *)

\* The fields of an object and of a KRMConfig.
LEMMA ObjectFields ==
    ASSUME NEW object \in Object
    PROVE  /\ object.rev \in 0 .. MaxEdits + 1 /\ object.volume \in BOOLEAN
           /\ object.owner \in 0 .. MaxEdits + 1 /\ object.up \in BOOLEAN
           /\ object.rolled \in (0 .. MaxEdits + 1) \X BOOLEAN /\ object # Gone
BY OperatorAssumption DEF Object

\* The fields of a KRMConfig.
LEMMA ConfigFields ==
    ASSUME NEW config \in Config
    PROVE  /\ config.uid \in 1 .. MaxEdits + 1 /\ config.gen \in 1 .. MaxEdits + 1
           /\ config.rev \in 1 .. MaxEdits + 1 /\ config.ns \in Namespaces
           /\ config.enabled \subseteq Names /\ config.vpa \in BOOLEAN /\ config.webhooks \in BOOLEAN
           /\ config.conditions \in [Conditions -> [status : BOOLEAN, gen : Nat]]
           /\ config # Gone
BY OperatorAssumption DEF Config

\* What is stored and what is cached.
LEMMA StoreFields ==
    ASSUME TypeOK
    PROVE  /\ live.config \in Config \cup {Gone} /\ seen.config \in Config \cup {Gone}
           /\ live.objects \in [Keys -> Object \cup {Gone}]
           /\ seen.objects \in [Keys -> Object \cup {Gone}]
           /\ \A k \in Keys : /\ live.objects[k] \in Object \cup {Gone}
                              /\ seen.objects[k] \in Object \cup {Gone}
           /\ live.missing \subseteq Names /\ live.kai \in BOOLEAN /\ live.crds \subseteq Optional
BY DEF TypeOK, Store, Cache

\* The counters stay within their bounds.
LEMMA Bounds ==
    ASSUME TypeOK
    PROVE  /\ MaxEdits \in Nat /\ edits \in Nat /\ edits <= setup.edits /\ setup.edits <= MaxEdits
           /\ setup.edits \in Nat /\ setup.failures \in Nat /\ failures \in Nat
BY OperatorAssumption DEF TypeOK

\* What a KRMConfig asks for of the kinds that are watched does not depend on the cluster.
LEMMA WantedIsAsked ==
    ASSUME available \subseteq live.crds, NEW config, NEW k \in Keys, Watched(k)
    PROVE  k \in UNION {KeysWanted(config, o) : o \in Names} <=> Asked(config, k)
<1>1. k.op \in Names
  BY DEF Keys
<1>2. ASSUME NEW o \in Names
      PROVE  k \in KeysWanted(config, o) <=> o \in config.enabled /\ k.op = o /\ Asked(config, k)
  BY ZenonT(30), <1>2 DEF KeysWanted, Asked, Watched, Optional, ServiceMonitorForKRMConfig, BuildVPAFromObjects
<1> QED BY ZenonT(30), <1>1, <1>2 DEF Asked

\* Keys that are wanted are keys.
LEMMA WantedAreKeys ==
    ASSUME NEW config, NEW o
    PROVE  KeysWanted(config, o) \subseteq Keys
BY DEF KeysWanted

\* An object nobody has made yet.
LEMMA NewIs == New \in Object
<1>1. 0 \in 0 .. MaxEdits + 1
  BY OperatorAssumption
<1> QED BY <1>1 DEF New, Object

\* What a builder makes: an object with the present settings, owned by whoever owned it.
LEMMA BuildIs ==
    ASSUME NEW config \in Config, NEW k \in Keys, NEW cached \in Object \cup {Gone}
    PROVE  /\ Build(config, k, cached) \in Object
           /\ Build(config, k, cached).rev = config.rev
<1> DEFINE object == ObjectForKRMConfig(k, cached)
           new == [object EXCEPT !.rev = config.rev]
<1>1. config.rev \in 0 .. MaxEdits + 1 /\ config.webhooks \in BOOLEAN /\ 0 \in 0 .. MaxEdits + 1
  BY ConfigFields, OperatorAssumption
<1>2. object \in Object
  BY ZenonT(30), NewIs DEF ObjectForKRMConfig
<1> HIDE DEF object
<1>3. new \in Object /\ new.rev = config.rev
  BY <1>1, <1>2 DEF Object
<1>4. deploymentForKRMConfig(config, new) \in Object /\ deploymentForKRMConfig(config, new).rev = config.rev
  <2>1. PICK v \in BOOLEAN : v = (new.volume \/ config.webhooks)
    OBVIOUS
  <2>2. deploymentForKRMConfig(config, new) = [new EXCEPT !.volume = v]
    BY ZenonT(30), <2>1 DEF deploymentForKRMConfig
  <2> HIDE DEF new
  <2> QED BY <1>3, <2>2 DEF Object
<1>5. Build(config, k, cached) = IF k.kind = "deployment" THEN deploymentForKRMConfig(config, new) ELSE new
  BY ZenonT(30) DEF Build, object
<1> QED BY ZenonT(30), <1>3, <1>4, <1>5

\* Inheriting leaves the settings alone.
LEMMA InheritIs ==
    ASSUME NEW k \in Keys, NEW current \in Object, NEW new \in Object
    PROVE  Inherit(k, current, new) \in Object /\ Inherit(k, current, new).rev = new.rev
BY ObjectFields DEF Inherit, Object

\* What a call stores.
LEMMA StoredIs ==
    ASSUME NEW new \in Object, NEW old \in Object, NEW uid \in 1 .. MaxEdits + 1
    PROVE  /\ Stored(new, old, uid) \in Object /\ Owned(Stored(new, old, uid))
           /\ Stored(new, old, uid).rev = new.rev
<1>1. uid \in 0 .. MaxEdits + 1 /\ uid # 0
  BY OperatorAssumption
<1>2. old.rolled \in (0 .. MaxEdits + 1) \X BOOLEAN /\ old.up \in BOOLEAN
  BY ObjectFields
<1>3. /\ Stored(new, old, uid) \in Object /\ Stored(new, old, uid).owner = uid
      /\ Stored(new, old, uid).rev = new.rev
  BY <1>1, <1>2 DEF Stored, Object
<1> QED BY <1>1, <1>3, ObjectFields DEF Owned

-----------------------------------------------------------------------------
(* Storing.                                                                 *)

\* Storing objects: unless a reconcile is to come of it, what is watched and owned is as before.
LEMMA StoreObjectsIs ==
    ASSUME TypeOK, NEW objects \in [Keys -> Object \cup {Gone}], StoreObjects(objects)
    PROVE  /\ live' \in Store /\ live'.objects = objects /\ live'.config = live.config
           /\ live'.missing = live.missing /\ live'.kai = live.kai /\ live'.crds = live.crds
           /\ stale' \in [EventKinds -> {"none", "quiet", "loud"}]
           /\ stale'["config"] = stale["config"] /\ stale'["missing"] = stale["missing"]
           /\ stale["objects"] = "loud" => stale'["objects"] = "loud"
           /\ stale'["objects"] # "loud" =>
                \A k \in Keys : Watched(k) => Alike(live.objects[k], objects[k])
<1> DEFINE changed == {k \in Keys : objects[k] # live.objects[k]}
           loud == \E k \in changed : Wakes(k, live.objects[k], objects[k])
<1>1. live' \in Store /\ live' = [live EXCEPT !.objects = objects]
  BY DEF StoreObjects, Store, TypeOK
<1>2. stale \in [EventKinds -> {"none", "quiet", "loud"}] /\ live \in Store
  BY DEF TypeOK
<1>3. stale' = IF changed = {} THEN stale ELSE Louder("objects", loud)
  BY ZenonT(30) DEF StoreObjects
<1>4. ASSUME NEW k \in Keys, Watched(k), ~Alike(live.objects[k], objects[k])
      PROVE  k \in changed /\ loud
  BY ZenonT(30), <1>4 DEF Alike, Owned, Watched, Wakes
<1> HIDE DEF changed, loud
<1>5. /\ stale' \in [EventKinds -> {"none", "quiet", "loud"}]
      /\ stale'["config"] = stale["config"] /\ stale'["missing"] = stale["missing"]
      /\ stale["objects"] = "loud" => stale'["objects"] = "loud"
      /\ changed # {} /\ loud => stale'["objects"] = "loud"
  BY <1>2, <1>3 DEF Louder, EventKinds
<1>6. /\ live'.objects = objects /\ live'.config = live.config
      /\ live'.missing = live.missing /\ live'.kai = live.kai /\ live'.crds = live.crds
  BY <1>1, <1>2 DEF Store
<1> QED BY ZenonT(30), <1>1, <1>4, <1>5, <1>6

\* Storing KRMConfig: every change is heard of.
LEMMA StoreConfigIs ==
    ASSUME TypeOK, NEW config \in Config \cup {Gone}, StoreConfig(config)
    PROVE  /\ live' \in Store /\ live'.config = config /\ live'.objects = live.objects
           /\ live'.missing = live.missing /\ live'.kai = live.kai /\ live'.crds = live.crds
           /\ stale' \in [EventKinds -> {"none", "quiet", "loud"}]
           /\ stale'["objects"] = stale["objects"] /\ stale'["missing"] = stale["missing"]
           /\ config # live.config => stale'["config"] = "loud"
           /\ config = live.config => live' = live /\ stale' = stale
<1>1. stale \in [EventKinds -> {"none", "quiet", "loud"}] /\ live \in Store
  BY DEF TypeOK
<1>2. live' = [live EXCEPT !.config = config] /\ stale' = IF config = live.config THEN stale ELSE Louder("config", TRUE)
  BY DEF StoreConfig
<1>3. /\ live' \in Store /\ live'.config = config /\ live'.objects = live.objects
      /\ live'.missing = live.missing /\ live'.kai = live.kai /\ live'.crds = live.crds
      /\ config = live.config => live' = live
  BY <1>1, <1>2 DEF Store
<1>4. /\ stale' \in [EventKinds -> {"none", "quiet", "loud"}]
      /\ stale'["objects"] = stale["objects"] /\ stale'["missing"] = stale["missing"]
      /\ config # live.config => stale'["config"] = "loud"
      /\ config = live.config => stale' = stale
  BY <1>1, <1>2 DEF Louder, EventKinds
<1> QED BY <1>3, <1>4

\* Being alike passes from one pair to the next.
LEMMA AlikeTransitive ==
    ASSUME NEW a, NEW b, NEW c, Alike(a, b), Alike(b, c)
    PROVE  Alike(a, c) /\ Alike(c, a)
BY ZenonT(30) DEF Alike

\* Storing objects while the reconcile and the caches stay: the caches lag no further.
LEMMA ObjectsLag ==
    ASSUME Inv, NEW objects \in [Keys -> Object \cup {Gone}], StoreObjects(objects),
           UNCHANGED <<seen, available>>
    PROVE  Lags'
<1>1. TypeOK
  BY DEF Inv, Typed
<1>2. Lags
  BY DEF Inv
<1>3. /\ live'.objects = objects /\ live'.config = live.config /\ live'.crds = live.crds
      /\ stale'["config"] = stale["config"]
      /\ stale["objects"] = "loud" => stale'["objects"] = "loud"
      /\ stale'["objects"] # "loud" =>
           \A k \in Keys : Watched(k) => Alike(live.objects[k], objects[k])
  BY ZenonT(30), <1>1, StoreObjectsIs
<1>4. stale'["config"] # "loud" => seen'.config = live'.config
  BY ZenonT(30), <1>2, <1>3 DEF Lags
<1>5. ASSUME stale'["objects"] # "loud", NEW k \in Keys, Watched(k)'
      PROVE  Alike(seen'.objects[k], live'.objects[k])
  <2>1. Watched(k)
    BY ZenonT(30), <1>5 DEF Watched
  <2>2. Alike(seen.objects[k], live.objects[k]) /\ Alike(live.objects[k], objects[k])
    BY ZenonT(30), <2>1, <1>5, <1>2, <1>3 DEF Lags
  <2>3. Alike(seen.objects[k], objects[k])
    BY ZenonT(30), <2>2, AlikeTransitive
  <2> QED BY ZenonT(30), <2>3, <1>3
<1>6. available' \subseteq live'.crds
  BY <1>2, <1>3 DEF Lags
<1> QED BY ZenonT(30), <1>4, <1>5, <1>6 DEF Lags

\* An object that is as before, or unowned as before, is as right as before.
LEMMA RightStays ==
    ASSUME NEW k \in Keys, Right(k), Alike(live.objects[k], live'.objects[k]), live'.config = live.config
    PROVE  Right(k)'
BY ZenonT(30) DEF Right, Alike, Asked

\* An object that is as before, or unowned as before, needs the same calls.
LEMMA PlannedStays ==
    ASSUME NEW k \in Keys, Planned(k), Alike(live.objects[k], live'.objects[k]),
           live'.config = live.config, job' = job
    PROVE  Planned(k)'
BY ZenonT(30) DEF Planned, Alike, Asked

\* What the frame of an action leaves typed.
LEMMA TypedStays ==
    ASSUME Typed, live' \in Store, seen' \in Cache,
           stale' \in [EventKinds -> {"none", "quiet", "loud"}], UNCHANGED <<setup, last, available>>,
           queued' \in BOOLEAN, timer' \in BOOLEAN, edits' \in 0 .. setup.edits,
           failures' \in 0 .. setup.failures, JobTyped', Counted'
    PROVE  Typed'
BY ZenonT(30) DEF Typed, TypeOK

\* The reconcile in progress stays typed while nobody goes on with it.
LEMMA JobStays ==
    ASSUME JobTyped, job' = job
    PROVE  JobTyped'
BY ZenonT(30) DEF JobTyped

\* Other people, and the cluster's controllers, store objects.
LEMMA ObjectsKeep ==
    ASSUME Inv, NEW objects \in [Keys -> Object \cup {Gone}], StoreObjects(objects), Outside,
           edits' \in 0 .. setup.edits, edits' >= edits
    PROVE  Inv'
<1>1. Typed /\ TypeOK /\ JobTyped /\ Counted /\ Followed
  BY DEF Inv, Typed
<1>2. UNCHANGED <<setup, seen, queued, timer, job, last, available, failures>>
  BY DEF Outside
<1>3. /\ live' \in Store /\ live'.objects = objects /\ live'.config = live.config
      /\ stale' \in [EventKinds -> {"none", "quiet", "loud"}]
      /\ stale'["config"] = stale["config"]
      /\ stale["objects"] = "loud" => stale'["objects"] = "loud"
      /\ stale'["objects"] # "loud" =>
           \A k \in Keys : Watched(k) => Alike(live.objects[k], objects[k])
  BY ZenonT(30), <1>1, StoreObjectsIs
<1>4. Lags'
  BY ZenonT(30), <1>2, ObjectsLag
<1>5. Typed'
  <2>1. Counted'
    <3>1. CASE live.config = Gone
      BY ZenonT(30), <3>1, <1>3 DEF Counted
    <3>2. CASE live.config # Gone
      <4>1. live.config \in Config
        BY <3>2, <1>1, StoreFields
      <4>2. live.config.gen \in Int /\ live.config.rev \in Int /\ edits \in Int /\ edits' \in Int
        BY <4>1, <1>1, ConfigFields, Bounds
      <4> QED BY <4>2, <3>2, <1>1, <1>3 DEF Counted
    <3> QED BY <3>1, <3>2
  <2>2. JobTyped'
    BY ZenonT(30), <1>1, <1>2, JobStays
  <2>3. /\ seen' \in Cache /\ queued' \in BOOLEAN /\ timer' \in BOOLEAN
        /\ failures' \in 0 .. setup.failures
    BY ZenonT(30), <1>1, <1>2 DEF TypeOK
  <2> QED BY ZenonT(30), <2>1, <2>2, <2>3, <1>1, <1>2, <1>3, TypedStays
<1>6. ASSUME ~Awake'
      PROVE  /\ job' = Idle \/ Reported' => Good'
             /\ job' # Idle => live'.config # Gone /\ Same(job'.config, live'.config)
             /\ job'.step \in Deploying => \A k \in Keys : Watched(k)' => Planned(k)'
  <2>1. ~Awake /\ \A k \in Keys : Watched(k) => Alike(live.objects[k], live'.objects[k])
    BY ZenonT(30), <1>6, <1>2, <1>3 DEF Awake
  <2>2. /\ job = Idle \/ Reported => Good
        /\ job # Idle => live.config # Gone /\ Same(job.config, live.config)
        /\ job.step \in Deploying => \A k \in Keys : Watched(k) => Planned(k)
    BY ZenonT(30), <2>1, <1>1 DEF Followed
  <2>3. \A k \in Keys : Watched(k)' <=> Watched(k)
    BY ZenonT(30), <1>2 DEF Watched
  <2>4. Good => Good'
    BY ZenonT(30), <2>1, <2>3, <1>3, RightStays DEF Good
  <2>5. Reported' <=> Reported
    BY ZenonT(30), <1>2 DEF Reported
  <2>6. ASSUME NEW k \in Keys, Watched(k)', job'.step \in Deploying
        PROVE  Planned(k)'
    BY ZenonT(30), <2>6, <2>1, <2>2, <2>3, <1>2, <1>3, PlannedStays
  <2> QED BY ZenonT(30), <2>2, <2>4, <2>5, <2>6, <1>2, <1>3
<1> QED BY ZenonT(30), <1>4, <1>5, <1>6 DEF Inv, Followed

-----------------------------------------------------------------------------
(* The actions of others.                                                   *)

\* Somebody deletes, changes or orphans an object, or a pod fails.
LEMMA EditObjectKeeps ==
    ASSUME Inv, EditObject
    PROVE  Inv'
<1>1. TypeOK
  BY DEF Inv, Typed
<1>2. PICK k \in Keys :
        /\ live.objects[k] # Gone /\ edits < setup.edits /\ edits' = edits + 1 /\ Outside
        /\ \/ StoreObjects([live.objects EXCEPT ![k] = Gone])
           \/ StoreObjects([live.objects EXCEPT ![k] = [live.objects[k] EXCEPT !.rev = 0]])
           \/ StoreObjects([live.objects EXCEPT ![k] = [live.objects[k] EXCEPT !.owner = 0]])
           \/ StoreObjects([live.objects EXCEPT ![k] = [live.objects[k] EXCEPT !.up = FALSE]])
  BY ZenonT(30) DEF EditObject, Edit
<1>3. live.objects[k] \in Object /\ live.objects \in [Keys -> Object \cup {Gone}]
  BY <1>1, <1>2, StoreFields
<1>4. /\ [live.objects[k] EXCEPT !.rev = 0] \in Object
      /\ [live.objects[k] EXCEPT !.owner = 0] \in Object
      /\ [live.objects[k] EXCEPT !.up = FALSE] \in Object
  <2>1. 0 \in 0 .. MaxEdits + 1
    BY OperatorAssumption
  <2> QED BY <1>3, <2>1 DEF Object
<1>5. PICK object \in Object \cup {Gone} : StoreObjects([live.objects EXCEPT ![k] = object])
  BY ZenonT(30), <1>2, <1>4
<1>6. [live.objects EXCEPT ![k] = object] \in [Keys -> Object \cup {Gone}]
  BY ZenonT(30), <1>3
<1>7. edits' \in 0 .. setup.edits /\ edits' >= edits
  BY <1>1, <1>2, Bounds
<1> QED BY ZenonT(30), <1>2, <1>5, <1>6, <1>7, ObjectsKeep

\* The garbage collector removes an object.
LEMMA CollectGarbageKeeps ==
    ASSUME Inv, CollectGarbage
    PROVE  Inv'
<1>1. TypeOK
  BY DEF Inv, Typed
<1>2. PICK k \in Keys : StoreObjects([live.objects EXCEPT ![k] = Gone]) /\ edits' = edits /\ Outside
  BY ZenonT(30) DEF CollectGarbage
<1>3. [live.objects EXCEPT ![k] = Gone] \in [Keys -> Object \cup {Gone}]
  BY <1>1, StoreFields
<1>4. edits' \in 0 .. setup.edits /\ edits' >= edits
  BY <1>1, <1>2, Bounds
<1> QED BY ZenonT(30), <1>2, <1>3, <1>4, ObjectsKeep

\* The deployment controller moves a Deployment on.
LEMMA RollOutKeeps ==
    ASSUME Inv, RollOut
    PROVE  Inv'
<1>1. TypeOK
  BY DEF Inv, Typed
<1>2. PICK k \in Keys :
        /\ live.objects[k] # Gone /\ edits' = edits /\ Outside
        /\ \/ StoreObjects([live.objects EXCEPT ![k].rolled = <<live.objects[k].rev, live.objects[k].volume>>,
                                                ![k].up = FALSE])
           \/ StoreObjects([live.objects EXCEPT ![k].up = TRUE])
  BY ZenonT(30) DEF RollOut
<1> DEFINE object == live.objects[k]
           first == [object EXCEPT !.rolled = <<object.rev, object.volume>>, !.up = FALSE]
           second == [object EXCEPT !.up = TRUE]
<1>3. object \in Object /\ live.objects \in [Keys -> Object \cup {Gone}]
  BY <1>1, <1>2, StoreFields
<1>4. first \in Object /\ second \in Object
  <2> HIDE DEF object
  <2>1. <<object.rev, object.volume>> \in (0 .. MaxEdits + 1) \X BOOLEAN
    BY <1>3, ObjectFields
  <2> QED BY <1>3, <2>1 DEF Object
<1>5. /\ [live.objects EXCEPT ![k].rolled = <<object.rev, object.volume>>, ![k].up = FALSE]
           = [live.objects EXCEPT ![k] = first]
      /\ [live.objects EXCEPT ![k].up = TRUE] = [live.objects EXCEPT ![k] = second]
  BY <1>3
<1>6. PICK new \in Object : StoreObjects([live.objects EXCEPT ![k] = new])
  <2> HIDE DEF first, second
  <2> QED BY ZenonT(30), <1>2, <1>4, <1>5
<1>7. [live.objects EXCEPT ![k] = new] \in [Keys -> Object \cup {Gone}]
  BY ZenonT(30), <1>3
<1>8. edits' \in 0 .. setup.edits /\ edits' >= edits
  BY <1>1, <1>2, Bounds
<1> QED BY ZenonT(30), <1>2, <1>6, <1>7, <1>8, ObjectsKeep

\* An edit of KRMConfig always queues a reconcile, and counts.
LEMMA EditConfigKeeps ==
    ASSUME Inv, EditConfig
    PROVE  Inv'
<1>1. Typed /\ TypeOK /\ JobTyped /\ Counted /\ Lags
  BY DEF Inv, Typed
<1>2. UNCHANGED <<setup, seen, queued, timer, job, last, available, failures>>
  BY DEF EditConfig, Outside
<1>3. edits < setup.edits /\ edits' = edits + 1
  BY ZenonT(30) DEF EditConfig, Edit
<1>4. /\ edits \in Nat /\ edits' \in 0 .. setup.edits /\ edits + 1 \in 1 .. MaxEdits /\ edits' \in Nat
      /\ MaxEdits \in Nat
  BY <1>1, <1>3, Bounds
<1>5. setup.config \in Config /\ setup.config.gen = 1 /\ setup.config.rev = 1
  BY <1>1, OperatorAssumption DEF TypeOK
<1>6. PICK config \in Config \cup {Gone} :
        /\ StoreConfig(config) /\ config # live.config
        /\ config # Gone => config.gen <= edits' + 1 /\ config.rev <= edits' + 1
  <2>1. CASE live.config # Gone
    <3> DEFINE old == live.config
               gen == old.gen + 1
    <3>1. old \in Config
      BY <2>1, <1>1, StoreFields
    <3>2. old.gen <= edits + 1 /\ old.rev <= edits + 1
      BY <2>1, <1>1 DEF Counted
    <3>3. \/ StoreConfig(Gone)
          \/ StoreConfig([old EXCEPT !.rev = @ + 1, !.gen = gen])
          \/ \E ns \in Namespaces : StoreConfig([old EXCEPT !.ns = ns, !.gen = gen])
          \/ \E enabled \in SUBSET Names : StoreConfig([old EXCEPT !.enabled = enabled, !.gen = gen])
          \/ \E vpa \in BOOLEAN : StoreConfig([old EXCEPT !.vpa = vpa, !.gen = gen])
          \/ \E webhooks \in BOOLEAN : StoreConfig([old EXCEPT !.webhooks = webhooks, !.rev = @ + 1, !.gen = gen])
      <4> DEFINE set(new) == StoreConfig([new EXCEPT !.gen = gen])
      <4>1. \/ StoreConfig(Gone)
            \/ set([old EXCEPT !.rev = @ + 1])
            \/ \E ns \in Namespaces : set([old EXCEPT !.ns = ns])
            \/ \E o \in Names : set([old EXCEPT !.enabled = IF o \in @ THEN @ \ {o} ELSE @ \cup {o}])
            \/ set([old EXCEPT !.vpa = ~@])
            \/ set([old EXCEPT !.webhooks = ~@, !.rev = @ + 1])
        BY ZenonT(30), <2>1 DEF EditConfig
      <4>2. CASE \E o \in Names : set([old EXCEPT !.enabled = IF o \in @ THEN @ \ {o} ELSE @ \cup {o}])
        <5>1. PICK o \in Names : set([old EXCEPT !.enabled = IF o \in @ THEN @ \ {o} ELSE @ \cup {o}])
          BY ZenonT(30), <4>2
        <5> DEFINE enabled == IF o \in old.enabled THEN old.enabled \ {o} ELSE old.enabled \cup {o}
        <5>2. enabled \in SUBSET Names
          BY <3>1, ConfigFields
        <5> HIDE DEF enabled
        <5>3. StoreConfig([old EXCEPT !.enabled = enabled, !.gen = gen])
          BY ZenonT(30), <5>1 DEF enabled
        <5> QED BY ZenonT(30), <5>2, <5>3
      <4>3. CASE set([old EXCEPT !.vpa = ~@])
        BY ZenonT(30), <4>3
      <4>4. CASE set([old EXCEPT !.webhooks = ~@, !.rev = @ + 1])
        BY ZenonT(30), <4>4
      <4> QED BY ZenonT(30), <4>1, <4>2, <4>3, <4>4
    <3>4. /\ gen \in 1 .. MaxEdits + 1 /\ gen # old.gen /\ gen <= edits' + 1
          /\ old.rev + 1 \in 1 .. MaxEdits + 1 /\ old.rev + 1 <= edits' + 1 /\ old.rev <= edits' + 1
      BY <3>1, <3>2, <1>3, <1>4, ConfigFields
    <3> DEFINE Fit(config) == /\ config \in Config /\ config.gen = gen
                              /\ config.rev = old.rev \/ config.rev = old.rev + 1
    <3>5. /\ Fit([old EXCEPT !.rev = @ + 1, !.gen = gen])
          /\ \A ns \in Namespaces : Fit([old EXCEPT !.ns = ns, !.gen = gen])
          /\ \A enabled \in SUBSET Names : Fit([old EXCEPT !.enabled = enabled, !.gen = gen])
          /\ \A vpa \in BOOLEAN : Fit([old EXCEPT !.vpa = vpa, !.gen = gen])
          /\ \A webhooks \in BOOLEAN : Fit([old EXCEPT !.webhooks = webhooks, !.rev = @ + 1, !.gen = gen])
      <4> HIDE DEF old, gen
      <4> QED BY <3>1, <3>4 DEF Config
    <3>6. StoreConfig(Gone) \/ \E config : StoreConfig(config) /\ Fit(config)
      <4> HIDE DEF Fit
      <4> QED BY ZenonT(30), <3>3, <3>5
    <3>7. ASSUME NEW config, Fit(config)
          PROVE  /\ config \in Config /\ config # live.config
                 /\ config.gen <= edits' + 1 /\ config.rev <= edits' + 1
      BY <3>7, <3>4
    <3> HIDE DEF Fit
    <3> QED BY ZenonT(30), <2>1, <3>6, <3>7
  <2>2. CASE live.config = Gone
    <3> DEFINE config == [setup.config EXCEPT !.uid = edits + 1, !.conditions = Fresh]
    <3>1. StoreConfig(config)
      BY ZenonT(30), <2>2 DEF EditConfig
    <3>2. Fresh \in [Conditions -> [status : BOOLEAN, gen : Nat]] /\ edits + 1 \in 1 .. MaxEdits + 1
      BY <1>4 DEF Fresh, Unset
    <3>3. config \in Config /\ config.gen = 1 /\ config.rev = 1
      BY <3>2, <1>5 DEF Config
    <3>4. config # Gone /\ 1 <= edits' + 1
      BY <3>3, <1>4, ConfigFields
    <3> QED BY ZenonT(30), <2>2, <3>1, <3>3, <3>4
  <2> QED BY ZenonT(30), <2>1, <2>2
<1>7. /\ live' \in Store /\ live'.config = config /\ live'.objects = live.objects /\ live'.crds = live.crds
      /\ stale' \in [EventKinds -> {"none", "quiet", "loud"}]
      /\ stale'["objects"] = stale["objects"] /\ stale'["config"] = "loud"
  BY ZenonT(30), <1>1, <1>6, StoreConfigIs
<1>8. Awake'
  BY <1>7 DEF Awake
<1>9. Lags'
  <2>1. ASSUME stale'["objects"] # "loud", NEW k \in Keys, Watched(k)'
        PROVE  Alike(seen'.objects[k], live'.objects[k])
    BY ZenonT(30), <2>1, <1>1, <1>2, <1>7 DEF Lags, Watched, Alike
  <2>2. stale'["config"] = "loud" /\ available' \subseteq live'.crds
    BY <1>1, <1>2, <1>7 DEF Lags
  <2> QED BY ZenonT(30), <2>1, <2>2 DEF Lags
<1>10. Typed'
  <2>1. Counted'
    BY ZenonT(30), <1>6, <1>7 DEF Counted
  <2>2. JobTyped'
    BY ZenonT(30), <1>1, <1>2, JobStays
  <2>3. /\ seen' \in Cache /\ queued' \in BOOLEAN /\ timer' \in BOOLEAN
        /\ failures' \in 0 .. setup.failures
    BY ZenonT(30), <1>1, <1>2 DEF TypeOK
  <2> QED BY ZenonT(30), <2>1, <2>2, <2>3, <1>1, <1>2, <1>4, <1>7, TypedStays
<1> QED BY ZenonT(30), <1>8, <1>9, <1>10 DEF Inv, Followed

\* What neither KRMConfig nor the objects show of leaves everything as right as it was.
LEMMA FollowedStays ==
    ASSUME Followed, Awake => Awake', live'.config = live.config, live'.objects = live.objects,
           UNCHANGED <<job, available>>
    PROVE  Followed'
<1>1. /\ Good' <=> Good
      /\ Reported' <=> Reported
      /\ \A k \in Keys : (Watched(k)' <=> Watched(k)) /\ (Planned(k)' <=> Planned(k))
  <2>1. \A k \in Keys : /\ Watched(k)' <=> Watched(k)
                        /\ Planned(k)' <=> Planned(k)
                        /\ Right(k)' <=> Right(k)
    BY ZenonT(30) DEF Watched, Planned, Right, Asked
  <2> QED BY ZenonT(30), <2>1 DEF Good, Reported
<1> QED BY ZenonT(30), <1>1 DEF Followed

\* KAI Scheduler or a CustomResourceDefinition comes or goes: no object changes.
LEMMA EditClusterKeeps ==
    ASSUME Inv, EditCluster
    PROVE  Inv'
<1>1. Typed /\ TypeOK /\ JobTyped /\ Counted /\ Lags /\ Followed
  BY DEF Inv, Typed
<1>2. UNCHANGED <<setup, seen, queued, timer, job, last, available, failures>>
  BY DEF EditCluster, Outside
<1>3. edits < setup.edits /\ edits' = edits + 1
  BY ZenonT(30) DEF EditCluster, Edit
<1>4. edits \in Nat /\ edits' \in Nat /\ edits' \in 0 .. setup.edits
  BY <1>1, <1>3, Bounds
<1>5. /\ live' \in Store /\ live'.config = live.config /\ live'.objects = live.objects
      /\ live.crds \subseteq live'.crds
  <2>1. live \in Store /\ live.kai \in BOOLEAN
    BY <1>1, StoreFields DEF TypeOK
  <2>2. CASE live' = [live EXCEPT !.kai = ~@]
    <3>1. PICK kai \in BOOLEAN : live' = [live EXCEPT !.kai = kai]
      BY ZenonT(30), <2>2
    <3> QED BY <2>1, <3>1 DEF Store
  <2>3. CASE \E o \in Names : live' = [live EXCEPT !.missing = IF o \in @ THEN @ \ {o} ELSE @ \cup {o}]
    <3>1. PICK missing \in SUBSET Names : live' = [live EXCEPT !.missing = missing]
      <4>1. PICK o \in Names :
              live' = [live EXCEPT !.missing = IF o \in live.missing THEN live.missing \ {o}
                                               ELSE live.missing \cup {o}]
        BY ZenonT(30), <2>3
      <4>2. (IF o \in live.missing THEN live.missing \ {o} ELSE live.missing \cup {o}) \in SUBSET Names
        BY <2>1 DEF Store
      <4> QED BY ZenonT(30), <4>1, <4>2
    <3> QED BY <2>1, <3>1 DEF Store
  <2>4. CASE \E kind \in Optional \ live.crds : live' = [live EXCEPT !.crds = @ \cup {kind}]
    BY <2>1, <2>4 DEF Store
  <2> QED BY ZenonT(30), <2>2, <2>3, <2>4 DEF EditCluster
<1>6. /\ stale' \in [EventKinds -> {"none", "quiet", "loud"}]
      /\ stale'["config"] = stale["config"] /\ stale'["objects"] = stale["objects"]
  <2>1. stale \in [EventKinds -> {"none", "quiet", "loud"}]
    BY <1>1 DEF TypeOK
  <2>2. stale' = stale \/ stale' = Louder("missing", FALSE)
    BY ZenonT(30) DEF EditCluster
  <2> QED BY <2>1, <2>2 DEF Louder, EventKinds
<1>7. Lags'
  <2>1. ASSUME stale'["objects"] # "loud", NEW k \in Keys, Watched(k)'
        PROVE  Alike(seen'.objects[k], live'.objects[k])
    BY ZenonT(30), <2>1, <1>1, <1>2, <1>5, <1>6 DEF Lags, Watched, Alike
  <2>2. stale'["config"] # "loud" => seen'.config = live'.config
    BY ZenonT(30), <1>1, <1>2, <1>5, <1>6 DEF Lags
  <2>3. available' \subseteq live'.crds
    BY <1>1, <1>2, <1>5 DEF Lags
  <2> QED BY ZenonT(30), <2>1, <2>2, <2>3 DEF Lags
<1>8. Followed'
  BY ZenonT(30), <1>1, <1>2, <1>5, <1>6, FollowedStays DEF Awake
<1>9. Typed'
  <2>1. Counted'
    <3>1. CASE live.config = Gone
      BY ZenonT(30), <3>1, <1>5 DEF Counted
    <3>2. CASE live.config # Gone
      <4>1. live.config \in Config
        BY <3>2, <1>1, StoreFields
      <4>2. live.config.gen \in Int /\ live.config.rev \in Int
        BY <4>1, <1>4, ConfigFields
      <4> QED BY <4>2, <3>2, <1>1, <1>3, <1>4, <1>5 DEF Counted
    <3> QED BY <3>1, <3>2
  <2>2. JobTyped'
    BY ZenonT(30), <1>1, <1>2, JobStays
  <2>3. /\ seen' \in Cache /\ queued' \in BOOLEAN /\ timer' \in BOOLEAN
        /\ failures' \in 0 .. setup.failures
    BY ZenonT(30), <1>1, <1>2 DEF TypeOK
  <2> QED BY ZenonT(30), <2>1, <2>2, <2>3, <1>1, <1>2, <1>4, <1>5, <1>6, TypedStays
<1> QED BY ZenonT(30), <1>7, <1>8, <1>9 DEF Inv

-----------------------------------------------------------------------------
(* Events, timers and restarts.                                             *)

\* Events arrive: the cache has caught up, and a loud one has queued a reconcile.
LEMMA SyncKeeps ==
    ASSUME Inv, NEW kind \in EventKinds, Sync(kind)
    PROVE  Inv'
<1>1. Typed /\ TypeOK /\ JobTyped /\ Counted /\ Lags /\ Followed
  BY DEF Inv, Typed
<1>2. UNCHANGED <<setup, live, timer, job, last, available, edits, failures>>
  BY DEF Sync, Rest
<1>3. /\ seen' \in Cache
      /\ kind = "config" => seen'.config = live.config /\ seen'.objects = seen.objects
      /\ kind = "objects" => seen'.objects = live.objects /\ seen'.config = seen.config
      /\ kind = "missing" => seen'.objects = seen.objects /\ seen'.config = seen.config
  <2>1. seen \in Cache /\ live \in Store /\ seen' = [seen EXCEPT ![kind] = live[kind]]
    BY <1>1 DEF TypeOK, Sync
  <2>2. /\ kind = "config" => live[kind] = live.config
        /\ kind = "objects" => live[kind] = live.objects
        /\ kind = "missing" => live[kind] = live.missing
    OBVIOUS
  <2> QED BY <2>1, <2>2 DEF EventKinds, Cache, Store
<1>4. /\ stale' \in [EventKinds -> {"none", "quiet", "loud"}]
      /\ stale'[kind] = "none" /\ \A other \in EventKinds \ {kind} : stale'[other] = stale[other]
      /\ queued' \in BOOLEAN /\ (queued' <=> queued \/ stale[kind] = "loud")
  BY <1>1 DEF TypeOK, Sync
<1>5. Lags'
  <2>1. ASSUME stale'["objects"] # "loud", NEW k \in Keys, Watched(k)'
        PROVE  Alike(seen'.objects[k], live'.objects[k])
    <3>1. CASE kind = "objects"
      BY ZenonT(30), <3>1, <1>2, <1>3 DEF Alike
    <3>2. CASE kind # "objects"
      <4>1. stale["objects"] # "loud" /\ Watched(k) /\ seen'.objects = seen.objects
        BY <3>2, <2>1, <1>2, <1>3, <1>4 DEF EventKinds, Watched
      <4> QED BY ZenonT(30), <4>1, <1>1, <1>2 DEF Lags
    <3> QED BY <3>1, <3>2
  <2>2. stale'["config"] # "loud" => seen'.config = live'.config
    BY <1>1, <1>2, <1>3, <1>4 DEF Lags, EventKinds
  <2>3. available' \subseteq live'.crds
    BY <1>1, <1>2 DEF Lags
  <2> QED BY ZenonT(30), <2>1, <2>2, <2>3 DEF Lags
<1>6. Awake => Awake'
  BY <1>4 DEF Awake, EventKinds
<1>7. Followed'
  BY ZenonT(30), <1>1, <1>2, <1>6, FollowedStays
<1>8. Typed'
  <2>1. Counted' /\ live' \in Store /\ timer' \in BOOLEAN /\ edits' \in 0 .. setup.edits
        /\ failures' \in 0 .. setup.failures
    BY ZenonT(30), <1>1, <1>2 DEF Counted, TypeOK
  <2>2. JobTyped'
    BY ZenonT(30), <1>1, <1>2, JobStays
  <2> QED BY ZenonT(30), <2>1, <2>2, <1>1, <1>2, <1>3, <1>4, TypedStays
<1> QED BY ZenonT(30), <1>5, <1>7, <1>8 DEF Inv

\* The timer queues a reconcile.
LEMMA RecheckKeeps ==
    ASSUME Inv, Recheck
    PROVE  Inv'
<1>1. Typed /\ TypeOK /\ JobTyped /\ Counted /\ Lags /\ Followed
  BY DEF Inv, Typed
<1>2. UNCHANGED <<setup, live, seen, stale, job, last, available, edits, failures>> /\ timer' = FALSE /\ queued' = TRUE
  BY DEF Recheck, Rest
<1>3. Lags' /\ Followed'
  BY ZenonT(30), <1>1, <1>2 DEF Lags, Followed, Watched, Alike, Awake
<1>4. Typed'
  <2>1. JobTyped' /\ Counted'
    BY ZenonT(30), <1>1, <1>2, JobStays DEF Counted
  <2> QED BY ZenonT(30), <2>1, <1>1, <1>2, TypedStays DEF TypeOK
<1> QED BY ZenonT(30), <1>3, <1>4 DEF Inv

\* No reconcile in progress.
LEMMA IdleTyped ==
    ASSUME job = Idle
    PROVE  JobTyped
BY DEF JobTyped, Idle, Steps, Deploying

\* A restart reads everything again and queues a reconcile.
LEMMA RestartKeeps ==
    ASSUME Inv, Restart
    PROVE  Inv'
<1>1. Typed /\ TypeOK /\ JobTyped /\ Counted /\ Lags /\ Followed
  BY DEF Inv, Typed
<1>2. /\ UNCHANGED <<setup, live, edits>> /\ queued' = TRUE /\ timer' = FALSE /\ job' = Idle
      /\ failures < setup.failures /\ failures' = failures + 1
      /\ last' = [o \in Names |-> {}] /\ available' = live.crds
      /\ stale' = [kind \in EventKinds |-> "none"]
      /\ seen' = [config |-> live.config, objects |-> live.objects, missing |-> live.missing]
  BY DEF Restart, Rest
<1>3. seen' \in Cache /\ seen'.config = live.config /\ seen'.objects = live.objects
  BY <1>1, <1>2, StoreFields DEF Cache
<1>4. Lags' /\ Followed'
  <2>1. \A k \in Keys : Alike(seen'.objects[k], live'.objects[k])
    BY ZenonT(30), <1>2, <1>3 DEF Alike
  <2>2. available' \subseteq live'.crds /\ seen'.config = live'.config
    BY <1>2, <1>3
  <2> QED BY ZenonT(30), <2>1, <2>2, <1>2 DEF Lags, Followed, Awake
<1>5. Typed'
  <2>1. JobTyped'
    BY <1>2 DEF JobTyped, Idle, Steps, Deploying
  <2>2. Counted'
    BY ZenonT(30), <1>1, <1>2 DEF Counted
  <2>3. TypeOK'
    <3>1. failures' \in 0 .. setup'.failures
      BY <1>1, <1>2, Bounds
    <3>2. available' \subseteq Optional
      BY <1>1, <1>2, StoreFields
    <3>3. last' \in [Names -> SUBSET Keys] /\ stale' \in [EventKinds -> {"none", "quiet", "loud"}]
      BY <1>2
    <3> QED BY ZenonT(30), <3>1, <3>2, <3>3, <1>1, <1>2, <1>3 DEF TypeOK
  <2> QED BY <2>1, <2>2, <2>3 DEF Typed
<1> QED BY <1>4, <1>5 DEF Inv

\* At the start everything was just read, and a reconcile is queued.
LEMMA InitKeeps ==
    ASSUME Init
    PROVE  Inv
<1>1. /\ setup \in Setups /\ edits = 0 /\ failures = 0 /\ queued = TRUE /\ timer = FALSE /\ job = Idle
      /\ live = [config |-> setup.config, crds |-> setup.crds, kai |-> TRUE, missing |-> {},
                 objects |-> setup.objects]
      /\ seen = [config |-> live.config, objects |-> live.objects, missing |-> live.missing]
      /\ stale = [kind \in EventKinds |-> "none"]
      /\ last = [o \in Names |-> {}] /\ available = setup.crds
  BY DEF Init
<1>2. /\ setup.config \in Config /\ setup.config.gen = 1 /\ setup.config.rev = 1
      /\ setup.objects \in [Keys -> Object \cup {Gone}] /\ setup.crds \subseteq Optional
      /\ setup.edits \in 0 .. MaxEdits /\ setup.failures \in Nat /\ MaxEdits \in Nat
  BY <1>1, OperatorAssumption
<1>3. live \in Store /\ live.config = setup.config /\ live.objects = setup.objects /\ live.crds = setup.crds
  BY <1>1, <1>2 DEF Store
<1>4. seen \in Cache /\ seen.config = live.config /\ seen.objects = live.objects
  BY <1>1, <1>2 DEF Cache
<1>5. Lags /\ Followed
  <2>1. \A k \in Keys : Alike(seen.objects[k], live.objects[k])
    BY ZenonT(30), <1>4 DEF Alike
  <2>2. available \subseteq live.crds
    BY <1>1, <1>3
  <2> QED BY ZenonT(30), <2>1, <2>2, <1>1, <1>4 DEF Lags, Followed, Awake
<1>6. Typed
  <2>1. JobTyped
    BY <1>1, IdleTyped
  <2>2. Counted
    BY <1>1, <1>2, <1>3 DEF Counted
  <2>3. edits \in 0 .. setup.edits /\ failures \in 0 .. setup.failures
    BY <1>1, <1>2
  <2>4. last \in [Names -> SUBSET Keys] /\ stale \in [EventKinds -> {"none", "quiet", "loud"}]
    BY <1>1
  <2> QED BY ZenonT(30), <2>1, <2>2, <2>3, <2>4, <1>1, <1>2, <1>3, <1>4 DEF Typed, TypeOK
<1> QED BY <1>5, <1>6 DEF Inv

-----------------------------------------------------------------------------
(* The reconcile.                                                           *)

\* The caches lag no further when nothing stored or cached changes.
LEMMA LagsStay ==
    ASSUME Lags, UNCHANGED <<live, seen, stale, available>>
    PROVE  Lags'
BY ZenonT(30) DEF Lags, Watched, Alike

\* The conditions that announce a reconcile.
LEMMA BeginTodo ==
    ASSUME NEW a \in BOOLEAN, NEW b \in BOOLEAN
    PROVE  IsTodo(<<Condition("Reconciling", a), Condition("Deployed", b)>>)
BY DEF IsTodo, Condition, Conditions

\* The conditions that report one.
LEMMA ReportTodo ==
    ASSUME NEW a \in BOOLEAN, NEW b \in BOOLEAN, NEW c \in BOOLEAN, NEW d \in BOOLEAN, NEW e \in BOOLEAN
    PROVE  IsTodo(<<Condition("Deployed", a), Condition("Available", b), Condition("DependenciesFulfilled", c),
                    Condition("Ready", d), Condition("Reconciling", e)>>)
BY DEF IsTodo, Condition, Conditions

\* A reconcile reads KRMConfig from the cache: the present one, unless an event is on its way.
LEMMA ReconcileKeeps ==
    ASSUME Inv, Reconcile
    PROVE  Inv'
<1>1. Typed /\ TypeOK /\ JobTyped /\ Counted /\ Lags /\ Followed
  BY DEF Inv, Typed
<1>2. UNCHANGED <<setup, live, seen, stale, timer, last, available, edits, failures>> /\ queued' = FALSE
  BY DEF Reconcile, Rest
<1> DEFINE config == seen.config
           todo == <<Condition("Reconciling", TRUE), Condition("Deployed", IsDeployed)>>
<1>3. \/ config = Gone /\ job' = Idle
      \/ config # Gone /\ job' = [step |-> "desired", config |-> config]
      \/ config # Gone /\ job' = [step |-> "begin", config |-> config, todo |-> todo]
  <2>1. job' = CASE config = Gone -> Idle
                 [] config # Gone /\ config.conditions["Reconciling"].gen = config.gen ->
                      [step |-> "desired", config |-> config]
                 [] OTHER -> [step |-> "begin", config |-> config, todo |-> todo]
    BY ZenonT(30) DEF Reconcile
  <2> HIDE DEF todo, config
  <2> QED BY <2>1
<1>4. IsTodo(todo)
  <2>1. IsDeployed \in BOOLEAN
    BY DEF IsDeployed
  <2> QED BY ZenonT(30), <2>1, BeginTodo
<1>5. config # Gone => config \in Config
  BY <1>1, StoreFields
<1> HIDE DEF config, todo
<1>6. JobTyped'
  <2>1. CASE job' = Idle
    BY <2>1 DEF JobTyped, Idle, Steps, Deploying
  <2>2. CASE job' # Idle
    BY <2>2, <1>3, <1>4, <1>5 DEF JobTyped, Steps, Deploying
  <2> QED BY <2>1, <2>2
<1>7. Typed'
  <2>1. Counted'
    BY ZenonT(30), <1>1, <1>2 DEF Counted
  <2> QED BY ZenonT(30), <2>1, <1>1, <1>2, <1>6, TypedStays DEF TypeOK
<1>8. Lags'
  BY ZenonT(30), <1>1, <1>2, LagsStay
<1>9. ASSUME ~Awake'
      PROVE  /\ job' = Idle \/ Reported' => Good'
             /\ job' # Idle => live'.config # Gone /\ Same(job'.config, live'.config)
             /\ job'.step \notin Deploying
  <2>1. config = live.config
    BY ZenonT(30), <1>9, <1>1, <1>2 DEF Awake, Lags, config
  <2>2. CASE config = Gone
    <3>1. job' = Idle /\ Good'
      BY ZenonT(30), <2>1, <2>2, <1>2, <1>3 DEF Good
    <3>2. job'.step \notin Deploying
      BY <3>1 DEF Idle, Deploying
    <3> QED BY ZenonT(30), <3>1, <3>2
  <2>3. CASE config # Gone
    <3>1. job'.config = config /\ job'.step \in {"desired", "begin"} /\ job' # Idle
      BY <2>3, <1>3 DEF Idle
    <3>2. ~Reported' /\ job'.step \notin Deploying
      BY <3>1 DEF Reported, Deploying
    <3>3. Same(job'.config, live'.config)
      BY ZenonT(30), <3>1, <2>1, <1>2 DEF Same
    <3> QED BY ZenonT(30), <2>1, <2>3, <3>1, <3>2, <3>3, <1>2
  <2> QED BY ZenonT(30), <2>2, <2>3
<1> QED BY ZenonT(30), <1>7, <1>8, <1>9 DEF Inv, Followed

\* Working out the conditions changes nothing they are about.
LEMMA EvaluateKeeps ==
    ASSUME Inv, Evaluate
    PROVE  Inv'
<1>1. Typed /\ TypeOK /\ JobTyped /\ Counted /\ Lags /\ Followed
  BY DEF Inv, Typed
<1>2. UNCHANGED <<setup, live, seen, stale, queued, timer, last, available, edits>> /\ job.step = "status"
  BY DEF Evaluate, Rest
<1>3. PICK checked \in BOOLEAN :
        /\ ~checked => failures < setup.failures
        /\ failures' = IF checked THEN failures ELSE failures + 1
        /\ job' = [step |-> "report", config |-> job.config, failed |-> job.failed,
                   todo |-> ConditionsNow(job.config, checked)]
  BY ZenonT(30) DEF Evaluate
<1> DEFINE todo == ConditionsNow(job.config, checked)
<1>4. IsTodo(todo)
  <2> DEFINE met == DependenciesFulfilled(job.config) /\ checked
             ready == IsDeployed /\ IsAvailable /\ met
  <2>1. IsDeployed \in BOOLEAN /\ IsAvailable \in BOOLEAN /\ met \in BOOLEAN /\ ready \in BOOLEAN
    BY ZenonT(30) DEF IsDeployed, IsAvailable
  <2>2. todo = <<Condition("Deployed", IsDeployed), Condition("Available", IsAvailable),
                 Condition("DependenciesFulfilled", met), Condition("Ready", ready),
                 Condition("Reconciling", FALSE)>>
    BY ZenonT(30) DEF ConditionsNow
  <2> HIDE DEF met, ready
  <2> QED BY ZenonT(30), <2>1, <2>2, ReportTodo
<1> HIDE DEF todo
<1>5. /\ job'.step = "report" /\ job'.config = job.config /\ job'.failed = job.failed /\ job'.todo = todo
      /\ job' # Idle
  BY <1>3 DEF Idle, todo
<1>6. job.config \in Config /\ job.failed \in BOOLEAN /\ job # Idle
  BY <1>1, <1>2 DEF JobTyped, Idle
<1>7. JobTyped'
  BY <1>4, <1>5, <1>6 DEF JobTyped, Steps, Deploying
<1>8. Typed'
  <2>1. Counted'
    BY ZenonT(30), <1>1, <1>2 DEF Counted
  <2>2. failures' \in 0 .. setup.failures
    BY <1>1, <1>3, Bounds DEF TypeOK
  <2> QED BY ZenonT(30), <2>1, <2>2, <1>1, <1>2, <1>7, TypedStays DEF TypeOK
<1>9. Lags'
  BY ZenonT(30), <1>1, <1>2, LagsStay
<1>10. ASSUME ~Awake'
       PROVE  /\ Reported' => Good'
              /\ live'.config # Gone /\ Same(job'.config, live'.config)
              /\ job'.step \notin Deploying
  <2>1. ~Awake
    BY ZenonT(30), <1>10, <1>2 DEF Awake
  <2>2. (Reported => Good) /\ live.config # Gone /\ Same(job.config, live.config)
    BY ZenonT(30), <2>1, <1>1, <1>6 DEF Followed
  <2>3. Reported' => Reported
    BY ZenonT(30), <1>2, <1>5 DEF Reported
  <2>4. Good => Good'
    BY ZenonT(30), <1>2 DEF Good, Right, Asked, Watched
  <2>5. job'.step \notin Deploying
    BY <1>5 DEF Deploying
  <2> QED BY ZenonT(30), <2>2, <2>3, <2>4, <2>5, <1>2, <1>5
<1> QED BY ZenonT(30), <1>5, <1>8, <1>9, <1>10 DEF Inv, Followed

\* What the reconcile will do to an object that is watched is what it needs.
LEMMA DesiredStateKeeps ==
    ASSUME Inv, NEW failed \in Nat, DesiredState(failed)
    PROVE  Inv'
<1> DEFINE wanted == UNION {KeysWanted(job.config, o) : o \in Names}
           current == Collect(job.config)
           built == [k \in wanted |-> Build(job.config, k, seen.objects[k])]
           new == [k \in wanted |-> IF k \in current THEN Inherit(k, seen.objects[k], built[k]) ELSE built[k]]
           read == [k \in wanted |-> IF k.kind \in BuiltFresh /\ k \notin current THEN Gone
                                     ELSE seen.objects[k]]
           update == {k \in wanted \cap current : Differs(k, seen.objects[k], new[k])}
<1>1. Typed /\ TypeOK /\ JobTyped /\ Counted /\ Lags /\ Followed
  BY DEF Inv, Typed
<1>2. UNCHANGED <<setup, live, seen, stale, queued, timer, available, edits>> /\ job.step = "desired"
  BY DEF DesiredState, Rest
<1>3. /\ failed # 0 => failures < setup.failures
      /\ failures' = IF failed # 0 THEN failures + 1 ELSE failures
      /\ last' = [o \in Names |-> IF \E i \in DOMAIN Operands : Operands[i] = o /\ (failed = 0 \/ i < failed)
                                  THEN KeysWanted(job.config, o) ELSE last[o]]
  BY DEF DesiredState
<1>4. job' = IF failed # 0 THEN [step |-> "status", config |-> job.config, failed |-> TRUE]
             ELSE [step |-> "create", config |-> job.config, desired |-> new, read |-> read,
                   create |-> wanted \ current, delete |-> current \ wanted, update |-> update]
  BY ZenonT(30) DEF DesiredState
<1>5. job.config \in Config /\ job # Idle
  BY <1>1, <1>2 DEF JobTyped, Idle
<1>6. wanted \subseteq Keys /\ current \subseteq Keys
  BY WantedAreKeys DEF Collect
<1>7. \A k \in Keys : k \in current <=> Watched(k) /\ Owned(seen.objects[k])
  BY ZenonT(30) DEF Collect, Watched, Owned
<1> HIDE DEF wanted, current
<1>8. ASSUME NEW k \in wanted
      PROVE  new[k] \in Object /\ new[k].rev = job.config.rev
  <2>1. seen.objects[k] \in Object \cup {Gone} /\ k \in Keys
    BY <1>1, <1>6, StoreFields
  <2>2. built[k] \in Object /\ built[k].rev = job.config.rev
    BY ZenonT(30), <2>1, <1>5, <1>8, BuildIs
  <2>3. new[k] = IF k \in current THEN Inherit(k, seen.objects[k], built[k]) ELSE built[k]
    BY ZenonT(30), <1>8
  <2>4. k \in current => seen.objects[k] \in Object
    BY ZenonT(30), <2>1, <1>7 DEF Owned
  <2> HIDE DEF built, new
  <2>5. CASE k \in current
    <3>1. new[k] = Inherit(k, seen.objects[k], built[k]) /\ seen.objects[k] \in Object
      BY ZenonT(30), <2>3, <2>4, <2>5
    <3> QED BY <3>1, <2>1, <2>2, InheritIs
  <2> QED BY ZenonT(30), <2>2, <2>3, <2>5
<1>9. DOMAIN new = wanted /\ new \in [wanted -> Object]
  BY ZenonT(30), <1>8
<1>10. read \in [wanted -> Object \cup {Gone}]
  <2>1. \A k \in wanted : seen.objects[k] \in Object \cup {Gone}
    BY <1>1, <1>6, StoreFields
  <2> QED BY ZenonT(30), <2>1
<1>11. update \subseteq wanted
  BY ZenonT(30)
<1>12. ASSUME NEW k \in wanted, k \in current, k \notin update
       PROVE  new[k] = seen.objects[k]
  BY ZenonT(30), <1>12 DEF Differs
<1> HIDE DEF built, new, read, update
<1>13. TypeOK'
  <2>1. failures' \in 0 .. setup.failures
    BY <1>1, <1>3, Bounds DEF TypeOK
  <2>2. last' \in [Names -> SUBSET Keys]
    <3>1. \A o \in Names : KeysWanted(job.config, o) \in SUBSET Keys /\ last[o] \in SUBSET Keys
      BY ZenonT(30), <1>1, WantedAreKeys DEF TypeOK
    <3> QED BY ZenonT(30), <3>1, <1>3
  <2> QED BY ZenonT(30), <2>1, <2>2, <1>1, <1>2 DEF TypeOK
<1>14. Counted' /\ Lags'
  BY ZenonT(30), <1>1, <1>2, LagsStay DEF Counted
<1>15. CASE failed # 0
  <2>1. job' = [step |-> "status", config |-> job.config, failed |-> TRUE]
    BY ZenonT(30), <1>4, <1>15
  <2>2. job'.step = "status" /\ job'.config = job.config /\ job'.failed = TRUE /\ job' # Idle
    BY <2>1 DEF Idle
  <2>3. JobTyped'
    BY <2>2, <1>5 DEF JobTyped, Steps, Deploying
  <2>4. ASSUME ~Awake'
        PROVE  live'.config # Gone /\ Same(job'.config, live'.config)
    <3>1. ~Awake
      BY ZenonT(30), <2>4, <1>2 DEF Awake
    <3> QED BY ZenonT(30), <3>1, <2>2, <1>1, <1>2, <1>5 DEF Followed
  <2>5. ~Reported' /\ job'.step \notin Deploying
    BY <2>2 DEF Reported, Deploying
  <2>6. Followed'
    BY ZenonT(30), <2>2, <2>4, <2>5 DEF Followed
  <2> QED BY ZenonT(30), <2>3, <2>6, <1>13, <1>14 DEF Inv, Typed
<1>16. CASE failed = 0
  <2>1. job' = [step |-> "create", config |-> job.config, desired |-> new, read |-> read,
                create |-> wanted \ current, delete |-> current \ wanted, update |-> update]
    BY ZenonT(30), <1>4, <1>16
  <2>2. /\ job'.step = "create" /\ job'.config = job.config /\ job'.desired = new /\ job'.read = read
        /\ job'.create = wanted \ current /\ job'.delete = current \ wanted /\ job'.update = update
        /\ job' # Idle
    BY <2>1 DEF Idle
  <2>3. IsPlan(job')
    <3>1. job' = [step |-> job'.step, config |-> job'.config, desired |-> job'.desired, read |-> job'.read,
                  create |-> job'.create, delete |-> job'.delete, update |-> job'.update]
      BY <2>1
    <3>2. job'.create \subseteq wanted /\ job'.delete \subseteq Keys /\ job'.update \subseteq wanted
      BY ZenonT(30), <2>2, <1>6, <1>11
    <3> QED BY ZenonT(30), <3>1, <3>2, <2>2, <1>6, <1>9, <1>10 DEF IsPlan
  <2>4. JobTyped'
    BY ZenonT(30), <2>2, <2>3, <1>5 DEF JobTyped, Steps, Deploying
  <2>5. ASSUME ~Awake'
        PROVE  /\ live'.config # Gone /\ Same(job'.config, live'.config)
               /\ \A k \in Keys : Watched(k)' => Planned(k)'
    <3>1. ~Awake /\ live.config # Gone /\ Same(job.config, live.config)
      BY ZenonT(30), <2>5, <1>1, <1>2, <1>5 DEF Awake, Followed
    <3>2. ASSUME NEW k \in Keys, Watched(k)
          PROVE  Planned(k)'
      <4>1. Alike(seen.objects[k], live.objects[k])
        BY ZenonT(30), <3>1, <3>2, <1>1 DEF Lags, Awake
      <4>2. k \in wanted <=> Asked(live.config, k)
        <5>1. available \subseteq live.crds
          BY <1>1 DEF Lags
        <5>2. k \in wanted <=> Asked(job.config, k)
          BY ZenonT(30), <5>1, <3>2, WantedIsAsked DEF wanted
        <5>3. Asked(job.config, k) <=> Asked(live.config, k)
          BY ZenonT(30), <3>1 DEF Same, Asked
        <5> QED BY ZenonT(30), <5>2, <5>3
      <4>3. k \in wanted => new[k].rev = live.config.rev
        BY ZenonT(30), <1>8, <3>1 DEF Same
      <4>4. k \in current <=> Owned(live.objects[k])
        BY ZenonT(30), <4>1, <3>2, <1>7 DEF Alike
      <4>5. Owned(live.objects[k]) => seen.objects[k] = live.objects[k]
        BY ZenonT(30), <4>1 DEF Alike
      <4>6. Owned(live.objects[k]) /\ k \in wanted => k \in update \/ live.objects[k].rev = live.config.rev
        BY ZenonT(30), <4>3, <4>4, <4>5, <1>12
      <4>7. Owned(live'.objects[k]) <=> Owned(live.objects[k])
        BY ZenonT(30), <1>2
      <4>8. Asked(live'.config, k) <=> Asked(live.config, k)
        BY ZenonT(30), <1>2 DEF Asked
      <4>9. /\ k \in DOMAIN job'.desired <=> Asked(live'.config, k)
            /\ k \in DOMAIN job'.desired => job'.desired[k].rev = live'.config.rev
        BY ZenonT(30), <4>2, <4>3, <4>8, <2>2, <1>2, <1>9
      <4>10. k \in DOMAIN job'.desired /\ ~Owned(live'.objects[k]) => job'.step = "create" /\ k \in job'.create
        BY ZenonT(30), <4>4, <4>7, <2>2, <1>9
      <4>11. k \notin DOMAIN job'.desired /\ Owned(live'.objects[k]) =>
               job'.step \in {"create", "delete"} /\ k \in job'.delete
        BY ZenonT(30), <4>4, <4>7, <2>2, <1>9
      <4>12. k \in DOMAIN job'.desired /\ Owned(live'.objects[k]) =>
               k \in job'.update \/ live'.objects[k].rev = live'.config.rev
        BY ZenonT(30), <4>6, <4>7, <2>2, <1>2, <1>9
      <4> QED BY ZenonT(30), <4>9, <4>10, <4>11, <4>12 DEF Planned
    <3>3. \A k \in Keys : Watched(k)' <=> Watched(k)
      BY ZenonT(30), <1>2 DEF Watched
    <3> QED BY ZenonT(30), <3>1, <3>2, <3>3, <2>2, <1>2
  <2>6. ~Reported'
    BY <2>2 DEF Reported
  <2>7. Followed'
    BY ZenonT(30), <2>2, <2>5, <2>6 DEF Followed
  <2> QED BY ZenonT(30), <2>4, <2>7, <1>13, <1>14 DEF Inv, Typed
<1> QED BY ZenonT(30), <1>15, <1>16

-----------------------------------------------------------------------------
(* The calls.                                                               *)

\* What a call that does not fail leaves behind.
LEMMA UpdateIs ==
    ASSUME TypeOK, NEW k \in Keys, job.config \in Config, job.desired[k] \in Object, Update(k) # Failed
    PROVE  Update(k) \in Object /\ Owned(Update(k)) /\ Update(k).rev = job.desired[k].rev
<1>1. live.objects[k] # Gone /\ Update(k) = Stored(job.desired[k], live.objects[k], job.config.uid)
  BY ZenonT(30) DEF Update
<1>2. live.objects[k] \in Object
  BY <1>1, StoreFields
<1>3. job.config.uid \in 1 .. MaxEdits + 1
  BY ConfigFields
<1> DEFINE stored == Stored(job.desired[k], live.objects[k], job.config.uid)
<1>4. stored \in Object /\ Owned(stored) /\ stored.rev = job.desired[k].rev
  BY ZenonT(30), <1>2, <1>3, StoredIs
<1> QED BY ZenonT(30), <1>1, <1>4

\* A call that does not fail deletes, or leaves an owned object with the present settings.
LEMMA CallIs ==
    ASSUME TypeOK, NEW k \in Keys, job.config \in Config, Call(k) # Failed,
           job.step # "delete" => job.desired[k] \in Object
    PROVE  /\ job.step = "delete" => Call(k) = Gone
           /\ job.step # "delete" =>
                Call(k) \in Object /\ Owned(Call(k)) /\ Call(k).rev = job.desired[k].rev
<1>1. /\ job.step = "create" => Call(k) = Create(k)
      /\ job.step = "delete" => Call(k) = Gone
      /\ job.step # "create" /\ job.step # "delete" => Call(k) = Update(k)
  BY DEF Call, Delete
<1>2. CASE job.step = "create"
  <2>1. Create(k) = Update(k) \/ Create(k) = Failed \/ Create(k) = Stored(job.desired[k], New, job.config.uid)
    BY ZenonT(30) DEF Create
  <2>2. New \in Object /\ job.config.uid \in 1 .. MaxEdits + 1
    BY NewIs, ConfigFields
  <2>3. Call(k) = Create(k) /\ job.desired[k] \in Object
    BY <1>1, <1>2
  <2>4. CASE Create(k) = Stored(job.desired[k], New, job.config.uid)
    <3> DEFINE stored == Stored(job.desired[k], New, job.config.uid)
    <3>1. stored \in Object /\ Owned(stored) /\ stored.rev = job.desired[k].rev
      BY ZenonT(30), <2>2, <2>3, StoredIs
    <3> HIDE DEF stored
    <3>2. Call(k) = stored
      BY ZenonT(30), <2>3, <2>4 DEF stored
    <3>3. job.step # "delete"
      BY <1>2
    <3> QED BY ZenonT(30), <3>1, <3>2, <3>3
  <2>5. CASE Create(k) = Update(k)
    BY ZenonT(30), <2>3, <2>5, <1>2, UpdateIs
  <2> QED BY ZenonT(30), <2>1, <2>3, <2>4, <2>5
<1>3. CASE job.step # "create" /\ job.step # "delete"
  BY ZenonT(30), <1>1, <1>3, UpdateIs
<1> QED BY ZenonT(30), <1>1, <1>2, <1>3

\* The calls for `done` were made, and nothing else was changed.
Made(objs, next, done, objects) ==
    /\ StoreObjects(objects) /\ failures' \in 0 .. setup.failures
    /\ \A k \in Keys \ done : objects[k] = live.objects[k]
    /\ \A k \in done : /\ job.step = "delete" => objects[k] = Gone
                       /\ job.step # "delete" => Owned(objects[k]) /\ objects[k].rev = job.desired[k].rev
    /\ \/ done = objs /\ job' = next
       \/ job' = [step |-> "status", config |-> job.config, failed |-> TRUE]

\* The calls of a phase: those that were made have left what they should, and if none failed all
\* were made.
LEMMA CallsAre ==
    ASSUME TypeOK, NEW objs \in SUBSET Keys, NEW next, Calls(objs, next), job.config \in Config,
           job.step # "delete" => \A k \in objs : job.desired[k] \in Object
    PROVE  \E done \in SUBSET objs, objects \in [Keys -> Object \cup {Gone}] :
             Made(objs, next, done, objects)
<1>1. PICK done \in SUBSET objs, bad \in {{}} \cup {{k} : k \in objs} :
        LET fails == {k \in objs : k \in bad \/ Call(k) = Failed} IN
        /\ bad # {} => failures < setup.failures
        /\ done \cap fails = {} /\ (fails = {} => done = objs)
        /\ failures' = IF bad = {} THEN failures ELSE failures + 1
        /\ StoreObjects([k \in Keys |-> IF k \in done THEN Call(k) ELSE live.objects[k]])
        /\ job' = IF fails = {} THEN next
                  ELSE [step |-> "status", config |-> job.config, failed |-> TRUE]
  BY ZenonT(30) DEF Calls
<1> DEFINE fails == {k \in objs : k \in bad \/ Call(k) = Failed}
           objects == [k \in Keys |-> IF k \in done THEN Call(k) ELSE live.objects[k]]
<1>2. \A k \in done : Call(k) # Failed /\ k \in Keys
  BY ZenonT(30), <1>1
<1>3. \A k \in done : /\ job.step = "delete" => Call(k) = Gone
                      /\ job.step # "delete" =>
                           Call(k) \in Object /\ Owned(Call(k)) /\ Call(k).rev = job.desired[k].rev
  BY ZenonT(30), <1>2, CallIs
<1>4. \A k \in Keys : live.objects[k] \in Object \cup {Gone}
  BY StoreFields
<1>5. objects \in [Keys -> Object \cup {Gone}]
  BY ZenonT(30), <1>3, <1>4
<1>6. /\ \A k \in Keys \ done : objects[k] = live.objects[k]
      /\ \A k \in done : objects[k] = Call(k)
  BY ZenonT(30), <1>2
<1>7. failures' \in 0 .. setup.failures
  BY <1>1, Bounds DEF TypeOK
<1>8. StoreObjects(objects) /\ (fails = {} => done = objs)
      /\ job' = IF fails = {} THEN next ELSE [step |-> "status", config |-> job.config, failed |-> TRUE]
  BY ZenonT(30), <1>1
<1> HIDE DEF objects, fails
<1>9. Made(objs, next, done, objects)
  BY ZenonT(30), <1>3, <1>6, <1>7, <1>8 DEF Made
<1> QED BY ZenonT(30), <1>5, <1>9

\* The step a plan goes on with.
LEMMA NextStep ==
    ASSUME IsPlan(job), NEW step \in Deploying
    PROVE  /\ IsPlan([job EXCEPT !.step = step])
           /\ [job EXCEPT !.step = step] =
                [step |-> step, config |-> job.config, desired |-> job.desired, read |-> job.read,
                 create |-> job.create, delete |-> job.delete, update |-> job.update]
<1>1. [job EXCEPT !.step = step] =
        [step |-> step, config |-> job.config, desired |-> job.desired, read |-> job.read,
         create |-> job.create, delete |-> job.delete, update |-> job.update]
  BY DEF IsPlan
<1> DEFINE new == [job EXCEPT !.step = step]
<1>2. /\ new.step = step /\ new.config = job.config /\ new.desired = job.desired /\ new.read = job.read
      /\ new.create = job.create /\ new.delete = job.delete /\ new.update = job.update
  BY <1>1
<1> HIDE DEF new
<1>3. IsPlan(new)
  <2>1. new = [step |-> new.step, config |-> new.config, desired |-> new.desired, read |-> new.read,
               create |-> new.create, delete |-> new.delete, update |-> new.update]
    BY ZenonT(30), <1>1, <1>2 DEF new
  <2> QED BY ZenonT(30), <2>1, <1>2 DEF IsPlan
<1> QED BY ZenonT(30), <1>1, <1>3 DEF new

\* A phase of the calls: if none of its changes queues a reconcile, nothing was left for it to do.
LEMMA DeployKeeps ==
    ASSUME Inv, Deploy
    PROVE  Inv'
<1>1. Typed /\ TypeOK /\ JobTyped /\ Counted /\ Lags /\ Followed
  BY DEF Inv, Typed
<1>2. UNCHANGED <<setup, seen, queued, timer, last, available, edits>>
  BY DEF Deploy, Rest
<1>3. PICK objs, next :
        /\ Calls(objs, next)
        /\ \/ job.step = "create" /\ objs = job.create /\ next = [job EXCEPT !.step = "delete"]
           \/ job.step = "delete" /\ objs = job.delete /\ next = [job EXCEPT !.step = "update"]
           \/ /\ job.step = "update" /\ objs = job.update
              /\ next = [step |-> "status", config |-> job.config, failed |-> FALSE]
  BY ZenonT(30) DEF Deploy
<1>4. job.step \in Deploying /\ job # Idle
  BY <1>3 DEF Deploying, Idle
<1>5. job.config \in Config /\ IsPlan(job)
  BY <1>1, <1>4 DEF JobTyped, Deploying
<1>6. objs \in SUBSET Keys /\ (job.step # "delete" => \A k \in objs : job.desired[k] \in Object)
  BY ZenonT(30), <1>3, <1>5 DEF IsPlan
<1>7. PICK done \in SUBSET objs, objects \in [Keys -> Object \cup {Gone}] :
        Made(objs, next, done, objects)
  <2>1. Calls(objs, next)
    BY <1>3
  <2> QED BY ZenonT(30), <2>1, <1>1, <1>5, <1>6, CallsAre
<1>8. /\ live' \in Store /\ live'.objects = objects /\ live'.config = live.config
      /\ stale' \in [EventKinds -> {"none", "quiet", "loud"}]
      /\ stale'["config"] = stale["config"]
      /\ stale["objects"] = "loud" => stale'["objects"] = "loud"
      /\ stale'["objects"] # "loud" =>
           \A k \in Keys : Watched(k) => Alike(live.objects[k], objects[k])
  BY ZenonT(30), <1>1, <1>7, StoreObjectsIs DEF Made
<1>9. Lags'
  BY ZenonT(30), <1>2, <1>7, ObjectsLag DEF Made
<1>10. /\ \/ job'.step = "delete" /\ job.step = "create" /\ done = job.create
          \/ job'.step = "update" /\ job.step = "delete" /\ done = job.delete
          \/ job'.step = "status" /\ job'.failed = FALSE /\ job.step = "update" /\ done = job.update
          \/ job'.step = "status" /\ job'.failed = TRUE
       /\ job'.config = job.config /\ job' # Idle
       /\ job'.step \in Deploying => /\ IsPlan(job') /\ job'.desired = job.desired
                                     /\ job'.delete = job.delete /\ job'.update = job.update
  <2>1. CASE job' = [step |-> "status", config |-> job.config, failed |-> TRUE]
    BY <2>1 DEF Idle, Deploying
  <2>2. CASE done = objs /\ job' = next
    <3>1. CASE job.step = "update"
      BY <2>2, <3>1, <1>3 DEF Idle, Deploying
    <3>2. CASE job.step = "create"
      <4>1. job' = [job EXCEPT !.step = "delete"] /\ done = job.create
        BY <2>2, <3>2, <1>3
      <4>2. "delete" \in Deploying
        BY DEF Deploying
      <4>3. /\ IsPlan(job')
            /\ job' = [step |-> "delete", config |-> job.config, desired |-> job.desired, read |-> job.read,
                       create |-> job.create, delete |-> job.delete, update |-> job.update]
        BY ZenonT(30), <4>1, <4>2, <1>5, NextStep
      <4>4. /\ job'.step = "delete" /\ job'.config = job.config /\ job' # Idle /\ job'.desired = job.desired
            /\ job'.delete = job.delete /\ job'.update = job.update
        BY <4>3 DEF Idle
      <4> QED BY ZenonT(30), <4>1, <4>3, <4>4, <3>2
    <3>3. CASE job.step = "delete"
      <4>1. job' = [job EXCEPT !.step = "update"] /\ done = job.delete
        BY <2>2, <3>3, <1>3
      <4>2. "update" \in Deploying
        BY DEF Deploying
      <4>3. /\ IsPlan(job')
            /\ job' = [step |-> "update", config |-> job.config, desired |-> job.desired, read |-> job.read,
                       create |-> job.create, delete |-> job.delete, update |-> job.update]
        BY ZenonT(30), <4>1, <4>2, <1>5, NextStep
      <4>4. /\ job'.step = "update" /\ job'.config = job.config /\ job' # Idle /\ job'.desired = job.desired
            /\ job'.delete = job.delete /\ job'.update = job.update
        BY <4>3 DEF Idle
      <4> QED BY ZenonT(30), <4>1, <4>3, <4>4, <3>3
    <3> QED BY ZenonT(30), <3>1, <3>2, <3>3, <1>3
  <2> QED BY ZenonT(30), <2>1, <2>2, <1>7 DEF Made
<1>11. JobTyped'
  BY <1>5, <1>10 DEF JobTyped, Steps, Deploying
<1>12. Typed'
  <2>1. Counted'
    BY ZenonT(30), <1>1, <1>2, <1>8 DEF Counted
  <2>2. /\ seen' \in Cache /\ queued' \in BOOLEAN /\ timer' \in BOOLEAN /\ edits' \in 0 .. setup.edits
    BY ZenonT(30), <1>1, <1>2 DEF TypeOK
  <2> QED BY ZenonT(30), <2>1, <2>2, <1>1, <1>2, <1>7, <1>8, <1>11, TypedStays DEF Made
<1>13. ASSUME ~Awake'
       PROVE  /\ Reported' => Good'
              /\ live'.config # Gone /\ Same(job'.config, live'.config)
              /\ job'.step \in Deploying => \A k \in Keys : Watched(k)' => Planned(k)'
  <2>1. ~Awake /\ \A k \in Keys : Watched(k) => Alike(live.objects[k], live'.objects[k])
    BY ZenonT(30), <1>13, <1>2, <1>8 DEF Awake
  <2>2. /\ live.config # Gone /\ Same(job.config, live.config)
        /\ \A k \in Keys : Watched(k) => Planned(k)
    BY ZenonT(30), <2>1, <1>1, <1>4 DEF Followed
  <2>3. ASSUME NEW k \in Keys, Watched(k)'
        PROVE  /\ Planned(k) /\ (Owned(live'.objects[k]) <=> Owned(live.objects[k]))
               /\ Owned(live.objects[k]) => live'.objects[k] = live.objects[k]
               /\ Asked(live'.config, k) <=> Asked(live.config, k)
               /\ k \in done => /\ job.step = "delete" => ~Owned(live'.objects[k])
                                /\ job.step # "delete" => /\ Owned(live'.objects[k])
                                                          /\ live'.objects[k].rev = job.desired[k].rev
    <3>1. Watched(k)
      BY ZenonT(30), <2>3, <1>2 DEF Watched
    <3>2. Planned(k) /\ Alike(live.objects[k], live'.objects[k])
      BY ZenonT(30), <3>1, <2>1, <2>2
    <3>3. Asked(live'.config, k) <=> Asked(live.config, k)
      BY ZenonT(30), <1>8 DEF Asked
    <3>4. k \in done => /\ job.step = "delete" => ~Owned(live'.objects[k])
                        /\ job.step # "delete" => /\ Owned(live'.objects[k])
                                                  /\ live'.objects[k].rev = job.desired[k].rev
      BY ZenonT(30), <1>7, <1>8 DEF Owned, Made
    <3> QED BY ZenonT(30), <3>2, <3>3, <3>4 DEF Alike
  <2>4. ASSUME NEW k \in Keys, Watched(k)', job'.step = "status", job'.failed = FALSE
        PROVE  Right(k)'
    <3>1. job.step = "update" /\ done = job.update
      BY <1>10, <2>4
    <3>2. k \in DOMAIN job.desired <=> Asked(live'.config, k)
      BY ZenonT(30), <2>3, <2>4 DEF Planned
    <3>3. k \in DOMAIN job.desired <=> Owned(live'.objects[k])
      BY <2>3, <2>4, <3>1 DEF Planned
    <3>4. k \in DOMAIN job.desired => live'.objects[k].rev = live'.config.rev
      BY <2>3, <2>4, <3>1, <3>3, <1>8 DEF Planned
    <3> QED BY ZenonT(30), <3>2, <3>3, <3>4 DEF Right
  <2>5. Reported' => Good'
    <3>1. Reported' => job'.step = "status" /\ job'.failed = FALSE
      BY <1>10 DEF Reported
    <3> QED BY ZenonT(30), <3>1, <2>4 DEF Good
  <2>6. ASSUME NEW k \in Keys, Watched(k)', job'.step \in Deploying
        PROVE  Planned(k)'
    <3>1. /\ job'.desired = job.desired /\ job'.delete = job.delete /\ job'.update = job.update
          /\ \/ job'.step = "delete" /\ job.step = "create" /\ done = job.create
             \/ job'.step = "update" /\ job.step = "delete" /\ done = job.delete
      BY <1>10, <2>6 DEF Deploying
    <3>2. /\ k \in DOMAIN job'.desired <=> Asked(live'.config, k)
          /\ k \in DOMAIN job'.desired => job'.desired[k].rev = live'.config.rev
      BY ZenonT(30), <2>3, <2>6, <3>1, <1>8 DEF Planned
    <3>3. k \in DOMAIN job'.desired => Owned(live'.objects[k])
      BY <2>3, <2>6, <3>1 DEF Planned
    <3>4. k \notin DOMAIN job'.desired /\ Owned(live'.objects[k]) =>
            job'.step \in {"create", "delete"} /\ k \in job'.delete
      BY <2>3, <2>6, <3>1 DEF Planned
    <3>5. k \in DOMAIN job'.desired /\ Owned(live'.objects[k]) =>
            k \in job'.update \/ live'.objects[k].rev = live'.config.rev
      BY <2>3, <2>6, <3>1, <1>8 DEF Planned
    <3> QED BY ZenonT(30), <3>2, <3>3, <3>4, <3>5 DEF Planned
  <2> QED BY ZenonT(30), <2>2, <2>5, <2>6, <1>8, <1>10
<1> QED BY ZenonT(30), <1>9, <1>10, <1>12, <1>13 DEF Inv, Followed

-----------------------------------------------------------------------------
(* The conditions.                                                          *)

\* What is written is a list of conditions.
LEMMA WrittenIs ==
    ASSUME NEW config \in Config, NEW todo, IsTodo(todo), NEW n
    PROVE  Written(config, todo, n) \in [Conditions -> [status : BOOLEAN, gen : Nat]]
<1> DEFINE made == {i \in Differing(config, todo) : Cardinality({j \in Differing(config, todo) : j < i}) < n}
           chosen(c) == CHOOSE i \in made : todo[i].type = c
<1>1. /\ config.conditions \in [Conditions -> [status : BOOLEAN, gen : Nat]] /\ config.gen \in Nat
  BY ConfigFields, OperatorAssumption
<1>2. /\ DOMAIN config.conditions = Conditions
      /\ \A c \in Conditions : config.conditions[c] \in [status : BOOLEAN, gen : Nat]
  BY ZenonT(30), <1>1
<1>3. made \subseteq DOMAIN todo
  BY ZenonT(30) DEF Differing
<1>4. ASSUME NEW c \in Conditions, \E i \in made : todo[i].type = c
      PROVE  [status |-> todo[chosen(c)].status, gen |-> config.gen] \in [status : BOOLEAN, gen : Nat]
  <2> HIDE DEF made
  <2>1. chosen(c) \in made
    BY ZenonT(30), <1>4
  <2>2. todo[chosen(c)].status \in BOOLEAN
    BY ZenonT(30), <2>1, <1>3 DEF IsTodo
  <2> HIDE DEF chosen
  <2> QED BY <2>2, <1>1
<1> DEFINE value(c) == IF \E i \in made : todo[i].type = c
                       THEN [status |-> todo[chosen(c)].status, gen |-> config.gen]
                       ELSE config.conditions[c]
<1>5. Written(config, todo, n) = [c \in Conditions |-> value(c)]
  BY ZenonT(30), <1>2 DEF Written
<1>6. ASSUME NEW c \in Conditions
      PROVE  value(c) \in [status : BOOLEAN, gen : Nat]
  <2> HIDE DEF made, chosen
  <2>1. CASE \E i \in made : todo[i].type = c
    BY ZenonT(30), <2>1, <1>4
  <2>2. CASE ~\E i \in made : todo[i].type = c
    BY ZenonT(30), <2>2, <1>2
  <2> QED BY <2>1, <2>2
<1> HIDE DEF value
<1> QED BY <1>5, <1>6

\* Setting the conditions of a KRMConfig leaves its settings alone.
LEMMA SetConditions ==
    ASSUME NEW config \in Config, NEW conditions \in [Conditions -> [status : BOOLEAN, gen : Nat]]
    PROVE  /\ [config EXCEPT !.conditions = conditions] \in Config
           /\ [config EXCEPT !.conditions = conditions].gen = config.gen
           /\ [config EXCEPT !.conditions = conditions].rev = config.rev
           /\ Same([config EXCEPT !.conditions = conditions], config)
BY DEF Config, Same

\* Writing the conditions is an event if it changes any, and leaves the settings alone.
LEMMA ReportKeeps ==
    ASSUME Inv, Report
    PROVE  Inv'
<1>1. Typed /\ TypeOK /\ JobTyped /\ Counted /\ Lags /\ Followed
  BY DEF Inv, Typed
<1>2. job.step \in {"begin", "report"}
  BY DEF Report
<1>3. PICK n \in 0 .. Len(job.todo) : reconcileConditions(n)
  BY ZenonT(30) DEF Report
<1> DEFINE all == Cardinality(Differing(job.config, job.todo))
           conditions == Written(job.config, job.todo, n)
           config == [job.config EXCEPT !.conditions = conditions]
           failed == n < all
<1>4. UNCHANGED <<setup, seen, last, available, edits>>
  BY <1>3 DEF reconcileConditions, Rest
<1>5. job.config \in Config /\ IsTodo(job.todo) /\ job # Idle /\ (job.step = "report" => job.failed \in BOOLEAN)
  BY <1>1, <1>2 DEF JobTyped, Idle
<1>6. conditions \in [Conditions -> [status : BOOLEAN, gen : Nat]]
  BY ZenonT(30), <1>5, WrittenIs
<1>7. /\ (live.config = Gone => n = 0)
      /\ n < all /\ live.config # Gone => failures < setup.failures
      /\ failures' = IF n < all /\ live.config # Gone THEN failures + 1 ELSE failures
      /\ IF n = 0 THEN UNCHANGED <<live, stale>> ELSE StoreConfig([live.config EXCEPT !.conditions = conditions])
      /\ IF job.step = "begin"
         THEN /\ job' = IF failed THEN [step |-> "status", config |-> config, failed |-> TRUE]
                        ELSE [step |-> "desired", config |-> config]
              /\ UNCHANGED <<queued, timer>>
         ELSE Finish(failed \/ job.failed)
  BY ZenonT(30), <1>3 DEF reconcileConditions
<1>8. failed \in BOOLEAN
  OBVIOUS
<1> HIDE DEF conditions, failed
<1>9. config \in Config /\ Same(config, job.config)
  BY ZenonT(30), <1>5, <1>6, SetConditions
<1> HIDE DEF config
<1>10. /\ live' \in Store /\ live'.objects = live.objects /\ live'.crds = live.crds
       /\ live'.config # Gone => live.config # Gone /\ live'.config.gen = live.config.gen
                                                    /\ live'.config.rev = live.config.rev
       /\ stale' \in [EventKinds -> {"none", "quiet", "loud"}]
       /\ stale'["objects"] = stale["objects"]
       /\ stale'["config"] = "loud" \/ (live' = live /\ stale' = stale)
  <2>1. CASE n = 0
    BY ZenonT(30), <2>1, <1>1, <1>7 DEF TypeOK
  <2>2. CASE n # 0
    <3> DEFINE new == [live.config EXCEPT !.conditions = conditions]
    <3>1. live.config # Gone /\ StoreConfig(new)
      BY ZenonT(30), <2>2, <1>7
    <3>2. live.config \in Config
      BY <3>1, <1>1, StoreFields
    <3>3. new \in Config /\ new.gen = live.config.gen /\ new.rev = live.config.rev
      BY ZenonT(30), <3>2, <1>6, SetConditions
    <3> HIDE DEF new
    <3>4. /\ live' \in Store /\ live'.config = new /\ live'.objects = live.objects /\ live'.crds = live.crds
          /\ stale' \in [EventKinds -> {"none", "quiet", "loud"}]
          /\ stale'["objects"] = stale["objects"]
          /\ new # live.config => stale'["config"] = "loud"
          /\ new = live.config => live' = live /\ stale' = stale
      BY ZenonT(30), <3>1, <3>3, <1>1, StoreConfigIs
    <3> QED BY ZenonT(30), <3>1, <3>3, <3>4
  <2> QED BY ZenonT(30), <2>1, <2>2
<1>11. Lags'
  <2>1. ASSUME stale'["objects"] # "loud", NEW k \in Keys, Watched(k)'
        PROVE  Alike(seen'.objects[k], live'.objects[k])
    BY ZenonT(30), <2>1, <1>1, <1>4, <1>10 DEF Lags, Watched, Alike
  <2>2. stale'["config"] # "loud" => seen'.config = live'.config
    BY ZenonT(30), <1>1, <1>4, <1>10 DEF Lags
  <2>3. available' \subseteq live'.crds
    BY <1>1, <1>4, <1>10 DEF Lags
  <2> QED BY ZenonT(30), <2>1, <2>2, <2>3 DEF Lags
<1>12. /\ queued' \in BOOLEAN /\ timer' \in BOOLEAN
       /\ \/ job'.step = "status" /\ job'.config = config /\ job'.failed = TRUE /\ job' # Idle /\ queued' = queued
          \/ job'.step = "desired" /\ job'.config = config /\ job' # Idle /\ queued' = queued
          \/ job' = Idle /\ job.step = "report" /\ (queued \/ job.failed => queued')
  <2>1. queued \in BOOLEAN /\ timer \in BOOLEAN
    BY <1>1 DEF TypeOK
  <2>2. CASE job.step = "begin"
    <3>1. UNCHANGED <<queued, timer>>
      BY ZenonT(30), <2>2, <1>7
    <3>2. \/ job' = [step |-> "status", config |-> config, failed |-> TRUE]
          \/ job' = [step |-> "desired", config |-> config]
      BY ZenonT(30), <2>2, <1>7
    <3>3. \/ job'.step = "status" /\ job'.config = config /\ job'.failed = TRUE /\ job' # Idle
          \/ job'.step = "desired" /\ job'.config = config /\ job' # Idle
      BY <3>2 DEF Idle
    <3> QED BY ZenonT(30), <3>1, <3>3, <2>1
  <2>3. CASE job.step # "begin"
    <3>1. job.step = "report"
      BY <2>3, <1>2
    <3>2. Finish(failed \/ job.failed)
      BY ZenonT(30), <2>3, <1>7
    <3>3. /\ job' = Idle /\ queued' = (queued \/ (failed \/ job.failed))
          /\ timer' = (timer \/ ~(failed \/ job.failed))
      BY ZenonT(30), <3>2 DEF Finish
    <3>4. queued' \in BOOLEAN /\ timer' \in BOOLEAN /\ (queued \/ job.failed => queued')
      BY ZenonT(30), <3>3
    <3> QED BY ZenonT(30), <3>1, <3>3, <3>4
  <2> QED BY ZenonT(30), <2>2, <2>3
<1>13. JobTyped'
  <2>1. CASE job' = Idle
    BY <2>1 DEF JobTyped, Idle, Steps, Deploying
  <2>2. CASE job' # Idle
    BY <2>2, <1>9, <1>12 DEF JobTyped, Steps, Deploying
  <2> QED BY <2>1, <2>2
<1>14. Typed'
  <2>1. Counted'
    BY ZenonT(30), <1>1, <1>4, <1>10 DEF Counted
  <2>2. failures' \in 0 .. setup.failures
    BY <1>1, <1>7, Bounds DEF TypeOK
  <2>3. seen' \in Cache /\ edits' \in 0 .. setup.edits
    BY ZenonT(30), <1>1, <1>4 DEF TypeOK
  <2> QED BY ZenonT(30), <2>1, <2>2, <2>3, <1>1, <1>4, <1>10, <1>12, <1>13, TypedStays
<1>15. ASSUME ~Awake'
       PROVE  /\ job' = Idle \/ Reported' => Good'
              /\ job' # Idle => live'.config # Gone /\ Same(job'.config, live'.config)
              /\ job'.step \notin Deploying
  <2>1. live' = live /\ stale' = stale /\ ~queued'
    BY ZenonT(30), <1>15, <1>10 DEF Awake
  <2>2. queued => queued'
    BY ZenonT(30), <1>12
  <2>3. ~Awake
    BY ZenonT(30), <2>1, <2>2, <1>15 DEF Awake
  <2>4. (Reported => Good) /\ live.config # Gone /\ Same(job.config, live.config)
    BY ZenonT(30), <2>3, <1>1, <1>5 DEF Followed
  <2>5. Good => Good'
    BY ZenonT(30), <2>1, <1>4 DEF Good, Right, Asked, Watched
  <2>6. CASE job' = Idle
    <3>1. Reported
      BY ZenonT(30), <2>1, <2>6, <1>12 DEF Reported
    <3>2. job'.step \notin Deploying
      BY <2>6 DEF Idle, Deploying
    <3> QED BY ZenonT(30), <3>1, <3>2, <2>4, <2>5, <2>6
  <2>7. CASE job' # Idle
    <3>1. job'.config = config /\ ~Reported' /\ job'.step \notin Deploying
      BY <2>7, <1>12 DEF Reported, Deploying
    <3>2. Same(job'.config, live'.config)
      BY ZenonT(30), <3>1, <2>1, <2>4, <1>9 DEF Same
    <3> QED BY ZenonT(30), <3>1, <3>2, <2>1, <2>4, <2>7
  <2> QED BY <2>6, <2>7
<1> QED BY ZenonT(30), <1>11, <1>14, <1>15 DEF Inv, Followed

-----------------------------------------------------------------------------
(* The invariant, and what follows from it.                                 *)

\* Nothing happens.
LEMMA StutterKeeps ==
    ASSUME Inv, UNCHANGED vars
    PROVE  Inv'
<1>1. Typed /\ TypeOK /\ JobTyped /\ Counted /\ Lags /\ Followed
  BY DEF Inv, Typed
<1>2. UNCHANGED <<setup, live, seen, stale, queued, timer, job, last, available, edits, failures>>
  BY DEF vars
<1>3. Lags' /\ Followed'
  BY ZenonT(30), <1>1, <1>2, LagsStay, FollowedStays DEF Awake
<1>4. TypeOK' /\ JobTyped' /\ Counted'
  BY ZenonT(30), <1>1, <1>2, JobStays DEF TypeOK, Counted
<1> QED BY <1>3, <1>4 DEF Inv, Typed

\* Every step keeps the invariant.
LEMMA NextKeeps ==
    ASSUME Inv, [Next]_vars
    PROVE  Inv'
<1>1. CASE \E kind \in EventKinds : Sync(kind)
  BY ZenonT(30), <1>1, SyncKeeps
<1>2. CASE \E i \in 0 .. Len(Operands) + 1 : DesiredState(i)
  <2>1. PICK i \in 0 .. Len(Operands) + 1 : DesiredState(i)
    BY ZenonT(30), <1>2
  <2>2. i \in Nat
    OBVIOUS
  <2> QED BY ZenonT(30), <2>1, <2>2, DesiredStateKeeps
<1>3. CASE Reconcile \/ Deploy \/ Evaluate \/ Report
  BY ZenonT(30), <1>3, ReconcileKeeps, DeployKeeps, EvaluateKeeps, ReportKeeps
<1>4. CASE Recheck \/ Restart
  BY ZenonT(30), <1>4, RecheckKeeps, RestartKeeps
<1>5. CASE EditConfig \/ EditObject \/ EditCluster \/ RollOut \/ CollectGarbage
  BY ZenonT(30), <1>5, EditConfigKeeps, EditObjectKeeps, EditClusterKeeps, RollOutKeeps, CollectGarbageKeeps
<1>6. CASE UNCHANGED vars
  BY ZenonT(30), <1>6, StutterKeeps
<1> QED BY ZenonT(30), <1>1, <1>2, <1>3, <1>4, <1>5, <1>6 DEF Next, Operate

\* The inductive invariant holds in every state.
LEMMA Invariance == Spec => []Inv
<1>1. Init => Inv
  BY InitKeeps
<1>2. Inv /\ [Next]_vars => Inv'
  BY NextKeeps
<1> QED BY <1>1, <1>2, PTL DEF Spec

\* For any operands, namespaces and situations: what is stored, cached and remembered keeps its
\* type, and settings and generations stay within the edits that were made.
THEOREM TypeCorrect == Spec => []TypeOK
<1>1. Inv => TypeOK
  BY DEF Inv, Typed
<1> QED BY <1>1, Invariance, PTL

\* The invariant at rest: everything that KRMConfig asks for is there, and its own.
LEMMA AtRestInstalled ==
    ASSUME Inv
    PROVE  SettledInstalled
<1> SUFFICES ASSUME AtRest, Abandoned = {}, NEW k \in Keys, k.kind \notin Optional \ available
             PROVE  Installed({k})
  BY ZenonT(30) DEF SettledInstalled, Installed
<1> DEFINE object == live.objects[k]
<1>1. ~queued /\ job = Idle /\ stale["config"] # "loud" /\ stale["objects"] # "loud"
  BY DEF AtRest, EventKinds
<1>2. Good /\ Watched(k) /\ available \subseteq live.crds
  BY ZenonT(30), <1>1 DEF Inv, Followed, Awake, Watched, Lags
<1>3. k \in Wanted <=> Asked(live.config, k)
  BY ZenonT(30), <1>2, WantedIsAsked DEF Wanted
<1>4. Owned(object) => live.config # Gone /\ object.owner = live.config.uid
  BY ZenonT(30) DEF Abandoned, Owned
<1>5. live.config # Gone => Right(k)
  BY ZenonT(30), <1>2 DEF Good
<1>6. CASE live.config # Gone /\ k \in Wanted
  <2>1. Owned(object) /\ object.rev = live.config.rev
    BY ZenonT(30), <1>3, <1>5, <1>6 DEF Right
  <2>2. object # Gone /\ object.owner = live.config.uid /\ object.rev = live.config.rev
    BY ZenonT(30), <2>1, <1>4 DEF Owned
  <2> QED BY ZenonT(30), <2>2, <1>6 DEF Installed
<1>7. CASE ~(live.config # Gone /\ k \in Wanted)
  <2>1. ~Owned(object)
    BY ZenonT(30), <1>3, <1>4, <1>5, <1>7 DEF Right
  <2>2. object # Gone => object.owner = 0
    BY ZenonT(30), <2>1 DEF Owned
  <2> QED BY ZenonT(30), <2>2, <1>7 DEF Installed
<1> QED BY <1>6, <1>7

\* For any operands, namespaces and situations, and however many requests fail or restarts
\* happen: when the operator waits for nothing but its timer, what it watches is as KRMConfig
\* asks, unless the garbage collector has yet to remove what an earlier KRMConfig left.
THEOREM SettledCorrect == Spec => []SettledInstalled
<1>1. Inv => SettledInstalled
  BY AtRestInstalled
<1> QED BY <1>1, Invariance, PTL
=============================================================================
