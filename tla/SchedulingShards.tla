-------------------------- MODULE SchedulingShards --------------------------
(* SchedulingShards and the NodePools that own them, from installing KRM     *)
(* beside an existing KAI Scheduler to uninstalling it.                      *)
(*                                                                          *)
(* The migration hook hands every existing shard to a NodePool, the NodePool *)
(* controller reconciles one shard per NodePool, the admission webhooks keep *)
(* partitions apart, and the cleanup hook hands the shards back.  The hooks  *)
(* read the API server; controller and webhooks read caches that lag.  The   *)
(* nodes of a NodePool are the subject of NodePools and NodePoolHealth.      *)
EXTENDS Naturals, FiniteSets

CONSTANTS
    Default,       \* name of the default NodePool
    Named,         \* names of other NodePools
    Free,          \* names of shards that no NodePool has
    Keys,          \* arg keys
    Values,        \* arg values
    KrmArgs,       \* args the controller gives every shard: key -> value or Unset
    Unset,         \* no value for a key
    Gone,          \* no such object
    None,          \* no shard serves the partition
    Unresolvable,  \* the partition's shard is not one the NodePool may write
    Untracked,     \* the annotation with the managed keys is missing
    Nobody,        \* no controller
    Foreign,       \* a controller that is not a NodePool
    Setups,        \* shards and NodePools at the start, whether KRM runs, and the edits made
    MaxIds,        \* bound on incarnations of NodePools and of shards
    MaxEdits,      \* bound on edits
    MaxFailures    \* bound on failed calls and crashes

Pools == Named \cup {Default}
ShardNames == Pools \cup Free
Partitions == Named \cup {"", Default}
Uids == Pools \X (1 .. MaxIds)
Edits == {"upgrade", "uninstall", "reinstall", "createPool", "deletePool", "editPool",
          "createShard", "dropShard", "handArg", "outage"}

Args == [Keys -> Values \cup {Unset}]
NoArgs == [k \in Keys |-> Unset]
Strategies == {"unset", "pack"}    \* placement, queue depth, runtime, plugins and actions
\* What the conversions of time-based fair share tell apart.  A weight (kValue) may be negative or
\* have more digits than a float32 keeps ("wide", and "narrow" what is left of it); the queries are
\* KAI's or the node pool's; no half-life is "none", the default window a "week".
Weights == {"unset", "negative", "zero", "one", "wide", "narrow"}
Queries == {"unset", "kai", "pool"}
Addresses == {"unset", "given"}
HalfLives == {"unset", "none", "some"}
Windows == {"unset", "week", "other", "unreadable"}
\* Of a shard: db is whether it has a usage database, variable whether the address is also taken
\* from the environment, client the type of the database.
ShardFairness ==
    [db : BOOLEAN, weight : Weights, queries : Queries, address : Addresses, variable : BOOLEAN,
     client : {"unset", "prometheus", "other"}, halfLife : HalfLives, window : Windows]
PoolFairness ==
    [enabled : BOOLEAN, weight : Weights \ {"negative", "wide"}, queries : Queries,
     address : Addresses, halfLife : HalfLives, window : Windows \ {"unreadable"}]
Config == [args : Args, strategy : Strategies, fair : PoolFairness]

Shard == [id : 0 .. MaxIds, part : Partitions, owner : Uids \cup {Nobody, Foreign},
          ignore : BOOLEAN, adopted : BOOLEAN, tracked : (SUBSET Keys) \cup {Untracked},
          args : Args, strategy : Strategies, fair : ShardFairness, ready : BOOLEAN]
Pool == [uid : Uids, sel : {"empty", "partition", "other"}, cfg : Config,
         fin : BOOLEAN, dying : BOOLEAN,
         status : {"new", "served", "waiting", "unresolvable"}]

ASSUME ConstantsAssumption ==
    /\ Default \notin Named /\ Free \cap Pools = {}
    /\ IsFiniteSet(Named) /\ IsFiniteSet(Free)
    /\ KrmArgs \in Args /\ Unset \notin Values
    /\ None # Unresolvable /\ None \notin ShardNames /\ Unresolvable \notin ShardNames
    /\ Nobody # Foreign /\ Nobody \notin Uids /\ Foreign \notin Uids
    /\ Gone \notin Shard /\ Gone \notin Pool
    /\ Setups \subseteq [shards : [ShardNames -> Shard \cup {Gone}],
                         pools : [Pools -> Pool \cup {Gone}],
                         running : BOOLEAN, edits : SUBSET Edits]
    /\ \A start \in Setups : \A s \in ShardNames :
          start.shards[s] # Gone =>
              start.shards[s].id \in 1 .. Cardinality({t \in ShardNames : start.shards[t] # Gone})
    /\ MaxIds \in Nat /\ MaxEdits \in Nat /\ MaxFailures \in Nat

VARIABLES
    setup,      \* what the behaviour started from
    live,       \* the objects of the API server
    seen,       \* the informer caches of the controller, which the webhooks read too
    stale,      \* events under way to the caches: kind and NodePool to reconcile, if any
    krm,        \* "new": not installed yet, "in": controllers run, "out": cleaned up
    webhooks,   \* the webhook configurations exist
    helm,       \* the Helm operation in progress
    hook,       \* the hook job in progress
    queued,     \* NodePools in the work queue
    job,        \* the reconcile in progress
    born,       \* incarnations of NodePools and shards made so far
    hand,       \* the arg added by hand: shard, incarnation, key, and whether all was at rest
    edits, failures

vars == <<setup, live, seen, stale, krm, webhooks, helm, hook, queued, job, born, hand,
          edits, failures>>

Idle == [step |-> "idle"]
NoHook == [kind |-> "none"]

Store == [pools : [Pools -> Pool \cup {Gone}], shards : [ShardNames -> Shard \cup {Gone}]]
Event == {"pools", "shards"} \X (Pools \cup {Nobody})

\* A reconcile between two of its calls, and a hook between two of its.
Job == [step : {"shard", "write", "status"}, pool : Pools, copy : Pool, failed : BOOLEAN,
        name : ShardNames, shard : Shard \cup {Gone}, fresh : BOOLEAN]
Plan == [shard : ShardNames, pool : Pools, cfg : Config, existing : Pool \cup {Gone},
         part : Partitions]
Hook == [kind : {"migrate"}, todo : SUBSET Plan, owner : Uids \cup {Nobody}]
        \cup [kind : {"release"}, todo : SUBSET ShardNames]
        \cup [kind : {"strip"}, todo : SUBSET Pools]

-----------------------------------------------------------------------------
(* Shards, partitions and settings.                                         *)

PartitionLabelValueForNodePool(p) == IF p = Default THEN "" ELSE p
NodePoolNameForPartitionLabelValue(part) == IF part = "" THEN Default ELSE part

OwnedByPool(shard) == shard.owner \in Uids

IsUnmanaged(shard) == shard.ignore /\ shard.part # "" /\ ~OwnedByPool(shard)

ListShardsWithPartitionLabelValue(shards, part) ==
    {s \in ShardNames : shards[s] # Gone /\ shards[s].part = part}

ResolveShardForNodePool(shards, p) ==
    LET found == ListShardsWithPartitionLabelValue(shards, PartitionLabelValueForNodePool(p)) IN
    IF found = {} THEN None
    ELSE IF Cardinality(found) > 1 \/ \E s \in found : IsUnmanaged(shards[s]) THEN Unresolvable
    ELSE CHOOSE s \in found : TRUE

resolveOwnedShardForNodePool(shards, p, uid) ==
    LET s == ResolveShardForNodePool(shards, p) IN
    IF s \in {None, Unresolvable} \/ shards[s].owner = uid THEN s ELSE Unresolvable

GetOrInitShardNamedAfterNodePool(shards, p, uid) ==
    IF shards[p] = Gone \/ shards[p].owner = uid THEN p ELSE Unresolvable

Merge(low, high) == [k \in Keys |-> IF high[k] # Unset THEN high[k] ELSE low[k]]
KeysOf(args) == {k \in Keys : args[k] # Unset}

buildShardArgs(cfg) == Merge(cfg.args, KrmArgs)

mergeShardArgs(shard, desired) ==
    LET byHand == [k \in Keys |-> IF shard.tracked = Untracked \/ k \in shard.tracked
                                  THEN Unset ELSE shard.args[k]]
    IN Merge(byHand, desired)

NoUsage == [db |-> FALSE, weight |-> "unset", queries |-> "unset", address |-> "unset",
            variable |-> FALSE, client |-> "unset", halfLife |-> "unset", window |-> "unset"]
NoFairShare == [enabled |-> FALSE, weight |-> "unset", queries |-> "unset", address |-> "unset",
                halfLife |-> "unset", window |-> "unset"]

Deref(value, default) == IF value = "unset" THEN default ELSE value

\* Fair share of a NodePool as a shard expresses it (getKValue, getTimeBasedFairShareFields,
\* overrideCapacityMetricsIfNeeded): without queries it gets those of the node pool.
getTimeBasedFairShareFields(fair) ==
    IF ~fair.enabled THEN NoUsage
    ELSE [db |-> TRUE, weight |-> Deref(fair.weight, "one"), queries |-> Deref(fair.queries, "pool"),
          address |-> fair.address, variable |-> FALSE, client |-> "prometheus",
          halfLife |-> Deref(fair.halfLife, "none"), window |-> Deref(fair.window, "week")]

\* A NodePool holds a float32 that is not negative.
HistoricalUsageWeight(weight) ==
    CASE weight = "negative" -> "zero" [] weight = "wide" -> "narrow" [] OTHER -> weight

\* Bug: queries that the shard left to KAI are left unset in the NodePool.
MutantTimeBasedFairShareFromShard(fair) ==
    IF ~fair.db THEN NoFairShare
    ELSE [enabled |-> TRUE, weight |-> HistoricalUsageWeight(fair.weight), queries |-> fair.queries,
          address |-> fair.address, halfLife |-> fair.halfLife, window |-> fair.window]

\* Bug: the weight is taken as the shard has it.
MutantWeightCopied(fair) ==
    IF ~fair.db THEN NoFairShare
    ELSE [enabled |-> TRUE, weight |-> fair.weight, queries |-> Deref(fair.queries, "kai"),
          address |-> fair.address, halfLife |-> fair.halfLife, window |-> fair.window]

\* The reverse: a weight without usage database, the variable and the client type are dropped,
\* unset queries become KAI's.
timeBasedFairShareFromShard(fair) ==
    IF ~fair.db THEN NoFairShare
    ELSE [enabled |-> TRUE, weight |-> HistoricalUsageWeight(fair.weight),
          queries |-> Deref(fair.queries, "kai"), address |-> fair.address,
          halfLife |-> fair.halfLife, window |-> fair.window]

Readable(fair) == fair.db => fair.window # "unreadable"

SchedulingShardConfigFromShard(shard) ==
    [args |-> shard.args, strategy |-> shard.strategy,
     fair |-> timeBasedFairShareFromShard(shard.fair)]

NewShard(part) ==
    [id |-> 0, part |-> part, owner |-> Nobody, ignore |-> FALSE, adopted |-> FALSE,
     tracked |-> Untracked, args |-> NoArgs, strategy |-> "unset", fair |-> NoUsage,
     ready |-> FALSE]

\* What the controller wants of the NodePool's shard, given the shard it found or none.
SchedulingShardForNodePool(found, pool) ==
    LET part == PartitionLabelValueForNodePool(pool.uid[1])
        base == IF found = Gone THEN NewShard(part) ELSE found
        desired == buildShardArgs(pool.cfg) IN
    [base EXCEPT !.args = mergeShardArgs(base, desired), !.tracked = KeysOf(desired),
                 !.part = part, !.strategy = pool.cfg.strategy,
                 !.fair = getTimeBasedFairShareFields(pool.cfg.fair)]

specsDiffer(a, b) ==
    \/ a.args # b.args \/ a.part # b.part \/ a.strategy # b.strategy \/ a.fair # b.fair

-----------------------------------------------------------------------------
(* Admission: the webhooks read the caches.                                 *)

requireNodePool(shard) == seen.pools[NodePoolNameForPartitionLabelValue(shard.part)] # Gone

ShardValidateCreate(s, shard) ==
    webhooks =>
      /\ ListShardsWithPartitionLabelValue(seen.shards, shard.part) \subseteq {s}
      /\ IsUnmanaged(shard) \/ requireNodePool(shard)

ShardValidateUpdate(old, new) ==
    webhooks => old.part = new.part /\ (new.part = "" \/ old.ignore = new.ignore)

validateLabels(p, sel) ==
    IF p = Default THEN sel = "empty"
    ELSE /\ sel # "empty"
         /\ \A q \in Pools \ {p} :
               ~(seen.pools[q] # Gone /\ seen.pools[q].sel = "other" /\ sel = "other")

validatePartitionLabelValue(p) ==
    LET s == ResolveShardForNodePool(seen.shards, p) IN
    /\ s # Unresolvable
    /\ IF s = None THEN seen.shards[p] = Gone ELSE ~OwnedByPool(seen.shards[s])

PoolValidateCreate(p, sel) ==
    webhooks => validateLabels(p, sel) /\ validatePartitionLabelValue(p)

PoolValidateDelete(p) == webhooks => p # Default

-----------------------------------------------------------------------------
(* Writes.                                                                  *)

StorePool(p, obj) ==
    /\ live' = [live EXCEPT !.pools[p] = obj]
    /\ stale' = IF obj = live.pools[p] THEN stale ELSE stale \cup {<<"pools", p>>}

\* A shard event is for its old and its new owner.
OwnersOf(shards) == {shard.owner[1] : shard \in {s \in shards \ {Gone} : OwnedByPool(s)}}

StoreShard(s, obj) ==
    /\ live' = [live EXCEPT !.shards[s] = obj]
    /\ stale' = IF obj = live.shards[s] THEN stale
                ELSE stale \cup ({"shards"} \X ({Nobody} \cup OwnersOf({obj, live.shards[s]})))

Unstored == UNCHANGED <<live, stale>>

MayFail == failures < MaxFailures /\ failures' = failures + 1

NewPool(p, sel, cfg) ==
    [uid |-> <<p, born.pools + 1>>, sel |-> sel, cfg |-> cfg, fin |-> FALSE, dying |-> FALSE,
     status |-> "new"]
BirthOfPool == born.pools < MaxIds /\ born' = [born EXCEPT !.pools = @ + 1]
BirthOfShard == born.shards < MaxIds /\ born' = [born EXCEPT !.shards = @ + 1]

\* A finalizer patch replaces the list; a dying NodePool without finalizer disappears.
WithFinalizer(pool, fin) == IF pool.dying /\ ~fin THEN Gone ELSE [pool EXCEPT !.fin = fin]

-----------------------------------------------------------------------------
(* The NodePool controller: one worker.                                     *)

Running == krm = "in"
Rest == UNCHANGED <<setup, krm, webhooks, helm, hook, hand, edits>>

\* Bug: an error of the shard's write is logged and not retried.
MutantDone(again) == job' = Idle /\ UNCHANGED queued

\* What was queued during the reconcile stays queued.
Done(again) == /\ job' = Idle
               /\ queued' = IF again THEN queued \cup {job.pool} ELSE queued

\* Reconcile: a NodePool that is not in the cache, or whose deletion is not ours to finish.
ReconcileNothing(p) ==
    /\ Running /\ job = Idle /\ p \in queued
    /\ \/ seen.pools[p] = Gone
       \/ seen.pools[p] # Gone /\ seen.pools[p].dying /\ ~seen.pools[p].fin
    /\ queued' = queued \ {p}
    /\ Unstored
    /\ UNCHANGED <<seen, job, born, failures>> /\ Rest

\* finalize, once the nodes have moved away: deleteFinalizer.
Finalize(p) ==
    /\ Running /\ job = Idle /\ p \in queued
    /\ seen.pools[p] # Gone /\ seen.pools[p].dying /\ seen.pools[p].fin
    /\ \/ /\ queued' = queued \ {p}
          /\ IF live.pools[p] = Gone THEN Unstored
             ELSE StorePool(p, WithFinalizer(live.pools[p], FALSE))
          /\ UNCHANGED failures
       \/ MayFail /\ Unstored /\ UNCHANGED queued
    /\ UNCHANGED <<seen, job, born>> /\ Rest

\* addControllerAsFinalizerIfNeeded; an error ends the reconcile and is retried.
Reconcile(p) ==
    /\ Running /\ job = Idle /\ p \in queued
    /\ seen.pools[p] # Gone /\ ~seen.pools[p].dying
    /\ LET copy == [seen.pools[p] EXCEPT !.fin = TRUE]
           started == [step |-> "shard", pool |-> p, copy |-> copy, failed |-> FALSE,
                       name |-> p, shard |-> Gone, fresh |-> TRUE]
           goOn == job' = started /\ queued' = queued \ {p} /\ UNCHANGED failures
           retry == UNCHANGED <<job, queued>> /\ Unstored
       IN \/ seen.pools[p].fin /\ goOn /\ Unstored
          \/ ~seen.pools[p].fin /\ live.pools[p] # Gone /\ goOn
             /\ StorePool(p, WithFinalizer(live.pools[p], TRUE))
          \/ ~seen.pools[p].fin /\ live.pools[p] = Gone /\ retry /\ UNCHANGED failures
          \/ ~seen.pools[p].fin /\ retry /\ MayFail
    /\ UNCHANGED <<seen, born>> /\ Rest

\* getSchedulerResources: the shard as it should be, built from the cached one.
getSchedulerResources ==
    /\ Running /\ job.step = "shard"
    /\ LET uid == job.copy.uid
           owned == resolveOwnedShardForNodePool(seen.shards, job.pool, uid)
           s == IF owned # None THEN owned
                ELSE GetOrInitShardNamedAfterNodePool(seen.shards, job.pool, uid)
       IN job' = IF s = Unresolvable
                 THEN [job EXCEPT !.step = "status", !.failed = TRUE]
                 ELSE [job EXCEPT !.step = "write", !.name = s,
                         !.fresh = (seen.shards[s] = Gone),
                         !.shard = SchedulingShardForNodePool(seen.shards[s], job.copy)]
    /\ Unstored
    /\ UNCHANGED <<seen, queued, born, failures>> /\ Rest

\* An Update carries the resource version of the second read and the rest of the first; the
\* API server refuses it when either is not of the object it has.
Conflict(s) == \/ live.shards[s] # seen.shards[s]
               \/ ~job.fresh /\ job.shard.id # seen.shards[s].id

\* CreateOrUpdateIfNeeded reads the cache again.  AlreadyExists is not an error; creating an
\* object that was read before, resource version included, is one.
CreateOrUpdateIfNeeded ==
    /\ Running /\ job.step = "write"
    /\ LET s == job.name
           desired == [job.shard EXCEPT !.owner = job.copy.uid]
           ended(failed) == job' = [job EXCEPT !.step = "status", !.failed = failed,
                                               !.shard = Gone, !.fresh = TRUE]
       IN \/ /\ seen.shards[s] = Gone /\ live.shards[s] = Gone
             /\ job.fresh /\ ShardValidateCreate(s, desired)
             /\ BirthOfShard
             /\ StoreShard(s, [desired EXCEPT !.id = born.shards + 1, !.ready = FALSE])
             /\ ended(FALSE) /\ UNCHANGED failures
          \/ /\ seen.shards[s] = Gone
             /\ ~(live.shards[s] = Gone /\ job.fresh /\ ShardValidateCreate(s, desired))
             /\ ended(~(job.fresh /\ ShardValidateCreate(s, desired)))
             /\ Unstored /\ UNCHANGED <<born, failures>>
          \/ /\ seen.shards[s] # Gone /\ ~specsDiffer(seen.shards[s], desired)
             /\ ended(FALSE)
             /\ Unstored /\ UNCHANGED <<born, failures>>
          \/ /\ seen.shards[s] # Gone /\ specsDiffer(seen.shards[s], desired)
             /\ IF Conflict(s) \/ ~ShardValidateUpdate(live.shards[s], desired)
                THEN Unstored /\ ended(TRUE)
                ELSE /\ StoreShard(s, [desired EXCEPT !.id = live.shards[s].id,
                                                      !.ready = live.shards[s].ready])
                     /\ ended(FALSE)
             /\ UNCHANGED <<born, failures>>
          \/ MayFail /\ Unstored /\ ended(TRUE) /\ UNCHANGED born
    /\ UNCHANGED <<seen, queued>> /\ Rest

\* SchedulingShardStatus and getNodePoolStatusByScheduler.
SchedulingShardStatus(shards, p, uid) ==
    LET s == resolveOwnedShardForNodePool(shards, p, uid) IN
    IF s = Unresolvable THEN "unresolvable"
    ELSE IF s # None /\ shards[s].ready THEN "served" ELSE "waiting"

\* reconcileNodePoolStatus patches the phase and message when they changed.  The NodePool is
\* there: it has the finalizer, which only this worker removes.
reconcileNodePoolStatus ==
    /\ Running /\ job.step = "status"
    /\ LET p == job.pool
           status == SchedulingShardStatus(seen.shards, p, job.copy.uid)
       IN \/ status = job.copy.status /\ Unstored /\ Done(job.failed) /\ UNCHANGED failures
          \/ /\ status # job.copy.status
             /\ StorePool(p, [live.pools[p] EXCEPT !.status = status])
             /\ Done(job.failed) /\ UNCHANGED failures
          \/ status # job.copy.status /\ Unstored /\ Done(TRUE) /\ MayFail
    /\ UNCHANGED <<seen, born>> /\ Rest

\* The cache catches up with the API server, and every event on the way queues its NodePools.
Sync(kind) ==
    /\ Running
    /\ LET events == {e \in stale : e[1] = kind} IN
       /\ events # {}
       /\ stale' = stale \ events
       /\ queued' = queued \cup ({e[2] : e \in events} \ {Nobody})
    /\ seen' = [seen EXCEPT ![kind] = live[kind]]
    /\ UNCHANGED <<live, job, born, failures>> /\ Rest

\* A controller that starts lists everything.
Started(inCluster) ==
    /\ seen' = inCluster /\ stale' = {} /\ job' = Idle
    /\ queued' = {p \in Pools : inCluster.pools[p] # Gone}

Restart ==
    /\ Running /\ MayFail
    /\ Started(live)
    /\ UNCHANGED <<live, born>> /\ Rest

-----------------------------------------------------------------------------
(* The migration hook.                                                      *)

shardsToMigrate ==
    {s \in ShardNames : /\ live.shards[s] # Gone
                        /\ live.shards[s].owner = Nobody
                        /\ ~IsUnmanaged(live.shards[s])}

checkNodePoolName(shard) == shard.part # Default

checkShardArgs(shard) ==
    \A k \in Keys : shard.args[k] # Unset /\ KrmArgs[k] # Unset => shard.args[k] = KrmArgs[k]

checkNodePoolSelectsPartition(pool, shard) == shard.part = "" \/ pool.sel = "partition"

\* planMigrations collects the errors of every shard and changes nothing if there is one.
Plannable(s) ==
    LET shard == live.shards[s]
        p == NodePoolNameForPartitionLabelValue(shard.part) IN
    /\ ListShardsWithPartitionLabelValue(live.shards, shard.part) = {s}
    /\ checkNodePoolName(shard)
    /\ checkShardArgs(shard)
    /\ Readable(shard.fair)
    /\ live.pools[p] # Gone => checkNodePoolSelectsPartition(live.pools[p], shard)

Migration(s) ==
    LET shard == live.shards[s]
        p == NodePoolNameForPartitionLabelValue(shard.part) IN
    [shard |-> s, pool |-> p, cfg |-> SchedulingShardConfigFromShard(shard),
     existing |-> live.pools[p], part |-> shard.part]

HookRest == UNCHANGED <<setup, seen, queued, job, hand, edits>>
Installing == helm \in {"install", "upgrade"}

\* Helm runs the hook again after it failed; a plan with errors ends the operation.
planMigrations ==
    /\ Installing /\ hook = NoHook
    /\ IF \A s \in shardsToMigrate : Plannable(s)
       THEN /\ hook' = [kind |-> "migrate", todo |-> {Migration(s) : s \in shardsToMigrate},
                        owner |-> Nobody]
            /\ UNCHANGED helm
       ELSE helm' = "none" /\ UNCHANGED hook
    /\ Unstored
    /\ UNCHANGED <<krm, webhooks, born, failures>> /\ HookRest

\* Shards are taken in the order of their names; CHOOSE stands for it.
NextMigration == CHOOSE m \in hook.todo : TRUE
HookFails == hook' = NoHook
Migrating == hook.kind = "migrate"

\* A merge patch sets what the hook changed in the settings it read when it planned.
Changed(now, old, new) == IF old = new THEN now ELSE new

PatchedFair(now, old, new) ==
    IF ~new.enabled THEN Changed(now, old, new)
    ELSE [enabled |-> TRUE,
          weight |-> Changed(now.weight, old.weight, new.weight),
          queries |-> Changed(now.queries, old.queries, new.queries),
          address |-> Changed(now.address, old.address, new.address),
          halfLife |-> Changed(now.halfLife, old.halfLife, new.halfLife),
          window |-> Changed(now.window, old.window, new.window)]

Patched(cfg, read, wanted) ==
    [args |-> [k \in Keys |-> Changed(cfg.args[k], read.args[k], wanted.args[k])],
     strategy |-> Changed(cfg.strategy, read.strategy, wanted.strategy),
     fair |-> PatchedFair(cfg.fair, read.fair, wanted.fair)]

\* Creates the shard's NodePool, or patches the one that was there when the hook planned; one
\* that already had the settings is not even read again.
nodePoolForShard ==
    /\ Migrating /\ hook.todo # {} /\ hook.owner = Nobody
    /\ LET m == NextMigration
           sel == IF m.part = "" THEN "empty" ELSE "partition"
           pool == live.pools[m.pool]
           new == NewPool(m.pool, sel, m.cfg)
           admitted == pool = Gone /\ PoolValidateCreate(m.pool, sel)
           goOn(uid) == hook' = [hook EXCEPT !.owner = uid]
       IN \/ /\ m.existing # Gone /\ m.existing.cfg = m.cfg
             /\ goOn(m.existing.uid) /\ Unstored /\ UNCHANGED <<born, failures>>
          \/ /\ m.existing # Gone /\ m.existing.cfg # m.cfg
             /\ IF pool = Gone THEN HookFails /\ Unstored
                ELSE /\ StorePool(m.pool, [pool EXCEPT
                                    !.cfg = Patched(pool.cfg, m.existing.cfg, m.cfg)])
                     /\ goOn(pool.uid)
             /\ UNCHANGED <<born, failures>>
          \/ /\ m.existing = Gone /\ admitted
             /\ BirthOfPool
             /\ StorePool(m.pool, new) /\ goOn(new.uid) /\ UNCHANGED failures
          \/ /\ m.existing = Gone /\ ~admitted
             /\ HookFails /\ Unstored /\ UNCHANGED <<born, failures>>
          \/ MayFail /\ HookFails /\ Unstored /\ UNCHANGED born
    /\ UNCHANGED <<krm, webhooks, helm>> /\ HookRest

\* Bug: the shard is not labelled as adopted.
MutantMigrate ==
    /\ Migrating /\ hook.todo # {} /\ hook.owner # Nobody
    /\ LET m == NextMigration
           old == live.shards[m.shard]
       IN /\ old # Gone
          /\ StoreShard(m.shard, [old EXCEPT !.owner = hook.owner])
          /\ hook' = [hook EXCEPT !.owner = Nobody, !.todo = @ \ {m}]
    /\ UNCHANGED <<krm, webhooks, helm, born, failures>> /\ HookRest

\* Hands the shard over with a merge patch, which does not look at the resource version.
migrate ==
    /\ Migrating /\ hook.todo # {} /\ hook.owner # Nobody
    /\ LET m == NextMigration
           old == live.shards[m.shard]
       IN \/ /\ old # Gone
             /\ StoreShard(m.shard, [old EXCEPT !.owner = hook.owner, !.adopted = TRUE,
                                                !.ignore = @ /\ m.part # ""])
             /\ hook' = [hook EXCEPT !.owner = Nobody, !.todo = @ \ {m}]
             /\ UNCHANGED failures
          \/ old = Gone /\ HookFails /\ Unstored /\ UNCHANGED failures
          \/ MayFail /\ HookFails /\ Unstored
    /\ UNCHANGED <<krm, webhooks, helm, born>> /\ HookRest

DefaultSpec == [args |-> NoArgs, strategy |-> "unset", fair |-> NoFairShare]

\* Creates the default NodePool when nothing did; then the release's objects are applied and
\* the controllers start, or go on running.
ensureDefaultNodePool ==
    /\ Migrating /\ hook.todo = {}
    /\ LET created == [live EXCEPT !.pools[Default] = NewPool(Default, "empty", DefaultSpec)]
           finish(inCluster) ==
              /\ live' = inCluster
              /\ hook' = NoHook /\ helm' = "none" /\ krm' = "in" /\ webhooks' = TRUE
              /\ IF krm = "in"
                 THEN /\ UNCHANGED <<seen, job, queued>>
                      /\ stale' = IF live = inCluster THEN stale ELSE stale \cup {<<"pools", Default>>}
                 ELSE Started(inCluster)
       IN \/ /\ live.pools[Default] # Gone
             /\ finish(live) /\ UNCHANGED <<born, failures>>
          \/ /\ live.pools[Default] = Gone /\ PoolValidateCreate(Default, "empty")
             /\ BirthOfPool
             /\ finish(created) /\ UNCHANGED failures
          \/ /\ \/ MayFail
                \/ /\ live.pools[Default] = Gone /\ ~PoolValidateCreate(Default, "empty")
                   /\ UNCHANGED failures
             /\ HookFails /\ Unstored
             /\ UNCHANGED <<seen, job, queued, krm, webhooks, helm, born>>
    /\ UNCHANGED <<setup, hand, edits>>

-----------------------------------------------------------------------------
(* The cleanup hook.                                                        *)

\* Bug: the Deployments are deleted in the background, so a reconcile may still be running.
MutantDeleteOperatorManagedDeployments ==
    /\ helm = "uninstall" /\ hook = NoHook
    /\ hook' = [kind |-> "release",
                todo |-> {s \in ShardNames : live.shards[s] # Gone /\ live.shards[s].adopted}]
    /\ Unstored
    /\ UNCHANGED <<setup, seen, webhooks, helm, born, hand, edits, failures, krm, job, queued>>

\* The Deployments are deleted in the foreground: their pods are gone when this returns.  The
\* list of adopted shards that follows is part of the step: nobody adopts one in between.
deleteOperatorManagedDeployments ==
    /\ helm = "uninstall" /\ hook = NoHook
    /\ krm' = "stopped"
    /\ job' = Idle /\ queued' = {}
    /\ hook' = [kind |-> "release",
                todo |-> {s \in ShardNames : live.shards[s] # Gone /\ live.shards[s].adopted}]
    /\ Unstored
    /\ UNCHANGED <<setup, seen, webhooks, helm, born, hand, edits, failures>>

Released(shard) == [shard EXCEPT !.owner = IF OwnedByPool(shard) THEN Nobody ELSE @,
                                 !.adopted = FALSE, !.tracked = Untracked]

CleanupRest == UNCHANGED <<setup, seen, webhooks, queued, job, born, hand, edits>>

releaseAdoptedSchedulingShards ==
    /\ hook.kind = "release" /\ hook.todo # {}
    /\ LET s == CHOOSE t \in hook.todo : TRUE IN
       \/ /\ IF live.shards[s] = Gone THEN Unstored
             ELSE StoreShard(s, Released(live.shards[s]))
          /\ hook' = [hook EXCEPT !.todo = @ \ {s}]
          /\ UNCHANGED failures
       \/ MayFail /\ HookFails /\ Unstored
    /\ UNCHANGED <<krm, helm>> /\ CleanupRest

startStripping ==
    /\ hook.kind = "release" /\ hook.todo = {}
    /\ hook' = [kind |-> "strip",
                todo |-> {p \in Pools : live.pools[p] # Gone /\ live.pools[p].fin}]
    /\ Unstored
    /\ UNCHANGED <<krm, helm, failures>> /\ CleanupRest

stripNodePoolFinalizers ==
    /\ hook.kind = "strip" /\ hook.todo # {}
    /\ LET p == CHOOSE q \in hook.todo : TRUE IN
       \/ /\ IF live.pools[p] = Gone THEN Unstored
             ELSE StorePool(p, WithFinalizer(live.pools[p], FALSE))
          /\ hook' = [hook EXCEPT !.todo = @ \ {p}]
          /\ UNCHANGED failures
       \/ MayFail /\ HookFails /\ Unstored
    /\ UNCHANGED <<krm, helm>> /\ CleanupRest

finishCleanup ==
    /\ hook.kind = "strip" /\ hook.todo = {}
    /\ hook' = NoHook /\ helm' = "none" /\ krm' = "out"
    /\ Unstored
    /\ UNCHANGED failures /\ CleanupRest

-----------------------------------------------------------------------------
(* The garbage collector, KAI's own operator, and people.                   *)

Outside == UNCHANGED <<setup, seen, krm, webhooks, helm, hook, queued, job, failures>>

Orphan(s) ==
    /\ live.shards[s] # Gone /\ OwnedByPool(live.shards[s])
    /\ LET owner == live.shards[s].owner IN
       ~(live.pools[owner[1]] # Gone /\ live.pools[owner[1]].uid = owner)

GarbageCollect(s) ==
    /\ Orphan(s)
    /\ StoreShard(s, Gone)
    /\ UNCHANGED <<born, hand, edits>> /\ Outside

\* KAI deploys a scheduler for the shard and reports it.
Deploy(s) ==
    /\ live.shards[s] # Gone /\ ~live.shards[s].ready
    /\ StoreShard(s, [live.shards[s] EXCEPT !.ready = TRUE])
    /\ UNCHANGED <<born, hand, edits>> /\ Outside

\* Nothing is going on, and nothing is waiting to happen.
AtRest == /\ helm = "none" /\ hook = NoHook
          /\ job = Idle /\ queued = {} /\ stale = {}

Edit(e) == /\ e \in setup.edits \ edits
           /\ Cardinality(edits) < MaxEdits
           /\ edits' = edits \cup {e}

Upgrade == /\ Edit("upgrade") /\ helm = "none" /\ krm = "in" /\ helm' = "upgrade"
           /\ UNCHANGED <<krm, webhooks>>
\* Helm deletes the webhook configurations before the cleanup hook runs.
Uninstall == /\ Edit("uninstall") /\ helm = "none" /\ krm = "in" /\ helm' = "uninstall"
             /\ webhooks' = FALSE /\ UNCHANGED krm
Reinstall == /\ Edit("reinstall") /\ helm = "none" /\ krm = "out" /\ helm' = "install"
             /\ krm' = "new" /\ UNCHANGED webhooks
Release ==
    /\ Upgrade \/ Uninstall \/ Reinstall
    /\ Unstored
    /\ UNCHANGED <<setup, seen, hook, queued, job, born, hand, failures>>

EditPool ==
    /\ \/ /\ Edit("createPool") /\ BirthOfPool
          /\ \E p \in Named : \E sel \in {"partition", "other"} :
                /\ live.pools[p] = Gone /\ PoolValidateCreate(p, sel)
                /\ StorePool(p, NewPool(p, sel, DefaultSpec))
       \/ /\ Edit("deletePool") /\ UNCHANGED born
          /\ \E p \in Pools :
                /\ live.pools[p] # Gone /\ PoolValidateDelete(p) /\ ~live.pools[p].dying
                /\ StorePool(p, WithFinalizer([live.pools[p] EXCEPT !.dying = TRUE],
                                              live.pools[p].fin))
       \/ /\ Edit("editPool") /\ UNCHANGED born
          /\ \E p \in Pools, k \in Keys :
                /\ live.pools[p] # Gone /\ KrmArgs[k] = Unset
                /\ \E v \in (Values \cup {Unset}) \ {live.pools[p].cfg.args[k]} :
                      StorePool(p, [live.pools[p] EXCEPT !.cfg.args[k] = v])
    /\ UNCHANGED hand /\ Outside

EditShard ==
    /\ \/ /\ Edit("createShard") /\ BirthOfShard /\ UNCHANGED hand
          /\ \E s \in ShardNames, part \in Partitions, ignore \in BOOLEAN :
               LET new == [NewShard(part) EXCEPT !.id = born.shards + 1, !.ignore = ignore] IN
               /\ live.shards[s] = Gone /\ ShardValidateCreate(s, new)
               /\ StoreShard(s, new)
       \/ /\ Edit("dropShard") /\ UNCHANGED <<born, hand>>
          /\ \E s \in ShardNames : live.shards[s] # Gone /\ StoreShard(s, Gone)
       \/ /\ Edit("outage") /\ UNCHANGED <<born, hand>>
          /\ \E s \in ShardNames :
               /\ live.shards[s] # Gone /\ live.shards[s].ready
               /\ StoreShard(s, [live.shards[s] EXCEPT !.ready = FALSE])
       \/ /\ Edit("handArg") /\ UNCHANGED born
          /\ \E s \in ShardNames, k \in Keys, v \in Values :
               /\ live.shards[s] # Gone /\ live.shards[s].args[k] = Unset /\ KrmArgs[k] = Unset
               /\ StoreShard(s, [live.shards[s] EXCEPT !.args[k] = v])
               /\ hand' = [shard |-> s, id |-> live.shards[s].id, key |-> k, rest |-> AtRest]
    /\ Outside

-----------------------------------------------------------------------------
Init ==
    /\ setup \in Setups
    /\ live = [pools |-> setup.pools, shards |-> setup.shards]
    /\ seen = live /\ stale = {}
    /\ krm = IF setup.running THEN "in" ELSE "new"
    /\ webhooks = setup.running
    /\ helm = IF setup.running THEN "none" ELSE "install"
    /\ hook = NoHook
    /\ queued = {} /\ job = Idle
    /\ born = [pools |-> Cardinality({p \in Pools : setup.pools[p] # Gone}),
               shards |-> Cardinality({s \in ShardNames : setup.shards[s] # Gone})]
    /\ hand = Gone
    /\ edits = {} /\ failures = 0

Take(p) == ReconcileNothing(p) \/ Finalize(p) \/ Reconcile(p)
Work == getSchedulerResources \/ CreateOrUpdateIfNeeded \/ reconcileNodePoolStatus

Hooks ==
    \/ planMigrations \/ nodePoolForShard \/ migrate \/ ensureDefaultNodePool
    \/ deleteOperatorManagedDeployments \/ releaseAdoptedSchedulingShards
    \/ startStripping \/ stripNodePoolFinalizers \/ finishCleanup

Next ==
    \/ Work \/ Hooks \/ Restart
    \/ \E p \in Pools : Take(p)
    \/ \E kind \in {"pools", "shards"} : Sync(kind)
    \/ \E s \in ShardNames : GarbageCollect(s) \/ Deploy(s)
    \/ Release \/ EditPool \/ EditShard

\* The worker goes on and, as the queue is first in first out, takes every NodePool in it; the
\* informers deliver, KAI deploys schedulers, the garbage collector collects, and an
\* administrator repeats a Helm operation until it ends.
Spec == /\ Init /\ [][Next]_vars
        /\ WF_vars(Work) /\ WF_vars(Hooks)
        /\ \A p \in Pools : SF_vars(Take(p))
        /\ \A kind \in {"pools", "shards"} : WF_vars(Sync(kind))
        /\ \A s \in ShardNames : WF_vars(GarbageCollect(s)) /\ WF_vars(Deploy(s))

-----------------------------------------------------------------------------
(* Properties.                                                              *)

\* What the store, the caches, and the progress of the Helm operation, the hook and the
\* reconcile may be; in particular no write is to an object that is gone.
TypeOK ==
    /\ setup \in Setups
    /\ live \in Store /\ seen \in Store
    /\ stale \subseteq Event /\ queued \subseteq Pools
    /\ krm \in {"new", "in", "stopped", "out"} /\ webhooks \in BOOLEAN
    /\ helm \in {"none", "install", "upgrade", "uninstall"}
    /\ job \in Job \cup {Idle} /\ hook \in Hook \cup {NoHook}
    /\ edits \subseteq setup.edits /\ failures \in 0 .. MaxFailures

\* The same shard as at the start, and one that KRM did not create.
Predates(s) == /\ setup.shards[s] # Gone /\ live.shards[s] # Gone
               /\ live.shards[s].id = setup.shards[s].id
               /\ setup.shards[s].adopted \/ ~OwnedByPool(setup.shards[s])

\* Once the shards are released, no shard that predates KRM is owned by a NodePool any more:
\* deleting a NodePool after the uninstall cannot take one along.  Cleanup stops the
\* controllers before it releases, and releases before it strips the finalizers.
HandedBack ==
    krm = "out" \/ hook.kind = "strip" =>
        \A s \in ShardNames : Predates(s) => ~OwnedByPool(live.shards[s])

\* What a scheduler makes of its fair share settings, apart from what docs/concepts/node-pools.md
\* :224-231 says a migration changes: the variable and the client type.  A weight has no effect
\* without a usage database, counts as 0 when it is negative and to the precision of a float32;
\* what is unset has KAI's default.
Meaning(fair) ==
    IF ~fair.db THEN Gone
    ELSE [weight |-> HistoricalUsageWeight(Deref(fair.weight, "one")),
          queries |-> Deref(fair.queries, "kai"), address |-> fair.address,
          halfLife |-> Deref(fair.halfLife, "none"), window |-> Deref(fair.window, "week")]

\* A first install: no controllers yet, no shard adopted, NodePools numbered and not being deleted.
\* People may then delete NodePools, or create some, but not delete one and create it again: the
\* hook's merge patch for a NodePool that is not the one it planned with would leave out what did
\* not differ there.
FromScratch(start) ==
    /\ ~start.running /\ ~({"createPool", "deletePool"} \subseteq start.edits)
    /\ \A s \in ShardNames : start.shards[s] # Gone => ~start.shards[s].adopted
    /\ \A p \in Pools : start.pools[p] # Gone =>
          /\ start.pools[p].uid[1] = p /\ ~start.pools[p].dying
          /\ start.pools[p].uid[2] <= Cardinality({q \in Pools : start.pools[q] # Gone})

\* A shard that was there before KRM has the settings it had, at every moment of the migration with
\* its interruptions and repetitions, of an upgrade, an uninstall and a reinstall, as long as
\* nobody changes the NodePool's settings or the args: KRM only adds its own args, and changes of
\* fair share only what it documents (Meaning).
SettingsKept ==
    edits \cap {"editPool", "handArg"} = {} =>
        \A s \in ShardNames : Predates(s) =>
            LET old == setup.shards[s]  new == live.shards[s] IN
            /\ \A k \in KeysOf(old.args) : new.args[k] = old.args[k]
            /\ new.strategy = old.strategy /\ Meaning(new.fair) = Meaning(old.fair)

Phase == CASE krm = "new" -> "installing"
           [] krm = "in" /\ helm = "upgrade" -> "upgrading"
           [] krm = "in" /\ helm = "uninstall" -> "leaving"
           [] krm = "in" /\ helm = "none" -> "in"
           [] krm = "stopped" -> "releasing"
           [] OTHER -> "out"

Custody == INSTANCE ShardCustody WITH
    Shards <- ShardNames,
    Settings <- [args : Args, strategy : Strategies, fair : ShardFairness] \cup {Gone},
    custody <- [s \in ShardNames |-> IF ~Predates(s) THEN "gone"
                                     ELSE IF OwnedByPool(live.shards[s]) THEN "ours" ELSE "theirs"],
    settings <- [s \in ShardNames |->
                    IF ~Predates(s) THEN Gone
                    ELSE [args |-> live.shards[s].args, strategy |-> live.shards[s].strategy,
                          fair |-> live.shards[s].fair]],
    phase <- Phase,
    hands <- edits

\* The hooks, the controller and the garbage collector keep the promise of ShardCustody: in
\* particular the controller changes a shard that predates KRM only while a NodePool has it
\* (resolveOwnedShardForNodePool), even if the hook takes it over or gives it back between
\* the two reads of a reconcile.
KeepsCustody == Custody!Spec

\* Somebody created the shard under the NodePool's name when the caches still showed none: the
\* controller's create found it there, which is no error, and no event of a shard that has no
\* owner queues the NodePool.
TakenMeanwhile(p) ==
    /\ "createShard" \in edits /\ live.pools[p].status = "waiting"
    /\ live.shards[p] # Gone /\ live.shards[p].owner = Nobody

\* What a NodePool's shard has to be like, and what its status says.
Served(p) ==
    LET pool == live.pools[p]
        s == resolveOwnedShardForNodePool(live.shards, p, pool.uid)
        named == GetOrInitShardNamedAfterNodePool(live.shards, p, pool.uid) IN
    /\ pool.fin /\ ~pool.dying
    /\ pool.status = SchedulingShardStatus(live.shards, p, pool.uid) \/ TakenMeanwhile(p)
    /\ s = None => named = Unresolvable
    /\ s \in ShardNames =>
          /\ pool.status = "served"
          /\ ~specsDiffer(live.shards[s], SchedulingShardForNodePool(live.shards[s], pool))

Settled ==
    /\ helm = "none"
    /\ krm = "in" => \A p \in Pools : live.pools[p] # Gone => Served(p)
    /\ \A s \in ShardNames : ~Orphan(s)

\* Whatever was interrupted, Helm operations end, and while the controllers run every NodePool
\* ends with a finalizer, a shard of its own that carries its settings and is deployed, or a
\* status that says why it cannot have one (TakenMeanwhile excepted), two shards of one partition
\* included; deleted NodePools and their shards disappear.
Settles == <>[]Settled

\* docs/concepts/node-pools.md:166-169, of a partition that is served by a shard the NodePool does
\* not own: "The node pool stays `Unschedulable`, and its status message names the shard and the
\* fix".  Here once nothing is left to do.
ShardNamed ==
    AtRest /\ krm = "in" => \A p \in Pools :
        live.pools[p] # Gone /\ SchedulingShardStatus(live.shards, p, live.pools[p].uid) = "unresolvable"
            => live.pools[p].status = "unresolvable"

\* docs/concepts/node-pools.md:162-164: "KRM rewrites only the shard fields the node pool sets";
\* "anything else on the shard, including args you add by hand, is left alone".  Here the arg
\* is added while nothing else happens.
HandArgKept ==
    /\ AtRest /\ hand # Gone /\ hand.rest
    /\ live.shards[hand.shard] # Gone /\ live.shards[hand.shard].id = hand.id
    => live.shards[hand.shard].args[hand.key] # Unset
=============================================================================
