------------------------- MODULE ShardSettingsProofs -------------------------
(* SchedulingShards keeps the settings of shards that predate KRM            *)
(* (SettingsKept), which has to be followed through everyone who knows them: *)
(*   - wherever a NodePool that owns such a shard is known, in the API       *)
(*     server, the cache or the reconcile, it has settings that give the     *)
(*     shard what it had;                                                    *)
(*   - the hook plans with those of the shard, patches a NodePool that is    *)
(*     still as it was, and hands the shard over only while no controller    *)
(*     runs;                                                                 *)
(*   - the controllers start when no shard is left to hand over.             *)
EXTENDS SchedulingShardsProofs

\* Z3 first, then Zenon; a leaf that cites Zenon starts with it.
USE SMTT(30), ZenonT(30)

\* What such a shard has to have kept of its settings.
Keeps(new, old) ==
    /\ \A k \in KeysOf(old.args) : new.args[k] = old.args[k]
    /\ new.strategy = old.strategy /\ Meaning(new.fair) = Meaning(old.fair)

\* A NodePool with these settings gives its shard the settings it had.
Fits(cfg, old) ==
    /\ \A k \in KeysOf(old.args) : buildShardArgs(cfg)[k] = old.args[k]
    /\ cfg.strategy = old.strategy
    /\ Meaning(getTimeBasedFairShareFields(cfg.fair)) = Meaning(old.fair)

\* KRM was installed from scratch, and nobody has changed settings.
Scope == FromScratch(setup) /\ edits \cap {"editPool", "handArg"} = {}

\* The NodePools of the API server, of the cache of a running controller, and of its reconcile.
Known(pool) ==
    \/ \E p \in Pools : live.pools[p] = pool
    \/ krm = "in" /\ \E p \in Pools : seen.pools[p] = pool
    \/ job # Idle /\ job.copy = pool

\* NodePools are named and counted, and only people delete them.
PoolIds ==
    \A p \in Pools : live.pools[p] # Gone =>
        /\ live.pools[p].uid[1] = p /\ live.pools[p].uid[2] <= born.pools
        /\ live.pools[p].dying => "deletePool" \in edits

\* A shard that predates KRM has kept its settings; the NodePool that owns it, wherever it is
\* known, fits; and none is left to migrate while the controllers run.
ShardKept(s) ==
    /\ Keeps(live.shards[s], setup.shards[s])
    /\ OwnedByPool(live.shards[s]) =>
          /\ live.shards[s].part = PartitionLabelValueForNodePool(live.shards[s].owner[1])
          /\ live.shards[s].owner[2] <= born.pools
          /\ \A pool \in Pool : Known(pool) /\ pool.uid = live.shards[s].owner
                                => Fits(pool.cfg, setup.shards[s])
    /\ krm = "in" =>
          /\ s \notin shardsToMigrate
          /\ OwnedByPool(seen.shards[s]) => seen.shards[s].owner = live.shards[s].owner

\* What the reconcile is about to write to one.
WriteKept ==
    job.step = "write" /\ Predates(job.name) /\ job.shard.id = setup.shards[job.name].id =>
        /\ Keeps(job.shard, setup.shards[job.name])
        /\ job.copy.uid = live.shards[job.name].owner
        /\ job.shard.part = PartitionLabelValueForNodePool(job.copy.uid[1])

\* A migration that is planned: it has its partition to itself, and its settings fit.
PlanKept(m) ==
    /\ m.part = PartitionLabelValueForNodePool(m.pool)
    /\ m.pool = NodePoolNameForPartitionLabelValue(m.part)
    /\ \A n \in hook.todo : n.pool = m.pool => n = m
    /\ \A s \in ShardNames : Predates(s) /\ live.shards[s].part = m.part => s = m.shard
    /\ Predates(m.shard) => /\ live.shards[m.shard].part = m.part
                            /\ m.shard \in shardsToMigrate
                            /\ Fits(m.cfg, setup.shards[m.shard])
    /\ m.existing # Gone =>
          /\ m.existing.uid[1] = m.pool /\ m.existing.uid[2] <= born.pools
          /\ live.pools[m.pool] = Gone => "deletePool" \in edits

\* The NodePool that it found is still as it was.
Unpatched(m) ==
    m.existing # Gone /\ live.pools[m.pool] # Gone =>
        live.pools[m.pool].uid = m.existing.uid /\ live.pools[m.pool].cfg = m.existing.cfg

\* The NodePool that the next shard is handed to.
HandedTo(uid, m) ==
    /\ uid[1] = m.pool /\ uid[2] <= born.pools
    /\ \A p \in Pools : live.pools[p] # Gone /\ live.pools[p].uid = uid /\ Predates(m.shard)
                        => Fits(live.pools[p].cfg, setup.shards[m.shard])

\* The plan has every shard there is to migrate.
HookKept ==
    hook.kind = "migrate" =>
        /\ \A s \in ShardNames : Predates(s) /\ s \in shardsToMigrate => \E m \in hook.todo : m.shard = s
        /\ \A m \in hook.todo : /\ PlanKept(m)
                                /\ hook.owner = Nobody \/ m # NextMigration => Unpatched(m)
        /\ hook.owner # Nobody => hook.todo # {} /\ HandedTo(hook.owner, NextMigration)

KeptInv == /\ PoolIds /\ WriteKept /\ HookKept
           /\ \A s \in ShardNames : Predates(s) => ShardKept(s)
SettingsInv == Scope => KeptInv

\* The controller gives a shard the settings of a NodePool that fits.
LEMMA FitsGives ==
    ASSUME NEW old \in Shard, NEW found \in Shard \cup {Gone}, NEW pool \in Pool, Fits(pool.cfg, old)
    PROVE  LET new == SchedulingShardForNodePool(found, pool) IN
           /\ Keeps(new, old) /\ new.part = PartitionLabelValueForNodePool(pool.uid[1])
<1> DEFINE part == PartitionLabelValueForNodePool(pool.uid[1])
           base == IF found = Gone THEN NewShard(part) ELSE found
           desired == buildShardArgs(pool.cfg)
           args == mergeShardArgs(base, desired)
           fair == getTimeBasedFairShareFields(pool.cfg.fair)
           new == SchedulingShardForNodePool(found, pool)
<1>1. new = [base EXCEPT !.args = args, !.tracked = KeysOf(desired), !.part = part,
                         !.strategy = pool.cfg.strategy, !.fair = fair]
  BY DEF SchedulingShardForNodePool
<1>2. ASSUME NEW k \in KeysOf(old.args) PROVE args[k] = old.args[k]
  <2>1. k \in Keys /\ old.args[k] # Unset
    BY DEF KeysOf
  <2>2. desired[k] = old.args[k]
    BY DEF Fits
  <2> HIDE DEF desired, base
  <2> QED BY <2>1, <2>2 DEF mergeShardArgs, Merge
<1>3. base \in [id : 0 .. MaxIds, part : Partitions \cup {part}, owner : Uids \cup {Nobody, Foreign},
          ignore : BOOLEAN, adopted : BOOLEAN, tracked : (SUBSET Keys) \cup {Untracked},
          args : Args, strategy : Strategies, fair : ShardFairness, ready : BOOLEAN]
  <2>1. CASE found # Gone
    BY <2>1 DEF Shard
  <2>2. CASE found = Gone
    <3>1. NoArgs \in Args /\ 0 \in 0 .. MaxIds
      BY ConstantsAssumption DEF NoArgs, Args
    <3> HIDE DEF part
    <3> QED BY <2>2, <3>1, FairTyped DEF NewShard, Strategies
  <2> QED BY <2>1, <2>2
<1> HIDE DEF base, args, part, fair, desired, new
<1>4. /\ new.args = args /\ new.strategy = pool.cfg.strategy /\ new.fair = fair /\ new.part = part
  BY ZenonT(30), <1>1, <1>3
<1>5. Keeps(new, old)
  BY <1>2, <1>4 DEF Keeps, Fits, fair
<1> QED BY <1>4, <1>5 DEF new, part

\* A NodePool's fair share that was taken from a shard gives a shard that means the same.
LEMMA RoundTrip ==
    ASSUME NEW fair \in ShardFairness
    PROVE  Meaning(getTimeBasedFairShareFields(timeBasedFairShareFromShard(fair))) = Meaning(fair)
<1> DEFINE pool == timeBasedFairShareFromShard(fair)
           back == getTimeBasedFairShareFields(pool)
<1>1. CASE ~fair.db
  <2>1. pool = NoFairShare
    BY <1>1 DEF timeBasedFairShareFromShard
  <2>2. back = NoUsage
    BY <2>1 DEF getTimeBasedFairShareFields, NoFairShare
  <2> QED BY <1>1, <2>2 DEF Meaning, NoUsage
<1>2. CASE fair.db
  <2>1. /\ pool.enabled /\ pool.weight = HistoricalUsageWeight(fair.weight)
        /\ pool.queries = Deref(fair.queries, "kai") /\ pool.address = fair.address
        /\ pool.halfLife = fair.halfLife /\ pool.window = fair.window
    BY <1>2 DEF timeBasedFairShareFromShard
  <2> HIDE DEF pool
  <2>2. /\ back.db /\ back.weight = Deref(HistoricalUsageWeight(fair.weight), "one")
        /\ back.queries = Deref(Deref(fair.queries, "kai"), "pool") /\ back.address = fair.address
        /\ back.halfLife = Deref(fair.halfLife, "none") /\ back.window = Deref(fair.window, "week")
    BY <2>1 DEF getTimeBasedFairShareFields
  <2> HIDE DEF back
  <2>3. fair.weight \in Weights /\ fair.queries \in Queries
    BY DEF ShardFairness
  <2>4. HistoricalUsageWeight(Deref(back.weight, "one"))
           = HistoricalUsageWeight(Deref(fair.weight, "one"))
    BY <2>2, <2>3 DEF Weights, Deref, HistoricalUsageWeight
  <2>5. /\ Deref(back.queries, "kai") = Deref(fair.queries, "kai")
        /\ Deref(back.halfLife, "none") = Deref(fair.halfLife, "none")
        /\ Deref(back.window, "week") = Deref(fair.window, "week")
    BY <2>2, <2>3 DEF Queries, Deref
  <2>6. Meaning(back) = Meaning(fair)
    BY ZenonT(30), <1>2, <2>2, <2>4, <2>5 DEF Meaning
  <2> QED BY <2>6 DEF back, pool
<1> QED BY <1>1, <1>2 DEF ShardFairness

\* The settings that the hook reads from a shard fit it.
LEMMA PlanFits ==
    ASSUME NEW old \in Shard, NEW sh \in Shard, Keeps(sh, old), checkShardArgs(sh),
           Readable(sh.fair)
    PROVE  Fits(SchedulingShardConfigFromShard(sh), old)
<1> DEFINE cfg == SchedulingShardConfigFromShard(sh)
<1>1. cfg.args = sh.args /\ cfg.strategy = sh.strategy /\ cfg.fair = timeBasedFairShareFromShard(sh.fair)
  BY DEF SchedulingShardConfigFromShard
<1> HIDE DEF cfg
<1>2. ASSUME NEW k \in KeysOf(old.args) PROVE buildShardArgs(cfg)[k] = old.args[k]
  <2>1. k \in Keys /\ old.args[k] # Unset /\ sh.args[k] = old.args[k]
    BY DEF KeysOf, Keeps
  <2>2. KrmArgs[k] # Unset => sh.args[k] = KrmArgs[k]
    BY <2>1 DEF checkShardArgs
  <2> QED BY <1>1, <2>1, <2>2 DEF buildShardArgs, Merge
<1>3. Meaning(getTimeBasedFairShareFields(cfg.fair)) = Meaning(old.fair)
  <2>1. sh.fair \in ShardFairness /\ Meaning(sh.fair) = Meaning(old.fair)
    BY ShardFields DEF Keeps
  <2>2. Meaning(getTimeBasedFairShareFields(timeBasedFairShareFromShard(sh.fair))) = Meaning(sh.fair)
    BY <2>1, RoundTrip
  <2> QED BY <1>1, <2>1, <2>2
<1> QED BY <1>1, <1>2, <1>3 DEF Fits, Keeps, cfg

\* A merge patch on what was read gives what is wanted.
LEMMA PatchedSame == ASSUME NEW cfg \in Config, NEW wanted \in Config PROVE Patched(cfg, cfg, wanted) = wanted
<1>1. wanted.args \in [Keys -> Values \cup {Unset}]
  BY DEF Config, Args
<1>2. [k \in Keys |-> IF cfg.args[k] = wanted.args[k] THEN cfg.args[k] ELSE wanted.args[k]] = wanted.args
  BY <1>1
<1>3. Patched(cfg, cfg, wanted) = [args |-> wanted.args, strategy |-> wanted.strategy, fair |-> wanted.fair]
  <2>1. cfg.fair \in PoolFairness /\ wanted.fair \in PoolFairness
    BY DEF Config
  <2>2. PatchedFair(cfg.fair, cfg.fair, wanted.fair) = wanted.fair
    BY <2>1 DEF PatchedFair, Changed, PoolFairness
  <2> QED BY <1>2, <2>2 DEF Patched, Changed
<1> QED BY <1>3 DEF Config

-----------------------------------------------------------------------------
(* Steps that leave the settings in good hands.                             *)

\* Setup, edits and the count of NodePools move on.
CountStep == setup' = setup /\ edits \subseteq edits' /\ born.pools <= born'.pools

\* A NodePool keeps identity and settings, or is new; only a dying one disappears.
PoolsStep ==
    \A p \in Pools :
        \/ /\ live'.pools[p] # Gone /\ live.pools[p] # Gone
           /\ live'.pools[p].uid = live.pools[p].uid /\ live'.pools[p].cfg = live.pools[p].cfg
           /\ live'.pools[p].dying => live.pools[p].dying \/ "deletePool" \in edits'
        \/ /\ live'.pools[p] # Gone /\ live.pools[p] = Gone /\ ~live'.pools[p].dying
           /\ live'.pools[p].uid = <<p, born'.pools>> /\ born.pools < born'.pools
        \/ /\ live'.pools[p] = Gone
           /\ live.pools[p] = Gone \/ live.pools[p].dying \/ "deletePool" \in edits'

\* A shard that predates KRM keeps owner and partition, and what counts of its settings.
ShardsStep ==
    \A s \in ShardNames : Predates(s)' =>
        /\ Predates(s)
        /\ live'.shards[s].owner = live.shards[s].owner /\ live'.shards[s].part = live.shards[s].part
        /\ live'.shards[s].ignore = live.shards[s].ignore \/ OwnedByPool(live.shards[s])
        /\ Keeps(live'.shards[s], setup.shards[s])

\* Cache and reconcile know nothing that was not known.
ViewsStep ==
    /\ krm' = "in" => /\ krm = "in"
                      /\ \A p \in Pools : seen'.pools[p] \in {seen.pools[p], live.pools[p]}
                      /\ \A s \in ShardNames : seen'.shards[s] \in {seen.shards[s], live.shards[s]}
    /\ job' # Idle => \/ job # Idle /\ job'.copy = job.copy
                      \/ /\ krm = "in"
                         /\ \E p \in Pools : /\ seen.pools[p] # Gone
                                             /\ job'.copy.uid = seen.pools[p].uid
                                             /\ job'.copy.cfg = seen.pools[p].cfg

\* NodePools stay named and counted.
LEMMA PoolIdsFrame ==
    ASSUME TypeOK, Births, Births', PoolIds, CountStep, PoolsStep
    PROVE  PoolIds'
<1> SUFFICES ASSUME NEW p \in Pools, live'.pools[p] # Gone
             PROVE  /\ live'.pools[p].uid[1] = p /\ live'.pools[p].uid[2] <= born'.pools
                    /\ live'.pools[p].dying => "deletePool" \in edits'
  BY ZenonT(30) DEF PoolIds
<1>1. born.pools \in Nat /\ born'.pools \in Nat /\ born.pools <= born'.pools
  BY ZenonT(30) DEF Births, CountStep
<1>2. CASE /\ live.pools[p] # Gone
           /\ live'.pools[p].uid = live.pools[p].uid
           /\ live'.pools[p].dying => live.pools[p].dying \/ "deletePool" \in edits'
  <2>1. live.pools[p].uid[2] \in Nat
    <3>1. live.pools[p] \in Pool
      BY ZenonT(30), <1>2 DEF TypeOK, Store
    <3> QED BY <3>1, PoolFields DEF Uids
  <2>2. live.pools[p].uid[2] <= born'.pools
    <3>1. live.pools[p].uid[2] <= born.pools
      BY <1>2 DEF PoolIds
    <3> QED BY <1>1, <2>1, <3>1
  <2>3. live.pools[p].dying => "deletePool" \in edits'
    BY ZenonT(30), <1>2 DEF PoolIds, CountStep
  <2> QED BY ZenonT(30), <1>2, <2>2, <2>3 DEF PoolIds
<1>3. CASE ~live'.pools[p].dying /\ live'.pools[p].uid = <<p, born'.pools>>
  <2>1. live'.pools[p].uid[1] = p /\ live'.pools[p].uid[2] = born'.pools
    BY <1>3
  <2> QED BY <1>1, <1>3, <2>1
<1> QED BY ZenonT(30), <1>2, <1>3 DEF PoolsStep

\* A NodePool that is known was known with the same identity and settings, or is new.
LEMMA KnownFrame ==
    ASSUME TypeOK, PoolsStep, ViewsStep, NEW pool \in Pool, Known(pool)'
    PROVE  \/ \E q \in Pool : Known(q) /\ q.uid = pool.uid /\ q.cfg = pool.cfg
           \/ \E p \in Pools : pool.uid = <<p, born'.pools>> /\ born.pools < born'.pools
<1>0. /\ \A p \in Pools : live.pools[p] \in Pool \cup {Gone} /\ seen.pools[p] \in Pool \cup {Gone}
      /\ job # Idle => job.copy \in Pool
      /\ Gone \notin Pool
  BY ConstantsAssumption DEF TypeOK, Store, Job
<1>1. ASSUME NEW p \in Pools, live'.pools[p] = pool
      PROVE  \/ live.pools[p] \in Pool /\ live.pools[p].uid = pool.uid /\ live.pools[p].cfg = pool.cfg
             \/ pool.uid = <<p, born'.pools>> /\ born.pools < born'.pools
  BY ZenonT(30), <1>0, <1>1 DEF PoolsStep
<1>2. ASSUME NEW p \in Pools, live.pools[p] \in Pool PROVE Known(live.pools[p])
  BY DEF Known
<1>3. ASSUME krm = "in", NEW p \in Pools, seen.pools[p] \in Pool PROVE Known(seen.pools[p])
  BY <1>3 DEF Known
<1>4. job # Idle => Known(job.copy)
  BY DEF Known
<1>5. CASE \E p \in Pools : live'.pools[p] = pool
  BY ZenonT(30), <1>1, <1>2, <1>5
<1>6. CASE krm' = "in" /\ \E p \in Pools : seen'.pools[p] = pool
  <2>1. PICK p \in Pools : krm = "in" /\ (seen.pools[p] = pool \/ live.pools[p] = pool)
    BY ZenonT(30), <1>6 DEF ViewsStep
  <2> QED BY ZenonT(30), <1>2, <1>3, <2>1
<1>7. CASE job' # Idle /\ job'.copy = pool
  <2>1. CASE job # Idle /\ job'.copy = job.copy
    BY ZenonT(30), <1>0, <1>4, <1>7, <2>1
  <2>2. CASE /\ krm = "in"
             /\ \E p \in Pools : /\ seen.pools[p] # Gone /\ job'.copy.uid = seen.pools[p].uid
                                 /\ job'.copy.cfg = seen.pools[p].cfg
    <3>1. PICK p \in Pools : seen.pools[p] # Gone /\ pool.uid = seen.pools[p].uid
                              /\ pool.cfg = seen.pools[p].cfg
      BY ZenonT(30), <1>7, <2>2
    <3>2. seen.pools[p] \in Pool /\ Known(seen.pools[p])
      BY ZenonT(30), <1>0, <1>3, <2>2, <3>1
    <3> QED BY ZenonT(30), <3>1, <3>2
  <2> QED BY ZenonT(30), <1>7, <2>1, <2>2 DEF ViewsStep
<1> QED BY ZenonT(30), <1>5, <1>6, <1>7 DEF Known

\* Whether a shard that predates KRM is to be migrated depends on what such a step keeps.
LEMMA ToMigrateFrame ==
    ASSUME ShardsStep, NEW s \in ShardNames, Predates(s)'
    PROVE  /\ s \in shardsToMigrate' <=> s \in shardsToMigrate
           /\ OwnedByPool(live'.shards[s]) <=> OwnedByPool(live.shards[s])
<1>1. /\ live.shards[s] # Gone /\ live'.shards[s] # Gone
      /\ live'.shards[s].owner = live.shards[s].owner /\ live'.shards[s].part = live.shards[s].part
      /\ live'.shards[s].ignore = live.shards[s].ignore \/ OwnedByPool(live.shards[s])
  BY ZenonT(30) DEF ShardsStep, Predates
<1>2. OwnedByPool(live'.shards[s]) <=> OwnedByPool(live.shards[s])
  BY ZenonT(30), <1>1 DEF OwnedByPool
<1>3. IsUnmanaged(live'.shards[s]) <=> IsUnmanaged(live.shards[s])
  BY ZenonT(30), <1>1, <1>2 DEF IsUnmanaged
<1>4. s \in shardsToMigrate' <=> live'.shards[s].owner = Nobody /\ ~IsUnmanaged(live'.shards[s])
  BY ZenonT(30), <1>1 DEF shardsToMigrate, IsUnmanaged, OwnedByPool
<1>5. s \in shardsToMigrate <=> live.shards[s].owner = Nobody /\ ~IsUnmanaged(live.shards[s])
  BY ZenonT(30), <1>1 DEF shardsToMigrate
<1> QED BY ZenonT(30), <1>1, <1>2, <1>3, <1>4, <1>5

\* Such a step keeps a shard in good hands.
LEMMA ShardFrame ==
    ASSUME TypeOK, Births, Births', CountStep, PoolsStep, ShardsStep, ViewsStep,
           NEW s \in ShardNames, Predates(s)', ShardKept(s)
    PROVE  ShardKept(s)'
<1>0. /\ Predates(s) /\ setup' = setup
      /\ live'.shards[s].owner = live.shards[s].owner /\ live'.shards[s].part = live.shards[s].part
      /\ Keeps(live'.shards[s], setup.shards[s])
  BY ZenonT(30) DEF ShardsStep, CountStep
<1>1. /\ s \in shardsToMigrate' <=> s \in shardsToMigrate
      /\ OwnedByPool(live'.shards[s]) <=> OwnedByPool(live.shards[s])
  BY ZenonT(30), ToMigrateFrame
<1>2. Keeps(live.shards[s], setup.shards[s])'
  BY ZenonT(30), <1>0 DEF Keeps, KeysOf
<1>3. ASSUME OwnedByPool(live.shards[s])
      PROVE  /\ live'.shards[s].part = PartitionLabelValueForNodePool(live'.shards[s].owner[1])
             /\ live'.shards[s].owner[2] <= born'.pools
             /\ \A pool \in Pool : Known(pool)' /\ pool.uid = live'.shards[s].owner
                                   => Fits(pool.cfg, setup'.shards[s])
  <2>1. /\ live.shards[s].part = PartitionLabelValueForNodePool(live.shards[s].owner[1])
        /\ live.shards[s].owner[2] <= born.pools
        /\ \A pool \in Pool : Known(pool) /\ pool.uid = live.shards[s].owner
                              => Fits(pool.cfg, setup.shards[s])
    BY ZenonT(30), <1>3 DEF ShardKept
  <2>2. live.shards[s].owner[2] \in Nat /\ live.shards[s].owner[2] <= born'.pools
    BY <1>3, <2>1 DEF OwnedByPool, Uids, Births, CountStep
  <2>3. ASSUME NEW pool \in Pool, Known(pool)', pool.uid = live'.shards[s].owner
        PROVE  Fits(pool.cfg, setup'.shards[s])
    <3>1. CASE \E p \in Pools : pool.uid = <<p, born'.pools>> /\ born.pools < born'.pools
      <4>1. live.shards[s].owner[2] = born'.pools /\ born.pools < born'.pools
        BY <1>0, <2>3, <3>1
      <4> QED BY <2>1, <4>1 DEF Births
    <3>2. CASE \E q \in Pool : Known(q) /\ q.uid = pool.uid /\ q.cfg = pool.cfg
      BY ZenonT(30), <1>0, <2>1, <2>3, <3>2
    <3> QED BY ZenonT(30), <2>3, <3>1, <3>2, KnownFrame
  <2> QED BY ZenonT(30), <1>0, <2>1, <2>2, <2>3
<1>4. ASSUME krm' = "in", OwnedByPool(seen'.shards[s]) PROVE seen'.shards[s].owner = live'.shards[s].owner
  <2>1. krm = "in" /\ (seen'.shards[s] = seen.shards[s] \/ seen'.shards[s] = live.shards[s])
    BY ZenonT(30), <1>4 DEF ViewsStep
  <2> QED BY ZenonT(30), <1>0, <1>4, <2>1 DEF ShardKept
<1>5. krm' = "in" => s \notin shardsToMigrate'
  BY ZenonT(30), <1>1 DEF ShardKept, ViewsStep
<1> QED BY ZenonT(30), <1>1, <1>2, <1>3, <1>4, <1>5 DEF ShardKept, OwnedByPool, Fits

\* A migration stays well planned.
LEMMA PlanFrame ==
    ASSUME NEW m \in Plan, PlanKept(m), Births, Births', CountStep, hook'.todo \subseteq hook.todo,
           \A s \in ShardNames : Predates(s)' => Predates(s) /\ live'.shards[s].part = live.shards[s].part,
           Predates(m.shard)' /\ m.shard \in shardsToMigrate => m.shard \in shardsToMigrate',
           live'.pools[m.pool] = Gone => live.pools[m.pool] = Gone \/ "deletePool" \in edits'
    PROVE  PlanKept(m)'
<1>0. m.shard \in ShardNames /\ m.existing \in Pool \cup {Gone} /\ setup' = setup
  BY ZenonT(30) DEF Plan, CountStep
<1>1. /\ m.part = PartitionLabelValueForNodePool(m.pool)
      /\ m.pool = NodePoolNameForPartitionLabelValue(m.part)
      /\ \A n \in hook'.todo : n.pool = m.pool => n = m
  BY ZenonT(30) DEF PlanKept
<1>2. \A s \in ShardNames : Predates(s)' /\ live'.shards[s].part = m.part => s = m.shard
  BY ZenonT(30) DEF PlanKept
<1>3. Predates(m.shard)' => /\ live'.shards[m.shard].part = m.part
                            /\ m.shard \in shardsToMigrate'
                            /\ Fits(m.cfg, setup'.shards[m.shard])
  BY ZenonT(30), <1>0 DEF PlanKept
<1>4. m.existing # Gone =>
          /\ m.existing.uid[1] = m.pool /\ m.existing.uid[2] <= born'.pools
          /\ live'.pools[m.pool] = Gone => "deletePool" \in edits'
  <2> SUFFICES ASSUME m.existing # Gone
               PROVE  /\ m.existing.uid[1] = m.pool /\ m.existing.uid[2] <= born'.pools
                      /\ live'.pools[m.pool] = Gone => "deletePool" \in edits'
    OBVIOUS
  <2>1. m.existing.uid[2] \in Nat /\ m.existing.uid[2] <= born.pools
    BY <1>0, PoolFields DEF PlanKept, Uids
  <2>2. m.existing.uid[2] <= born'.pools
    BY <2>1 DEF Births, CountStep
  <2> QED BY ZenonT(30), <2>2 DEF PlanKept, CountStep
<1> QED BY ZenonT(30), <1>1, <1>2, <1>3, <1>4 DEF PlanKept, Fits

\* A NodePool that a shard is handed to still fits it.
LEMMA HandedFrame ==
    ASSUME NEW uid \in Uids, NEW m \in Plan, HandedTo(uid, m), Births, Births', CountStep, PoolsStep,
           Predates(m.shard)' => Predates(m.shard)
    PROVE  HandedTo(uid, m)'
<1>0. setup' = setup /\ uid[2] \in Nat /\ uid[2] <= born.pools /\ uid[1] = m.pool
  BY DEF CountStep, HandedTo, Uids
<1>1. uid[2] <= born'.pools
  BY <1>0 DEF Births, CountStep
<1>2. ASSUME NEW p \in Pools, live'.pools[p] # Gone, live'.pools[p].uid = uid, Predates(m.shard)'
      PROVE  Fits(live'.pools[p].cfg, setup'.shards[m.shard])
  <2>1. CASE live'.pools[p].uid = <<p, born'.pools>> /\ born.pools < born'.pools
    <3>1. uid[2] = born'.pools
      BY <1>2, <2>1
    <3> QED BY <1>0, <2>1, <3>1 DEF Births
  <2>2. CASE /\ live.pools[p] # Gone /\ live'.pools[p].uid = live.pools[p].uid
             /\ live'.pools[p].cfg = live.pools[p].cfg
    BY ZenonT(30), <1>0, <1>2, <2>2 DEF HandedTo
  <2> QED BY ZenonT(30), <1>2, <2>1, <2>2 DEF PoolsStep
<1> QED BY ZenonT(30), <1>0, <1>1, <1>2 DEF HandedTo, Fits

\* The migrations of a hook.
LEMMA Planned ==
    ASSUME TypeOK, hook.kind = "migrate"
    PROVE  /\ hook.todo \subseteq Plan /\ hook.owner \in Uids \cup {Nobody}
           /\ hook.todo # {} => NextMigration \in hook.todo
           /\ \A m \in hook.todo : m.pool \in Pools /\ m.shard \in ShardNames /\ m.cfg \in Config
<1>1. hook \in [kind : {"migrate"}, todo : SUBSET Plan, owner : Uids \cup {Nobody}]
  BY ZenonT(30), NextMigrationTyped DEF Migrating
<1>2. hook.todo # {} => NextMigration \in hook.todo
  BY DEF NextMigration
<1> QED BY <1>1, <1>2 DEF Plan

\* The hook's plan survives what others do, as long as no NodePool comes back that it had found.
LEMMA HookFrame ==
    ASSUME TypeOK, Births, Births', PoolIds, HookKept, CountStep, PoolsStep, ShardsStep,
           \/ hook'.kind # "migrate"
           \/ /\ hook' = hook
              /\ \A m \in hook.todo : live.pools[m.pool] = Gone /\ m.existing # Gone
                                      => live'.pools[m.pool] = Gone
    PROVE  HookKept'
<1> SUFFICES ASSUME hook'.kind = "migrate"
             PROVE  /\ \A s \in ShardNames : Predates(s)' /\ s \in shardsToMigrate'
                                             => \E m \in hook'.todo : m.shard = s
                    /\ \A m \in hook'.todo : /\ PlanKept(m)'
                                             /\ hook'.owner = Nobody \/ m # NextMigration' => Unpatched(m)'
                    /\ hook'.owner # Nobody => hook'.todo # {} /\ HandedTo(hook.owner, NextMigration)'
  BY ZenonT(30) DEF HookKept
<1>0. /\ hook' = hook /\ NextMigration' = NextMigration /\ hook.kind = "migrate"
      /\ \A m \in hook.todo : live.pools[m.pool] = Gone /\ m.existing # Gone
                                      => live'.pools[m.pool] = Gone
  BY DEF NextMigration
<1>1. /\ \A s \in ShardNames : Predates(s) /\ s \in shardsToMigrate => \E m \in hook.todo : m.shard = s
      /\ \A m \in hook.todo : /\ PlanKept(m)
                              /\ hook.owner = Nobody \/ m # NextMigration => Unpatched(m)
      /\ hook.owner # Nobody => hook.todo # {} /\ HandedTo(hook.owner, NextMigration)
  BY ZenonT(30), <1>0 DEF HookKept
<1>2. /\ hook.todo \subseteq Plan /\ hook.owner \in Uids \cup {Nobody}
      /\ hook.todo # {} => NextMigration \in hook.todo
      /\ \A m \in hook.todo : m.pool \in Pools /\ m.shard \in ShardNames
  BY ZenonT(30), <1>0, Planned
<1>3. \A s \in ShardNames : Predates(s)' => /\ Predates(s) /\ live'.shards[s].part = live.shards[s].part
                                            /\ s \in shardsToMigrate' <=> s \in shardsToMigrate
  BY ZenonT(30), ToMigrateFrame DEF ShardsStep
<1>4. ASSUME NEW m \in hook.todo PROVE PlanKept(m)'
  <2>1. live'.pools[m.pool] = Gone => live.pools[m.pool] = Gone \/ "deletePool" \in edits'
    <3>1. live.pools[m.pool] # Gone /\ live.pools[m.pool].dying => "deletePool" \in edits'
      BY ZenonT(30), <1>2 DEF PoolIds, CountStep
    <3> QED BY ZenonT(30), <1>2, <3>1 DEF PoolsStep
  <2>2. m \in Plan /\ PlanKept(m) /\ hook'.todo \subseteq hook.todo /\ m.shard \in ShardNames
    BY ZenonT(30), <1>0, <1>1, <1>2
  <2> QED BY ZenonT(30), <1>3, <2>1, <2>2, PlanFrame
<1>5. ASSUME NEW m \in hook.todo, Unpatched(m) PROVE Unpatched(m)'
  <2>1. m.pool \in Pools
    BY <1>2
  <2>2. m.existing # Gone /\ live'.pools[m.pool] # Gone => live.pools[m.pool] # Gone
    BY ZenonT(30), <1>0
  <2> QED BY ZenonT(30), <1>5, <2>1, <2>2 DEF Unpatched, PoolsStep
<1>6. hook.owner # Nobody => hook'.todo # {} /\ HandedTo(hook.owner, NextMigration)'
  <2> SUFFICES ASSUME hook.owner # Nobody PROVE hook'.todo # {} /\ HandedTo(hook.owner, NextMigration)'
    BY <1>0
  <2>1. hook.owner \in Uids /\ NextMigration \in Plan /\ NextMigration.shard \in ShardNames
    BY ZenonT(30), <1>1, <1>2
  <2> DEFINE u == hook.owner
             m == NextMigration
  <2>2. u \in Uids /\ m \in Plan /\ HandedTo(u, m) /\ (Predates(m.shard)' => Predates(m.shard))
    <3>1. \A s \in ShardNames : Predates(s)' => Predates(s)
      BY ZenonT(30), <1>3
    <3> QED BY ZenonT(30), <1>0, <1>1, <2>1, <3>1 DEF Predates
  <2> QED BY ZenonT(30), <1>0, <1>1, <2>2, HandedFrame
<1> QED BY ZenonT(30), <1>0, <1>1, <1>3, <1>4, <1>5, <1>6

\* What the reconcile is about to write stays right.
LEMMA WriteKeptFrame ==
    ASSUME TypeOK, WriteKept, setup' = setup, job' = job \/ job'.step # "write",
           \A s \in ShardNames : Predates(s)' => Predates(s) /\ live'.shards[s].owner = live.shards[s].owner
    PROVE  WriteKept'
<1> SUFFICES ASSUME job'.step = "write", Predates(job.name)', job'.shard.id = setup'.shards[job'.name].id
             PROVE  /\ Keeps(job'.shard, setup'.shards[job'.name])
                    /\ job'.copy.uid = live'.shards[job'.name].owner
                    /\ job'.shard.part = PartitionLabelValueForNodePool(job'.copy.uid[1])
  BY ZenonT(30) DEF WriteKept, Keeps, KeysOf, PartitionLabelValueForNodePool
<1>1. job' = job /\ job.step = "write"
  OBVIOUS
<1>2. job.name \in ShardNames
  BY <1>1 DEF TypeOK, Job, Idle
<1>3. Predates(job.name) /\ live'.shards[job.name].owner = live.shards[job.name].owner
  BY <1>1, <1>2 DEF Predates
<1> QED BY ZenonT(30), <1>1, <1>3 DEF WriteKept

\* Such a step keeps everything but, perhaps, the plan of the hook.
LEMMA SteadyRest ==
    ASSUME Inv, Inv', KeptInv, CountStep, PoolsStep, ShardsStep, ViewsStep,
           job' = job \/ job'.step # "write" \/ WriteKept'
    PROVE  /\ PoolIds' /\ WriteKept'
           /\ \A s \in ShardNames : Predates(s)' => ShardKept(s)'
<1>0. TypeOK /\ Births /\ Births' /\ PoolIds /\ WriteKept
  BY ZenonT(30) DEF Inv, KeptInv
<1>1. PoolIds'
  BY ZenonT(30), <1>0, PoolIdsFrame
<1>2. WriteKept'
  <2>1. setup' = setup /\ \A s \in ShardNames : Predates(s)' =>
              Predates(s) /\ live'.shards[s].owner = live.shards[s].owner
    BY ZenonT(30) DEF ShardsStep, CountStep
  <2> QED BY ZenonT(30), <1>0, <2>1, WriteKeptFrame
<1>3. ASSUME NEW s \in ShardNames, Predates(s)' PROVE ShardKept(s)'
  <2>1. ShardKept(s)
    BY ZenonT(30), <1>3 DEF KeptInv, ShardsStep
  <2> QED BY ZenonT(30), <1>0, <1>3, <2>1, ShardFrame
<1> QED BY ZenonT(30), <1>1, <1>2, <1>3

\* It keeps the plan too, unless a NodePool comes back that the hook had found.
LEMMA SteadyKeeps ==
    ASSUME Inv, Inv', KeptInv, CountStep, PoolsStep, ShardsStep, ViewsStep,
           job' = job \/ job'.step # "write" \/ WriteKept',
           \/ hook'.kind # "migrate"
           \/ /\ hook' = hook
              /\ \A m \in hook.todo : live.pools[m.pool] = Gone /\ m.existing # Gone
                                      => live'.pools[m.pool] = Gone
    PROVE  KeptInv'
<1>0. TypeOK /\ Births /\ Births' /\ PoolIds /\ HookKept
  BY ZenonT(30) DEF Inv, KeptInv
<1>1. /\ PoolIds' /\ WriteKept'
      /\ \A s \in ShardNames : Predates(s)' => ShardKept(s)'
  BY ZenonT(30), SteadyRest
<1>2. HookKept'
  BY ZenonT(30), <1>0, HookFrame
<1> QED BY ZenonT(30), <1>1, <1>2 DEF KeptInv

\* Steps that change no shard, or no NodePool.
LEMMA SameStep ==
    ASSUME KeptInv, CountStep
    PROVE  /\ live'.shards = live.shards => ShardsStep
           /\ TypeOK /\ live'.pools = live.pools => PoolsStep
<1>1. ASSUME live'.shards = live.shards PROVE ShardsStep
  <2>1. setup' = setup
    BY DEF CountStep
  <2>2. ASSUME NEW s \in ShardNames, Predates(s)' PROVE Predates(s) /\ Keeps(live.shards[s], setup.shards[s])
    <3>1. Predates(s)
      BY ZenonT(30), <1>1, <2>1, <2>2 DEF Predates, OwnedByPool
    <3> QED BY ZenonT(30), <3>1 DEF KeptInv, ShardKept
  <2> QED BY ZenonT(30), <1>1, <2>2 DEF ShardsStep
<1>2. ASSUME live'.pools = live.pools PROVE PoolsStep
  BY ZenonT(30), <1>2 DEF PoolsStep
<1> QED BY ZenonT(30), <1>1, <1>2

\* Storing a NodePool with the identity and the settings it had, or as a new one.
LEMMA PoolStored ==
    ASSUME live \in Store, stale \subseteq Event, NEW p \in Pools, NEW obj \in Pool \cup {Gone},
           StorePool(p, obj),
           \/ /\ obj # Gone /\ live.pools[p] # Gone
              /\ obj.uid = live.pools[p].uid /\ obj.cfg = live.pools[p].cfg
              /\ obj.dying => live.pools[p].dying \/ "deletePool" \in edits'
           \/ /\ obj # Gone /\ live.pools[p] = Gone /\ ~obj.dying
              /\ obj.uid = <<p, born'.pools>> /\ born.pools < born'.pools
           \/ /\ obj = Gone
              /\ live.pools[p] = Gone \/ live.pools[p].dying \/ "deletePool" \in edits'
    PROVE  PoolsStep /\ live'.shards = live.shards /\ live'.pools = [live.pools EXCEPT ![p] = obj]
<1>1. live'.shards = live.shards /\ live'.pools = [live.pools EXCEPT ![p] = obj]
  BY ZenonT(30), StorePoolIs
<1>2. live'.pools[p] = obj /\ \A q \in Pools \ {p} : live'.pools[q] = live.pools[q]
  BY <1>1 DEF Store
<1>3. ASSUME NEW q \in Pools, q # p
      PROVE  \/ /\ live'.pools[q] # Gone /\ live.pools[q] # Gone
                /\ live'.pools[q].uid = live.pools[q].uid /\ live'.pools[q].cfg = live.pools[q].cfg
                /\ live'.pools[q].dying => live.pools[q].dying \/ "deletePool" \in edits'
             \/ live'.pools[q] = Gone /\ live.pools[q] = Gone
  BY ZenonT(30), <1>2, <1>3
<1> QED BY ZenonT(30), <1>1, <1>2, <1>3 DEF PoolsStep

\* Storing a shard: a new one, none, or one that stays where it is with its settings.
LEMMA ShardKeptStored ==
    ASSUME Inv, KeptInv, CountStep, NEW s \in ShardNames, NEW obj \in Shard \cup {Gone},
           StoreShard(s, obj),
           \/ obj = Gone
           \/ obj \in Shard /\ obj.id = born.shards + 1
           \/ /\ live.shards[s] # Gone /\ obj # Gone /\ obj.id = live.shards[s].id
              /\ Predates(s) =>
                    /\ obj.owner = live.shards[s].owner /\ obj.part = live.shards[s].part
                    /\ obj.ignore = live.shards[s].ignore \/ OwnedByPool(live.shards[s])
                    /\ Keeps(obj, setup.shards[s])
    PROVE  ShardsStep /\ PoolsStep /\ live'.pools = live.pools
<1>0. live \in Store /\ stale \subseteq Event /\ TypeOK /\ setup' = setup
  BY ZenonT(30) DEF Inv, TypeOK, CountStep
<1>1. live'.pools = live.pools /\ live'.shards = [live.shards EXCEPT ![s] = obj]
  BY ZenonT(30), <1>0, StoreShardIs
<1>2. live'.shards[s] = obj /\ \A t \in ShardNames \ {s} : live'.shards[t] = live.shards[t]
  BY <1>0, <1>1 DEF Store
<1>3. ASSUME NEW t \in ShardNames, t # s, Predates(t)'
      PROVE  Predates(t) /\ live'.shards[t] = live.shards[t] /\ Keeps(live.shards[t], setup.shards[t])
  <2>1. Predates(t) /\ live'.shards[t] = live.shards[t]
    BY ZenonT(30), <1>0, <1>2, <1>3 DEF Predates, OwnedByPool
  <2> QED BY ZenonT(30), <2>1 DEF KeptInv, ShardKept
<1>4. ASSUME Predates(s)'
      PROVE  /\ Predates(s) /\ obj.owner = live.shards[s].owner /\ obj.part = live.shards[s].part
             /\ obj.ignore = live.shards[s].ignore \/ OwnedByPool(live.shards[s])
             /\ Keeps(obj, setup.shards[s])
  <2>1. obj # Gone /\ Origin(s) /\ obj.id = setup.shards[s].id
    BY ZenonT(30), <1>0, <1>2, <1>4 DEF Predates, Origin, OwnedByPool
  <2>3. ASSUME obj \in Shard, obj.id = born.shards + 1 PROVE FALSE
    <3>1. setup.shards[s] # Gone /\ setup.shards[s].id <= born.shards /\ born.shards \in Nat
      BY <2>1 DEF Origin, Inv, Births
    <3> QED BY <2>1, <2>3, <3>1
  <2>4. live.shards[s] # Gone /\ obj.id = live.shards[s].id
    BY ZenonT(30), <2>1, <2>3
  <2>5. Predates(s)
    BY ZenonT(30), <2>1, <2>4 DEF Predates, Origin
  <2> QED BY ZenonT(30), <2>1, <2>3, <2>5
<1>5. ShardsStep
  BY ZenonT(30), <1>2, <1>3, <1>4 DEF ShardsStep
<1>6. PoolsStep
  BY ZenonT(30), <1>0, <1>1, SameStep
<1> QED BY ZenonT(30), <1>1, <1>5, <1>6

\* Nothing of what counts is edited or made.
LEMMA CountSame == ASSUME Inv, UNCHANGED <<setup, edits>>, born' = born PROVE CountStep
BY DEF Inv, Births, CountStep

\* Cache and reconcile as they were.
LEMMA ViewsSame ==
    ASSUME seen' = seen, krm' = krm \/ krm' # "in", job' = job \/ job' = Idle \/ (job # Idle /\ job'.copy = job.copy)
    PROVE  ViewsStep
BY ZenonT(30) DEF ViewsStep

\* A NodePool that is stored again, with the identity and the settings it had, or that goes.
Touched(p, obj) ==
    /\ StorePool(p, obj) /\ live.pools[p] # Gone
    /\ \/ obj = Gone /\ (live.pools[p].dying \/ "deletePool" \in edits')
       \/ /\ obj # Gone /\ obj.uid = live.pools[p].uid /\ obj.cfg = live.pools[p].cfg
          /\ obj.dying => live.pools[p].dying \/ "deletePool" \in edits'

\* Storing NodePools in this way keeps all settings.
LEMMA TouchedKeeps ==
    ASSUME Inv, Inv', KeptInv, CountStep, ViewsStep,
           job' = job \/ job'.step # "write" \/ WriteKept',
           hook' = hook \/ hook'.kind # "migrate",
           live' = live \/ \E p \in Pools : \E obj \in Pool \cup {Gone} : Touched(p, obj)
    PROVE  KeptInv'
<1>0. TypeOK /\ live \in Store /\ stale \subseteq Event
  BY ZenonT(30) DEF Inv, TypeOK
<1>1. CASE live' = live
  <2>1. ShardsStep /\ PoolsStep
    BY ZenonT(30), <1>0, <1>1, SameStep
  <2> QED BY ZenonT(30), <1>1, <2>1, SteadyKeeps
<1>2. ASSUME NEW p \in Pools, NEW obj \in Pool \cup {Gone}, Touched(p, obj) PROVE KeptInv'
  <2>1. PoolsStep /\ live'.shards = live.shards /\ live'.pools = [live.pools EXCEPT ![p] = obj]
    BY ZenonT(30), <1>0, <1>2, PoolStored DEF Touched
  <2>2. ShardsStep
    BY ZenonT(30), <2>1, SameStep
  <2>3. hook' = hook /\ hook'.kind = "migrate" =>
            \A m \in hook.todo : live.pools[m.pool] = Gone /\ m.existing # Gone
                                 => live'.pools[m.pool] = Gone
    <3>1. \A q \in Pools : live.pools[q] = Gone => live'.pools[q] = Gone
      <4>1. live.pools[p] # Gone
        BY ZenonT(30), <1>2 DEF Touched
      <4>2. \A q \in Pools \ {p} : live'.pools[q] = live.pools[q]
        BY <1>0, <2>1 DEF Store
      <4> QED BY ZenonT(30), <4>1, <4>2
    <3> SUFFICES ASSUME hook' = hook, hook'.kind = "migrate", NEW m \in hook.todo,
                        live.pools[m.pool] = Gone
                 PROVE  live'.pools[m.pool] = Gone
      BY ZenonT(30)
    <3>2. m.pool \in Pools
      BY ZenonT(30), <1>0, Planned
    <3> QED BY ZenonT(30), <3>1, <3>2
  <2> QED BY ZenonT(30), <2>1, <2>2, <2>3, SteadyKeeps
<1> QED BY ZenonT(30), <1>1, <1>2

\* A change of the finalizer.
LEMMA FinalizerTouched ==
    ASSUME Inv, NEW p \in Pools, live.pools[p] # Gone, NEW fin \in BOOLEAN,
           StorePool(p, WithFinalizer(live.pools[p], fin))
    PROVE  \E obj \in Pool \cup {Gone} : Touched(p, obj)
<1>1. live.pools[p] \in Pool
  BY ZenonT(30) DEF Inv, TypeOK, Store
<1> DEFINE obj == WithFinalizer(live.pools[p], fin)
<1>2. obj \in Pool \cup {Gone}
  BY ZenonT(30), <1>1, WithFinalizerTyped
<1>3. \/ obj = Gone /\ live.pools[p].dying
      \/ obj # Gone /\ obj.uid = live.pools[p].uid /\ obj.cfg = live.pools[p].cfg
         /\ obj.dying = live.pools[p].dying
  <2>1. CASE live.pools[p].dying /\ ~fin
    BY ZenonT(30), <2>1 DEF WithFinalizer
  <2>2. CASE ~(live.pools[p].dying /\ ~fin)
    <3>1. obj = [live.pools[p] EXCEPT !.fin = fin]
      BY ZenonT(30), <2>2 DEF WithFinalizer
    <3>2. /\ obj \in Pool /\ obj.uid = live.pools[p].uid /\ obj.cfg = live.pools[p].cfg
          /\ obj.dying = live.pools[p].dying
      BY ZenonT(30), <1>1, <3>1 DEF Pool
    <3> QED BY ZenonT(30), <3>2, PoolFields
  <2> QED BY <2>1, <2>2
<1> HIDE DEF obj
<1>4. Touched(p, obj)
  BY ZenonT(30), <1>3 DEF Touched, obj
<1> QED BY ZenonT(30), <1>2, <1>4

-----------------------------------------------------------------------------
(* Steps of the controller.                                                 *)

\* Starting a reconcile, and finishing a NodePool's deletion.
LEMMA TakeSettles == ASSUME Inv, Inv', KeptInv, NEW p \in Pools, Take(p) PROVE KeptInv'
<1>0. UNCHANGED <<setup, edits>> /\ born' = born /\ seen' = seen /\ krm' = krm /\ hook' = hook /\ krm = "in"
  BY ZenonT(30) DEF Take, ReconcileNothing, Finalize, Reconcile, Rest, Running
<1>1. CountStep
  BY ZenonT(30), <1>0, CountSame
<1>2. CASE ReconcileNothing(p)
  <2>1. live' = live /\ job' = job
    BY <1>2 DEF ReconcileNothing, Unstored
  <2> QED BY ZenonT(30), <1>0, <1>1, <2>1, ViewsSame, TouchedKeeps
<1>3. CASE Finalize(p)
  <2>1. job' = job /\ (live' = live \/ (live.pools[p] # Gone /\ StorePool(p, WithFinalizer(live.pools[p], FALSE))))
    <3>1. \/ live' = live
          \/ live.pools[p] # Gone /\ StorePool(p, WithFinalizer(live.pools[p], FALSE))
      BY ZenonT(30), <1>3 DEF Finalize, Unstored
    <3>2. job' = job
      BY <1>3 DEF Finalize
    <3> QED BY ZenonT(30), <3>1, <3>2
  <2>2. live' = live \/ \E obj \in Pool \cup {Gone} : Touched(p, obj)
    BY ZenonT(30), <2>1, FinalizerTouched
  <2> QED BY ZenonT(30), <1>0, <1>1, <2>1, <2>2, ViewsSame, TouchedKeeps
<1>4. CASE Reconcile(p)
  <2> DEFINE copy == [seen.pools[p] EXCEPT !.fin = TRUE]
             started == [step |-> "shard", pool |-> p, copy |-> copy, failed |-> FALSE,
                         name |-> p, shard |-> Gone, fresh |-> TRUE]
  <2>1. /\ seen.pools[p] # Gone /\ (job' = job \/ job' = started)
        /\ live' = live \/ (live.pools[p] # Gone /\ StorePool(p, WithFinalizer(live.pools[p], TRUE)))
    <3>1. \/ live' = live
          \/ live.pools[p] # Gone /\ StorePool(p, WithFinalizer(live.pools[p], TRUE))
      BY ZenonT(30), <1>4 DEF Reconcile, Unstored
    <3>2. seen.pools[p] # Gone /\ (job' = job \/ job' = started)
      BY ZenonT(30), <1>4 DEF Reconcile
    <3> QED BY ZenonT(30), <3>1, <3>2
  <2>2. live' = live \/ \E obj \in Pool \cup {Gone} : Touched(p, obj)
    BY ZenonT(30), <2>1, FinalizerTouched
  <2>3. copy.uid = seen.pools[p].uid /\ copy.cfg = seen.pools[p].cfg
    <3>1. seen.pools[p] \in Pool
      BY ZenonT(30), <2>1 DEF Inv, TypeOK, Store
    <3> QED BY ZenonT(30), <3>1 DEF Pool
  <2> HIDE DEF copy
  <2>4. started.copy = copy /\ started.step = "shard"
    BY DEF started
  <2> HIDE DEF started
  <2>5. ViewsStep
    BY ZenonT(30), <1>0, <2>1, <2>3, <2>4 DEF ViewsStep
  <2>6. job' = job \/ job'.step # "write"
    BY <2>1, <2>4
  <2> QED BY ZenonT(30), <1>0, <1>1, <2>2, <2>5, <2>6, TouchedKeeps
<1> QED BY ZenonT(30), <1>2, <1>3, <1>4 DEF Take

\* What the controller wants of a shard that predates KRM are the settings it had.
LEMMA WantSettles == ASSUME Inv, Inv', KeptInv, getSchedulerResources PROVE KeptInv'
<1>0. /\ UNCHANGED <<setup, edits>> /\ born' = born /\ seen' = seen /\ krm' = krm /\ hook' = hook
      /\ live' = live /\ krm = "in" /\ job.step = "shard"
  BY ZenonT(30) DEF getSchedulerResources, Rest, Running, Unstored
<1>1. CountStep
  BY ZenonT(30), <1>0, CountSame
<1>2. job \in Job /\ job # Idle /\ job.copy \in Pool /\ job.pool \in Pools /\ job.copy.uid \in Uids
  <2>1. job \in Job
    BY <1>0 DEF Inv, TypeOK, Idle
  <2>2. job.copy \in Pool /\ job.pool \in Pools /\ job # Idle
    BY <1>0, <2>1 DEF Job, Idle
  <2> QED BY ZenonT(30), <2>1, <2>2, PoolFields
<1> DEFINE uid == job.copy.uid
           owned == resolveOwnedShardForNodePool(seen.shards, job.pool, uid)
           s == IF owned # None THEN owned
                ELSE GetOrInitShardNamedAfterNodePool(seen.shards, job.pool, uid)
           new == SchedulingShardForNodePool(seen.shards[s], job.copy)
<1>3. CASE s = Unresolvable
  <2>1. job' = [job EXCEPT !.step = "status", !.failed = TRUE]
    BY ZenonT(30), <1>3 DEF getSchedulerResources
  <2>2. job'.copy = job.copy /\ job'.step = "status"
    BY <1>2, <2>1 DEF Job
  <2> QED BY ZenonT(30), <1>0, <1>1, <1>2, <2>2, ViewsSame, TouchedKeeps
<1>4. CASE s # Unresolvable
  <2>1. job' = [job EXCEPT !.step = "write", !.name = s, !.fresh = (seen.shards[s] = Gone), !.shard = new]
    BY ZenonT(30), <1>4 DEF getSchedulerResources
  <2>2. s \in ShardNames /\ (seen.shards[s] = Gone \/ seen.shards[s].owner = uid)
    <3>1. /\ owned \in ShardNames \cup {None, Unresolvable}
          /\ owned \in ShardNames => seen.shards[owned] # Gone /\ seen.shards[owned].owner = uid
      BY <1>2, OwnShard
    <3> DEFINE named == GetOrInitShardNamedAfterNodePool(seen.shards, job.pool, uid)
    <3>2. /\ named \in ShardNames \cup {Unresolvable}
          /\ named \in ShardNames => seen.shards[named] = Gone \/ seen.shards[named].owner = uid
      BY <1>2, OwnShard
    <3> HIDE DEF owned, named
    <3> QED BY ZenonT(30), <1>4, <3>1, <3>2 DEF named
  <2> HIDE DEF owned, s, new
  <2>3. job'.copy = job.copy /\ job'.name = s /\ job'.shard = new
    BY <1>2, <2>1 DEF Job
  <2> HIDE DEF uid
  <2>4. WriteKept'
    <3> SUFFICES ASSUME Predates(s)
                 PROVE  /\ Keeps(new, setup.shards[s]) /\ uid = live.shards[s].owner
                        /\ new.part = PartitionLabelValueForNodePool(uid[1])
      <4>1. Predates(job.name)' => Predates(s)
        BY ZenonT(30), <1>0, <2>3 DEF Predates, OwnedByPool
      <4> QED BY ZenonT(30), <1>0, <2>3, <4>1 DEF WriteKept, uid, Keeps, KeysOf, PartitionLabelValueForNodePool
    <3>1. seen.shards[s] # Gone /\ seen.shards[s].owner = uid
      <4>1. Origin(s) /\ Has(live.shards, s)
        BY ZenonT(30) DEF Predates, Origin, Has
      <4> QED BY ZenonT(30), <2>2, <4>1 DEF Inv, CustodyInv, Held, Has
    <3>2. uid = live.shards[s].owner /\ OwnedByPool(live.shards[s])
      BY ZenonT(30), <1>0, <1>2, <2>2, <3>1 DEF KeptInv, ShardKept, OwnedByPool, uid
    <3>3. Fits(job.copy.cfg, setup.shards[s])
      <4>1. Known(job.copy)
        BY ZenonT(30), <1>2 DEF Known
      <4>2. \A pool \in Pool : Known(pool) /\ pool.uid = live.shards[s].owner
                                => Fits(pool.cfg, setup.shards[s])
        BY ZenonT(30), <2>2, <3>2 DEF KeptInv, ShardKept
      <4> QED BY ZenonT(30), <1>2, <3>2, <4>1, <4>2 DEF uid
    <3>4. setup.shards[s] \in Shard /\ seen.shards[s] \in Shard \cup {Gone}
      <4>1. setup.shards[s] \in Shard \cup {Gone}
        BY ZenonT(30), <2>2, ConstantsAssumption DEF Inv, TypeOK
      <4> QED BY ZenonT(30), <2>2, <4>1 DEF Inv, TypeOK, Store, Predates
    <3> QED BY ZenonT(30), <1>2, <3>2, <3>3, <3>4, FitsGives DEF new, uid
  <2> QED BY ZenonT(30), <1>0, <1>1, <1>2, <2>3, <2>4, ViewsSame, TouchedKeeps
<1> QED BY <1>3, <1>4

\* A step that stores one shard and no NodePool, and leaves the rest alone.
LEMMA ShardWriteKeeps ==
    ASSUME Inv, Inv', KeptInv, CountStep, ViewsStep,
           job' = job \/ job'.step # "write", hook' = hook \/ hook'.kind # "migrate",
           NEW s \in ShardNames, NEW obj \in Shard \cup {Gone}, StoreShard(s, obj),
           \/ obj = Gone
           \/ obj \in Shard /\ obj.id = born.shards + 1
           \/ /\ live.shards[s] # Gone /\ obj # Gone /\ obj.id = live.shards[s].id
              /\ Predates(s) =>
                    /\ obj.owner = live.shards[s].owner /\ obj.part = live.shards[s].part
                    /\ obj.ignore = live.shards[s].ignore \/ OwnedByPool(live.shards[s])
                    /\ Keeps(obj, setup.shards[s])
    PROVE  KeptInv'
<1>1. ShardsStep /\ PoolsStep /\ live'.pools = live.pools
  BY ZenonT(30), ShardKeptStored
<1> QED BY ZenonT(30), <1>1, SteadyKeeps

\* The controller's write gives a shard that predates KRM the settings it had.
LEMMA WriteSettles == ASSUME Inv, Inv', KeptInv, CreateOrUpdateIfNeeded PROVE KeptInv'
<1> DEFINE s == job.name
           desired == [job.shard EXCEPT !.owner = job.copy.uid]
           made == [desired EXCEPT !.id = born.shards + 1, !.ready = FALSE]
           updated == [desired EXCEPT !.id = live.shards[s].id, !.ready = live.shards[s].ready]
<1>0. TypeOK /\ live \in Store /\ stale \subseteq Event /\ job.step = "write"
  BY ZenonT(30) DEF Inv, TypeOK, CreateOrUpdateIfNeeded
<1>1. job \in Job /\ job # Idle
  BY <1>0 DEF TypeOK, Idle
<1>2. s \in ShardNames /\ job.copy \in Pool /\ job.copy.uid \in Uids
  BY ZenonT(30), <1>1, PoolFields DEF Job
<1>3. job.shard \in Shard /\ WriteHeld
  BY <1>0, <1>1 DEF Inv, CustodyInv, WriteHeld, Job
<1>4. /\ desired \in Shard /\ desired.owner = job.copy.uid /\ desired.part = job.shard.part
      /\ desired.args = job.shard.args /\ desired.strategy = job.shard.strategy
      /\ desired.fair = job.shard.fair
  BY ZenonT(30), <1>2, <1>3 DEF Shard
<1>5. /\ UNCHANGED <<setup, edits>> /\ seen' = seen /\ krm' = krm /\ hook' = hook
      /\ job'.step = "status" /\ job'.copy = job.copy
  <2>1. UNCHANGED <<setup, edits>> /\ seen' = seen /\ krm' = krm /\ hook' = hook
    BY ZenonT(30) DEF CreateOrUpdateIfNeeded, Rest
  <2>2. \E failed : job' = [job EXCEPT !.step = "status", !.failed = failed, !.shard = Gone, !.fresh = TRUE]
    BY ZenonT(30) DEF CreateOrUpdateIfNeeded
  <2> QED BY <1>1, <2>1, <2>2 DEF Job
<1>6. \/ live' = live /\ born' = born
      \/ live.shards[s] = Gone /\ BirthOfShard /\ StoreShard(s, made)
      \/ /\ seen.shards[s] # Gone /\ ~Conflict(s) /\ born' = born /\ StoreShard(s, updated)
  BY DEF CreateOrUpdateIfNeeded, Unstored
<1> HIDE DEF s, desired
<1>7. ViewsStep
  BY ZenonT(30), <1>1, <1>5, ViewsSame
<1>8. CASE live' = live /\ born' = born
  <2>1. CountStep
    BY ZenonT(30), <1>5, <1>8, CountSame
  <2> QED BY ZenonT(30), <1>5, <1>7, <1>8, <2>1, TouchedKeeps
<1>9. CASE live.shards[s] = Gone /\ BirthOfShard /\ StoreShard(s, made)
  <2>1. born.shards + 1 \in 0 .. MaxIds
    BY <1>9, ConstantsAssumption DEF BirthOfShard, Inv, Births
  <2>2. made \in Shard /\ made.id = born.shards + 1
    BY ZenonT(30), <1>4, <2>1 DEF Shard
  <2>3. CountStep
    <3>1. born'.pools = born.pools
      BY <1>9 DEF BirthOfShard, Inv, Births
    <3> QED BY <1>5, <3>1 DEF Inv, Births, CountStep
  <2> HIDE DEF made
  <2> QED BY ZenonT(30), <1>2, <1>5, <1>7, <1>9, <2>2, <2>3, ShardWriteKeeps
<1>10. CASE seen.shards[s] # Gone /\ ~Conflict(s) /\ born' = born /\ StoreShard(s, updated)
  <2>1. live.shards[s] = seen.shards[s] /\ (job.fresh \/ job.shard.id = seen.shards[s].id)
    BY ZenonT(30), <1>10 DEF Conflict
  <2>2. live.shards[s] \in Shard /\ live.shards[s] # Gone
    BY <1>0, <1>2, <1>10, <2>1 DEF Store
  <2>3. live.shards[s].id \in 0 .. MaxIds /\ live.shards[s].ready \in BOOLEAN
    BY <2>2, ShardFields
  <2>4. /\ updated \in Shard /\ updated.id = live.shards[s].id /\ updated.owner = job.copy.uid
        /\ updated.part = job.shard.part /\ updated.args = job.shard.args
        /\ updated.strategy = job.shard.strategy /\ updated.fair = job.shard.fair
    BY ZenonT(30), <1>4, <2>3 DEF Shard
  <2> HIDE DEF updated
  <2>5. ASSUME Predates(s)
        PROVE  /\ updated.owner = live.shards[s].owner /\ updated.part = live.shards[s].part
               /\ OwnedByPool(live.shards[s])
               /\ Keeps(updated, setup.shards[s])
    <3>1. Origin(s) /\ Has(live.shards, s)
      BY ZenonT(30), <2>5 DEF Predates, Origin, Has
    <3>2. job.shard.id = setup.shards[s].id /\ OwnedByPool(live.shards[s])
      BY ZenonT(30), <1>0, <1>3, <2>1, <3>1 DEF WriteHeld, Has, s
    <3>3. /\ Keeps(job.shard, setup.shards[s])
          /\ job.copy.uid = live.shards[s].owner
          /\ job.shard.part = PartitionLabelValueForNodePool(job.copy.uid[1])
      BY ZenonT(30), <1>0, <2>5, <3>2 DEF KeptInv, WriteKept, s
    <3>4. live.shards[s].part = PartitionLabelValueForNodePool(live.shards[s].owner[1])
      BY ZenonT(30), <1>2, <2>5, <3>2 DEF KeptInv, ShardKept
    <3>5. Keeps(updated, setup.shards[s])
      BY ZenonT(30), <2>4, <3>3 DEF Keeps
    <3> QED BY ZenonT(30), <2>4, <3>2, <3>3, <3>4, <3>5
  <2>6. CountStep
    BY ZenonT(30), <1>5, <1>10, CountSame
  <2>7. updated # Gone
    BY <2>4, ShardFields
  <2> QED BY ZenonT(30), <1>2, <1>5, <1>7, <1>10, <2>2, <2>4, <2>5, <2>6, <2>7, ShardWriteKeeps
<1> QED BY ZenonT(30), <1>6, <1>8, <1>9, <1>10

\* A status does not matter.
LEMMA StatusSettles == ASSUME Inv, Inv', KeptInv, reconcileNodePoolStatus PROVE KeptInv'
<1> DEFINE p == job.pool
           status == SchedulingShardStatus(seen.shards, p, job.copy.uid)
           obj == [live.pools[p] EXCEPT !.status = status]
<1>0. TypeOK /\ live \in Store /\ job.step = "status"
  BY ZenonT(30) DEF Inv, TypeOK, reconcileNodePoolStatus
<1>1. job \in Job /\ job # Idle
  BY <1>0 DEF TypeOK, Idle
<1>2. p \in Pools /\ live.pools[p] \in Pool /\ live.pools[p] # Gone
  <2>1. p \in Pools
    BY <1>1 DEF Job
  <2>2. live.pools[p] # Gone
    BY <1>1 DEF Inv, PoolsKept
  <2> QED BY <1>0, <2>1, <2>2 DEF Store
<1>3. /\ UNCHANGED <<setup, edits>> /\ born' = born /\ seen' = seen /\ krm' = krm /\ hook' = hook
      /\ job' = Idle /\ job'.step # "write"
  BY DEF reconcileNodePoolStatus, Rest, Done, Idle
<1>4. live' = live \/ StorePool(p, obj)
  BY ZenonT(30) DEF reconcileNodePoolStatus, Unstored
<1>5. /\ obj \in Pool /\ obj.uid = live.pools[p].uid /\ obj.cfg = live.pools[p].cfg
      /\ obj.dying = live.pools[p].dying
  <2>1. status \in {"new", "served", "waiting", "unresolvable"}
    BY DEF SchedulingShardStatus
  <2> HIDE DEF status
  <2> QED BY ZenonT(30), <1>2, <2>1 DEF Pool
<1> HIDE DEF p, obj
<1>6. live' = live \/ Touched(p, obj)
  BY ZenonT(30), <1>2, <1>4, <1>5, PoolFields DEF Touched
<1>7. CountStep /\ ViewsStep
  BY ZenonT(30), <1>3, CountSame, ViewsSame
<1> QED BY ZenonT(30), <1>2, <1>3, <1>5, <1>6, <1>7, TouchedKeeps

\* Caches catch up.
LEMMA InformerSettles ==
    ASSUME Inv, Inv', KeptInv, Restart \/ \E kind \in {"pools", "shards"} : Sync(kind)
    PROVE  KeptInv'
<1>0. /\ UNCHANGED <<setup, edits>> /\ born' = born /\ krm' = krm /\ hook' = hook /\ live' = live
      /\ krm = "in"
  BY DEF Restart, Sync, Rest, Running
<1>1. CountStep
  BY ZenonT(30), <1>0, CountSame
<1>2. CASE Restart
  <2>1. seen' = live /\ job' = Idle /\ job'.step # "write"
    BY <1>2 DEF Restart, Started, Idle
  <2>2. ViewsStep
    BY ZenonT(30), <1>0, <2>1 DEF ViewsStep
  <2> QED BY ZenonT(30), <1>0, <1>1, <2>1, <2>2, TouchedKeeps
<1>3. ASSUME NEW kind \in {"pools", "shards"}, Sync(kind) PROVE KeptInv'
  <2>1. seen' = [seen EXCEPT ![kind] = live[kind]] /\ job' = job /\ seen \in Store
    BY <1>3 DEF Sync, Inv, TypeOK
  <2>2. /\ seen'.pools = seen.pools \/ seen'.pools = live.pools
        /\ seen'.shards = seen.shards \/ seen'.shards = live.shards
    <3>1. CASE kind = "pools"
      <4>1. seen' = [seen EXCEPT !.pools = live.pools]
        BY ZenonT(30), <2>1, <3>1
      <4> QED BY <2>1, <4>1 DEF Store
    <3>2. CASE kind = "shards"
      <4>1. seen' = [seen EXCEPT !.shards = live.shards]
        BY ZenonT(30), <2>1, <3>2
      <4> QED BY <2>1, <4>1 DEF Store
    <3> QED BY <3>1, <3>2
  <2>3. ViewsStep
    BY ZenonT(30), <1>0, <2>1, <2>2 DEF ViewsStep
  <2> QED BY ZenonT(30), <1>0, <1>1, <2>1, <2>3, TouchedKeeps
<1> QED BY ZenonT(30), <1>2, <1>3

-----------------------------------------------------------------------------
(* Steps of the hooks.                                                      *)

\* A step of a hook that ends it, or changes nothing but the hook.
LEMMA HookAlone ==
    ASSUME Inv, Inv', KeptInv, UNCHANGED <<setup, edits>>, live' = live, born' = born, seen' = seen,
           job' = job, krm' = krm, hook' = hook \/ hook'.kind # "migrate"
    PROVE  KeptInv'
<1>1. CountStep /\ ViewsStep
  BY ZenonT(30), CountSame, ViewsSame
<1> QED BY ZenonT(30), <1>1, TouchedKeeps

\* The hook plans with the settings that the shards have.
LEMMA PlanSettles == ASSUME Inv, Inv', KeptInv, planMigrations PROVE KeptInv'
<1>0. /\ UNCHANGED <<setup, edits>> /\ live' = live /\ born' = born /\ seen' = seen
      /\ job' = job /\ krm' = krm
  BY ZenonT(30) DEF planMigrations, HookRest, Unstored
<1>1. CASE hook' = hook
  BY ZenonT(30), <1>0, <1>1, HookAlone
<1>2. CASE hook' # hook
  <2>1. /\ \A s \in shardsToMigrate : Plannable(s)
        /\ hook' = [kind |-> "migrate", todo |-> {Migration(s) : s \in shardsToMigrate}, owner |-> Nobody]
    BY ZenonT(30), <1>2 DEF planMigrations
  <2>2. /\ hook'.todo = {Migration(s) : s \in shardsToMigrate} /\ hook'.owner = Nobody
    BY ZenonT(30), <2>1
  <2>3. CountStep /\ ViewsStep /\ ShardsStep /\ PoolsStep
    BY ZenonT(30), <1>0, CountSame, ViewsSame, SameStep DEF Inv
  <2>4. /\ PoolIds' /\ WriteKept'
        /\ \A s \in ShardNames : Predates(s)' => ShardKept(s)'
    BY ZenonT(30), <1>0, <2>3, SteadyRest
  <2>5. /\ shardsToMigrate' = shardsToMigrate
        /\ \A s \in ShardNames : Predates(s)' <=> Predates(s)
    BY ZenonT(30), <1>0 DEF shardsToMigrate, Predates, IsUnmanaged, OwnedByPool
  <2>6. ASSUME NEW s \in shardsToMigrate
        PROVE  /\ Migration(s).shard = s /\ Migration(s).part = live.shards[s].part
               /\ Migration(s).pool = NodePoolNameForPartitionLabelValue(live.shards[s].part)
               /\ Migration(s).cfg = SchedulingShardConfigFromShard(live.shards[s])
               /\ Migration(s).existing = live.pools[Migration(s).pool]
               /\ Migration(s).part = PartitionLabelValueForNodePool(Migration(s).pool)
               /\ Migration(s).pool \in Pools
               /\ s \in ShardNames /\ live.shards[s] \in Shard
    <3>1. /\ Migration(s).shard = s /\ Migration(s).part = live.shards[s].part
          /\ Migration(s).pool = NodePoolNameForPartitionLabelValue(live.shards[s].part)
          /\ Migration(s).cfg = SchedulingShardConfigFromShard(live.shards[s])
          /\ Migration(s).existing = live.pools[Migration(s).pool]
      BY DEF Migration
    <3>2. s \in ShardNames /\ live.shards[s] \in Shard
      BY ZenonT(30) DEF shardsToMigrate, Inv, TypeOK, Store
    <3>3. live.shards[s].part # Default /\ live.shards[s].part \in Partitions
      BY ZenonT(30), <2>1, <3>2, ShardFields DEF Plannable, checkNodePoolName
    <3> QED BY ZenonT(30), <3>1, <3>2, <3>3, PartitionNames
              DEF PartitionLabelValueForNodePool, NodePoolNameForPartitionLabelValue
  <2>7. ASSUME NEW s \in shardsToMigrate, NEW t \in ShardNames, live.shards[t] # Gone,
               live.shards[t].part = live.shards[s].part
        PROVE  t = s
    <3>1. ListShardsWithPartitionLabelValue(live.shards, live.shards[s].part) = {s}
      BY ZenonT(30), <2>1 DEF Plannable
    <3>2. t \in ListShardsWithPartitionLabelValue(live.shards, live.shards[s].part)
      BY ZenonT(30), <2>7 DEF ListShardsWithPartitionLabelValue
    <3> QED BY <3>1, <3>2
  <2>8. ASSUME NEW s \in shardsToMigrate, NEW m, m = Migration(s) PROVE PlanKept(m)'
    <3>1. /\ m.part = PartitionLabelValueForNodePool(m.pool)
          /\ m.pool = NodePoolNameForPartitionLabelValue(m.part)
          /\ m.shard = s /\ s \in ShardNames /\ m.pool \in Pools
          /\ m.existing = live.pools[m.pool] /\ m.part = live.shards[s].part
      BY ZenonT(30), <2>6, <2>8
    <3>2. ASSUME NEW n \in hook'.todo, n.pool = m.pool PROVE n = m
      <4>1. PICK t \in shardsToMigrate : n = Migration(t)
        BY ZenonT(30), <2>2
      <4>2. live.shards[t].part = live.shards[s].part /\ t \in ShardNames /\ live.shards[t] # Gone
        <5>1. n.part = PartitionLabelValueForNodePool(n.pool) /\ n.part = live.shards[t].part
          BY ZenonT(30), <2>6, <4>1
        <5> QED BY ZenonT(30), <2>6, <3>1, <3>2, <4>1, <5>1 DEF shardsToMigrate
      <4> QED BY ZenonT(30), <2>7, <2>8, <4>1, <4>2
    <3>3. ASSUME NEW t \in ShardNames, Predates(t), live.shards[t].part = m.part PROVE t = m.shard
      <4>1. live.shards[t] # Gone /\ live.shards[t].part = live.shards[s].part
        BY ZenonT(30), <3>1, <3>3 DEF Predates
      <4> QED BY ZenonT(30), <2>7, <3>1, <4>1
    <3>4. Predates(s) => Fits(m.cfg, setup.shards[s])
      <4> SUFFICES ASSUME Predates(s) PROVE Fits(SchedulingShardConfigFromShard(live.shards[s]), setup.shards[s])
        BY ZenonT(30), <2>6, <2>8
      <4>1. Keeps(live.shards[s], setup.shards[s])
        BY ZenonT(30), <3>1 DEF KeptInv, ShardKept
      <4>2. checkShardArgs(live.shards[s]) /\ Readable(live.shards[s].fair)
        BY ZenonT(30), <2>1 DEF Plannable
      <4>3. setup.shards[s] \in Shard
        <5>1. setup.shards[s] \in Shard \cup {Gone}
          BY ZenonT(30), <3>1, ConstantsAssumption DEF Inv, TypeOK
        <5> QED BY ZenonT(30), <5>1 DEF Predates
      <4> QED BY ZenonT(30), <2>6, <4>1, <4>2, <4>3, PlanFits
    <3>5. m.existing # Gone => /\ m.existing.uid[1] = m.pool /\ m.existing.uid[2] <= born.pools
                               /\ live.pools[m.pool] # Gone
      BY ZenonT(30), <3>1 DEF KeptInv, PoolIds
    <3>6. Predates(m.shard)' => /\ live'.shards[m.shard].part = m.part
                                /\ m.shard \in shardsToMigrate'
                                /\ Fits(m.cfg, setup'.shards[m.shard])
      BY ZenonT(30), <1>0, <2>5, <3>1, <3>4
    <3>7. \A t \in ShardNames : Predates(t)' /\ live'.shards[t].part = m.part => t = m.shard
      BY ZenonT(30), <1>0, <2>5, <3>3
    <3>8. m.existing # Gone => /\ m.existing.uid[1] = m.pool /\ m.existing.uid[2] <= born'.pools
                               /\ live'.pools[m.pool] = Gone => "deletePool" \in edits'
      BY ZenonT(30), <1>0, <3>5
    <3> QED BY ZenonT(30), <3>1, <3>2, <3>6, <3>7, <3>8 DEF PlanKept, Fits
  <2>9. HookKept'
    <3>1. \A s \in ShardNames : Predates(s)' /\ s \in shardsToMigrate' => \E m \in hook'.todo : m.shard = s
      BY ZenonT(30), <2>2, <2>5, <2>6
    <3>2. ASSUME NEW m \in hook'.todo PROVE PlanKept(m)' /\ Unpatched(m)'
      <4>1. PICK s \in shardsToMigrate : m = Migration(s)
        BY ZenonT(30), <2>2
      <4>2. m.existing = live.pools[m.pool]
        BY ZenonT(30), <2>6, <4>1
      <4>3. Unpatched(m)'
        BY ZenonT(30), <1>0, <4>2 DEF Unpatched
      <4> QED BY ZenonT(30), <2>8, <4>1, <4>3
    <3> QED BY ZenonT(30), <2>2, <3>1, <3>2 DEF HookKept
  <2> QED BY ZenonT(30), <2>4, <2>9 DEF KeptInv
<1> QED BY <1>1, <1>2

\* The NodePool of the next shard: identity and settings are the shard's.
LEMMA NodePoolCases ==
    ASSUME Inv, KeptInv, nodePoolForShard
    PROVE  \/ hook' = NoHook /\ live' = live /\ born' = born
           \/ \E m \in hook.todo : \E uid \in Uids :
                /\ m = NextMigration /\ hook' = [hook EXCEPT !.owner = uid]
                /\ live'.shards = live.shards /\ born.pools <= born'.pools
                /\ uid[1] = m.pool /\ uid[2] <= born'.pools
                /\ \A p \in Pools \ {m.pool} : live'.pools[p] = live.pools[p]
                /\ \/ /\ live'.pools[m.pool] = Gone /\ live.pools[m.pool] = Gone
                      /\ "deletePool" \in edits
                   \/ /\ live'.pools[m.pool] # Gone
                      /\ live'.pools[m.pool].uid = uid /\ live'.pools[m.pool].cfg = m.cfg
                      /\ live'.pools[m.pool].dying => live.pools[m.pool] # Gone /\ live.pools[m.pool].dying
<1> DEFINE m == NextMigration
           sel == IF m.part = "" THEN "empty" ELSE "partition"
           pool == live.pools[m.pool]
           new == NewPool(m.pool, sel, m.cfg)
           patched == [pool EXCEPT !.cfg = Patched(pool.cfg, m.existing.cfg, m.cfg)]
           goOn(uid) == hook' = [hook EXCEPT !.owner = uid]
<1>0. TypeOK /\ live \in Store /\ stale \subseteq Event /\ Migrating /\ hook.todo # {} /\ hook.owner = Nobody
  BY ZenonT(30) DEF Inv, TypeOK, nodePoolForShard
<1>1. /\ m \in hook.todo /\ m \in Plan /\ m.pool \in Pools /\ m.cfg \in Config
      /\ m.existing \in Pool \cup {Gone} /\ pool \in Pool \cup {Gone}
      /\ sel \in {"empty", "partition", "other"}
  <2>1. m \in hook.todo /\ hook.todo \subseteq Plan
    BY ZenonT(30), <1>0, Planned DEF Migrating
  <2> QED BY <1>0, <2>1 DEF Plan, Store
<1>2. PlanKept(m) /\ Unpatched(m) /\ PoolIds
  BY ZenonT(30), <1>0, <1>1 DEF KeptInv, HookKept, Migrating
<1>3. \/ hook' = NoHook /\ live' = live /\ born' = born
      \/ /\ m.existing # Gone /\ m.existing.cfg = m.cfg /\ goOn(m.existing.uid)
         /\ live' = live /\ born' = born
      \/ /\ m.existing # Gone /\ pool # Gone /\ StorePool(m.pool, patched) /\ goOn(pool.uid) /\ born' = born
      \/ /\ pool = Gone /\ BirthOfPool /\ StorePool(m.pool, new) /\ goOn(new.uid)
  BY ZenonT(30) DEF nodePoolForShard, HookFails, Unstored
<1> HIDE DEF m, sel
<1>4. CASE /\ m.existing # Gone /\ m.existing.cfg = m.cfg /\ goOn(m.existing.uid)
           /\ live' = live /\ born' = born
  <2>1. m.existing \in Pool /\ m.existing.uid \in Uids /\ m.existing.uid[1] = m.pool
        /\ m.existing.uid[2] <= born.pools
    BY ZenonT(30), <1>1, <1>2, <1>4, PoolFields DEF PlanKept
  <2>2. \/ pool = Gone /\ "deletePool" \in edits
        \/ pool # Gone /\ pool.uid = m.existing.uid /\ pool.cfg = m.cfg
    BY ZenonT(30), <1>2, <1>4 DEF PlanKept, Unpatched
  <2>3. born.pools <= born'.pools
    BY <1>4 DEF Inv, Births
  <2> QED BY ZenonT(30), <1>1, <1>4, <2>1, <2>2, <2>3 DEF m
<1>5. CASE m.existing # Gone /\ pool # Gone /\ StorePool(m.pool, patched) /\ goOn(pool.uid) /\ born' = born
  <2>1. pool \in Pool /\ m.existing \in Pool /\ pool.cfg = m.existing.cfg
    BY ZenonT(30), <1>1, <1>2, <1>5 DEF Unpatched
  <2>2. pool.cfg \in Config /\ pool.uid \in Uids /\ pool.uid[1] = m.pool /\ pool.uid[2] <= born.pools
    BY ZenonT(30), <1>1, <1>2, <1>5, <2>1, PoolFields DEF PoolIds
  <2>3. patched = [pool EXCEPT !.cfg = m.cfg]
    BY ZenonT(30), <1>1, <2>1, <2>2, PatchedSame
  <2>4. /\ patched \in Pool /\ patched.uid = pool.uid /\ patched.cfg = m.cfg
        /\ patched.dying = pool.dying
    BY ZenonT(30), <1>1, <2>1, <2>3 DEF Pool
  <2> HIDE DEF patched
  <2>5. live'.shards = live.shards /\ live'.pools = [live.pools EXCEPT ![m.pool] = patched]
    BY ZenonT(30), <1>0, <1>1, <1>5, <2>4, StorePoolIs
  <2>6. live'.pools[m.pool] = patched /\ \A p \in Pools \ {m.pool} : live'.pools[p] = live.pools[p]
    BY <1>0, <1>1, <2>5 DEF Store
  <2>7. born.pools <= born'.pools /\ patched # Gone
    BY <1>5, <2>4, PoolFields DEF Inv, Births
  <2> QED BY ZenonT(30), <1>1, <1>5, <2>2, <2>4, <2>5, <2>6, <2>7 DEF m
<1>6. CASE pool = Gone /\ BirthOfPool /\ StorePool(m.pool, new) /\ goOn(new.uid)
  <2>1. /\ born.pools \in Nat /\ born.pools < MaxIds /\ born'.pools = born.pools + 1
    BY <1>6 DEF BirthOfPool, Inv, Births
  <2>2. new \in Pool /\ new.uid \in Uids
    BY <1>1, <2>1, NewPoolTyped
  <2>3. /\ new.uid = <<m.pool, born'.pools>> /\ new.cfg = m.cfg /\ new.dying = FALSE
    BY <2>1 DEF NewPool
  <2> HIDE DEF new
  <2>4. live'.shards = live.shards /\ live'.pools = [live.pools EXCEPT ![m.pool] = new]
    BY ZenonT(30), <1>0, <1>1, <1>6, <2>2, StorePoolIs
  <2>5. live'.pools[m.pool] = new /\ \A p \in Pools \ {m.pool} : live'.pools[p] = live.pools[p]
    BY <1>0, <1>1, <2>4 DEF Store
  <2>6. new.uid[1] = m.pool /\ new.uid[2] <= born'.pools /\ born.pools <= born'.pools /\ new # Gone
    BY <2>1, <2>2, <2>3, PoolFields
  <2> QED BY ZenonT(30), <1>1, <1>6, <2>2, <2>3, <2>4, <2>5, <2>6 DEF m
<1> QED BY ZenonT(30), <1>3, <1>4, <1>5, <1>6

\* No shard that predates KRM is in the hands of the NodePool that the hook works on.
LEMMA NotYetHanded ==
    ASSUME Inv, KeptInv, hook.kind = "migrate", NEW m \in hook.todo, NEW s \in ShardNames,
           Predates(s), OwnedByPool(live.shards[s])
    PROVE  live.shards[s].owner[1] # m.pool
<1> SUFFICES ASSUME live.shards[s].owner[1] = m.pool PROVE FALSE
  OBVIOUS
<1>1. PlanKept(m)
  BY ZenonT(30) DEF KeptInv, HookKept
<1>2. live.shards[s].part = m.part
  BY ZenonT(30), <1>1 DEF KeptInv, ShardKept, PlanKept
<1>3. s = m.shard /\ s \in shardsToMigrate
  BY ZenonT(30), <1>1, <1>2 DEF PlanKept
<1> QED BY ZenonT(30), <1>3, ConstantsAssumption DEF shardsToMigrate, OwnedByPool

\* The NodePool is made or patched before it gets its shard, with the settings of that shard.
LEMMA NodePoolSettles == ASSUME Inv, Inv', KeptInv, nodePoolForShard PROVE KeptInv'
<1>0. /\ UNCHANGED <<setup, edits>> /\ seen' = seen /\ job' = job /\ krm' = krm
      /\ hook.kind = "migrate" /\ hook.owner = Nobody /\ TypeOK /\ Births /\ Births'
  BY ZenonT(30) DEF nodePoolForShard, HookRest, Migrating, Inv
<1>1. CASE hook' = NoHook /\ live' = live /\ born' = born
  BY ZenonT(30), <1>0, <1>1, HookAlone DEF NoHook
<1>2. ASSUME NEW m \in hook.todo, NEW uid \in Uids,
             m = NextMigration, hook' = [hook EXCEPT !.owner = uid],
             live'.shards = live.shards, born.pools <= born'.pools,
             uid[1] = m.pool, uid[2] <= born'.pools,
             \A p \in Pools \ {m.pool} : live'.pools[p] = live.pools[p],
             \/ live'.pools[m.pool] = Gone /\ live.pools[m.pool] = Gone /\ "deletePool" \in edits
             \/ /\ live'.pools[m.pool] # Gone
                /\ live'.pools[m.pool].uid = uid /\ live'.pools[m.pool].cfg = m.cfg
                /\ live'.pools[m.pool].dying => live.pools[m.pool] # Gone /\ live.pools[m.pool].dying
      PROVE  KeptInv'
  <2>0. CountStep /\ ShardsStep
    <3>1. CountStep
      BY ZenonT(30), <1>0, <1>2 DEF CountStep
    <3> QED BY ZenonT(30), <1>2, <3>1, SameStep
  <2>1. /\ hook'.todo = hook.todo /\ hook'.owner = uid /\ hook'.kind = "migrate" /\ uid # Nobody
        /\ NextMigration' = m
    <3>1. hook \in [kind : {"migrate"}, todo : SUBSET Plan, owner : Uids \cup {Nobody}]
      BY ZenonT(30), <1>0, NextMigrationTyped DEF Migrating
    <3>2. hook'.todo = hook.todo /\ hook'.owner = uid /\ hook'.kind = "migrate"
      BY <1>2, <3>1
    <3> QED BY ZenonT(30), <1>2, <3>2, ConstantsAssumption DEF NextMigration
  <2>2. /\ m \in Plan /\ m.pool \in Pools /\ m.shard \in ShardNames
        /\ \A n \in hook.todo : n \in Plan /\ n.pool \in Pools /\ n.shard \in ShardNames
    BY ZenonT(30), <1>0, Planned
  <2>3. PoolIds'
    <3> SUFFICES ASSUME NEW p \in Pools, live'.pools[p] # Gone
                 PROVE  /\ live'.pools[p].uid[1] = p /\ live'.pools[p].uid[2] <= born'.pools
                        /\ live'.pools[p].dying => "deletePool" \in edits
      BY ZenonT(30), <1>0 DEF PoolIds
    <3>1. CASE p = m.pool
      BY ZenonT(30), <1>2, <2>2, <3>1 DEF KeptInv, PoolIds
    <3>2. CASE p # m.pool
      <4>1. live'.pools[p] = live.pools[p]
        BY ZenonT(30), <1>2, <3>2
      <4>2. live.pools[p] \in Pool /\ live.pools[p].uid[2] <= born.pools
        BY ZenonT(30), <1>0, <4>1 DEF KeptInv, PoolIds, TypeOK, Store
      <4>3. live.pools[p].uid[2] <= born'.pools
        BY <1>0, <1>2, <4>2, PoolFields DEF Uids, Births
      <4> QED BY ZenonT(30), <4>1, <4>3 DEF KeptInv, PoolIds
    <3> QED BY <3>1, <3>2
  <2>4. WriteKept'
    BY ZenonT(30), <1>0, <2>0, WriteKeptFrame DEF ShardsStep, KeptInv
  <2>5. ASSUME NEW s \in ShardNames, Predates(s)' PROVE ShardKept(s)'
    <3>1. Predates(s) /\ live'.shards[s] = live.shards[s] /\ ShardKept(s)
      BY ZenonT(30), <1>2, <2>0, <2>5 DEF KeptInv, ShardsStep
    <3>2. s \in shardsToMigrate' <=> s \in shardsToMigrate
      BY ZenonT(30), <2>0, <2>5, ToMigrateFrame
    <3>3. ASSUME OwnedByPool(live.shards[s])
          PROVE  /\ live.shards[s].owner[2] <= born'.pools
                 /\ \A pool \in Pool : Known(pool)' /\ pool.uid = live.shards[s].owner
                                       => Fits(pool.cfg, setup.shards[s])
      <4>1. live.shards[s].owner[1] # m.pool
        BY ZenonT(30), <1>0, <3>1, <3>3, NotYetHanded
      <4>2. live.shards[s].owner[2] <= born'.pools
        <5>1. live.shards[s].owner[2] <= born.pools
          BY ZenonT(30), <3>1, <3>3 DEF ShardKept
        <5>2. live.shards[s].owner[2] \in Nat
          BY <3>3 DEF OwnedByPool, Uids
        <5> QED BY <1>0, <1>2, <5>1, <5>2 DEF Births
      <4>3. ASSUME NEW pool \in Pool, Known(pool)', pool.uid = live.shards[s].owner PROVE Known(pool)
        <5>1. CASE \E p \in Pools : live'.pools[p] = pool
          <6>1. PICK p \in Pools : live'.pools[p] = pool
            BY <5>1
          <6>2. p # m.pool
            <7>1. pool # Gone /\ pool.uid[1] = p
              BY ZenonT(30), <2>3, <6>1, PoolFields DEF PoolIds
            <7> QED BY ZenonT(30), <4>1, <4>3, <7>1
          <6>3. live.pools[p] = pool
            BY ZenonT(30), <1>2, <6>1, <6>2
          <6> QED BY ZenonT(30), <6>3 DEF Known
        <5> QED BY ZenonT(30), <1>0, <4>3, <5>1 DEF Known
      <4> QED BY ZenonT(30), <3>1, <3>3, <4>2, <4>3 DEF ShardKept
    <3>4. Keeps(live.shards[s], setup.shards[s])'
      BY ZenonT(30), <1>0, <3>1 DEF ShardKept, Keeps, KeysOf
    <3>5. OwnedByPool(live'.shards[s]) =>
          /\ live'.shards[s].part = PartitionLabelValueForNodePool(live'.shards[s].owner[1])
          /\ live'.shards[s].owner[2] <= born'.pools
          /\ \A pool \in Pool : Known(pool)' /\ pool.uid = live'.shards[s].owner
                                => Fits(pool.cfg, setup'.shards[s])
      BY ZenonT(30), <1>0, <3>1, <3>3 DEF ShardKept
    <3>6. krm' = "in" =>
          /\ s \notin shardsToMigrate'
          /\ OwnedByPool(seen'.shards[s]) => seen'.shards[s].owner = live'.shards[s].owner
      BY ZenonT(30), <1>0, <3>1, <3>2 DEF ShardKept
    <3> QED BY ZenonT(30), <3>4, <3>5, <3>6 DEF ShardKept, OwnedByPool, Fits
  <2>6. HookKept'
    <3>0. /\ \A s \in ShardNames : Predates(s)' => /\ Predates(s) /\ live'.shards[s].part = live.shards[s].part
                                                   /\ s \in shardsToMigrate' <=> s \in shardsToMigrate
          /\ \A s \in ShardNames : Predates(s) /\ s \in shardsToMigrate => \E n \in hook.todo : n.shard = s
          /\ \A n \in hook.todo : PlanKept(n) /\ Unpatched(n)
      BY ZenonT(30), <1>0, <2>0, ToMigrateFrame DEF ShardsStep, KeptInv, HookKept
    <3>1. ASSUME NEW n \in hook.todo PROVE PlanKept(n)'
      <4>1. live'.pools[n.pool] = Gone => live.pools[n.pool] = Gone \/ "deletePool" \in edits'
        BY ZenonT(30), <1>2, <2>2
      <4> QED BY ZenonT(30), <1>0, <2>0, <2>1, <2>2, <3>0, <4>1, PlanFrame
    <3>2. ASSUME NEW n \in hook.todo, n # m PROVE Unpatched(n)'
      <4>1. n.pool # m.pool /\ n.pool \in Pools
        BY ZenonT(30), <2>2, <3>0, <3>2 DEF PlanKept
      <4> QED BY ZenonT(30), <1>2, <3>0, <4>1 DEF Unpatched
    <3>3. HandedTo(uid, m)'
      <4>1. ASSUME NEW p \in Pools, live'.pools[p] # Gone, live'.pools[p].uid = uid, Predates(m.shard)'
            PROVE  Fits(live'.pools[p].cfg, setup'.shards[m.shard])
        <5>1. p = m.pool
          BY ZenonT(30), <1>2, <2>3, <4>1 DEF PoolIds
        <5>2. Fits(m.cfg, setup.shards[m.shard])
          BY ZenonT(30), <2>2, <3>0, <4>1 DEF PlanKept
        <5> QED BY ZenonT(30), <1>0, <1>2, <4>1, <5>1, <5>2
      <4> QED BY ZenonT(30), <1>2, <4>1 DEF HandedTo, Fits
    <3>4. hook'.todo # {} /\ HandedTo(hook.owner, NextMigration)'
      BY ZenonT(30), <2>1, <3>3
    <3> QED BY ZenonT(30), <2>1, <3>0, <3>1, <3>2, <3>4 DEF HookKept
  <2> QED BY ZenonT(30), <2>3, <2>4, <2>5, <2>6 DEF KeptInv
<1> QED BY ZenonT(30), <1>1, <1>2, NodePoolCases

\* The hand-over itself: the NodePool has the settings by now, and no controller is running.
LEMMA MigrateSettles == ASSUME Inv, Inv', KeptInv, migrate PROVE KeptInv'
<1>0. /\ UNCHANGED <<setup, edits>> /\ seen' = seen /\ job' = job /\ krm' = krm /\ born' = born
      /\ hook.kind = "migrate" /\ hook.todo # {} /\ hook.owner # Nobody
      /\ TypeOK /\ Births /\ Births' /\ live \in Store /\ stale \subseteq Event
  BY ZenonT(30) DEF migrate, HookRest, Migrating, Inv, TypeOK
<1>1. CountStep
  BY ZenonT(30), <1>0, CountSame
<1>2. PICK m : m = NextMigration
  OBVIOUS
<1>3. PICK uid : uid = hook.owner
  OBVIOUS
<1> DEFINE old == live.shards[m.shard]
           obj == [old EXCEPT !.owner = uid, !.adopted = TRUE, !.ignore = @ /\ m.part # ""]
<1>4. \/ hook' = NoHook /\ live' = live
      \/ /\ old # Gone /\ StoreShard(m.shard, obj)
         /\ hook' = [hook EXCEPT !.owner = Nobody, !.todo = @ \ {m}]
  BY <1>2, <1>3 DEF migrate, HookFails, Unstored
<1>5. CASE hook' = NoHook /\ live' = live
  BY ZenonT(30), <1>0, <1>5, HookAlone DEF NoHook
<1>6. CASE /\ old # Gone /\ StoreShard(m.shard, obj)
           /\ hook' = [hook EXCEPT !.owner = Nobody, !.todo = @ \ {m}]
  <2>1. /\ m \in hook.todo /\ uid \in Uids /\ m.shard \in ShardNames
        /\ \A n \in hook.todo : n \in Plan /\ n.pool \in Pools /\ n.shard \in ShardNames
    BY ZenonT(30), <1>0, <1>2, <1>3, Planned
  <2>2. hook'.todo = hook.todo \ {m} /\ hook'.owner = Nobody
    <3>1. hook \in [kind : {"migrate"}, todo : SUBSET Plan, owner : Uids \cup {Nobody}]
      BY ZenonT(30), <1>0, NextMigrationTyped DEF Migrating
    <3> QED BY <1>6, <3>1
  <2>3. /\ obj \in Shard /\ obj.id = old.id /\ obj.owner = uid /\ obj.part = old.part
        /\ obj.args = old.args /\ obj.strategy = old.strategy /\ obj.fair = old.fair
    <3>1. old \in Shard /\ (old.ignore /\ m.part # "") \in BOOLEAN
      BY ZenonT(30), <1>0, <1>6, <2>1 DEF Store
    <3>2. obj = [old EXCEPT !.owner = uid, !.adopted = TRUE, !.ignore = (old.ignore /\ m.part # "")]
      BY ZenonT(30)
    <3> HIDE DEF old, obj
    <3> QED BY ZenonT(30), <2>1, <3>1, <3>2 DEF Shard
  <2> HIDE DEF obj
  <2>4. /\ live'.pools = live.pools /\ live'.shards[m.shard] = obj
        /\ \A t \in ShardNames \ {m.shard} : live'.shards[t] = live.shards[t]
    <3>1. live'.pools = live.pools /\ live'.shards = [live.shards EXCEPT ![m.shard] = obj]
      BY ZenonT(30), <1>0, <1>6, <2>1, <2>3, StoreShardIs
    <3> QED BY <1>0, <2>1, <3>1 DEF Store
  <2>5. /\ \A s \in ShardNames : Predates(s) /\ s \in shardsToMigrate => \E n \in hook.todo : n.shard = s
        /\ \A n \in hook.todo : PlanKept(n) /\ (n # m => Unpatched(n))
        /\ HandedTo(uid, m)
    BY ZenonT(30), <1>0, <1>2, <1>3 DEF KeptInv, HookKept
  <2>6. /\ \A s \in ShardNames : Predates(s)' <=> Predates(s)
        /\ \A s \in ShardNames \ {m.shard} : s \in shardsToMigrate' <=> s \in shardsToMigrate
        /\ m.shard \notin shardsToMigrate'
        /\ \A pool : Known(pool)' <=> Known(pool)
    <3>1. obj # Gone /\ uid # Nobody
      BY ZenonT(30), <2>1, <2>3, ShardFields, ConstantsAssumption
    <3>2. \A s \in ShardNames : Predates(s)' <=> Predates(s)
      BY ZenonT(30), <1>0, <1>6, <2>3, <2>4, <3>1 DEF Predates, OwnedByPool
    <3>3. \A s \in ShardNames \ {m.shard} : s \in shardsToMigrate' <=> s \in shardsToMigrate
      BY ZenonT(30), <2>4 DEF shardsToMigrate, IsUnmanaged, OwnedByPool
    <3>4. m.shard \notin shardsToMigrate'
      BY ZenonT(30), <2>3, <2>4, <3>1 DEF shardsToMigrate
    <3>5. \A pool : Known(pool)' <=> Known(pool)
      BY ZenonT(30), <1>0, <2>4 DEF Known
    <3> QED BY ZenonT(30), <3>2, <3>3, <3>4, <3>5
  <2>7. ASSUME Predates(m.shard)
        PROVE  /\ krm # "in" /\ job = Idle /\ old.part = m.part
               /\ m.shard \in shardsToMigrate /\ m.part = PartitionLabelValueForNodePool(uid[1])
    <3>1. m.shard \in shardsToMigrate /\ old.part = m.part /\ m.part = PartitionLabelValueForNodePool(uid[1])
      BY ZenonT(30), <2>1, <2>5, <2>7 DEF PlanKept, HandedTo
    <3>2. krm # "in"
      BY ZenonT(30), <2>1, <2>7, <3>1 DEF KeptInv, ShardKept
    <3> QED BY ZenonT(30), <3>1, <3>2 DEF Inv, Control
  <2>8. PoolIds'
    BY ZenonT(30), <1>0, <2>4 DEF KeptInv, PoolIds
  <2>9. WriteKept'
    <3>1. CASE Predates(m.shard)
      <4>1. job'.step = "idle"
        BY <1>0, <2>7, <3>1 DEF Idle
      <4> QED BY <4>1 DEF WriteKept
    <3>2. CASE ~Predates(m.shard)
      <4>1. \A s \in ShardNames : Predates(s)' => Predates(s) /\ live'.shards[s].owner = live.shards[s].owner
        BY ZenonT(30), <2>4, <2>6, <3>2
      <4> QED BY ZenonT(30), <1>0, <4>1, WriteKeptFrame DEF KeptInv
    <3> QED BY <3>1, <3>2
  <2>10. ShardKept(m.shard)' \/ ~Predates(m.shard)'
    <3> SUFFICES ASSUME Predates(m.shard) PROVE ShardKept(m.shard)'
      BY ZenonT(30), <2>1, <2>6
    <3>1. Keeps(live.shards[m.shard], setup.shards[m.shard])'
      <4>1. Keeps(live.shards[m.shard], setup.shards[m.shard])
        BY ZenonT(30), <2>1 DEF KeptInv, ShardKept
      <4> QED BY ZenonT(30), <1>0, <2>3, <2>4, <4>1 DEF Keeps, KeysOf
    <3>2. /\ live'.shards[m.shard].part = PartitionLabelValueForNodePool(live'.shards[m.shard].owner[1])
          /\ live'.shards[m.shard].owner[2] <= born'.pools
      BY ZenonT(30), <1>0, <2>3, <2>4, <2>5, <2>7 DEF HandedTo
    <3>3. ASSUME NEW pool \in Pool, Known(pool)', pool.uid = live'.shards[m.shard].owner
          PROVE  Fits(pool.cfg, setup'.shards[m.shard])
      <4>1. pool.uid = uid /\ Known(pool) /\ pool # Gone
        BY ZenonT(30), <2>3, <2>4, <2>6, <3>3, PoolFields
      <4>2. \E p \in Pools : live.pools[p] = pool
        BY ZenonT(30), <2>7, <4>1 DEF Known
      <4> QED BY ZenonT(30), <1>0, <2>5, <4>1, <4>2 DEF HandedTo
    <3> QED BY ZenonT(30), <1>0, <2>7, <3>1, <3>2, <3>3 DEF ShardKept, OwnedByPool, Fits
  <2>11. ASSUME NEW s \in ShardNames, s # m.shard, Predates(s)' PROVE ShardKept(s)'
    <3>1. ShardKept(s) /\ live'.shards[s] = live.shards[s]
      BY ZenonT(30), <2>4, <2>6, <2>11 DEF KeptInv
    <3>2. Keeps(live.shards[s], setup.shards[s])'
      BY ZenonT(30), <1>0, <3>1 DEF ShardKept, Keeps, KeysOf
    <3>3. OwnedByPool(live'.shards[s]) =>
          /\ live'.shards[s].part = PartitionLabelValueForNodePool(live'.shards[s].owner[1])
          /\ live'.shards[s].owner[2] <= born'.pools
          /\ \A pool \in Pool : Known(pool)' /\ pool.uid = live'.shards[s].owner
                                => Fits(pool.cfg, setup'.shards[s])
      BY ZenonT(30), <1>0, <2>6, <3>1 DEF ShardKept
    <3>4. krm' = "in" =>
          /\ s \notin shardsToMigrate'
          /\ OwnedByPool(seen'.shards[s]) => seen'.shards[s].owner = live'.shards[s].owner
      BY ZenonT(30), <1>0, <2>6, <2>11, <3>1 DEF ShardKept
    <3> QED BY ZenonT(30), <3>2, <3>3, <3>4 DEF ShardKept, OwnedByPool, Fits
  <2>12. HookKept'
    <3>1. ASSUME NEW s \in ShardNames, Predates(s)', s \in shardsToMigrate'
          PROVE  \E n \in hook'.todo : n.shard = s
      BY ZenonT(30), <2>2, <2>5, <2>6, <3>1
    <3>2. ASSUME NEW n \in hook'.todo PROVE PlanKept(n)' /\ Unpatched(n)'
      <4>0. n \in hook.todo /\ n # m /\ n \in Plan
        BY ZenonT(30), <2>1, <2>2
      <4>1. \A s \in ShardNames : Predates(s)' => Predates(s) /\ live'.shards[s].part = live.shards[s].part
        BY ZenonT(30), <2>3, <2>4, <2>6
      <4>2. Predates(n.shard)' /\ n.shard \in shardsToMigrate => n.shard \in shardsToMigrate'
        <5>1. ASSUME Predates(n.shard) PROVE n.shard # m.shard
          <6> SUFFICES ASSUME n.shard = m.shard PROVE FALSE
            OBVIOUS
          <6>1. live.shards[n.shard].part = n.part /\ live.shards[m.shard].part = m.part
            BY ZenonT(30), <2>1, <2>5, <4>0, <5>1 DEF PlanKept
          <6>2. n.pool = m.pool
            <7>1. /\ n.pool = NodePoolNameForPartitionLabelValue(n.part)
                  /\ m.pool = NodePoolNameForPartitionLabelValue(m.part)
              BY ZenonT(30), <2>1, <2>5, <4>0 DEF PlanKept
            <7>2. n.part = m.part
              BY ZenonT(30), <6>1
            <7> QED BY ZenonT(30), <7>1, <7>2
          <6> QED BY ZenonT(30), <2>1, <2>5, <4>0, <6>2 DEF PlanKept
        <5> QED BY ZenonT(30), <2>1, <2>6, <4>0, <5>1
      <4>3. PlanKept(n)'
        <5>1. hook'.todo \subseteq hook.todo /\ PlanKept(n)
              /\ (live'.pools[n.pool] = Gone => live.pools[n.pool] = Gone \/ "deletePool" \in edits')
          BY ZenonT(30), <2>2, <2>4, <2>5, <4>0
        <5> QED BY ZenonT(30), <1>0, <1>1, <4>0, <4>1, <4>2, <5>1, PlanFrame
      <4>4. Unpatched(n)'
        BY ZenonT(30), <2>4, <2>5, <4>0 DEF Unpatched
      <4> QED BY <4>3, <4>4
    <3> QED BY ZenonT(30), <2>2, <3>1, <3>2 DEF HookKept
  <2> QED BY ZenonT(30), <2>8, <2>9, <2>10, <2>11, <2>12 DEF KeptInv
<1> QED BY ZenonT(30), <1>4, <1>5, <1>6

\* The controllers start once every shard is handed over, and know what the API server has.
LEMMA EnsureSettles == ASSUME Inv, Inv', KeptInv, ensureDefaultNodePool PROVE KeptInv'
<1> DEFINE new == NewPool(Default, "empty", DefaultSpec)
           created == [live EXCEPT !.pools[Default] = new]
<1>0. /\ UNCHANGED <<setup, edits>> /\ hook.kind = "migrate" /\ hook.todo = {}
      /\ TypeOK /\ Births /\ Births' /\ live \in Store
  BY ZenonT(30) DEF ensureDefaultNodePool, Migrating, Inv, TypeOK
<1>1. \/ /\ hook' = NoHook /\ live' = live /\ born' = born /\ seen' = seen /\ job' = job /\ krm' = krm
      \/ /\ \/ live' = live /\ born' = born
            \/ live.pools[Default] = Gone /\ BirthOfPool /\ live' = created
         /\ hook' = NoHook /\ krm' = "in"
         /\ \/ krm = "in" /\ seen' = seen /\ job' = job
            \/ krm # "in" /\ seen' = live' /\ job' = Idle
  BY DEF ensureDefaultNodePool, HookFails, Unstored, Started
<1>2. hook'.kind # "migrate"
  <2>1. hook' = NoHook
    BY <1>1
  <2> QED BY <2>1 DEF NoHook
<1>3. CASE hook' = NoHook /\ live' = live /\ born' = born /\ seen' = seen /\ job' = job /\ krm' = krm
  BY ZenonT(30), <1>0, <1>2, <1>3, HookAlone
<1>4. CASE /\ \/ live' = live /\ born' = born
              \/ live.pools[Default] = Gone /\ BirthOfPool /\ live' = created
           /\ hook' = NoHook /\ krm' = "in"
           /\ \/ krm = "in" /\ seen' = seen /\ job' = job
              \/ krm # "in" /\ seen' = live' /\ job' = Idle
  <2>1. CountStep /\ PoolsStep /\ live'.shards = live.shards
    <3>1. CASE live' = live /\ born' = born
      BY ZenonT(30), <1>0, <3>1, CountSame, SameStep
    <3>2. CASE live.pools[Default] = Gone /\ BirthOfPool /\ live' = created
      <4>1. born.pools \in Nat /\ born.pools < MaxIds /\ born'.pools = born.pools + 1
        BY <3>2 DEF BirthOfPool, Inv, Births
      <4>2. CountStep
        BY <1>0, <4>1 DEF CountStep
      <4>3. new.uid = <<Default, born'.pools>> /\ new.dying = FALSE /\ new \in Pool /\ new # Gone
        <5>1. new \in Pool
          BY <4>1, NewPoolTyped, ConfigTyped DEF Pools
        <5>2. new.uid = <<Default, born'.pools>> /\ new.dying = FALSE
          BY <4>1 DEF NewPool
        <5> QED BY ZenonT(30), <5>1, <5>2, PoolFields
      <4> HIDE DEF new
      <4>4. live'.shards = live.shards /\ live'.pools = [live.pools EXCEPT ![Default] = new]
        BY <1>0, <3>2 DEF Store
      <4>5. live'.pools[Default] = new /\ \A p \in Pools \ {Default} : live'.pools[p] = live.pools[p]
        BY <1>0, <4>4 DEF Store, Pools
      <4>6. ~live'.pools[Default].dying /\ born.pools < born'.pools
        BY <4>1, <4>3, <4>5
      <4>7. PoolsStep
        BY ZenonT(30), <3>2, <4>3, <4>5, <4>6 DEF PoolsStep
      <4> QED BY ZenonT(30), <4>2, <4>4, <4>7
    <3> QED BY ZenonT(30), <1>4, <3>1, <3>2
  <2>2. ShardsStep
    BY ZenonT(30), <2>1, SameStep
  <2>3. CASE krm = "in" /\ seen' = seen /\ job' = job
    <3>1. ViewsStep
      BY ZenonT(30), <1>4, <2>3 DEF ViewsStep
    <3> QED BY ZenonT(30), <1>2, <2>1, <2>2, <2>3, <3>1, SteadyKeeps
  <2>4. CASE krm # "in" /\ seen' = live' /\ job' = Idle
    <3>1. PoolIds'
      BY ZenonT(30), <1>0, <2>1, PoolIdsFrame DEF KeptInv
    <3>2. WriteKept' /\ HookKept'
      BY ZenonT(30), <1>2, <2>4 DEF WriteKept, HookKept, Idle
    <3>3. ASSUME NEW s \in ShardNames, Predates(s)' PROVE ShardKept(s)'
      <4>1. /\ Predates(s) /\ ShardKept(s) /\ live'.shards[s] = live.shards[s]
            /\ s \in shardsToMigrate' <=> s \in shardsToMigrate
        BY ZenonT(30), <2>1, <2>2, <3>3, ToMigrateFrame DEF ShardsStep, KeptInv
      <4>2. s \notin shardsToMigrate
        BY ZenonT(30), <1>0, <4>1 DEF KeptInv, HookKept
      <4>3. Keeps(live.shards[s], setup.shards[s])'
        BY ZenonT(30), <1>0, <4>1 DEF ShardKept, Keeps, KeysOf
      <4>4. ASSUME OwnedByPool(live.shards[s])
            PROVE  /\ live.shards[s].owner[2] <= born'.pools
                   /\ \A pool \in Pool : Known(pool)' /\ pool.uid = live.shards[s].owner
                                         => Fits(pool.cfg, setup.shards[s])
        <5>1. live.shards[s].owner[2] \in Nat /\ live.shards[s].owner[2] <= born.pools
          BY <4>1, <4>4 DEF ShardKept, OwnedByPool, Uids
        <5>2. live.shards[s].owner[2] <= born'.pools
          BY <1>0, <2>1, <5>1 DEF Births, CountStep
        <5>3. ASSUME NEW pool \in Pool, Known(pool)', pool.uid = live.shards[s].owner
              PROVE  Fits(pool.cfg, setup.shards[s])
          <6>1. PICK p \in Pools : live'.pools[p] = pool
            BY ZenonT(30), <2>4, <5>3 DEF Known
          <6>2. pool # Gone
            BY PoolFields
          <6>3. CASE pool.uid = <<p, born'.pools>> /\ born.pools < born'.pools
            <7>1. live.shards[s].owner[2] = born'.pools
              BY <5>3, <6>3
            <7> QED BY <1>0, <5>1, <6>3, <7>1 DEF Births
          <6>4. CASE live.pools[p] # Gone /\ pool.uid = live.pools[p].uid /\ pool.cfg = live.pools[p].cfg
            <7>1. live.pools[p] \in Pool /\ Known(live.pools[p])
              BY ZenonT(30), <1>0, <6>4 DEF Store, Known
            <7> QED BY ZenonT(30), <4>1, <4>4, <5>3, <6>4, <7>1 DEF ShardKept
          <6> QED BY ZenonT(30), <2>1, <6>1, <6>2, <6>3, <6>4 DEF PoolsStep
        <5> QED BY ZenonT(30), <5>2, <5>3
      <4>5. OwnedByPool(live'.shards[s]) =>
            /\ live'.shards[s].part = PartitionLabelValueForNodePool(live'.shards[s].owner[1])
            /\ live'.shards[s].owner[2] <= born'.pools
            /\ \A pool \in Pool : Known(pool)' /\ pool.uid = live'.shards[s].owner
                                  => Fits(pool.cfg, setup'.shards[s])
        BY ZenonT(30), <1>0, <4>1, <4>4 DEF ShardKept
      <4>6. s \notin shardsToMigrate' /\ seen'.shards[s].owner = live'.shards[s].owner
        BY ZenonT(30), <2>4, <4>1, <4>2
      <4> QED BY ZenonT(30), <4>3, <4>5, <4>6 DEF ShardKept, OwnedByPool, Fits
    <3> QED BY ZenonT(30), <3>1, <3>2, <3>3 DEF KeptInv
  <2> QED BY ZenonT(30), <1>4, <2>3, <2>4
<1> QED BY ZenonT(30), <1>1, <1>3, <1>4

\* The cleanup hook stops the controllers before it takes shards from their NodePools.
LEMMA CleanupSettles ==
    ASSUME Inv, Inv', KeptInv,
           \/ deleteOperatorManagedDeployments \/ releaseAdoptedSchedulingShards
           \/ startStripping \/ stripNodePoolFinalizers \/ finishCleanup
    PROVE  KeptInv'
<1>0. /\ UNCHANGED <<setup, edits>> /\ seen' = seen /\ born' = born
      /\ TypeOK /\ live \in Store /\ stale \subseteq Event
  BY ZenonT(30) DEF deleteOperatorManagedDeployments, releaseAdoptedSchedulingShards, startStripping,
                    stripNodePoolFinalizers, finishCleanup, CleanupRest, Inv, TypeOK
<1>1. CountStep
  BY ZenonT(30), <1>0, CountSame
<1>2. CASE deleteOperatorManagedDeployments
  <2>1. live' = live /\ krm' = "stopped" /\ job' = Idle
    BY <1>2 DEF deleteOperatorManagedDeployments, Unstored
  <2>2. hook'.kind # "migrate" /\ job'.step # "write"
    BY <1>2, <2>1 DEF deleteOperatorManagedDeployments, Idle
  <2>3. ViewsStep
    BY <1>0, <2>1 DEF ViewsStep
  <2> QED BY ZenonT(30), <1>1, <2>1, <2>2, <2>3, TouchedKeeps
<1>3. CASE startStripping
  <2>1. live' = live /\ krm' = krm /\ job' = job
    BY <1>3 DEF startStripping, Unstored, CleanupRest
  <2>2. hook'.kind # "migrate"
    BY <1>3 DEF startStripping
  <2> QED BY ZenonT(30), <1>0, <2>1, <2>2, HookAlone
<1>4. CASE finishCleanup
  <2>1. live' = live /\ krm' = "out" /\ job' = job
    BY <1>4 DEF finishCleanup, Unstored, CleanupRest
  <2>2. hook'.kind # "migrate"
    BY <1>4 DEF finishCleanup, NoHook
  <2>3. ViewsStep
    BY <1>0, <2>1 DEF ViewsStep
  <2> QED BY ZenonT(30), <1>1, <2>1, <2>2, <2>3, TouchedKeeps
<1>5. CASE stripNodePoolFinalizers
  <2> DEFINE p == CHOOSE q \in hook.todo : TRUE
  <2>1. /\ hook.kind = "strip" /\ hook.todo # {} /\ krm' = krm /\ job' = job
        /\ hook' = NoHook \/ hook' = [hook EXCEPT !.todo = @ \ {p}]
    BY ZenonT(30), <1>5 DEF stripNodePoolFinalizers, CleanupRest, HookFails
  <2>2. live' = live \/ (live.pools[p] # Gone /\ StorePool(p, WithFinalizer(live.pools[p], FALSE)))
    BY ZenonT(30), <1>5 DEF stripNodePoolFinalizers, Unstored
  <2>3. hook \in [kind : {"strip"}, todo : SUBSET Pools]
    BY <1>0, <2>1, ReleaseTyped
  <2>4. p \in Pools
    <3>1. p \in hook.todo
      BY <2>1
    <3> QED BY <2>3, <3>1
  <2> HIDE DEF p
  <2>5. hook'.kind # "migrate"
    <3>1. NoHook.kind = "none"
      BY DEF NoHook
    <3>2. [hook EXCEPT !.todo = @ \ {p}].kind = "strip"
      BY <2>3
    <3> QED BY ZenonT(30), <2>1, <3>1, <3>2
  <2>6. live' = live \/ \E obj \in Pool \cup {Gone} : Touched(p, obj)
    BY ZenonT(30), <2>2, <2>4, FinalizerTouched
  <2> QED BY ZenonT(30), <1>0, <1>1, <2>1, <2>4, <2>5, <2>6, ViewsSame, TouchedKeeps
<1>6. CASE releaseAdoptedSchedulingShards
  <2>1. krm' = krm /\ job' = job /\ krm = "stopped" /\ job = Idle
    BY ZenonT(30), <1>6 DEF releaseAdoptedSchedulingShards, CleanupRest, Inv, Control
  <2>2. hook'.kind # "migrate"
    <3>1. NoHook.kind = "none"
      BY DEF NoHook
    <3> QED BY ZenonT(30), <1>6, <3>1, ReleaseCases
  <2>3. CASE live' = live
    BY ZenonT(30), <1>0, <2>1, <2>2, <2>3, HookAlone
  <2>4. ASSUME NEW s \in ShardNames, live.shards[s] \in Shard, StoreShard(s, Released(live.shards[s]))
        PROVE  KeptInv'
    <3> DEFINE obj == Released(live.shards[s])
    <3>1. /\ obj \in Shard /\ obj # Gone /\ obj.id = live.shards[s].id /\ obj.args = live.shards[s].args
          /\ obj.strategy = live.shards[s].strategy /\ obj.fair = live.shards[s].fair
          /\ ~OwnedByPool(obj)
      BY ZenonT(30), <2>4, ReleasedIs
    <3> HIDE DEF obj
    <3>2. /\ live'.pools = live.pools /\ live'.shards[s] = obj
          /\ \A t \in ShardNames \ {s} : live'.shards[t] = live.shards[t]
      <4>1. live'.pools = live.pools /\ live'.shards = [live.shards EXCEPT ![s] = obj]
        BY ZenonT(30), <1>0, <2>4, <3>1, StoreShardIs DEF obj
      <4> QED BY <1>0, <4>1 DEF Store
    <3>3. PoolIds'
      BY ZenonT(30), <1>0, <3>2 DEF KeptInv, PoolIds
    <3>4. WriteKept' /\ HookKept'
      <4>1. job'.step = "idle"
        BY <2>1 DEF Idle
      <4>2. WriteKept'
        BY <4>1 DEF WriteKept
      <4> QED BY ZenonT(30), <2>2, <4>2 DEF HookKept
    <3>5. ASSUME NEW t \in ShardNames, Predates(t)' PROVE ShardKept(t)'
      <4>1. Predates(t) /\ ShardKept(t)
        <5>1. live.shards[s] # Gone
          BY <2>4, ShardFields
        <5>2. Predates(t)
          BY ZenonT(30), <1>0, <3>1, <3>2, <3>5, <5>1 DEF Predates, OwnedByPool
        <5> QED BY ZenonT(30), <5>2 DEF KeptInv
      <4>2. Keeps(live.shards[t], setup.shards[t])'
        BY ZenonT(30), <1>0, <3>1, <3>2, <4>1 DEF ShardKept, Keeps, KeysOf
      <4>3. OwnedByPool(live'.shards[t]) => live'.shards[t] = live.shards[t]
        BY ZenonT(30), <3>1, <3>2
      <4>4. \A pool : Known(pool)' <=> Known(pool)
        BY ZenonT(30), <1>0, <2>1, <3>2 DEF Known
      <4>5. OwnedByPool(live'.shards[t]) =>
            /\ live'.shards[t].part = PartitionLabelValueForNodePool(live'.shards[t].owner[1])
            /\ live'.shards[t].owner[2] <= born'.pools
            /\ \A pool \in Pool : Known(pool)' /\ pool.uid = live'.shards[t].owner
                                  => Fits(pool.cfg, setup'.shards[t])
        BY ZenonT(30), <1>0, <4>1, <4>3, <4>4 DEF ShardKept
      <4>6. krm' # "in"
        BY <2>1
      <4> QED BY ZenonT(30), <4>2, <4>5, <4>6 DEF ShardKept, OwnedByPool, Fits
    <3> QED BY ZenonT(30), <3>3, <3>4, <3>5 DEF KeptInv
  <2> QED BY ZenonT(30), <1>6, <2>3, <2>4, ReleaseCases
<1> QED BY ZenonT(30), <1>2, <1>3, <1>4, <1>5, <1>6

-----------------------------------------------------------------------------
(* Others, and the theorem.                                                 *)

\* A new shard, for the purpose of EditSettles.
LEMMA NewShardTyped ==
    ASSUME Inv, BirthOfShard, NEW part \in Partitions, NEW ignore \in BOOLEAN
    PROVE  LET new == [NewShard(part) EXCEPT !.id = born.shards + 1, !.ignore = ignore] IN
           new \in Shard /\ new.id = born.shards + 1
<1> DEFINE new == [NewShard(part) EXCEPT !.id = born.shards + 1, !.ignore = ignore]
<1>1. born.shards + 1 \in 0 .. MaxIds /\ 0 \in 0 .. MaxIds
  BY ConstantsAssumption DEF BirthOfShard, Inv, Births
<1>2. NoArgs \in Args
  BY ZenonT(30) DEF NoArgs, Args
<1>3. NewShard(part) \in Shard
  BY <1>1, <1>2, FairTyped DEF NewShard, Shard, Strategies
<1> QED BY ZenonT(30), <1>1, <1>3 DEF Shard

\* The garbage collector, KAI's operator, and people who change no settings.
LEMMA OutsideSettles ==
    ASSUME Inv, Inv', Scope', KeptInv,
           \/ \E s \in ShardNames : GarbageCollect(s) \/ Deploy(s)
           \/ Release \/ EditPool \/ EditShard
    PROVE  KeptInv'
<1>0. TypeOK /\ live \in Store /\ stale \subseteq Event /\ born.pools \in Nat
  BY ZenonT(30) DEF Inv, TypeOK, Births
<1>1. ASSUME NEW s \in ShardNames, live.shards[s] # Gone, NEW ready \in BOOLEAN
      PROVE  LET obj == [live.shards[s] EXCEPT !.ready = ready] IN
             /\ obj \in Shard /\ obj # Gone /\ obj.id = live.shards[s].id
             /\ Predates(s) =>
                    /\ obj.owner = live.shards[s].owner /\ obj.part = live.shards[s].part
                    /\ obj.ignore = live.shards[s].ignore
                    /\ Keeps(obj, setup.shards[s])
  <2> DEFINE obj == [live.shards[s] EXCEPT !.ready = ready]
  <2>1. live.shards[s] \in Shard
    BY ZenonT(30), <1>0, <1>1 DEF Store
  <2>2. /\ obj \in Shard /\ obj.id = live.shards[s].id
        /\ obj.owner = live.shards[s].owner /\ obj.part = live.shards[s].part
        /\ obj.ignore = live.shards[s].ignore /\ obj.args = live.shards[s].args
        /\ obj.strategy = live.shards[s].strategy /\ obj.fair = live.shards[s].fair
    BY ZenonT(30), <2>1 DEF Shard
  <2> HIDE DEF obj
  <2>3. Predates(s) => Keeps(obj, setup.shards[s])
    BY ZenonT(30), <2>2 DEF KeptInv, ShardKept, Keeps
  <2>4. obj # Gone
    BY <2>2, ShardFields
  <2> QED BY ZenonT(30), <2>2, <2>3, <2>4 DEF obj
<1>2. ASSUME NEW s \in ShardNames, GarbageCollect(s) \/ Deploy(s) PROVE KeptInv'
  <2>1. /\ UNCHANGED <<setup, edits>> /\ born' = born /\ seen' = seen /\ krm' = krm /\ job' = job
        /\ hook' = hook
        /\ \/ StoreShard(s, Gone)
           \/ live.shards[s] # Gone /\ StoreShard(s, [live.shards[s] EXCEPT !.ready = TRUE])
    BY ZenonT(30), <1>2 DEF GarbageCollect, Deploy, Outside
  <2>2. CountStep /\ ViewsStep
    BY ZenonT(30), <2>1, CountSame, ViewsSame
  <2>3. CASE StoreShard(s, Gone)
    BY ZenonT(30), <2>1, <2>2, <2>3, ShardWriteKeeps
  <2>4. CASE live.shards[s] # Gone /\ StoreShard(s, [live.shards[s] EXCEPT !.ready = TRUE])
    <3> DEFINE obj == [live.shards[s] EXCEPT !.ready = TRUE]
    <3>1. /\ obj \in Shard /\ obj # Gone /\ obj.id = live.shards[s].id
          /\ Predates(s) =>
                    /\ obj.owner = live.shards[s].owner /\ obj.part = live.shards[s].part
                    /\ obj.ignore = live.shards[s].ignore
                    /\ Keeps(obj, setup.shards[s])
      BY ZenonT(30), <1>1, <2>4
    <3>2. StoreShard(s, obj)
      BY <2>4
    <3> HIDE DEF obj
    <3> QED BY ZenonT(30), <2>1, <2>2, <2>4, <3>1, <3>2, ShardWriteKeeps
  <2> QED BY ZenonT(30), <2>1, <2>3, <2>4
<1>3. CASE Release
  <2>1. /\ setup' = setup /\ live' = live /\ born' = born /\ seen' = seen /\ hook' = hook /\ job' = job
        /\ krm' = krm \/ krm' = "new"
    BY <1>3 DEF Release, Upgrade, Uninstall, Reinstall, Unstored
  <2>2. edits \subseteq edits'
    BY ZenonT(30), <1>3 DEF Release, Upgrade, Uninstall, Reinstall, Edit
  <2>3. CountStep
    BY <1>0, <2>1, <2>2 DEF CountStep
  <2>4. ViewsStep
    <3>1. krm' = krm \/ krm' # "in"
      BY <2>1
    <3> QED BY ZenonT(30), <2>1, <3>1, ViewsSame
  <2> QED BY ZenonT(30), <2>1, <2>3, <2>4, TouchedKeeps
<1>4. CASE EditPool
  <2>0. /\ setup' = setup /\ seen' = seen /\ krm' = krm /\ hook' = hook /\ job' = job
    BY ZenonT(30), <1>4 DEF EditPool, Outside
  <2>1. edits \subseteq edits' /\ ViewsStep
    BY ZenonT(30), <1>4, <2>0, ViewsSame DEF EditPool, Edit
  <2>2. CASE /\ Edit("createPool") /\ BirthOfPool
             /\ \E p \in Named : \E sel \in {"partition", "other"} :
                   live.pools[p] = Gone /\ StorePool(p, NewPool(p, sel, DefaultSpec))
    <3>1. PICK p \in Named : \E sel \in {"partition", "other"} :
                   live.pools[p] = Gone /\ StorePool(p, NewPool(p, sel, DefaultSpec))
      BY ZenonT(30), <2>2
    <3>2. PICK sel \in {"partition", "other"} :
                   live.pools[p] = Gone /\ StorePool(p, NewPool(p, sel, DefaultSpec))
      BY ZenonT(30), <3>1
    <3> DEFINE new == NewPool(p, sel, DefaultSpec)
    <3>3. born.pools < MaxIds /\ born'.pools = born.pools + 1
      BY <2>2 DEF BirthOfPool, Inv, Births
    <3>4. CountStep
      BY <1>0, <2>0, <2>1, <3>3 DEF CountStep
    <3>5. p \in Pools /\ new \in Pool
      BY <1>0, <3>3, NewPoolTyped, ConfigTyped DEF Pools
    <3>6. new.uid = <<p, born'.pools>> /\ new.dying = FALSE
      BY <3>3 DEF NewPool
    <3> HIDE DEF new
    <3>7. new # Gone /\ ~new.dying /\ born.pools < born'.pools
      BY <1>0, <3>3, <3>5, <3>6, PoolFields
    <3>8. PoolsStep /\ live'.shards = live.shards
      BY ZenonT(30), <1>0, <3>2, <3>5, <3>6, <3>7, PoolStored DEF new
    <3>9. ShardsStep
      BY ZenonT(30), <3>4, <3>8, SameStep
    <3>10. "deletePool" \notin edits
      <4>1. edits' \subseteq setup.edits /\ "createPool" \in edits'
        BY ZenonT(30), <2>2, EditTyped DEF Edit
      <4>2. ~({"createPool", "deletePool"} \subseteq setup.edits)
        BY ZenonT(30), <2>0 DEF Scope, FromScratch
      <4> QED BY <2>1, <4>1, <4>2
    <3>11. hook'.kind = "migrate" =>
             \A m \in hook.todo : live.pools[m.pool] = Gone => m.existing = Gone
      BY ZenonT(30), <2>0, <3>10 DEF KeptInv, HookKept, PlanKept
    <3> QED BY ZenonT(30), <2>0, <2>1, <3>4, <3>8, <3>9, <3>11, SteadyKeeps
  <2>3. CASE /\ Edit("deletePool") /\ UNCHANGED born
             /\ \E p \in Pools :
                   /\ live.pools[p] # Gone
                   /\ StorePool(p, WithFinalizer([live.pools[p] EXCEPT !.dying = TRUE], live.pools[p].fin))
    <3>1. PICK p \in Pools :
                   /\ live.pools[p] # Gone
                   /\ StorePool(p, WithFinalizer([live.pools[p] EXCEPT !.dying = TRUE], live.pools[p].fin))
      BY ZenonT(30), <2>3
    <3>2. "deletePool" \in edits' /\ CountStep
      BY <1>0, <2>0, <2>1, <2>3 DEF Edit, CountStep
    <3> DEFINE pool == [live.pools[p] EXCEPT !.dying = TRUE]
               obj == WithFinalizer(pool, live.pools[p].fin)
    <3>3. live.pools[p] \in Pool /\ live.pools[p].fin \in BOOLEAN
      BY ZenonT(30), <1>0, <3>1, PoolFields DEF Store
    <3>4. pool \in Pool /\ pool.uid = live.pools[p].uid /\ pool.cfg = live.pools[p].cfg
      BY ZenonT(30), <3>3 DEF Pool
    <3>5. StorePool(p, obj)
      BY ZenonT(30), <3>1
    <3> HIDE DEF pool
    <3>6. /\ obj \in Pool \cup {Gone}
          /\ obj = Gone \/ (obj # Gone /\ obj.uid = live.pools[p].uid /\ obj.cfg = live.pools[p].cfg)
      <4>1. obj \in Pool \cup {Gone}
        BY ZenonT(30), <3>3, <3>4, WithFinalizerTyped
      <4>2. obj = Gone \/ obj = [pool EXCEPT !.fin = live.pools[p].fin]
        BY ZenonT(30) DEF WithFinalizer
      <4>3. LET o == [pool EXCEPT !.fin = live.pools[p].fin] IN
            o.uid = live.pools[p].uid /\ o.cfg = live.pools[p].cfg
        BY ZenonT(30), <3>4 DEF Pool
      <4> HIDE DEF obj
      <4> QED BY ZenonT(30), <4>1, <4>2, <4>3
    <3> HIDE DEF obj
    <3>7. Touched(p, obj)
      BY ZenonT(30), <3>1, <3>2, <3>5, <3>6 DEF Touched
    <3> QED BY ZenonT(30), <2>0, <2>1, <3>2, <3>6, <3>7, TouchedKeeps
  <2>4. CASE Edit("editPool")
    <3>1. "editPool" \in edits'
      BY <2>4 DEF Edit
    <3> QED BY <3>1 DEF Scope
  <2> QED BY ZenonT(30), <1>4, <2>2, <2>3, <2>4 DEF EditPool
<1>5. CASE EditShard
  <2>0. /\ setup' = setup /\ seen' = seen /\ krm' = krm /\ hook' = hook /\ job' = job
    BY ZenonT(30), <1>5 DEF EditShard, Outside
  <2>1. edits \subseteq edits' /\ ViewsStep
    BY ZenonT(30), <1>5, <2>0, ViewsSame DEF EditShard, Edit
  <2>2. ASSUME BirthOfShard, NEW s \in ShardNames, NEW part \in Partitions, NEW ignore \in BOOLEAN,
               StoreShard(s, [NewShard(part) EXCEPT !.id = born.shards + 1, !.ignore = ignore])
        PROVE  KeptInv'
    <3> DEFINE obj == [NewShard(part) EXCEPT !.id = born.shards + 1, !.ignore = ignore]
    <3>1. obj \in Shard /\ obj.id = born.shards + 1
      BY ZenonT(30), <2>2, NewShardTyped
    <3>2. StoreShard(s, obj)
      BY ZenonT(30), <2>2
    <3> HIDE DEF obj
    <3>3. CountStep
      <4>1. born'.pools = born.pools
        BY <2>2 DEF BirthOfShard, Inv, Births
      <4> QED BY <1>0, <2>0, <2>1, <4>1 DEF CountStep
    <3> QED BY ZenonT(30), <2>0, <2>1, <3>1, <3>2, <3>3, ShardWriteKeeps
  <2>3. ASSUME born' = born, NEW s \in ShardNames, StoreShard(s, Gone) PROVE KeptInv'
    <3>1. CountStep
      BY <1>0, <2>0, <2>1, <2>3 DEF CountStep
    <3> QED BY ZenonT(30), <2>0, <2>1, <2>3, <3>1, ShardWriteKeeps
  <2>4. ASSUME born' = born, NEW s \in ShardNames, live.shards[s] # Gone,
               StoreShard(s, [live.shards[s] EXCEPT !.ready = FALSE])
        PROVE  KeptInv'
    <3> DEFINE obj == [live.shards[s] EXCEPT !.ready = FALSE]
    <3>1. /\ obj \in Shard /\ obj # Gone /\ obj.id = live.shards[s].id
          /\ Predates(s) =>
                    /\ obj.owner = live.shards[s].owner /\ obj.part = live.shards[s].part
                    /\ obj.ignore = live.shards[s].ignore
                    /\ Keeps(obj, setup.shards[s])
      BY ZenonT(30), <1>1, <2>4
    <3>2. StoreShard(s, obj)
      BY <2>4
    <3> HIDE DEF obj
    <3>3. CountStep
      BY <1>0, <2>0, <2>1, <2>4 DEF CountStep
    <3> QED BY ZenonT(30), <2>0, <2>1, <2>4, <3>1, <3>2, <3>3, ShardWriteKeeps
  <2>5. ASSUME Edit("handArg") PROVE FALSE
    <3>1. "handArg" \in edits'
      BY <2>5 DEF Edit
    <3> QED BY <3>1 DEF Scope
  <2> QED BY ZenonT(30), <1>5, <2>2, <2>3, <2>4, <2>5 DEF EditShard
<1> QED BY ZenonT(30), <1>2, <1>3, <1>4, <1>5

\* At a first install nothing is owned, planned or under way.
LEMMA InitSettles == ASSUME Init PROVE SettingsInv
<1> SUFFICES ASSUME FromScratch(setup) PROVE KeptInv
  BY ZenonT(30) DEF SettingsInv, Scope
<1>1. /\ live.pools = setup.pools /\ live.shards = setup.shards
      /\ born.pools = Cardinality({p \in Pools : setup.pools[p] # Gone})
      /\ hook.kind # "migrate" /\ job.step # "write" /\ krm # "in"
  <2>1. hook = NoHook /\ job = Idle /\ ~setup.running
    BY ZenonT(30) DEF Init, FromScratch
  <2>2. hook.kind # "migrate" /\ job.step # "write"
    BY <2>1 DEF NoHook, Idle
  <2>3. krm = "new"
    BY <2>1 DEF Init
  <2> QED BY <2>2, <2>3 DEF Init
<1>2. PoolIds
  BY ZenonT(30), <1>1 DEF PoolIds, FromScratch
<1>3. WriteKept /\ HookKept
  BY ZenonT(30), <1>1 DEF WriteKept, HookKept
<1>4. ASSUME NEW s \in ShardNames, Predates(s) PROVE ShardKept(s)
  <2>1. ~OwnedByPool(live.shards[s])
    BY ZenonT(30), <1>1, <1>4 DEF Predates, FromScratch
  <2>2. Keeps(live.shards[s], setup.shards[s])
    BY ZenonT(30), <1>1 DEF Keeps
  <2> QED BY ZenonT(30), <1>1, <2>1, <2>2 DEF ShardKept
<1> QED BY ZenonT(30), <1>2, <1>3, <1>4 DEF KeptInv

\* Every step keeps the invariant.
LEMMA NextSettles == ASSUME Inv, Inv', SettingsInv, [Next]_vars PROVE SettingsInv'
<1> SUFFICES ASSUME Scope' PROVE KeptInv'
  BY ZenonT(30) DEF SettingsInv
<1>1. setup' = setup /\ edits \subseteq edits'
  BY ZenonT(30) DEF Next, vars, Work, Hooks, Take, Restart, Sync, Rest, HookRest, CleanupRest, Outside,
      getSchedulerResources, CreateOrUpdateIfNeeded, reconcileNodePoolStatus, ReconcileNothing, Finalize,
      Reconcile, planMigrations, nodePoolForShard, migrate, ensureDefaultNodePool,
      deleteOperatorManagedDeployments, releaseAdoptedSchedulingShards, startStripping,
      stripNodePoolFinalizers, finishCleanup, GarbageCollect, Deploy, Release, Upgrade, Uninstall,
      Reinstall, EditPool, EditShard, Edit
<1>2. KeptInv
  <2>1. Scope
    BY <1>1 DEF Scope, FromScratch
  <2> QED BY ZenonT(30), <2>1 DEF SettingsInv
<1>3. CASE Work
  BY ZenonT(30), <1>2, <1>3, WantSettles, WriteSettles, StatusSettles DEF Work
<1>4. CASE Hooks
  BY ZenonT(30), <1>2, <1>4, PlanSettles, NodePoolSettles, MigrateSettles, EnsureSettles, CleanupSettles DEF Hooks
<1>5. CASE Restart \/ \E kind \in {"pools", "shards"} : Sync(kind)
  BY ZenonT(30), <1>2, <1>5, InformerSettles
<1>6. CASE \E p \in Pools : Take(p)
  BY ZenonT(30), <1>2, <1>6, TakeSettles
<1>7. CASE (\E s \in ShardNames : GarbageCollect(s) \/ Deploy(s)) \/ Release \/ EditPool \/ EditShard
  BY ZenonT(30), <1>2, <1>7, OutsideSettles
<1>8. CASE UNCHANGED vars
  <2>1. /\ UNCHANGED <<setup, edits>> /\ live' = live /\ born' = born /\ seen' = seen
        /\ job' = job /\ krm' = krm /\ hook' = hook
    BY <1>8 DEF vars
  <2> QED BY ZenonT(30), <1>2, <2>1, HookAlone
<1> QED BY ZenonT(30), <1>3, <1>4, <1>5, <1>6, <1>7, <1>8 DEF Next

\* When KRM is installed for the first time, every shard that was there before keeps its settings
\* (SettingsKept) through the migration with its failures and repetitions, whatever the lagging
\* caches of the controller show, and through upgrade, uninstall and reinstall.
THEOREM SettingsCorrect == Spec => [](FromScratch(setup) => SettingsKept)
<1>1. Init => Inv /\ SettingsInv
  BY ZenonT(30), InitKeeps, InitSettles
<1>2. Inv /\ [Next]_vars => Inv'
  BY ZenonT(30), NextKeeps
<1>3. Inv /\ Inv' /\ SettingsInv /\ [Next]_vars => SettingsInv'
  BY ZenonT(30), NextSettles
<1>4. SettingsInv => (FromScratch(setup) => SettingsKept)
  BY ZenonT(30) DEF SettingsInv, Scope, KeptInv, ShardKept, Keeps, SettingsKept
<1> QED BY <1>1, <1>2, <1>3, <1>4, PTL DEF Spec
=============================================================================
