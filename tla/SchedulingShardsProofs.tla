----------------------- MODULE SchedulingShardsProofs -----------------------
(* Proofs about SchedulingShards: its types, that the cleanup hook hands     *)
(* every shard back (HandedBack), and that it implements ShardCustody.       *)
(* ShardSettingsProofs goes on from here.                                    *)
(*                                                                          *)
(* The promise to a shard that predates KRM rests on what the caches, the    *)
(* reconcile in progress and the hooks remember of it:                       *)
(*   - a name is never used again for the same incarnation, so a cache that  *)
(*     lags still has the shard as long as the API server has it;            *)
(*   - whoever shows the shard in the hands of a NodePool, API server, cache *)
(*     or reconcile, also shows it as adopted;                               *)
(*   - the ownership the controller read can only have been taken back while *)
(*     no controller was running.                                            *)
EXTENDS SchedulingShards, FiniteSetTheorems, TLAPS

\* Z3 first, then Zenon; a leaf that cites Zenon starts with it.
USE SMTT(30), ZenonT(30)

\* A shard of this name was there at the start, and KRM had not created it.
Origin(s) == /\ setup.shards[s] # Gone
             /\ setup.shards[s].adopted \/ ~OwnedByPool(setup.shards[s])

\* Those shards still have it.
Has(shards, s) == shards[s] # Gone /\ shards[s].id = setup.shards[s].id

\* How far Helm operation, hook and controllers can be apart.
Control ==
    /\ krm = "stopped" => helm = "uninstall"
    /\ helm = "install" => krm = "new"
    /\ helm = "upgrade" => krm = "in"
    /\ helm = "uninstall" => krm \in {"in", "stopped"}
    /\ helm = "none" => hook = NoHook
    /\ hook.kind = "migrate" => helm \in {"install", "upgrade"}
    /\ hook.kind \in {"release", "strip"} => krm = "stopped"
    /\ krm # "in" => job = Idle

\* A NodePool that the controller read with its finalizer is still there.
PoolsKept ==
    /\ krm = "in" => \A p \in Pools :
          seen.pools[p] # Gone /\ seen.pools[p].fin /\ ~seen.pools[p].dying
          => live.pools[p] # Gone /\ live.pools[p].fin
    /\ job # Idle => live.pools[job.pool] # Gone /\ live.pools[job.pool].fin

\* Incarnations are counted, and those of the start are among them.
Births ==
    /\ DOMAIN born = {"pools", "shards"} /\ born.pools \in Nat /\ born.shards \in Nat
    /\ \A s \in ShardNames : setup.shards[s] # Gone => setup.shards[s].id <= born.shards

\* What API server and cache tell of a shard that predates KRM.
Held ==
    \A s \in ShardNames : Origin(s) =>
        /\ Has(live.shards, s) => Has(seen.shards, s)
        /\ Has(live.shards, s) /\ OwnedByPool(live.shards[s]) => live.shards[s].adopted
        /\ Has(seen.shards, s) /\ OwnedByPool(seen.shards[s]) => seen.shards[s].adopted
        /\ krm = "in" /\ Has(live.shards, s) /\ OwnedByPool(seen.shards[s])
           => OwnedByPool(live.shards[s])

\* What the reconcile in progress is about to write to it.
WriteHeld ==
    job.step = "write" =>
        /\ job.shard # Gone
        /\ Origin(job.name) /\ Has(live.shards, job.name) =>
              /\ ~job.fresh
              /\ job.shard.id = setup.shards[job.name].id =>
                    job.shard.adopted /\ OwnedByPool(live.shards[job.name])

\* What the cleanup hook has yet to release, and has released.
Releases ==
    /\ hook.kind = "release" =>
          \A s \in ShardNames : live.shards[s] # Gone /\ live.shards[s].adopted => s \in hook.todo
    /\ hook.kind = "strip" \/ krm = "out" =>
          \A s \in ShardNames : live.shards[s] # Gone => ~live.shards[s].adopted

CustodyInv == Held /\ WriteHeld /\ Releases

-----------------------------------------------------------------------------
(* The parts of the model that compute, and their types.                    *)

\* The fields of a shard.
LEMMA ShardFields ==
    ASSUME NEW sh \in Shard
    PROVE  /\ sh.id \in 0 .. MaxIds /\ sh.part \in Partitions /\ sh.owner \in Uids \cup {Nobody, Foreign}
           /\ sh.ignore \in BOOLEAN /\ sh.adopted \in BOOLEAN
           /\ sh.tracked \in (SUBSET Keys) \cup {Untracked}
           /\ sh.args \in Args /\ sh.strategy \in Strategies /\ sh.fair \in ShardFairness
           /\ sh.ready \in BOOLEAN /\ sh # Gone
BY ConstantsAssumption DEF Shard

\* The fields of a NodePool.
LEMMA PoolFields ==
    ASSUME NEW pool \in Pool
    PROVE  /\ pool.uid \in Uids /\ pool.uid[1] \in Pools /\ pool.cfg \in Config
           /\ pool.fin \in BOOLEAN /\ pool.dying \in BOOLEAN /\ pool # Gone
BY ConstantsAssumption DEF Pool, Uids

\* Names and partitions.
LEMMA PartitionNames ==
    /\ \A p \in Pools : PartitionLabelValueForNodePool(p) \in Partitions
    /\ \A part \in Partitions : NodePoolNameForPartitionLabelValue(part) \in Pools
    /\ Pools \subseteq ShardNames
BY ZenonT(30) DEF PartitionLabelValueForNodePool, NodePoolNameForPartitionLabelValue, Pools, Partitions, ShardNames

\* Fair share in either form, and as a merge patch leaves it.
LEMMA FairTyped ==
    /\ NoUsage \in ShardFairness /\ NoFairShare \in PoolFairness
    /\ \A fair \in PoolFairness : getTimeBasedFairShareFields(fair) \in ShardFairness
    /\ \A fair \in ShardFairness : Readable(fair) => timeBasedFairShareFromShard(fair) \in PoolFairness
    /\ \A now, old, new \in PoolFairness : PatchedFair(now, old, new) \in PoolFairness
<1>1. NoUsage \in ShardFairness
  BY DEF NoUsage, ShardFairness, Weights, Queries, Addresses, HalfLives, Windows
<1>2. NoFairShare \in PoolFairness
  BY DEF NoFairShare, PoolFairness, Weights, Queries, Addresses, HalfLives, Windows
<1>3. ASSUME NEW fair \in PoolFairness PROVE getTimeBasedFairShareFields(fair) \in ShardFairness
  BY <1>1 DEF getTimeBasedFairShareFields, Deref, ShardFairness, PoolFairness,
              Weights, Queries, Addresses, HalfLives, Windows
<1>4. ASSUME NEW fair \in ShardFairness, Readable(fair)
      PROVE  timeBasedFairShareFromShard(fair) \in PoolFairness
  BY <1>2, <1>4 DEF Readable, timeBasedFairShareFromShard, HistoricalUsageWeight, Deref,
              ShardFairness, PoolFairness, Weights, Queries, Addresses, HalfLives, Windows
<1>5. ASSUME NEW now \in PoolFairness, NEW old \in PoolFairness, NEW new \in PoolFairness
      PROVE  PatchedFair(now, old, new) \in PoolFairness
  BY DEF PatchedFair, Changed, PoolFairness
<1> QED BY <1>1, <1>2, <1>3, <1>4, <1>5

\* Merging args gives args.
LEMMA MergeArgs ==
    ASSUME NEW a \in Args, NEW b \in Args
    PROVE  Merge(a, b) \in Args
BY DEF Merge, Args

\* The shard that the controller wants keeps incarnation and label of the one it found.
LEMMA WantedShard ==
    ASSUME NEW found \in Shard \cup {Gone}, NEW pool \in Pool
    PROVE  LET new == SchedulingShardForNodePool(found, pool) IN
           /\ new \in Shard
           /\ found # Gone => new.id = found.id /\ new.adopted = found.adopted
<1> DEFINE part == PartitionLabelValueForNodePool(pool.uid[1])
           base == IF found = Gone THEN NewShard(part) ELSE found
           desired == buildShardArgs(pool.cfg)
           args == mergeShardArgs(base, desired)
           tracked == KeysOf(desired)
           fair == getTimeBasedFairShareFields(pool.cfg.fair)
<1>1. pool.cfg.args \in Args /\ pool.cfg.strategy \in Strategies /\ pool.cfg.fair \in PoolFairness
  BY PoolFields DEF Config
<1>2. part \in Partitions
  BY PoolFields, PartitionNames
<1>3. NoArgs \in Args
  BY DEF NoArgs, Args
<1>4. base \in Shard
  <2>1. 0 \in 0 .. MaxIds
    BY ConstantsAssumption
  <2>2. CASE found = Gone
    BY <1>2, <1>3, <2>1, <2>2, FairTyped DEF NewShard, Shard, Strategies
  <2> QED BY <2>2
<1>5. desired \in Args
  BY <1>1, MergeArgs, ConstantsAssumption DEF buildShardArgs
<1> HIDE DEF part, base, desired
<1>6. args \in Args
  <2> DEFINE byHand == [k \in Keys |-> IF base.tracked = Untracked \/ k \in base.tracked
                                       THEN Unset ELSE base.args[k]]
  <2>1. byHand \in Args
    BY <1>4, ShardFields DEF Args
  <2> HIDE DEF byHand
  <2>2. Merge(byHand, desired) \in Args
    BY <1>5, <2>1, MergeArgs
  <2> QED BY <2>2 DEF mergeShardArgs, byHand
<1>7. tracked \in SUBSET Keys
  BY DEF KeysOf
<1>8. fair \in ShardFairness
  BY <1>1, FairTyped
<1>9. SchedulingShardForNodePool(found, pool) =
        [base EXCEPT !.args = args, !.tracked = tracked, !.part = part,
                     !.strategy = pool.cfg.strategy, !.fair = fair]
  BY DEF SchedulingShardForNodePool, part, base, desired
<1> HIDE DEF args, tracked, fair
<1>10. SchedulingShardForNodePool(found, pool) \in Shard
  BY ZenonT(30), <1>1, <1>2, <1>4, <1>6, <1>7, <1>8, <1>9 DEF Shard
<1>11. found # Gone => /\ SchedulingShardForNodePool(found, pool).id = found.id
                       /\ SchedulingShardForNodePool(found, pool).adopted = found.adopted
  <2>1. found # Gone => base = found
    BY DEF base
  <2> QED BY <1>4, <1>9, <2>1 DEF Shard
<1> QED BY <1>10, <1>11

\* A new NodePool.
LEMMA NewPoolTyped ==
    ASSUME born.pools \in Nat, born.pools < MaxIds, NEW p \in Pools,
           NEW sel \in {"empty", "partition", "other"}, NEW cfg \in Config
    PROVE  NewPool(p, sel, cfg) \in Pool /\ NewPool(p, sel, cfg).uid \in Uids
<1>1. born.pools + 1 \in 1 .. MaxIds
  BY ConstantsAssumption
<1>2. <<p, born.pools + 1>> \in Uids
  BY <1>1 DEF Uids
<1> QED BY <1>2 DEF NewPool, Pool

\* A NodePool with or without its finalizer.
LEMMA WithFinalizerTyped ==
    ASSUME NEW pool \in Pool, NEW fin \in BOOLEAN
    PROVE  /\ WithFinalizer(pool, fin) \in Pool \cup {Gone}
           /\ fin => WithFinalizer(pool, fin) # Gone /\ WithFinalizer(pool, fin).fin
<1>1. [pool EXCEPT !.fin = fin] \in Pool /\ [pool EXCEPT !.fin = fin].fin = fin
  BY DEF Pool
<1> QED BY <1>1, PoolFields DEF WithFinalizer

\* Settings as a merge patch leaves them, as a shard has them, and of the default NodePool.
LEMMA ConfigTyped ==
    /\ \A cfg, read, wanted \in Config : Patched(cfg, read, wanted) \in Config
    /\ \A sh \in Shard : Readable(sh.fair) => SchedulingShardConfigFromShard(sh) \in Config
    /\ DefaultSpec \in Config
<1>1. ASSUME NEW cfg \in Config, NEW read \in Config, NEW wanted \in Config
      PROVE  Patched(cfg, read, wanted) \in Config
  <2>1. PatchedFair(cfg.fair, read.fair, wanted.fair) \in PoolFairness
    BY FairTyped DEF Config
  <2> QED BY <2>1 DEF Patched, Changed, Config, Args
<1>2. ASSUME NEW sh \in Shard, Readable(sh.fair)
      PROVE  SchedulingShardConfigFromShard(sh) \in Config
  <2>1. timeBasedFairShareFromShard(sh.fair) \in PoolFairness
    BY <1>2, ShardFields, FairTyped
  <2> QED BY <2>1, ShardFields DEF SchedulingShardConfigFromShard, Config
<1>3. DefaultSpec \in Config
  BY FairTyped DEF DefaultSpec, NoArgs, Config, Args, Strategies
<1> QED BY <1>1, <1>2, <1>3

\* The shard that a NodePool finds is its own.
LEMMA OwnShard ==
    ASSUME NEW shards, NEW p \in Pools, NEW uid
    PROVE  LET owned == resolveOwnedShardForNodePool(shards, p, uid)
               named == GetOrInitShardNamedAfterNodePool(shards, p, uid) IN
           /\ owned \in ShardNames \cup {None, Unresolvable}
           /\ owned \in ShardNames => shards[owned] # Gone /\ shards[owned].owner = uid
           /\ named \in ShardNames \cup {Unresolvable}
           /\ named \in ShardNames => shards[named] = Gone \/ shards[named].owner = uid
<1>1. /\ ResolveShardForNodePool(shards, p) \in ShardNames \cup {None, Unresolvable}
      /\ ResolveShardForNodePool(shards, p) \in ShardNames =>
            shards[ResolveShardForNodePool(shards, p)] # Gone
  <2> DEFINE found == ListShardsWithPartitionLabelValue(shards, PartitionLabelValueForNodePool(p))
  <2>1. \A s \in found : s \in ShardNames /\ shards[s] # Gone
    BY DEF ListShardsWithPartitionLabelValue
  <2>2. None \notin ShardNames /\ Unresolvable \notin ShardNames
    BY ConstantsAssumption
  <2> HIDE DEF found
  <2>3. ResolveShardForNodePool(shards, p) \in {None, Unresolvable} \/ ResolveShardForNodePool(shards, p) \in found
    <3>1. found # {} => (CHOOSE s \in found : TRUE) \in found
      OBVIOUS
    <3> QED BY <3>1 DEF ResolveShardForNodePool, found
  <2> QED BY <2>1, <2>2, <2>3
<1>2. p \in ShardNames /\ None \notin ShardNames /\ Unresolvable \notin ShardNames
  BY PartitionNames, ConstantsAssumption
<1> QED BY <1>1, <1>2 DEF resolveOwnedShardForNodePool, GetOrInitShardNamedAfterNodePool

\* What storing a NodePool does.
LEMMA StorePoolIs ==
    ASSUME live \in Store, stale \subseteq Event,
           NEW p \in Pools, NEW obj \in Pool \cup {Gone}, StorePool(p, obj)
    PROVE  /\ live'.shards = live.shards /\ live'.pools = [live.pools EXCEPT ![p] = obj]
           /\ live' \in Store
           /\ stale' \subseteq Event
<1>1. live' = [live EXCEPT !.pools = [live.pools EXCEPT ![p] = obj]]
  BY DEF StorePool
<1>2. live'.shards = live.shards /\ live'.pools = [live.pools EXCEPT ![p] = obj] /\ live' \in Store
  BY <1>1 DEF Store
<1>3. stale' \subseteq Event
  BY DEF StorePool, Event
<1> QED BY <1>2, <1>3

\* What storing a shard does: its event is for NodePools.
LEMMA StoreShardIs ==
    ASSUME live \in Store, stale \subseteq Event,
           NEW s \in ShardNames, NEW obj \in Shard \cup {Gone}, StoreShard(s, obj)
    PROVE  /\ live'.pools = live.pools /\ live'.shards = [live.shards EXCEPT ![s] = obj]
           /\ live' \in Store
           /\ stale' \subseteq Event
<1>1. live' = [live EXCEPT !.shards = [live.shards EXCEPT ![s] = obj]]
  BY DEF StoreShard
<1>2. live'.pools = live.pools /\ live'.shards = [live.shards EXCEPT ![s] = obj] /\ live' \in Store
  BY <1>1 DEF Store
<1>3. OwnersOf({obj, live.shards[s]}) \subseteq Pools
  BY DEF OwnersOf, OwnedByPool, Uids
<1>4. stale' \subseteq Event
  BY ZenonT(30), <1>3 DEF StoreShard, Event
<1> QED BY <1>2, <1>4

-----------------------------------------------------------------------------
(* What the invariants are, and what leaves them alone.                     *)

\* The inductive invariant.
Inv == TypeOK /\ Control /\ PoolsKept /\ Births /\ CustodyInv

\* Nothing that concerns shards changes.
SameShards == /\ live'.shards = live.shards /\ seen'.shards = seen.shards
              /\ UNCHANGED <<setup, krm>>

\* Without a change of shards, the promises to them stay.
LEMMA HeldFrame == Held /\ SameShards => Held'
BY DEF Held, SameShards, Origin, Has, OwnedByPool

\* So does what the reconcile remembers.
LEMMA WriteFrame == WriteHeld /\ SameShards /\ (job' = job \/ job'.step # "write") => WriteHeld'
BY DEF WriteHeld, SameShards, Origin, Has, OwnedByPool

\* And what the cleanup hook has released.
LEMMA ReleasesFrame ==
    ASSUME Releases, SameShards, hook' = hook \/ hook'.kind \notin {"release", "strip"}
    PROVE  Releases'
BY DEF Releases, SameShards

\* NodePools keep their finalizers.
SamePools == /\ \A p \in Pools : live.pools[p] # Gone /\ live.pools[p].fin
                                   => live'.pools[p] # Gone /\ live'.pools[p].fin
             /\ seen'.pools = seen.pools

\* NodePools that keep their finalizers stay known.
LEMMA PoolsFrame ==
    ASSUME TypeOK, PoolsKept, SamePools, krm' = krm \/ krm' # "in", job' = job \/ job' = Idle
    PROVE  PoolsKept'
<1>1. job # Idle => job.pool \in Pools
  BY DEF TypeOK, Job
<1> QED BY <1>1 DEF PoolsKept, SamePools

\* Counting another incarnation.
LEMMA BirthsFrame ==
    ASSUME Births, setup' = setup,
           \/ born' = born
           \/ born' = [born EXCEPT !.pools = @ + 1]
           \/ born' = [born EXCEPT !.shards = @ + 1] /\ TypeOK
    PROVE  Births'
<1>1. CASE born' = born \/ born' = [born EXCEPT !.pools = @ + 1]
  <2>1. DOMAIN born' = {"pools", "shards"} /\ born'.pools \in Nat /\ born'.shards = born.shards
    BY <1>1 DEF Births
  <2> QED BY <2>1 DEF Births
<1>2. CASE born' = [born EXCEPT !.shards = @ + 1] /\ TypeOK
  <2>1. DOMAIN born' = {"pools", "shards"} /\ born'.pools \in Nat /\ born'.shards = born.shards + 1
    BY <1>2 DEF Births
  <2>2. ASSUME NEW s \in ShardNames, setup.shards[s] # Gone
        PROVE  setup.shards[s].id <= born.shards + 1
    <3>1. setup.shards[s].id \in Nat /\ setup.shards[s].id <= born.shards /\ born.shards \in Nat
      <4>1. setup.shards[s] \in Shard
        BY ZenonT(30), <1>2, <2>2, ConstantsAssumption DEF TypeOK
      <4> QED BY <2>2, <4>1, ShardFields, ConstantsAssumption DEF Births
    <3> QED BY <3>1
  <2> QED BY <2>1, <2>2 DEF Births
<1> QED BY <1>1, <1>2

\* What may be stored of a shard that predates KRM: the same incarnation, as adopted if it is in
\* the hands of a NodePool, and out of them only when no controller runs.
Modest(s, obj) ==
    obj # Gone /\ Origin(s) /\ obj.id = setup.shards[s].id =>
        /\ Has(live.shards, s)
        /\ OwnedByPool(obj) => obj.adopted
        /\ krm = "in" /\ OwnedByPool(live.shards[s]) => OwnedByPool(obj)

\* Storing such an object keeps what API server and cache tell.
LEMMA HeldStore ==
    ASSUME TypeOK, Held, NEW s \in ShardNames, NEW obj, Modest(s, obj),
           live'.shards = [live.shards EXCEPT ![s] = obj], UNCHANGED <<setup, seen, krm>>
    PROVE  Held'
<1> SUFFICES ASSUME NEW t \in ShardNames, Origin(t)
             PROVE  /\ Has(live'.shards, t) => Has(seen.shards, t)
                    /\ Has(live'.shards, t) /\ OwnedByPool(live'.shards[t]) => live'.shards[t].adopted
                    /\ Has(seen.shards, t) /\ OwnedByPool(seen.shards[t]) => seen.shards[t].adopted
                    /\ krm = "in" /\ Has(live'.shards, t) /\ OwnedByPool(seen.shards[t])
                       => OwnedByPool(live'.shards[t])
  BY DEF Held, Origin, Has, OwnedByPool
<1>0. live.shards \in [ShardNames -> Shard \cup {Gone}]
  BY ZenonT(30) DEF TypeOK, Store
<1>1. CASE t # s
  <2>1. live'.shards[t] = live.shards[t]
    BY ZenonT(30), <1>0, <1>1
  <2> QED BY <2>1 DEF Held, Has
<1>2. CASE t = s
  <2>1. live'.shards[t] = obj
    BY ZenonT(30), <1>0, <1>2
  <2> QED BY <1>2, <2>1 DEF Held, Has, Modest
<1> QED BY ZenonT(30), <1>1, <1>2

\* It also keeps what the reconcile is about to write.
LEMMA WriteStore ==
    ASSUME TypeOK, Control, WriteHeld, NEW s \in ShardNames, NEW obj, Modest(s, obj),
           live'.shards = [live.shards EXCEPT ![s] = obj], UNCHANGED <<setup, job, krm>>
    PROVE  WriteHeld'
<1>0. live.shards \in [ShardNames -> Shard \cup {Gone}]
  BY ZenonT(30) DEF TypeOK, Store
<1> SUFFICES ASSUME job.step = "write", Origin(job.name), Has(live'.shards, job.name)
             PROVE  /\ ~job.fresh
                    /\ job.shard.id = setup.shards[job.name].id =>
                          job.shard.adopted /\ OwnedByPool(live'.shards[job.name])
  BY DEF WriteHeld, Origin, Has, OwnedByPool
<1>1. krm = "in"
  BY DEF Control, Idle
<1>2. CASE job.name # s
  <2>1. live'.shards[job.name] = live.shards[job.name]
    <3>1. job.name \in ShardNames
      BY DEF TypeOK, Job, Idle
    <3> QED BY <1>0, <1>2, <3>1
  <2> QED BY <2>1 DEF WriteHeld, Has
<1>3. CASE job.name = s
  <2>1. live'.shards[s] = obj
    BY <1>0
  <2> QED BY <1>1, <1>3, <2>1 DEF WriteHeld, Has, Modest
<1> QED BY <1>2, <1>3

\* While the cleanup hook works, storing a shard that is not adopted, or was already, is all right.
LEMMA ReleasesStore ==
    ASSUME TypeOK, Releases, NEW s \in ShardNames, NEW obj,
           obj # Gone /\ obj.adopted =>
              \/ live.shards[s] # Gone /\ live.shards[s].adopted
              \/ hook.kind \notin {"release", "strip"} /\ krm # "out",
           live'.shards = [live.shards EXCEPT ![s] = obj], UNCHANGED <<hook, krm>>
    PROVE  Releases'
<1>0. live.shards \in [ShardNames -> Shard \cup {Gone}]
  BY DEF TypeOK, Store
<1>1. live'.shards[s] = obj /\ \A t \in ShardNames \ {s} : live'.shards[t] = live.shards[t]
  BY <1>0
<1> QED BY <1>1 DEF Releases

-----------------------------------------------------------------------------
(* Steps of the controller.                                                 *)

\* The count of failures keeps its bound.
LEMMA FailuresTyped ==
    ASSUME TypeOK, failures' = failures \/ MayFail
    PROVE  failures' \in 0 .. MaxFailures
BY ConstantsAssumption DEF TypeOK, MayFail

\* What is left to show of a step that does not touch shards.
LEMMA PoolStep ==
    ASSUME Inv, TypeOK', Control', PoolsKept', Births', SameShards,
           job' = job \/ job'.step # "write",
           hook' = hook \/ hook'.kind \notin {"release", "strip"}
    PROVE  Inv'
BY HeldFrame, WriteFrame, ReleasesFrame DEF Inv, CustodyInv

\* Reconcile of a NodePool that is not there.
LEMMA ReconcileNothingKeeps == ASSUME Inv, NEW p \in Pools, ReconcileNothing(p) PROVE Inv'
<1> USE DEF ReconcileNothing, Rest, Unstored
<1>1. TypeOK'
  BY DEF Inv, TypeOK
<1>2. Control' /\ PoolsKept'
  BY PoolsFrame DEF Inv, Control, SamePools
<1>3. Births'
  BY BirthsFrame DEF Inv
<1> QED BY ZenonT(30), <1>1, <1>2, <1>3, PoolStep DEF SameShards

\* Only a NodePool that the controller knows to be dying loses its finalizer.
LEMMA FinalizeKeeps == ASSUME Inv, NEW p \in Pools, Finalize(p) PROVE Inv'
<1>0. live \in Store /\ stale \subseteq Event /\ TypeOK
  BY DEF Inv, TypeOK
<1>1. /\ krm = "in" /\ job = Idle /\ seen.pools[p].dying
      /\ UNCHANGED <<setup, krm, webhooks, helm, hook, hand, edits, seen, job, born>>
      /\ queued' \subseteq queued /\ (failures' = failures \/ MayFail)
  BY ZenonT(30) DEF Finalize, Rest, Running
<1>2. \/ UNCHANGED <<live, stale>>
      \/ live.pools[p] # Gone /\ StorePool(p, WithFinalizer(live.pools[p], FALSE))
  BY ZenonT(30) DEF Finalize, Unstored
<1>3. live' \in Store /\ stale' \subseteq Event /\ live'.shards = live.shards
      /\ \A q \in Pools \ {p} : live'.pools[q] = live.pools[q]
  <2>1. CASE UNCHANGED <<live, stale>>
    BY <1>0, <2>1
  <2>2. CASE live.pools[p] # Gone /\ StorePool(p, WithFinalizer(live.pools[p], FALSE))
    <3>1. live.pools[p] \in Pool
      BY <1>0, <2>2 DEF Store
    <3>2. WithFinalizer(live.pools[p], FALSE) \in Pool \cup {Gone}
      BY ZenonT(30), <3>1, WithFinalizerTyped
    <3>3. /\ live'.shards = live.shards
          /\ live'.pools = [live.pools EXCEPT ![p] = WithFinalizer(live.pools[p], FALSE)]
          /\ live' \in Store /\ stale' \subseteq Event
      BY ZenonT(30), <1>0, <2>2, <3>2, StorePoolIs
    <3> QED BY <1>0, <3>3 DEF Store
  <2> QED BY ZenonT(30), <1>2, <2>1, <2>2
<1>4. TypeOK'
  <2>1. failures' \in 0 .. MaxFailures
    BY ZenonT(30), <1>0, <1>1, FailuresTyped
  <2> QED BY <1>0, <1>1, <1>3, <2>1 DEF TypeOK
<1>5. Control' /\ PoolsKept'
  BY <1>1, <1>3 DEF Inv, Control, PoolsKept
<1>6. Births'
  BY ZenonT(30), <1>1, BirthsFrame DEF Inv
<1> QED BY ZenonT(30), <1>1, <1>3, <1>4, <1>5, <1>6, PoolStep DEF SameShards

\* A reconcile starts with the NodePool's finalizer in place.
LEMMA ReconcileKeeps == ASSUME Inv, NEW p \in Pools, Reconcile(p) PROVE Inv'
<1> DEFINE copy == [seen.pools[p] EXCEPT !.fin = TRUE]
           started == [step |-> "shard", pool |-> p, copy |-> copy, failed |-> FALSE,
                       name |-> p, shard |-> Gone, fresh |-> TRUE]
<1>0. live \in Store /\ seen \in Store /\ stale \subseteq Event /\ TypeOK
  BY DEF Inv, TypeOK
<1>1. /\ krm = "in" /\ job = Idle /\ seen.pools[p] # Gone /\ ~seen.pools[p].dying
      /\ UNCHANGED <<setup, krm, webhooks, helm, hook, hand, edits, seen, born>>
      /\ queued' \subseteq queued /\ (failures' = failures \/ MayFail)
  BY ZenonT(30) DEF Reconcile, Rest, Running
<1>2. \/ job' = job /\ UNCHANGED <<live, stale>>
      \/ job' = started /\ seen.pools[p].fin /\ UNCHANGED <<live, stale>>
      \/ job' = started /\ live.pools[p] # Gone /\ StorePool(p, WithFinalizer(live.pools[p], TRUE))
  BY ZenonT(30) DEF Reconcile, Unstored
<1>3. started \in Job
  <2>1. seen.pools[p] \in Pool
    BY <1>0, <1>1 DEF Store
  <2>2. copy \in Pool
    BY ZenonT(30), <2>1 DEF Pool
  <2> HIDE DEF copy
  <2>3. p \in ShardNames
    BY PartitionNames
  <2> QED BY <2>2, <2>3 DEF Job
<1>4. /\ live' \in Store /\ stale' \subseteq Event /\ live'.shards = live.shards
      /\ \A q \in Pools : live.pools[q] # Gone /\ live.pools[q].fin
                            => live'.pools[q] # Gone /\ live'.pools[q].fin
      /\ job' = job \/ (job' = started /\ live'.pools[p] # Gone /\ live'.pools[p].fin)
  <2>1. CASE UNCHANGED <<live, stale>> /\ (job' = job \/ (job' = started /\ seen.pools[p].fin))
    BY <1>0, <1>1, <2>1 DEF Inv, PoolsKept
  <2>2. CASE job' = started /\ live.pools[p] # Gone /\ StorePool(p, WithFinalizer(live.pools[p], TRUE))
    <3>1. live.pools[p] \in Pool
      BY <1>0, <2>2 DEF Store
    <3>2. /\ WithFinalizer(live.pools[p], TRUE) \in Pool
          /\ WithFinalizer(live.pools[p], TRUE) # Gone /\ WithFinalizer(live.pools[p], TRUE).fin
      BY ZenonT(30), <3>1, WithFinalizerTyped
    <3>3. /\ live'.shards = live.shards
          /\ live'.pools = [live.pools EXCEPT ![p] = WithFinalizer(live.pools[p], TRUE)]
          /\ live' \in Store /\ stale' \subseteq Event
      BY ZenonT(30), <1>0, <2>2, <3>2, StorePoolIs
    <3> QED BY ZenonT(30), <1>0, <2>2, <3>2, <3>3 DEF Store
  <2> QED BY ZenonT(30), <1>2, <2>1, <2>2
<1> HIDE DEF started
<1>5. TypeOK'
  <2>1. failures' \in 0 .. MaxFailures
    BY ZenonT(30), <1>0, <1>1, FailuresTyped
  <2>2. job' \in Job \cup {Idle}
    BY ZenonT(30), <1>0, <1>3, <1>4 DEF TypeOK
  <2> QED BY ZenonT(30), <1>0, <1>1, <1>4, <2>1, <2>2 DEF TypeOK
<1>6. Control'
  BY ZenonT(30), <1>1 DEF Inv, Control
<1>7. PoolsKept'
  <2>1. started.pool = p
    BY DEF started
  <2> QED BY <1>1, <1>4, <2>1 DEF Inv, PoolsKept
<1>8. Births'
  BY <1>1, BirthsFrame DEF Inv
<1>9. job' = job \/ job'.step # "write"
  BY <1>4 DEF started
<1> QED BY <1>1, <1>4, <1>5, <1>6, <1>7, <1>8, <1>9, PoolStep DEF SameShards

\* The shard to write was read as the NodePool's own: if it predates KRM, it is adopted.
LEMMA ResourcesKeeps == ASSUME Inv, getSchedulerResources PROVE Inv'
<1> DEFINE uid == job.copy.uid
           owned == resolveOwnedShardForNodePool(seen.shards, job.pool, uid)
           s == IF owned # None THEN owned
                ELSE GetOrInitShardNamedAfterNodePool(seen.shards, job.pool, uid)
           wanted == SchedulingShardForNodePool(seen.shards[s], job.copy)
<1>0. live \in Store /\ seen \in Store /\ TypeOK /\ krm = "in" /\ job.step = "shard"
  BY DEF Inv, TypeOK, getSchedulerResources, Running
<1>1. job \in Job
  BY <1>0 DEF TypeOK, Idle
<1>2. job.pool \in Pools /\ job.copy \in Pool /\ uid \in Uids
  BY <1>1, PoolFields DEF Job
<1>3. \/ job' = [job EXCEPT !.step = "status", !.failed = TRUE]
      \/ /\ s # Unresolvable
         /\ job' = [job EXCEPT !.step = "write", !.name = s, !.fresh = (seen.shards[s] = Gone),
                               !.shard = wanted]
  BY DEF getSchedulerResources
<1>4. UNCHANGED <<setup, krm, webhooks, helm, hook, hand, edits, seen, queued, born, failures, live, stale>>
  BY ZenonT(30) DEF getSchedulerResources, Rest, Unstored
<1>5. s # Unresolvable => s \in ShardNames /\ (seen.shards[s] = Gone \/ seen.shards[s].owner = uid)
  BY <1>2, OwnShard
<1> HIDE DEF uid, s
<1>6. s # Unresolvable =>
         /\ wanted \in Shard /\ wanted # Gone
         /\ seen.shards[s] # Gone => wanted.id = seen.shards[s].id /\ wanted.adopted = seen.shards[s].adopted
  <2>1. ASSUME s # Unresolvable PROVE seen.shards[s] \in Shard \cup {Gone}
    BY <1>0, <1>5, <2>1 DEF Store
  <2> QED BY ZenonT(30), <1>2, <2>1, WantedShard, ShardFields
<1> HIDE DEF wanted
<1>7. job' \in Job /\ job'.pool = job.pool
  BY ZenonT(30), <1>1, <1>3, <1>5, <1>6 DEF Job
<1>8. TypeOK'
  BY ZenonT(30), <1>0, <1>4, <1>7 DEF TypeOK
<1>9. Control' /\ PoolsKept'
  <2>1. job # Idle
    BY <1>0 DEF Idle
  <2> QED BY <1>0, <1>4, <1>7, <2>1 DEF Inv, Control, PoolsKept
<1>10. Births'
  BY <1>4, BirthsFrame DEF Inv
<1>11. Held' /\ Releases'
  BY <1>4, HeldFrame, ReleasesFrame DEF SameShards, Inv, CustodyInv
<1>12. WriteHeld'
  <2>1. CASE job' = [job EXCEPT !.step = "status", !.failed = TRUE]
    BY <1>1, <2>1 DEF WriteHeld, Job
  <2>2. CASE /\ s # Unresolvable
             /\ job' = [job EXCEPT !.step = "write", !.name = s, !.fresh = (seen.shards[s] = Gone),
                               !.shard = wanted]
    <3>1. job'.name = s /\ job'.fresh = (seen.shards[s] = Gone) /\ job'.shard = wanted
      BY <1>1, <2>2 DEF Job
    <3>2. ASSUME Origin(s), Has(live.shards, s)
          PROVE  /\ seen.shards[s] # Gone
                 /\ wanted.id = setup.shards[s].id => wanted.adopted /\ OwnedByPool(live.shards[s])
      <4>1. Has(seen.shards, s)
        BY <1>5, <2>2, <3>2 DEF Inv, CustodyInv, Held
      <4>2. OwnedByPool(seen.shards[s])
        BY ZenonT(30), <1>2, <1>5, <2>2, <4>1 DEF OwnedByPool, Has
      <4> QED BY ZenonT(30), <1>0, <1>5, <1>6, <2>2, <3>2, <4>1, <4>2 DEF Inv, CustodyInv, Held, Has
    <3> QED BY ZenonT(30), <1>4, <1>6, <2>2, <3>1, <3>2 DEF WriteHeld, Origin, Has, OwnedByPool
  <2> QED BY <1>3, <2>1, <2>2
<1> QED BY ZenonT(30), <1>8, <1>9, <1>10, <1>11, <1>12 DEF Inv, CustodyInv

\* What writing the shard comes to: nothing, a new shard, or an update of one that, if it
\* predates KRM, is a NodePool's and adopted.
LEMMA WriteCases ==
    ASSUME Inv, CreateOrUpdateIfNeeded
    PROVE  \E obj \in Shard :
             \/ UNCHANGED <<live, stale, born>>
             \/ /\ live.shards[job.name] = Gone /\ BirthOfShard
                /\ StoreShard(job.name, obj) /\ obj.id = born.shards + 1
             \/ /\ live.shards[job.name] # Gone /\ UNCHANGED born
                /\ StoreShard(job.name, obj) /\ obj.id = live.shards[job.name].id
                /\ OwnedByPool(obj)
                /\ Origin(job.name) /\ Has(live.shards, job.name)
                   => obj.adopted /\ OwnedByPool(live.shards[job.name])
<1> DEFINE s == job.name
           desired == [job.shard EXCEPT !.owner = job.copy.uid]
           made == [desired EXCEPT !.id = born.shards + 1, !.ready = FALSE]
           updated == [desired EXCEPT !.id = live.shards[s].id, !.ready = live.shards[s].ready]
<1>0. TypeOK /\ live \in Store /\ seen \in Store /\ job.step = "write"
  BY DEF Inv, TypeOK, CreateOrUpdateIfNeeded
<1>1. job \in Job
  BY <1>0 DEF TypeOK, Idle
<1>2. s \in ShardNames /\ job.copy \in Pool /\ job.copy.uid \in Uids
  BY ZenonT(30), <1>1, PoolFields DEF Job
<1>3. job.shard \in Shard /\ WriteHeld
  BY <1>0, <1>1 DEF Inv, CustodyInv, WriteHeld, Job
<1>4. desired \in Shard /\ desired.owner = job.copy.uid /\ desired.adopted = job.shard.adopted
  BY <1>2, <1>3 DEF Shard
<1>5. \/ UNCHANGED <<live, stale, born>>
      \/ live.shards[s] = Gone /\ BirthOfShard /\ StoreShard(s, made)
      \/ /\ seen.shards[s] # Gone /\ ~Conflict(s) /\ UNCHANGED born /\ StoreShard(s, updated)
  BY DEF CreateOrUpdateIfNeeded, Unstored
<1> HIDE DEF s, desired
<1>6. CASE UNCHANGED <<live, stale, born>>
  BY <1>3, <1>6
<1>7. CASE live.shards[s] = Gone /\ BirthOfShard /\ StoreShard(s, made)
  <2>1. born.shards + 1 \in 0 .. MaxIds
    BY <1>7, ConstantsAssumption DEF BirthOfShard, Inv, Births
  <2>2. made \in Shard /\ made.id = born.shards + 1
    BY ZenonT(30), <1>4, <2>1 DEF Shard
  <2> HIDE DEF made
  <2> QED BY <1>7, <2>2 DEF s
<1>8. CASE seen.shards[s] # Gone /\ ~Conflict(s) /\ UNCHANGED born /\ StoreShard(s, updated)
  <2>1. live.shards[s] = seen.shards[s] /\ (job.fresh \/ job.shard.id = seen.shards[s].id)
    BY <1>8 DEF Conflict
  <2>2. live.shards[s] \in Shard
    BY <1>0, <1>2, <1>8, <2>1 DEF Store
  <2>3. live.shards[s].id \in 0 .. MaxIds /\ live.shards[s].ready \in BOOLEAN
    BY <2>2, ShardFields
  <2>4. /\ updated \in Shard /\ updated.id = live.shards[s].id
        /\ updated.owner = job.copy.uid /\ updated.adopted = job.shard.adopted
    BY ZenonT(30), <1>4, <2>3 DEF Shard
  <2>5. OwnedByPool(updated)
    BY ZenonT(30), <1>2, <2>4 DEF OwnedByPool
  <2> HIDE DEF updated
  <2>6. Origin(s) /\ Has(live.shards, s) => updated.adopted /\ OwnedByPool(live.shards[s])
    BY ZenonT(30), <1>0, <1>3, <2>1, <2>4 DEF WriteHeld, Has, s
  <2> QED BY <1>8, <2>1, <2>4, <2>5, <2>6 DEF s
<1> QED BY <1>5, <1>6, <1>7, <1>8

\* A new shard, or one that comes out of a write as it has to.
LEMMA ShardStored ==
    ASSUME Inv, NEW s \in ShardNames, NEW obj \in Shard \cup {Gone}, StoreShard(s, obj),
           UNCHANGED <<setup, seen, krm>>, Modest(s, obj)
    PROVE  /\ Held'
           /\ live'.shards = [live.shards EXCEPT ![s] = obj] /\ live'.pools = live.pools
           /\ live' \in Store /\ stale' \subseteq Event
<1>1. TypeOK /\ Held /\ live \in Store /\ stale \subseteq Event
  BY ZenonT(30) DEF Inv, CustodyInv, TypeOK
<1>2. /\ live'.shards = [live.shards EXCEPT ![s] = obj] /\ live'.pools = live.pools
      /\ live' \in Store /\ stale' \subseteq Event
  BY <1>1, StoreShardIs
<1> QED BY ZenonT(30), <1>1, <1>2, HeldStore

\* A new incarnation is not one of the start.
LEMMA NewIsModest ==
    ASSUME Inv, NEW s \in ShardNames, NEW obj \in Shard, obj.id = born.shards + 1
    PROVE  Modest(s, obj)
<1> SUFFICES ASSUME Origin(s), obj.id = setup.shards[s].id PROVE FALSE
  BY ZenonT(30) DEF Modest
<1>1. setup.shards[s] # Gone /\ setup.shards[s].id <= born.shards /\ born.shards \in Nat
  BY DEF Origin, Inv, Births
<1> QED BY <1>1

\* Writing the shard.
LEMMA WriteKeeps == ASSUME Inv, CreateOrUpdateIfNeeded PROVE Inv'
<1>0. TypeOK /\ live \in Store /\ stale \subseteq Event /\ job.step = "write" /\ krm = "in"
  BY DEF Inv, TypeOK, CreateOrUpdateIfNeeded, Running
<1>1. job \in Job
  BY <1>0 DEF TypeOK, Idle
<1>2. job.name \in ShardNames
  BY <1>1 DEF Job
<1>3. UNCHANGED <<setup, krm, webhooks, helm, hook, hand, edits, seen, queued>>
      /\ (failures' = failures \/ MayFail)
  BY DEF CreateOrUpdateIfNeeded, Rest
<1>4. \E failed \in BOOLEAN :
         job' = [job EXCEPT !.step = "status", !.failed = failed, !.shard = Gone, !.fresh = TRUE]
  <2> DEFINE desired == [job.shard EXCEPT !.owner = job.copy.uid]
             accepted == job.fresh /\ ShardValidateCreate(job.name, desired)
             ended(failed) == job' = [job EXCEPT !.step = "status", !.failed = failed,
                                                 !.shard = Gone, !.fresh = TRUE]
  <2>1. ended(FALSE) \/ ended(TRUE) \/ ended(~accepted)
    BY DEF CreateOrUpdateIfNeeded
  <2>2. (~accepted) \in BOOLEAN
    OBVIOUS
  <2> HIDE DEF accepted
  <2> QED BY ZenonT(30), <2>1, <2>2
<1>5. job' \in Job /\ job'.pool = job.pool /\ job'.step = "status"
  <2>1. PICK failed \in BOOLEAN :
           job' = [job EXCEPT !.step = "status", !.failed = failed, !.shard = Gone, !.fresh = TRUE]
    BY ZenonT(30), <1>4
  <2> QED BY ZenonT(30), <1>1, <2>1 DEF Job
<1>6. PICK obj \in Shard :
             \/ UNCHANGED <<live, stale, born>>
             \/ /\ live.shards[job.name] = Gone /\ BirthOfShard
                /\ StoreShard(job.name, obj) /\ obj.id = born.shards + 1
             \/ /\ live.shards[job.name] # Gone /\ UNCHANGED born
                /\ StoreShard(job.name, obj) /\ obj.id = live.shards[job.name].id
                /\ OwnedByPool(obj)
                /\ Origin(job.name) /\ Has(live.shards, job.name)
                   => obj.adopted /\ OwnedByPool(live.shards[job.name])
  BY WriteCases
<1>7. Births'
  BY ZenonT(30), <1>0, <1>3, <1>6, BirthsFrame DEF BirthOfShard, Inv
<1>8. /\ Held' /\ Releases' /\ live'.pools = live.pools /\ live' \in Store /\ stale' \subseteq Event
  <2>1. CASE UNCHANGED <<live, stale, born>>
    BY ZenonT(30), <1>0, <1>3, <2>1, HeldFrame, ReleasesFrame DEF SameShards, Inv, CustodyInv
  <2>2. CASE StoreShard(job.name, obj) /\ Modest(job.name, obj)
    <3>1. /\ Held' /\ live'.shards = [live.shards EXCEPT ![job.name] = obj]
          /\ live'.pools = live.pools /\ live' \in Store /\ stale' \subseteq Event
      BY <1>2, <1>3, <2>2, ShardStored
    <3>2. hook.kind \notin {"release", "strip"} /\ krm # "out"
      BY <1>0 DEF Inv, Control
    <3>3. Releases'
      BY ZenonT(30), <1>0, <1>2, <1>3, <3>1, <3>2, ReleasesStore DEF Inv, CustodyInv
    <3> QED BY <3>1, <3>3
  <2>3. CASE StoreShard(job.name, obj) /\ obj.id = born.shards + 1
    BY ZenonT(30), <1>2, <2>2, <2>3, NewIsModest
  <2>4. CASE /\ live.shards[job.name] # Gone /\ StoreShard(job.name, obj)
             /\ obj.id = live.shards[job.name].id /\ OwnedByPool(obj)
             /\ Origin(job.name) /\ Has(live.shards, job.name)
                   => obj.adopted /\ OwnedByPool(live.shards[job.name])
    <3>1. Modest(job.name, obj)
      BY <2>4 DEF Modest, Has
    <3> QED BY ZenonT(30), <2>2, <2>4, <3>1
  <2> QED BY <1>6, <2>1, <2>3, <2>4
<1>9. TypeOK'
  <2>1. failures' \in 0 .. MaxFailures
    BY ZenonT(30), <1>0, <1>3, FailuresTyped
  <2> QED BY ZenonT(30), <1>0, <1>3, <1>5, <1>8, <2>1 DEF TypeOK
<1>10. Control' /\ PoolsKept'
  <2>1. job # Idle /\ job' # Idle
    BY <1>0, <1>5 DEF Idle
  <2> QED BY ZenonT(30), <1>0, <1>3, <1>5, <1>8, <2>1 DEF Inv, Control, PoolsKept
<1>11. WriteHeld'
  BY ZenonT(30), <1>5 DEF WriteHeld
<1> QED BY ZenonT(30), <1>7, <1>8, <1>9, <1>10, <1>11 DEF Inv, CustodyInv

\* Reporting the status: the NodePool is still there.
LEMMA StatusKeeps == ASSUME Inv, reconcileNodePoolStatus PROVE Inv'
<1> DEFINE p == job.pool
           status == SchedulingShardStatus(seen.shards, p, job.copy.uid)
           obj == [live.pools[p] EXCEPT !.status = status]
<1>0. TypeOK /\ live \in Store /\ stale \subseteq Event /\ job.step = "status" /\ krm = "in"
  BY ZenonT(30) DEF Inv, TypeOK, reconcileNodePoolStatus, Running
<1>1. job \in Job /\ job # Idle
  BY <1>0 DEF TypeOK, Idle
<1>2. p \in Pools /\ live.pools[p] \in Pool /\ live.pools[p].fin
  <2>1. p \in Pools
    BY <1>1 DEF Job
  <2>2. live.pools[p] # Gone /\ live.pools[p].fin
    BY <1>1 DEF Inv, PoolsKept
  <2> QED BY <1>0, <2>1, <2>2 DEF Store
<1>3. /\ UNCHANGED <<setup, krm, webhooks, helm, hook, hand, edits, seen, born>>
      /\ (failures' = failures \/ MayFail) /\ job' = Idle
      /\ queued' \subseteq queued \cup {p}
  BY DEF reconcileNodePoolStatus, Rest, Done
<1>4. UNCHANGED <<live, stale>> \/ StorePool(p, obj)
  BY ZenonT(30) DEF reconcileNodePoolStatus, Unstored
<1>5. obj \in Pool /\ obj # Gone /\ obj.fin
  <2>1. status \in {"new", "served", "waiting", "unresolvable"}
    BY DEF SchedulingShardStatus
  <2> HIDE DEF status
  <2>2. obj \in Pool /\ obj.fin
    BY <1>2, <2>1 DEF Pool
  <2> HIDE DEF obj
  <2> QED BY <2>2, PoolFields
<1> HIDE DEF p, obj
<1>6. /\ live' \in Store /\ stale' \subseteq Event /\ live'.shards = live.shards
      /\ \A q \in Pools : live.pools[q] # Gone /\ live.pools[q].fin
                            => live'.pools[q] # Gone /\ live'.pools[q].fin
  <2>1. CASE UNCHANGED <<live, stale>>
    BY <1>0, <2>1
  <2>2. CASE StorePool(p, obj)
    <3>1. /\ live'.shards = live.shards /\ live'.pools = [live.pools EXCEPT ![p] = obj]
          /\ live' \in Store /\ stale' \subseteq Event
      BY ZenonT(30), <1>0, <1>2, <1>5, <2>2, StorePoolIs
    <3> QED BY ZenonT(30), <1>0, <1>2, <1>5, <3>1 DEF Store
  <2> QED BY <1>4, <2>1, <2>2
<1>7. TypeOK'
  <2>1. failures' \in 0 .. MaxFailures
    BY <1>0, <1>3, FailuresTyped
  <2> QED BY ZenonT(30), <1>0, <1>2, <1>3, <1>6, <2>1 DEF TypeOK
<1>8. Control' /\ PoolsKept'
  <2>1. PoolsKept'
    BY <1>0, <1>3, <1>6, PoolsFrame DEF SamePools, Inv
  <2>2. Control'
    BY <1>3 DEF Inv, Control
  <2> QED BY <2>1, <2>2
<1>9. Births'
  BY <1>3, BirthsFrame DEF Inv
<1>10. job'.step # "write"
  BY <1>3 DEF Idle
<1> QED BY ZenonT(30), <1>3, <1>6, <1>7, <1>8, <1>9, <1>10, PoolStep DEF SameShards

\* The cache catches up.
LEMMA SyncKeeps == ASSUME Inv, NEW kind \in {"pools", "shards"}, Sync(kind) PROVE Inv'
<1>0. TypeOK /\ live \in Store /\ seen \in Store /\ stale \subseteq Event
  BY DEF Inv, TypeOK
<1>1. /\ UNCHANGED <<setup, krm, webhooks, helm, hook, hand, edits, live, job, born, failures>>
      /\ stale' \subseteq stale /\ seen' = [seen EXCEPT ![kind] = live[kind]]
  BY DEF Sync, Rest
<1>2. /\ seen' \in Store
      /\ seen'.pools = seen.pools \/ seen'.pools = live.pools
      /\ seen'.shards = seen.shards \/ seen'.shards = live.shards
  <2>1. CASE kind = "pools"
    <3>1. seen' = [seen EXCEPT !.pools = live.pools]
      BY ZenonT(30), <1>1, <2>1
    <3> QED BY <1>0, <3>1 DEF Store
  <2>2. CASE kind = "shards"
    <3>1. seen' = [seen EXCEPT !.shards = live.shards]
      BY ZenonT(30), <1>1, <2>2
    <3> QED BY <1>0, <3>1 DEF Store
  <2> QED BY <2>1, <2>2
<1>3. queued' \subseteq Pools
  BY ZenonT(30), <1>0 DEF Sync, Event, TypeOK
<1>4. TypeOK'
  BY ZenonT(30), <1>0, <1>1, <1>2, <1>3 DEF TypeOK
<1>5. Control' /\ PoolsKept'
  BY <1>1, <1>2 DEF Inv, Control, PoolsKept
<1>6. Births'
  BY <1>1, BirthsFrame DEF Inv
<1>7. Held'
  <2>1. CASE seen'.shards = seen.shards
    BY ZenonT(30), <1>1, <2>1, HeldFrame DEF SameShards, Inv, CustodyInv
  <2>2. CASE seen'.shards = live.shards
    BY ZenonT(30), <1>1, <2>2 DEF Held, Has, Origin, OwnedByPool, Inv, CustodyInv
  <2> QED BY <1>2, <2>1, <2>2
<1>8. WriteHeld' /\ Releases'
  BY ZenonT(30), <1>1 DEF WriteHeld, Releases, Has, Origin, OwnedByPool, Inv, CustodyInv
<1> QED BY ZenonT(30), <1>4, <1>5, <1>6, <1>7, <1>8 DEF Inv, CustodyInv

\* A controller that starts knows what there is.
LEMMA StartedKeeps ==
    ASSUME Held, UNCHANGED setup, live'.shards = live.shards,
           seen' = live', job' = Idle
    PROVE  Held' /\ PoolsKept' /\ WriteHeld'
BY DEF Held, PoolsKept, WriteHeld, Idle, Has, Origin, OwnedByPool

\* The controller restarts.
LEMMA RestartKeeps == ASSUME Inv, Restart PROVE Inv'
<1>0. TypeOK /\ live \in Store
  BY DEF Inv, TypeOK
<1>1. /\ UNCHANGED <<setup, krm, webhooks, helm, hook, hand, edits, live, born>>
      /\ seen' = live' /\ stale' = {} /\ job' = Idle /\ queued' \subseteq Pools /\ MayFail
  BY DEF Restart, Started, Rest
<1>2. TypeOK'
  <2>1. failures' \in 0 .. MaxFailures
    BY ZenonT(30), <1>0, <1>1, FailuresTyped
  <2> QED BY <1>0, <1>1, <2>1 DEF TypeOK
<1>3. Held' /\ PoolsKept' /\ WriteHeld'
  BY <1>1, StartedKeeps DEF Inv, CustodyInv
<1>4. Control'
  BY <1>1 DEF Inv, Control
<1>5. Births'
  BY ZenonT(30), <1>1, BirthsFrame DEF Inv
<1>6. Releases'
  BY ZenonT(30), <1>1 DEF Inv, CustodyInv, Releases
<1> QED BY ZenonT(30), <1>2, <1>3, <1>4, <1>5, <1>6 DEF Inv, CustodyInv

-----------------------------------------------------------------------------
(* Steps of the migration hook.                                             *)

\* A migration is one the hook can carry out.
LEMMA MigrationTyped ==
    ASSUME live \in Store, NEW s \in shardsToMigrate, Plannable(s)
    PROVE  Migration(s) \in Plan
<1>1. s \in ShardNames /\ live.shards[s] \in Shard
  BY ZenonT(30) DEF shardsToMigrate, Store
<1>2. live.shards[s].part \in Partitions /\ Readable(live.shards[s].fair)
  BY ZenonT(30), <1>1, ShardFields DEF Plannable
<1>3. NodePoolNameForPartitionLabelValue(live.shards[s].part) \in Pools
  BY ZenonT(30), <1>2, PartitionNames
<1>4. live.pools[NodePoolNameForPartitionLabelValue(live.shards[s].part)] \in Pool \cup {Gone}
  BY ZenonT(30), <1>3 DEF Store
<1>5. SchedulingShardConfigFromShard(live.shards[s]) \in Config
  BY ZenonT(30), <1>1, <1>2, ConfigTyped
<1> QED BY ZenonT(30), <1>1, <1>2, <1>3, <1>4, <1>5 DEF Migration, Plan

\* A step that changes nothing but the progress of hook and Helm operation.
LEMMA HookOnly ==
    ASSUME Inv, Control', hook' \in Hook \cup {NoHook},
           helm' \in {"none", "install", "upgrade", "uninstall"},
           hook' = hook \/ hook'.kind \notin {"release", "strip"},
           UNCHANGED <<setup, live, seen, stale, krm, webhooks, queued, job, born, hand, edits>>,
           failures' = failures \/ MayFail
    PROVE  Inv'
<1>1. TypeOK'
  <2>1. failures' \in 0 .. MaxFailures
    BY FailuresTyped DEF Inv
  <2> QED BY ZenonT(30), <2>1 DEF Inv, TypeOK
<1>2. PoolsKept' /\ Births'
  BY ZenonT(30), PoolsFrame, BirthsFrame DEF Inv, SamePools
<1>3. job' = job
  OBVIOUS
<1>4. SameShards
  BY ZenonT(30) DEF SameShards
<1> QED BY ZenonT(30), <1>1, <1>2, <1>3, <1>4, PoolStep

\* Planning.
LEMMA PlanKeeps == ASSUME Inv, planMigrations PROVE Inv'
<1> DEFINE planned == [kind |-> "migrate", todo |-> {Migration(s) : s \in shardsToMigrate},
                       owner |-> Nobody]
<1>1. /\ helm \in {"install", "upgrade"} /\ hook = NoHook
      /\ UNCHANGED <<setup, live, seen, stale, krm, webhooks, queued, job, born, hand, edits, failures>>
      /\ \/ /\ \A s \in shardsToMigrate : Plannable(s)
            /\ hook' = planned /\ UNCHANGED helm
         \/ helm' = "none" /\ UNCHANGED hook
  BY DEF planMigrations, Installing, Unstored, HookRest
<1>2. live \in Store /\ helm \in {"none", "install", "upgrade", "uninstall"}
      /\ hook \in Hook \cup {NoHook}
  BY ZenonT(30) DEF Inv, TypeOK
<1>3. (\A s \in shardsToMigrate : Plannable(s)) => planned \in Hook
  <2> SUFFICES ASSUME \A s \in shardsToMigrate : Plannable(s) PROVE planned \in Hook
    OBVIOUS
  <2>1. {Migration(s) : s \in shardsToMigrate} \subseteq Plan
    BY ZenonT(30), <1>2, MigrationTyped
  <2> QED BY ZenonT(30), <2>1 DEF Hook
<1>4. planned.kind = "migrate" /\ planned # NoHook /\ NoHook.kind = "none"
  BY DEF NoHook
<1> HIDE DEF planned
<1>5. hook' \in Hook \cup {NoHook} /\ helm' \in {"none", "install", "upgrade", "uninstall"}
      /\ (hook' = hook \/ hook'.kind = "migrate")
  BY ZenonT(30), <1>1, <1>2, <1>3, <1>4
<1>6. Control'
  BY <1>1, <1>4 DEF Inv, Control
<1> QED BY ZenonT(30), <1>1, <1>5, <1>6, HookOnly

\* The next migration of a hook that has one.
LEMMA NextMigrationTyped ==
    ASSUME TypeOK, Migrating
    PROVE  /\ hook \in [kind : {"migrate"}, todo : SUBSET Plan, owner : Uids \cup {Nobody}]
           /\ hook.todo # {} => NextMigration \in Plan
<1>1. hook \in [kind : {"migrate"}, todo : SUBSET Plan, owner : Uids \cup {Nobody}]
  BY DEF TypeOK, Migrating, Hook, NoHook
<1>2. hook.todo # {} => NextMigration \in hook.todo
  BY DEF NextMigration
<1> QED BY ZenonT(30), <1>1, <1>2

\* A hook that fails, or is replaced by its next state.
LEMMA MigratingControl ==
    ASSUME Inv, Migrating, UNCHANGED <<krm, helm, job>>, hook' = NoHook \/ hook'.kind = "migrate"
    PROVE  Control' /\ hook'.kind \notin {"release", "strip"}
BY DEF Inv, Control, Migrating, NoHook

\* Creating or changing the NodePool of a shard takes no finalizer away.
LEMMA NodePoolForShardKeeps == ASSUME Inv, nodePoolForShard PROVE Inv'
<1> DEFINE m == NextMigration
           sel == IF m.part = "" THEN "empty" ELSE "partition"
           pool == live.pools[m.pool]
           new == NewPool(m.pool, sel, m.cfg)
           patched == [pool EXCEPT !.cfg = Patched(pool.cfg, m.existing.cfg, m.cfg)]
           goOn(uid) == hook' = [hook EXCEPT !.owner = uid]
<1>0. TypeOK /\ live \in Store /\ stale \subseteq Event /\ Migrating /\ hook.todo # {}
  BY ZenonT(30) DEF Inv, TypeOK, nodePoolForShard
<1>1. hook \in [kind : {"migrate"}, todo : SUBSET Plan, owner : Uids \cup {Nobody}] /\ m \in Plan
  BY ZenonT(30), <1>0, NextMigrationTyped
<1>2. /\ m.pool \in Pools /\ m.cfg \in Config /\ m.existing \in Pool \cup {Gone}
      /\ pool \in Pool \cup {Gone} /\ sel \in {"empty", "partition", "other"}
  BY <1>0, <1>1 DEF Plan, Store
<1>3. /\ UNCHANGED <<setup, krm, webhooks, helm, seen, queued, job, hand, edits>>
      /\ (failures' = failures \/ MayFail)
  BY ZenonT(30) DEF nodePoolForShard, HookRest
<1>4. \/ m.existing # Gone /\ goOn(m.existing.uid) /\ UNCHANGED <<live, stale, born>>
      \/ /\ m.existing # Gone /\ pool # Gone /\ StorePool(m.pool, patched)
         /\ goOn(pool.uid) /\ UNCHANGED born
      \/ pool = Gone /\ BirthOfPool /\ StorePool(m.pool, new) /\ goOn(new.uid)
      \/ hook' = NoHook /\ UNCHANGED <<live, stale, born>>
  BY ZenonT(30) DEF nodePoolForShard, Unstored, HookFails
<1>5. m.existing # Gone /\ pool # Gone => patched \in Pool /\ patched # Gone /\ patched.fin = pool.fin
  <2> SUFFICES ASSUME m.existing # Gone, pool # Gone
               PROVE  patched \in Pool /\ patched # Gone /\ patched.fin = pool.fin
    OBVIOUS
  <2>1. pool.cfg \in Config /\ m.existing.cfg \in Config /\ pool \in Pool
    BY ZenonT(30), <1>2, PoolFields
  <2>2. Patched(pool.cfg, m.existing.cfg, m.cfg) \in Config
    BY ZenonT(30), <1>2, <2>1, ConfigTyped
  <2> HIDE DEF m, pool
  <2>3. patched \in Pool /\ patched.fin = pool.fin
    BY <2>1, <2>2 DEF Pool
  <2> HIDE DEF patched
  <2> QED BY ZenonT(30), <2>3, PoolFields
<1>6. BirthOfPool => new \in Pool /\ new.uid \in Uids
  BY ZenonT(30), <1>2, NewPoolTyped DEF BirthOfPool, Inv, Births
<1>7. (m.existing # Gone => m.existing.uid \in Uids) /\ (pool # Gone => pool.uid \in Uids)
  BY <1>2, PoolFields
<1> HIDE DEF m, pool, new, patched, sel
<1>8. ASSUME NEW uid \in Uids, goOn(uid)
      PROVE  hook' \in Hook /\ hook'.kind = "migrate"
  BY <1>1, <1>8 DEF Hook
<1>9. hook' \in Hook \cup {NoHook} /\ (hook' = NoHook \/ hook'.kind = "migrate")
  BY ZenonT(30), <1>4, <1>6, <1>7, <1>8
<1>10. /\ live' \in Store /\ stale' \subseteq Event /\ live'.shards = live.shards
       /\ \A q \in Pools : live.pools[q] # Gone /\ live.pools[q].fin
                            => live'.pools[q] # Gone /\ live'.pools[q].fin
  <2>1. CASE UNCHANGED <<live, stale>>
    BY ZenonT(30), <1>0, <2>1
  <2>2. ASSUME NEW obj \in Pool, obj # Gone, StorePool(m.pool, obj), pool = Gone \/ obj.fin = pool.fin
        PROVE  <1>10
    <3>1. /\ live'.shards = live.shards /\ live'.pools = [live.pools EXCEPT ![m.pool] = obj]
          /\ live' \in Store /\ stale' \subseteq Event
      BY ZenonT(30), <1>0, <1>2, <2>2, StorePoolIs
    <3> QED BY ZenonT(30), <1>0, <1>2, <2>2, <3>1 DEF Store, pool
  <2>3. BirthOfPool => new # Gone
    BY ZenonT(30), <1>6, PoolFields
  <2> QED BY ZenonT(30), <1>4, <1>5, <1>6, <2>1, <2>2, <2>3
<1>11. TypeOK'
  <2>1. failures' \in 0 .. MaxFailures
    BY ZenonT(30), <1>0, <1>3, FailuresTyped
  <2> QED BY ZenonT(30), <1>0, <1>3, <1>9, <1>10, <2>1 DEF TypeOK
<1>12. Control' /\ hook'.kind \notin {"release", "strip"}
  BY ZenonT(30), <1>0, <1>3, <1>9, MigratingControl
<1>13. PoolsKept'
  BY <1>0, <1>3, <1>10, PoolsFrame DEF SamePools, Inv
<1>14. Births'
  BY <1>3, <1>4, BirthsFrame DEF BirthOfPool, Inv
<1>15. job' = job
  BY ZenonT(30), <1>3
<1>16. SameShards
  BY <1>3, <1>10 DEF SameShards
<1> QED BY ZenonT(30), <1>11, <1>12, <1>13, <1>14, <1>15, <1>16, PoolStep

\* What the migration of a shard comes to.
LEMMA MigrateCases ==
    ASSUME Inv, migrate
    PROVE  \/ hook' = NoHook /\ UNCHANGED <<live, stale>>
           \/ /\ hook' \in Hook /\ hook'.kind = "migrate"
              /\ \E s \in ShardNames : \E obj \in Shard :
                    /\ live.shards[s] # Gone
                    /\ StoreShard(s, obj) /\ obj.id = live.shards[s].id
                    /\ obj.adopted /\ OwnedByPool(obj)
                    /\ obj.args = live.shards[s].args
                    /\ obj.strategy = live.shards[s].strategy
                    /\ obj.fair = live.shards[s].fair
<1> DEFINE m == NextMigration
           old == live.shards[m.shard]
           obj == [old EXCEPT !.owner = hook.owner, !.adopted = TRUE, !.ignore = @ /\ m.part # ""]
<1>0. TypeOK /\ live \in Store /\ Migrating /\ hook.todo # {} /\ hook.owner # Nobody
  BY DEF Inv, TypeOK, migrate
<1>1. hook \in [kind : {"migrate"}, todo : SUBSET Plan, owner : Uids \cup {Nobody}] /\ m \in Plan
  BY <1>0, NextMigrationTyped
<1>2. m.shard \in ShardNames /\ hook.owner \in Uids
  BY <1>0, <1>1 DEF Plan
<1>3. \/ hook' = NoHook /\ UNCHANGED <<live, stale>>
      \/ /\ old # Gone /\ StoreShard(m.shard, obj)
         /\ hook' = [hook EXCEPT !.owner = Nobody, !.todo = @ \ {m}]
  BY DEF migrate, HookFails, Unstored
<1>4. CASE /\ old # Gone /\ StoreShard(m.shard, obj)
           /\ hook' = [hook EXCEPT !.owner = Nobody, !.todo = @ \ {m}]
  <2> HIDE DEF m
  <2>1. hook' \in Hook /\ hook'.kind = "migrate"
    BY ZenonT(30), <1>1, <1>4 DEF Hook
  <2>2. old \in Shard
    BY <1>0, <1>2, <1>4 DEF Store
  <2>3. /\ obj \in Shard /\ obj.id = old.id /\ obj.adopted /\ OwnedByPool(obj)
        /\ obj.args = old.args /\ obj.strategy = old.strategy /\ obj.fair = old.fair
    <3> HIDE DEF old
    <3>1. (old.ignore /\ m.part # "") \in BOOLEAN
      BY <2>2, ShardFields
    <3> QED BY ZenonT(30), <1>2, <2>2, <3>1 DEF Shard, OwnedByPool
  <2> HIDE DEF obj
  <2> QED BY <1>2, <1>4, <2>1, <2>3
<1> QED BY <1>3, <1>4

\* Migrating a shard.
LEMMA MigrateKeeps == ASSUME Inv, migrate PROVE Inv'
<1>0. TypeOK /\ live \in Store /\ stale \subseteq Event /\ Migrating
  BY DEF Inv, TypeOK, migrate
<1>1. /\ UNCHANGED <<setup, krm, webhooks, helm, born, seen, queued, job, hand, edits>>
      /\ (failures' = failures \/ MayFail)
  BY DEF migrate, HookRest
<1>2. hook' \in Hook \cup {NoHook} /\ (hook' = NoHook \/ hook'.kind = "migrate")
  BY MigrateCases
<1>3. Control' /\ hook'.kind \notin {"release", "strip"}
  BY ZenonT(30), <1>0, <1>1, <1>2, MigratingControl
<1>4. CASE UNCHANGED <<live, stale>>
  <2>1. helm' \in {"none", "install", "upgrade", "uninstall"}
    BY ZenonT(30), <1>0, <1>1 DEF TypeOK
  <2> QED BY ZenonT(30), <1>1, <1>2, <1>3, <1>4, <2>1, HookOnly
<1>5. CASE ~UNCHANGED <<live, stale>>
  <2>1. PICK s \in ShardNames : \E obj \in Shard :
          /\ live.shards[s] # Gone /\ StoreShard(s, obj) /\ obj.id = live.shards[s].id
          /\ obj.adopted /\ OwnedByPool(obj)
    BY ZenonT(30), <1>5, MigrateCases
  <2>2. PICK obj \in Shard :
          /\ live.shards[s] # Gone /\ StoreShard(s, obj) /\ obj.id = live.shards[s].id
          /\ obj.adopted /\ OwnedByPool(obj)
    BY ZenonT(30), <2>1
  <2>3. Modest(s, obj)
    BY ZenonT(30), <2>2 DEF Modest, Has
  <2>4. /\ Held' /\ live'.shards = [live.shards EXCEPT ![s] = obj]
        /\ live'.pools = live.pools /\ live' \in Store /\ stale' \subseteq Event
    BY ZenonT(30), <1>1, <2>2, <2>3, ShardStored
  <2>5. WriteHeld'
    BY ZenonT(30), <1>1, <2>3, <2>4, WriteStore DEF Inv, CustodyInv
  <2>6. Releases'
    <3>1. krm # "out"
      BY ZenonT(30), <1>0 DEF Inv, Control, Migrating
    <3> QED BY ZenonT(30), <1>1, <1>3, <3>1 DEF Releases
  <2>7. TypeOK'
    <3>1. failures' \in 0 .. MaxFailures
      BY <1>0, <1>1, FailuresTyped
    <3> QED BY ZenonT(30), <1>0, <1>1, <1>2, <2>4, <3>1 DEF TypeOK
  <2>8. PoolsKept' /\ Births'
    BY ZenonT(30), <1>0, <1>1, <2>4, PoolsFrame, BirthsFrame DEF SamePools, Inv
  <2> QED BY ZenonT(30), <1>3, <2>4, <2>5, <2>6, <2>7, <2>8 DEF Inv, CustodyInv
<1> QED BY <1>4, <1>5

\* The migration hook ends, and the controllers run.
LEMMA EnsureDefaultKeeps == ASSUME Inv, ensureDefaultNodePool PROVE Inv'
<1> DEFINE new == NewPool(Default, "empty", DefaultSpec)
           created == [live EXCEPT !.pools[Default] = new]
           finish(inCluster) ==
              /\ live' = inCluster
              /\ hook' = NoHook /\ helm' = "none" /\ krm' = "in" /\ webhooks' = TRUE
              /\ IF krm = "in"
                 THEN /\ UNCHANGED <<seen, job, queued>>
                      /\ stale' = IF live = inCluster THEN stale ELSE stale \cup {<<"pools", Default>>}
                 ELSE Started(inCluster)
<1>0. TypeOK /\ live \in Store /\ seen \in Store /\ stale \subseteq Event /\ Migrating
  BY DEF Inv, TypeOK, ensureDefaultNodePool
<1>1. UNCHANGED <<setup, hand, edits>> /\ (failures' = failures \/ MayFail)
  BY DEF ensureDefaultNodePool
<1>2. \/ finish(live) /\ UNCHANGED born
      \/ live.pools[Default] = Gone /\ BirthOfPool /\ finish(created)
      \/ /\ hook' = NoHook /\ UNCHANGED <<live, stale, seen, job, queued, krm, webhooks, helm, born>>
  BY DEF ensureDefaultNodePool, Unstored, HookFails
<1>3. failures' \in 0 .. MaxFailures
  BY ZenonT(30), <1>0, <1>1, FailuresTyped
<1>4. CASE hook' = NoHook /\ UNCHANGED <<live, stale, seen, job, queued, krm, webhooks, helm, born>>
  <2>1. Control' /\ hook'.kind \notin {"release", "strip"}
    BY ZenonT(30), <1>0, <1>4, MigratingControl
  <2>2. helm' \in {"none", "install", "upgrade", "uninstall"}
    BY ZenonT(30), <1>0, <1>4 DEF TypeOK
  <2> QED BY ZenonT(30), <1>1, <1>4, <2>1, <2>2, HookOnly
<1>5. ASSUME NEW inCluster \in Store, finish(inCluster), inCluster.shards = live.shards,
             \A q \in Pools : live.pools[q] # Gone => inCluster.pools[q] = live.pools[q],
             Births'
      PROVE  Inv'
  <2>1. /\ live' = inCluster /\ hook' = NoHook /\ helm' = "none" /\ krm' = "in" /\ webhooks' = TRUE
        /\ hook'.kind = "none" /\ NoHook.kind = "none"
    BY ZenonT(30), <1>5 DEF NoHook
  <2>2. \/ krm = "in" /\ UNCHANGED <<seen, job, queued>>
        \/ krm # "in" /\ seen' = live' /\ job' = Idle /\ queued' \subseteq Pools
    BY ZenonT(30), <1>5 DEF Started
  <2>3. stale' \subseteq Event
    BY <1>0, <1>5 DEF Event, Pools, Started
  <2>4. TypeOK'
    BY ZenonT(30), <1>0, <1>1, <1>3, <1>5, <2>1, <2>2, <2>3 DEF TypeOK
  <2>5. Control'
    BY <2>1 DEF Control
  <2>6. PoolsKept' /\ Held' /\ WriteHeld'
    <3>1. CASE krm = "in" /\ UNCHANGED <<seen, job, queued>>
      <4>1. SameShards
        BY ZenonT(30), <1>1, <1>5, <2>1, <3>1 DEF SameShards
      <4>2. Held' /\ WriteHeld'
        BY ZenonT(30), <3>1, <4>1, HeldFrame, WriteFrame DEF Inv, CustodyInv
      <4>3. PoolsKept'
        <5>1. krm' = krm /\ job' = job
          BY ZenonT(30), <2>1, <3>1
        <5>2. SamePools
          BY ZenonT(30), <1>5, <2>1, <3>1 DEF SamePools
        <5> QED BY ZenonT(30), <1>0, <5>1, <5>2, PoolsFrame DEF Inv
      <4> QED BY ZenonT(30), <4>2, <4>3
    <3>2. CASE seen' = live' /\ job' = Idle
      BY ZenonT(30), <1>1, <1>5, <2>1, <3>2, StartedKeeps DEF Inv, CustodyInv
    <3> QED BY ZenonT(30), <2>2, <3>1, <3>2
  <2>7. Releases'
    BY <2>1 DEF Releases
  <2> QED BY ZenonT(30), <1>5, <2>4, <2>5, <2>6, <2>7 DEF Inv, CustodyInv
<1>6. CASE finish(live) /\ UNCHANGED born
  <2>1. Births'
    BY ZenonT(30), <1>1, <1>6, BirthsFrame DEF Inv
  <2> HIDE DEF finish
  <2> QED BY ZenonT(30), <1>0, <1>5, <1>6, <2>1
<1>7. CASE live.pools[Default] = Gone /\ BirthOfPool /\ finish(created)
  <2>1. Births'
    BY ZenonT(30), <1>1, <1>7, BirthsFrame DEF BirthOfPool, Inv
  <2>2. Default \in Pools
    BY DEF Pools
  <2>3. new \in Pool
    BY ZenonT(30), <1>7, <2>2, ConfigTyped, NewPoolTyped DEF BirthOfPool, Inv, Births
  <2> HIDE DEF new, finish
  <2>4. /\ created \in Store /\ created.shards = live.shards
        /\ \A q \in Pools : live.pools[q] # Gone => created.pools[q] = live.pools[q]
    BY ZenonT(30), <1>0, <1>7, <2>2, <2>3 DEF Store
  <2> HIDE DEF created
  <2> QED BY ZenonT(30), <1>5, <1>7, <2>1, <2>4
<1> QED BY ZenonT(30), <1>2, <1>4, <1>6, <1>7

-----------------------------------------------------------------------------
(* Steps of the cleanup hook.                                               *)

\* The controllers are stopped, and the adopted shards are to be released.
LEMMA DeleteDeploymentsKeeps == ASSUME Inv, deleteOperatorManagedDeployments PROVE Inv'
<1> DEFINE adopted == {s \in ShardNames : live.shards[s] # Gone /\ live.shards[s].adopted}
<1>0. TypeOK
  BY ZenonT(30) DEF Inv
<1>1. /\ helm = "uninstall" /\ krm' = "stopped" /\ job' = Idle /\ queued' = {}
      /\ hook' = [kind |-> "release", todo |-> adopted]
      /\ UNCHANGED <<live, stale, setup, seen, webhooks, helm, born, hand, edits, failures>>
  BY ZenonT(30) DEF deleteOperatorManagedDeployments, Unstored
<1>2. hook' \in Hook /\ hook'.kind = "release" /\ hook'.todo = adopted
  BY ZenonT(30), <1>1 DEF Hook
<1>3. TypeOK'
  BY ZenonT(30), <1>0, <1>1, <1>2 DEF TypeOK
<1>4. Control'
  BY ZenonT(30), <1>1, <1>2 DEF Control
<1>5. PoolsKept' /\ Held' /\ WriteHeld'
  BY ZenonT(30), <1>1 DEF PoolsKept, Held, WriteHeld, Idle, Origin, Has, OwnedByPool, Inv, CustodyInv
<1>6. Releases'
  BY <1>1, <1>2 DEF Releases
<1>7. Births'
  BY ZenonT(30), <1>1, BirthsFrame DEF Inv
<1> QED BY ZenonT(30), <1>3, <1>4, <1>5, <1>6, <1>7 DEF Inv, CustodyInv

\* A released shard belongs to no NodePool and keeps its settings.
LEMMA ReleasedIs ==
    ASSUME NEW sh \in Shard
    PROVE  /\ Released(sh) \in Shard /\ Released(sh) # Gone
           /\ Released(sh).id = sh.id /\ Released(sh).args = sh.args
           /\ Released(sh).strategy = sh.strategy /\ Released(sh).fair = sh.fair
           /\ ~Released(sh).adopted /\ ~OwnedByPool(Released(sh))
<1> DEFINE owner == IF OwnedByPool(sh) THEN Nobody ELSE sh.owner
<1>1. owner \in Uids \cup {Nobody, Foreign} /\ owner \notin Uids
  BY ShardFields, ConstantsAssumption DEF OwnedByPool
<1> HIDE DEF owner
<1>2. Released(sh) = [sh EXCEPT !.owner = owner, !.adopted = FALSE, !.tracked = Untracked]
  BY DEF Released, owner
<1>3. /\ Released(sh) \in Shard
      /\ Released(sh).id = sh.id /\ Released(sh).args = sh.args
      /\ Released(sh).strategy = sh.strategy /\ Released(sh).fair = sh.fair
      /\ Released(sh).adopted = FALSE /\ Released(sh).owner = owner
  BY ZenonT(30), <1>1, <1>2 DEF Shard
<1> QED BY ZenonT(30), <1>1, <1>3, ShardFields DEF OwnedByPool

\* The hook during the cleanup.
LEMMA ReleaseTyped ==
    ASSUME TypeOK
    PROVE  /\ hook.kind = "release" => hook \in [kind : {"release"}, todo : SUBSET ShardNames]
           /\ hook.kind = "strip" => hook \in [kind : {"strip"}, todo : SUBSET Pools]
BY DEF TypeOK, Hook, NoHook

\* What releasing a shard comes to.
LEMMA ReleaseCases ==
    ASSUME Inv, releaseAdoptedSchedulingShards
    PROVE  \/ hook' = NoHook /\ UNCHANGED <<live, stale>>
           \/ \E s \in ShardNames :
                /\ hook' = [hook EXCEPT !.todo = @ \ {s}]
                /\ hook' \in Hook /\ hook'.kind = "release" /\ hook'.todo = hook.todo \ {s}
                /\ \/ live.shards[s] = Gone /\ UNCHANGED <<live, stale>>
                   \/ live.shards[s] \in Shard /\ StoreShard(s, Released(live.shards[s]))
<1> DEFINE s == CHOOSE t \in hook.todo : TRUE
<1>0. TypeOK /\ live \in Store /\ hook.kind = "release" /\ hook.todo # {}
  BY DEF Inv, TypeOK, releaseAdoptedSchedulingShards
<1>1. hook \in [kind : {"release"}, todo : SUBSET ShardNames]
  BY <1>0, ReleaseTyped
<1>2. s \in ShardNames
  <2>1. s \in hook.todo
    BY <1>0
  <2> QED BY <1>1, <2>1
<1>3. \/ hook' = NoHook /\ UNCHANGED <<live, stale>>
      \/ /\ IF live.shards[s] = Gone THEN UNCHANGED <<live, stale>>
            ELSE StoreShard(s, Released(live.shards[s]))
         /\ hook' = [hook EXCEPT !.todo = @ \ {s}]
  BY DEF releaseAdoptedSchedulingShards, HookFails, Unstored
<1> HIDE DEF s
<1>4. ASSUME hook' = [hook EXCEPT !.todo = @ \ {s}]
      PROVE  hook' \in Hook /\ hook'.kind = "release" /\ hook'.todo = hook.todo \ {s}
  BY ZenonT(30), <1>1, <1>4 DEF Hook
<1>5. live.shards[s] # Gone => live.shards[s] \in Shard
  BY <1>0, <1>2 DEF Store
<1> QED BY ZenonT(30), <1>2, <1>3, <1>4, <1>5

\* Releasing a shard.
LEMMA ReleaseKeeps == ASSUME Inv, releaseAdoptedSchedulingShards PROVE Inv'
<1>0. TypeOK /\ live \in Store /\ stale \subseteq Event /\ hook.kind = "release"
  BY DEF Inv, TypeOK, releaseAdoptedSchedulingShards
<1>1. /\ UNCHANGED <<krm, helm, setup, seen, webhooks, queued, job, born, hand, edits>>
      /\ (failures' = failures \/ MayFail)
  BY DEF releaseAdoptedSchedulingShards, CleanupRest
<1>2. krm = "stopped" /\ job = Idle /\ NoHook.kind = "none"
  BY ZenonT(30), <1>0 DEF Inv, Control, NoHook
<1>3. CASE hook' = NoHook /\ UNCHANGED <<live, stale>>
  <2>1. Control'
    BY ZenonT(30), <1>1, <1>2, <1>3 DEF Inv, Control
  <2>2. helm' \in {"none", "install", "upgrade", "uninstall"}
    BY ZenonT(30), <1>0, <1>1 DEF TypeOK
  <2> QED BY ZenonT(30), <1>1, <1>2, <1>3, <2>1, <2>2, HookOnly
<1>4. ASSUME NEW s \in ShardNames, hook' \in Hook, hook'.kind = "release", hook'.todo = hook.todo \ {s},
             \/ live.shards[s] = Gone /\ UNCHANGED <<live, stale>>
             \/ live.shards[s] \in Shard /\ StoreShard(s, Released(live.shards[s]))
      PROVE  Inv'
  <2>1. hook' # NoHook /\ hook # NoHook
    BY <1>0, <1>2, <1>4
  <2>2. Control' /\ Births'
    BY ZenonT(30), <1>1, <1>2, <1>4, <2>1, BirthsFrame DEF Inv, Control
  <2>3. failures' \in 0 .. MaxFailures
    BY ZenonT(30), <1>0, <1>1, FailuresTyped
  <2>4. /\ Held' /\ live' \in Store /\ stale' \subseteq Event /\ live'.pools = live.pools
        /\ \A t \in ShardNames \ {s} : live'.shards[t] = live.shards[t]
        /\ live'.shards[s] # Gone => ~live'.shards[s].adopted
    <3>1. CASE live.shards[s] = Gone /\ UNCHANGED <<live, stale>>
      BY ZenonT(30), <1>0, <1>1, <3>1, HeldFrame DEF SameShards, Inv, CustodyInv
    <3>2. CASE live.shards[s] \in Shard /\ StoreShard(s, Released(live.shards[s]))
      <4>1. /\ Released(live.shards[s]) \in Shard
            /\ Released(live.shards[s]).id = live.shards[s].id
            /\ ~OwnedByPool(Released(live.shards[s])) /\ ~Released(live.shards[s]).adopted
        BY ZenonT(30), <3>2, ReleasedIs
      <4>2. Modest(s, Released(live.shards[s]))
        BY ZenonT(30), <1>2, <3>2, <4>1, ShardFields DEF Modest, Has
      <4>3. /\ Held' /\ live'.shards = [live.shards EXCEPT ![s] = Released(live.shards[s])]
            /\ live'.pools = live.pools /\ live' \in Store /\ stale' \subseteq Event
        BY ZenonT(30), <1>1, <3>2, <4>1, <4>2, ShardStored
      <4> QED BY ZenonT(30), <1>0, <4>1, <4>3 DEF Store
    <3> QED BY ZenonT(30), <1>4, <3>1, <3>2
  <2>5. TypeOK'
    BY ZenonT(30), <1>0, <1>1, <1>4, <2>3, <2>4 DEF TypeOK
  <2>6. PoolsKept' /\ WriteHeld'
    <3>1. krm' # "in" /\ job' = Idle /\ Idle.step # "write"
      BY <1>1, <1>2 DEF Idle
    <3> QED BY <3>1 DEF PoolsKept, WriteHeld
  <2>7. Releases'
    BY ZenonT(30), <1>0, <1>1, <1>2, <1>4, <2>4 DEF Releases, Inv, CustodyInv
  <2> QED BY ZenonT(30), <2>2, <2>4, <2>5, <2>6, <2>7 DEF Inv, CustodyInv
<1> QED BY <1>3, <1>4, ReleaseCases

\* All are released.
LEMMA StartStrippingKeeps == ASSUME Inv, startStripping PROVE Inv'
<1> DEFINE held == {p \in Pools : live.pools[p] # Gone /\ live.pools[p].fin}
<1>1. /\ hook.kind = "release" /\ hook.todo = {} /\ hook' = [kind |-> "strip", todo |-> held]
      /\ UNCHANGED <<live, stale, krm, helm, failures, setup, seen, webhooks, queued, job, born, hand, edits>>
  BY ZenonT(30) DEF startStripping, Unstored, CleanupRest
<1>2. hook' \in Hook /\ hook'.kind = "strip" /\ hook # NoHook /\ hook' # NoHook
  BY <1>1 DEF Hook, NoHook
<1>3. TypeOK'
  BY ZenonT(30), <1>1, <1>2 DEF Inv, TypeOK
<1>4. Control' /\ PoolsKept'
  BY ZenonT(30), <1>1, <1>2 DEF Inv, Control, PoolsKept
<1>5. Held' /\ WriteHeld'
  BY ZenonT(30), <1>1, HeldFrame, WriteFrame DEF SameShards, Inv, CustodyInv
<1>6. Releases'
  BY <1>1, <1>2 DEF Releases, Inv, CustodyInv
<1>7. Births'
  BY <1>1, BirthsFrame DEF Inv
<1> QED BY ZenonT(30), <1>3, <1>4, <1>5, <1>6, <1>7 DEF Inv, CustodyInv

\* Stripping a finalizer.
LEMMA StripKeeps == ASSUME Inv, stripNodePoolFinalizers PROVE Inv'
<1> DEFINE p == CHOOSE q \in hook.todo : TRUE
<1>0. TypeOK /\ live \in Store /\ stale \subseteq Event /\ hook.kind = "strip" /\ hook.todo # {}
  BY DEF Inv, TypeOK, stripNodePoolFinalizers
<1>1. /\ UNCHANGED <<krm, helm, setup, seen, webhooks, queued, job, born, hand, edits>>
      /\ (failures' = failures \/ MayFail)
  BY ZenonT(30) DEF stripNodePoolFinalizers, CleanupRest
<1>2. krm = "stopped" /\ job = Idle /\ NoHook.kind = "none"
  BY ZenonT(30), <1>0 DEF Inv, Control, NoHook
<1>3. hook \in [kind : {"strip"}, todo : SUBSET Pools]
  BY <1>0, ReleaseTyped
<1>4. p \in Pools
  <2>1. p \in hook.todo
    BY <1>0
  <2> QED BY ZenonT(30), <1>3, <2>1
<1>5. \/ hook' = NoHook /\ UNCHANGED <<live, stale>>
      \/ /\ IF live.pools[p] = Gone THEN UNCHANGED <<live, stale>>
            ELSE StorePool(p, WithFinalizer(live.pools[p], FALSE))
         /\ hook' = [hook EXCEPT !.todo = @ \ {p}]
  BY ZenonT(30) DEF stripNodePoolFinalizers, HookFails, Unstored
<1> HIDE DEF p
<1>6. CASE hook' = NoHook /\ UNCHANGED <<live, stale>>
  <2>1. Control'
    BY <1>1, <1>2, <1>6 DEF Inv, Control
  <2>2. helm' \in {"none", "install", "upgrade", "uninstall"}
    BY ZenonT(30), <1>0, <1>1 DEF TypeOK
  <2> QED BY <1>1, <1>2, <1>6, <2>1, <2>2, HookOnly
<1>7. CASE /\ IF live.pools[p] = Gone THEN UNCHANGED <<live, stale>>
              ELSE StorePool(p, WithFinalizer(live.pools[p], FALSE))
           /\ hook' = [hook EXCEPT !.todo = @ \ {p}]
  <2>1. hook' \in Hook /\ hook'.kind = "strip"
    BY ZenonT(30), <1>3, <1>7 DEF Hook
  <2>2. live' \in Store /\ stale' \subseteq Event /\ live'.shards = live.shards
    <3>1. CASE live.pools[p] = Gone
      BY <1>0, <1>7, <3>1
    <3>2. CASE live.pools[p] # Gone
      <4>1. live.pools[p] \in Pool
        BY <1>0, <1>4, <3>2 DEF Store
      <4>2. WithFinalizer(live.pools[p], FALSE) \in Pool \cup {Gone}
        BY ZenonT(30), <4>1, WithFinalizerTyped
      <4> QED BY ZenonT(30), <1>0, <1>4, <1>7, <3>2, <4>2, StorePoolIs
    <3> QED BY <3>1, <3>2
  <2>3. failures' \in 0 .. MaxFailures
    BY <1>0, <1>1, FailuresTyped
  <2>4. TypeOK'
    BY ZenonT(30), <1>0, <1>1, <2>1, <2>2, <2>3 DEF TypeOK
  <2>5. Control' /\ PoolsKept'
    <3>1. hook # NoHook
      BY <1>0, <1>2
    <3> QED BY ZenonT(30), <1>1, <1>2, <2>1, <3>1 DEF Inv, Control, PoolsKept
  <2>6. Held' /\ WriteHeld'
    BY ZenonT(30), <1>1, <2>2, HeldFrame, WriteFrame DEF SameShards, Inv, CustodyInv
  <2>7. Releases'
    BY ZenonT(30), <1>0, <1>1, <2>1, <2>2 DEF Releases, Inv, CustodyInv
  <2>8. Births'
    BY ZenonT(30), <1>1, BirthsFrame DEF Inv
  <2> QED BY <2>4, <2>5, <2>6, <2>7, <2>8 DEF Inv, CustodyInv
<1> QED BY ZenonT(30), <1>5, <1>6, <1>7

\* The cleanup ends.
LEMMA FinishKeeps == ASSUME Inv, finishCleanup PROVE Inv'
<1>1. /\ hook.kind = "strip" /\ hook' = NoHook /\ helm' = "none" /\ krm' = "out" /\ NoHook.kind = "none"
      /\ UNCHANGED <<live, stale, failures, setup, seen, webhooks, queued, job, born, hand, edits>>
  BY ZenonT(30) DEF finishCleanup, Unstored, CleanupRest, NoHook
<1>2. krm = "stopped" /\ job = Idle
  BY ZenonT(30), <1>1 DEF Inv, Control
<1>3. TypeOK'
  BY ZenonT(30), <1>1 DEF Inv, TypeOK
<1>4. Control' /\ PoolsKept'
  BY ZenonT(30), <1>1, <1>2 DEF Control, PoolsKept
<1>5. Held' /\ WriteHeld'
  BY ZenonT(30), <1>1, <1>2 DEF Held, WriteHeld, Idle, Has, Origin, OwnedByPool, Inv, CustodyInv
<1>6. Releases'
  BY ZenonT(30), <1>1 DEF Releases, Inv, CustodyInv
<1>7. Births'
  BY ZenonT(30), <1>1, BirthsFrame DEF Inv
<1> QED BY <1>3, <1>4, <1>5, <1>6, <1>7 DEF Inv, CustodyInv

-----------------------------------------------------------------------------
(* Steps of everybody else.                                                 *)

\* A shard is stored by somebody else than KRM.
LEMMA OutsideShard ==
    ASSUME Inv, NEW s \in ShardNames, NEW obj \in Shard \cup {Gone}, StoreShard(s, obj),
           Modest(s, obj), obj # Gone /\ obj.adopted => live.shards[s] # Gone /\ live.shards[s].adopted,
           Outside, Births', edits' \subseteq setup.edits
    PROVE  Inv'
<1> USE DEF Outside
<1>1. /\ Held'
      /\ live'.shards = [live.shards EXCEPT ![s] = obj] /\ live'.pools = live.pools
      /\ live' \in Store /\ stale' \subseteq Event
  BY ZenonT(30), ShardStored
<1>2. TypeOK'
  BY ZenonT(30), <1>1 DEF Inv, TypeOK
<1>3. Control'
  BY ZenonT(30) DEF Inv, Control
<1>4. PoolsKept'
  BY ZenonT(30), <1>1 DEF Inv, PoolsKept
<1>5. WriteHeld'
  BY ZenonT(30), <1>1, WriteStore DEF Inv, CustodyInv
<1>6. Releases'
  BY ZenonT(30), <1>1, ReleasesStore DEF Inv, CustodyInv
<1> QED BY ZenonT(30), <1>1, <1>2, <1>3, <1>4, <1>5, <1>6 DEF Inv, CustodyInv

\* A NodePool is stored by somebody else than KRM, and not without the finalizer it had.
LEMMA OutsidePool ==
    ASSUME Inv, NEW p \in Pools, NEW obj \in Pool \cup {Gone}, StorePool(p, obj),
           live.pools[p] # Gone /\ live.pools[p].fin => obj # Gone /\ obj.fin,
           Outside, Births', edits' \subseteq setup.edits
    PROVE  Inv'
<1> USE DEF Outside
<1>0. live \in Store /\ stale \subseteq Event /\ TypeOK
  BY DEF Inv, TypeOK
<1>1. /\ live'.shards = live.shards /\ live'.pools = [live.pools EXCEPT ![p] = obj]
      /\ live' \in Store /\ stale' \subseteq Event
  BY ZenonT(30), <1>0, StorePoolIs
<1>2. TypeOK'
  BY ZenonT(30), <1>1 DEF Inv, TypeOK
<1>3. Control'
  BY ZenonT(30) DEF Inv, Control
<1>4. PoolsKept'
  <2>1. SamePools
    BY ZenonT(30), <1>0, <1>1 DEF SamePools, Store
  <2> QED BY ZenonT(30), <1>0, <2>1, PoolsFrame DEF Inv
<1> QED BY ZenonT(30), <1>1, <1>2, <1>3, <1>4, PoolStep DEF SameShards

\* Garbage collection.
LEMMA CollectKeeps == ASSUME Inv, NEW s \in ShardNames, GarbageCollect(s) PROVE Inv'
<1>1. StoreShard(s, Gone) /\ UNCHANGED <<born, hand, edits>> /\ Outside
  BY DEF GarbageCollect
<1>2. Births' /\ edits' \subseteq setup.edits
  BY <1>1, BirthsFrame DEF Outside, Inv, TypeOK
<1> QED BY ZenonT(30), <1>1, <1>2, OutsideShard DEF Modest

\* A shard that is stored as it is but for readiness or settings is as modest as before.
LEMMA SameIsModest ==
    ASSUME Inv, NEW s \in ShardNames, live.shards[s] # Gone, NEW obj \in Shard,
           obj.id = live.shards[s].id, obj.owner = live.shards[s].owner,
           obj.adopted = live.shards[s].adopted
    PROVE  Modest(s, obj)
BY ZenonT(30) DEF Inv, CustodyInv, Held, Modest, Has, OwnedByPool

\* Deploying a scheduler.
LEMMA DeployKeeps == ASSUME Inv, NEW s \in ShardNames, Deploy(s) PROVE Inv'
<1> DEFINE obj == [live.shards[s] EXCEPT !.ready = TRUE]
<1>1. live.shards[s] # Gone /\ StoreShard(s, obj) /\ UNCHANGED <<born, hand, edits>> /\ Outside
  BY DEF Deploy
<1>2. live.shards[s] \in Shard
  BY <1>1 DEF Inv, TypeOK, Store
<1>3. /\ obj \in Shard /\ obj.id = live.shards[s].id /\ obj.owner = live.shards[s].owner
      /\ obj.adopted = live.shards[s].adopted
  BY ZenonT(30), <1>2 DEF Shard
<1> HIDE DEF obj
<1>4. Births' /\ edits' \subseteq setup.edits
  BY ZenonT(30), <1>1, BirthsFrame DEF Outside, Inv, TypeOK
<1> QED BY ZenonT(30), <1>1, <1>3, <1>4, SameIsModest, OutsideShard

\* An edit counts among those of the setup.
LEMMA EditTyped ==
    ASSUME Inv, NEW e, Edit(e)
    PROVE  edits' \subseteq setup.edits /\ edits' # edits
BY DEF Inv, TypeOK, Edit

\* A Helm operation starts.
LEMMA ReleaseStartKeeps == ASSUME Inv, Release PROVE Inv'
<1>1. /\ UNCHANGED <<live, stale, setup, seen, hook, queued, job, born, hand, failures>>
      /\ helm = "none" /\ edits' \subseteq setup.edits
      /\ \/ krm = "in" /\ helm' = "upgrade" /\ UNCHANGED <<krm, webhooks>>
         \/ krm = "in" /\ helm' = "uninstall" /\ webhooks' = FALSE /\ UNCHANGED krm
         \/ krm = "out" /\ helm' = "install" /\ krm' = "new" /\ UNCHANGED webhooks
  <2>1. edits' \subseteq setup.edits
    BY ZenonT(30), EditTyped DEF Release, Upgrade, Uninstall, Reinstall
  <2> QED BY ZenonT(30), <2>1 DEF Release, Upgrade, Uninstall, Reinstall, Unstored
<1>2. hook = NoHook /\ NoHook.kind = "none" /\ (krm = "out" => job = Idle)
  BY ZenonT(30), <1>1 DEF Inv, Control, NoHook
<1>3. TypeOK'
  <2>1. krm' \in {"new", "in", "stopped", "out"} /\ webhooks' \in BOOLEAN
        /\ helm' \in {"none", "install", "upgrade", "uninstall"}
    BY ZenonT(30), <1>1 DEF Inv, TypeOK
  <2> QED BY <1>1, <2>1 DEF Inv, TypeOK
<1>4. Control' /\ PoolsKept'
  BY <1>1, <1>2 DEF Inv, Control, PoolsKept
<1>5. Held' /\ WriteHeld' /\ Releases'
  <2>1. Held'
    BY ZenonT(30), <1>1 DEF Held, Has, Origin, OwnedByPool, Inv, CustodyInv
  <2>2. WriteHeld'
    BY ZenonT(30), <1>1 DEF WriteHeld, Has, Origin, OwnedByPool, Inv, CustodyInv
  <2>3. Releases'
    BY ZenonT(30), <1>1, <1>2 DEF Releases
  <2> QED BY <2>1, <2>2, <2>3
<1>6. Births'
  BY <1>1, BirthsFrame DEF Inv
<1> QED BY <1>3, <1>4, <1>5, <1>6 DEF Inv, CustodyInv

\* Somebody creates, deletes or changes a NodePool.
LEMMA EditPoolKeeps == ASSUME Inv, EditPool PROVE Inv'
<1>0. live \in Store /\ Outside
  BY ZenonT(30) DEF Inv, TypeOK, EditPool
<1>1. edits' \subseteq setup.edits
  BY ZenonT(30), EditTyped DEF EditPool
<1>2. Births'
  BY ZenonT(30), <1>0, BirthsFrame DEF EditPool, BirthOfPool, Outside, Inv
<1>3. ASSUME NEW p \in Named, NEW sel \in {"partition", "other"}, BirthOfPool,
             live.pools[p] = Gone, StorePool(p, NewPool(p, sel, DefaultSpec))
      PROVE  Inv'
  <2>1. p \in Pools
    BY DEF Pools
  <2>2. NewPool(p, sel, DefaultSpec) \in Pool
    BY ZenonT(30), <1>3, <2>1, ConfigTyped, NewPoolTyped DEF BirthOfPool, Inv, Births
  <2> QED BY ZenonT(30), <1>0, <1>1, <1>2, <1>3, <2>1, <2>2, OutsidePool
<1>4. ASSUME NEW p \in Pools, live.pools[p] # Gone,
             StorePool(p, WithFinalizer([live.pools[p] EXCEPT !.dying = TRUE], live.pools[p].fin))
      PROVE  Inv'
  <2> DEFINE dying == [live.pools[p] EXCEPT !.dying = TRUE]
  <2>1. live.pools[p] \in Pool
    BY <1>0, <1>4 DEF Store
  <2>2. dying \in Pool /\ live.pools[p].fin \in BOOLEAN
    BY ZenonT(30), <2>1 DEF Pool
  <2> HIDE DEF dying
  <2>3. /\ WithFinalizer(dying, live.pools[p].fin) \in Pool \cup {Gone}
        /\ live.pools[p].fin => /\ WithFinalizer(dying, live.pools[p].fin) # Gone
                                /\ WithFinalizer(dying, live.pools[p].fin).fin
    BY <2>2, WithFinalizerTyped
  <2>4. StorePool(p, WithFinalizer(dying, live.pools[p].fin))
    BY ZenonT(30), <1>4 DEF dying
  <2> QED BY ZenonT(30), <1>0, <1>1, <1>2, <2>3, <2>4, OutsidePool
<1>5. ASSUME NEW p \in Pools, NEW k \in Keys, NEW v \in Values \cup {Unset}, live.pools[p] # Gone,
             StorePool(p, [live.pools[p] EXCEPT !.cfg.args[k] = v])
      PROVE  Inv'
  <2> DEFINE pool == live.pools[p]
             args == [pool.cfg.args EXCEPT ![k] = v]
             cfg == [pool.cfg EXCEPT !.args = args]
             obj == [pool EXCEPT !.cfg = cfg]
  <2>1. pool \in Pool
    BY ZenonT(30), <1>0, <1>5 DEF Store
  <2>2. pool.cfg \in Config
    BY ZenonT(30), <2>1, PoolFields
  <2>3. args \in Args
    BY <2>2 DEF Config, Args
  <2>4. StorePool(p, obj)
    BY <1>5
  <2> HIDE DEF args, pool
  <2>5. cfg \in Config
    BY <2>2, <2>3 DEF Config
  <2> HIDE DEF cfg
  <2>6. obj \in Pool /\ obj.fin = pool.fin
    BY ZenonT(30), <2>1, <2>5 DEF Pool
  <2> HIDE DEF obj
  <2>7. obj # Gone
    BY <2>6, PoolFields
  <2> QED BY ZenonT(30), <1>0, <1>1, <1>2, <2>4, <2>6, <2>7, OutsidePool DEF pool
<1> QED BY ZenonT(30), <1>3, <1>4, <1>5 DEF EditPool

\* What people do to shards: they create one that nobody owns, delete one, or change what does
\* not concern custody.
LEMMA EditShardCases ==
    ASSUME Inv, EditShard
    PROVE  \E s \in ShardNames : \E obj \in Shard \cup {Gone} :
             /\ StoreShard(s, obj)
             /\ \/ /\ obj # Gone /\ BirthOfShard /\ live.shards[s] = Gone
                   /\ obj.id = born.shards + 1 /\ ~obj.adopted
                \/ obj = Gone /\ UNCHANGED born
                \/ /\ obj # Gone /\ UNCHANGED born /\ live.shards[s] # Gone
                   /\ obj.id = live.shards[s].id /\ obj.owner = live.shards[s].owner
                   /\ obj.adopted = live.shards[s].adopted
<1>0. live \in Store
  BY ZenonT(30) DEF Inv, TypeOK
<1>1. ASSUME BirthOfShard, NEW s \in ShardNames, NEW part \in Partitions, NEW ignore \in BOOLEAN,
             live.shards[s] = Gone,
             StoreShard(s, [NewShard(part) EXCEPT !.id = born.shards + 1, !.ignore = ignore])
      PROVE  \E obj \in Shard : /\ StoreShard(s, obj) /\ obj # Gone
                                /\ obj.id = born.shards + 1 /\ ~obj.adopted
  <2> DEFINE obj == [NewShard(part) EXCEPT !.id = born.shards + 1, !.ignore = ignore]
  <2>1. born.shards + 1 \in 0 .. MaxIds /\ 0 \in 0 .. MaxIds
    BY <1>1, ConstantsAssumption DEF BirthOfShard, Inv, Births
  <2>2. NoArgs \in Args
    BY ZenonT(30) DEF NoArgs, Args
  <2>3. NewShard(part) \in Shard /\ NewShard(part).adopted = FALSE
    BY <2>1, <2>2, FairTyped DEF NewShard, Shard, Strategies
  <2>4. obj \in Shard /\ obj.id = born.shards + 1 /\ obj.adopted = FALSE
    BY ZenonT(30), <2>1, <2>3 DEF Shard
  <2>5. StoreShard(s, obj)
    BY ZenonT(30), <1>1
  <2> HIDE DEF obj
  <2> QED BY <2>4, <2>5, ShardFields
<1>2. ASSUME NEW s \in ShardNames, live.shards[s] # Gone,
             StoreShard(s, [live.shards[s] EXCEPT !.ready = FALSE])
      PROVE  \E obj \in Shard : /\ StoreShard(s, obj) /\ obj # Gone
                                /\ obj.id = live.shards[s].id /\ obj.owner = live.shards[s].owner
                                /\ obj.adopted = live.shards[s].adopted
  <2> DEFINE obj == [live.shards[s] EXCEPT !.ready = FALSE]
  <2>1. live.shards[s] \in Shard
    BY <1>0, <1>2 DEF Store
  <2>2. /\ obj \in Shard /\ obj.id = live.shards[s].id /\ obj.owner = live.shards[s].owner
        /\ obj.adopted = live.shards[s].adopted
    BY ZenonT(30), <2>1 DEF Shard
  <2>3. StoreShard(s, obj)
    BY ZenonT(30), <1>2
  <2> HIDE DEF obj
  <2> QED BY <2>2, <2>3, ShardFields
<1>3. ASSUME NEW s \in ShardNames, NEW k \in Keys, NEW v \in Values, live.shards[s] # Gone,
             StoreShard(s, [live.shards[s] EXCEPT !.args[k] = v])
      PROVE  \E obj \in Shard : /\ StoreShard(s, obj) /\ obj # Gone
                                /\ obj.id = live.shards[s].id /\ obj.owner = live.shards[s].owner
                                /\ obj.adopted = live.shards[s].adopted
  <2> DEFINE sh == live.shards[s]
             args == [sh.args EXCEPT ![k] = v]
             obj == [sh EXCEPT !.args = args]
  <2>1. sh \in Shard
    BY ZenonT(30), <1>0, <1>3 DEF Store
  <2>2. args \in Args
    BY <2>1, ShardFields DEF Args
  <2>3. StoreShard(s, obj)
    BY <1>3
  <2> HIDE DEF args, sh
  <2>4. obj \in Shard /\ obj.id = sh.id /\ obj.owner = sh.owner /\ obj.adopted = sh.adopted
    BY ZenonT(30), <2>1, <2>2 DEF Shard
  <2> HIDE DEF obj
  <2> QED BY <2>3, <2>4, ShardFields DEF sh
<1>4. CASE \E s \in ShardNames : live.shards[s] # Gone /\ StoreShard(s, Gone) /\ UNCHANGED born
  BY ZenonT(30), <1>4
<1> QED BY ZenonT(30), <1>1, <1>2, <1>3, <1>4 DEF EditShard

\* Somebody creates, deletes or changes a shard.
LEMMA EditShardKeeps == ASSUME Inv, EditShard PROVE Inv'
<1>0. TypeOK /\ Outside
  BY ZenonT(30) DEF Inv, EditShard
<1>1. edits' \subseteq setup.edits
  BY ZenonT(30), EditTyped DEF EditShard
<1>2. PICK s \in ShardNames : \E obj \in Shard \cup {Gone} :
             /\ StoreShard(s, obj)
             /\ \/ /\ obj # Gone /\ BirthOfShard /\ live.shards[s] = Gone
                   /\ obj.id = born.shards + 1 /\ ~obj.adopted
                \/ obj = Gone /\ UNCHANGED born
                \/ /\ obj # Gone /\ UNCHANGED born /\ live.shards[s] # Gone
                   /\ obj.id = live.shards[s].id /\ obj.owner = live.shards[s].owner
                   /\ obj.adopted = live.shards[s].adopted
  BY ZenonT(30), EditShardCases
<1>3. PICK obj \in Shard \cup {Gone} :
             /\ StoreShard(s, obj)
             /\ \/ /\ obj # Gone /\ BirthOfShard /\ live.shards[s] = Gone
                   /\ obj.id = born.shards + 1 /\ ~obj.adopted
                \/ obj = Gone /\ UNCHANGED born
                \/ /\ obj # Gone /\ UNCHANGED born /\ live.shards[s] # Gone
                   /\ obj.id = live.shards[s].id /\ obj.owner = live.shards[s].owner
                   /\ obj.adopted = live.shards[s].adopted
  BY <1>2
<1>4. Births'
  BY ZenonT(30), <1>0, <1>3, BirthsFrame DEF BirthOfShard, Outside, Inv
<1>5. Modest(s, obj)
  <2>1. obj = Gone => Modest(s, obj)
    BY DEF Modest
  <2> QED BY ZenonT(30), <1>3, <2>1, NewIsModest, SameIsModest
<1>6. obj # Gone /\ obj.adopted => live.shards[s] # Gone /\ live.shards[s].adopted
  BY ZenonT(30), <1>3
<1> QED BY ZenonT(30), <1>0, <1>1, <1>3, <1>4, <1>5, <1>6, OutsideShard

-----------------------------------------------------------------------------
(* The inductive invariant.                                                 *)

\* The invariant holds at the start.
LEMMA InitKeeps == ASSUME Init PROVE Inv
<1>1. setup \in [shards : [ShardNames -> Shard \cup {Gone}], pools : [Pools -> Pool \cup {Gone}],
                 running : BOOLEAN, edits : SUBSET Edits]
  BY ZenonT(30), ConstantsAssumption DEF Init
<1>2. live \in Store /\ seen = live /\ live.shards = setup.shards /\ live.pools = setup.pools
  BY ZenonT(30), <1>1 DEF Init, Store
<1>3. TypeOK
  <2>1. failures \in 0 .. MaxFailures
    BY ConstantsAssumption DEF Init
  <2> QED BY <1>1, <1>2, <2>1 DEF Init, TypeOK
<1>4. Control /\ PoolsKept /\ WriteHeld /\ Releases
  BY ZenonT(30), <1>2 DEF Init, Control, PoolsKept, WriteHeld, Releases, Idle, NoHook
<1>5. Births
  <2>1. IsFiniteSet(Pools) /\ IsFiniteSet(ShardNames)
    <3>1. IsFiniteSet({Default})
      BY ZenonT(30), FS_Singleton
    <3>2. IsFiniteSet(Pools)
      BY ZenonT(30), <3>1, FS_Union, ConstantsAssumption DEF Pools
    <3> QED BY ZenonT(30), <3>2, FS_Union, ConstantsAssumption DEF ShardNames
  <2>2. /\ IsFiniteSet({p \in Pools : setup.pools[p] # Gone})
        /\ IsFiniteSet({s \in ShardNames : setup.shards[s] # Gone})
    BY ZenonT(30), <2>1, FS_Subset
  <2>3. /\ Cardinality({p \in Pools : setup.pools[p] # Gone}) \in Nat
        /\ Cardinality({s \in ShardNames : setup.shards[s] # Gone}) \in Nat
    BY ZenonT(30), <2>2, FS_CardinalityType
  <2> DEFINE n == Cardinality({s \in ShardNames : setup.shards[s] # Gone})
  <2>4. \A s \in ShardNames : setup.shards[s] # Gone => setup.shards[s].id \in 1 .. n
    BY ZenonT(30), ConstantsAssumption DEF Init
  <2>5. born.shards = n /\ born.pools = Cardinality({p \in Pools : setup.pools[p] # Gone})
        /\ DOMAIN born = {"pools", "shards"}
    BY DEF Init
  <2>6. n \in Nat
    BY <2>3
  <2> HIDE DEF n
  <2>7. \A s \in ShardNames : setup.shards[s] # Gone => setup.shards[s].id <= n
    BY <2>4, <2>6
  <2> QED BY ZenonT(30), <2>3, <2>5, <2>6, <2>7 DEF Births
<1>6. Held
  BY ZenonT(30), <1>2 DEF Held, Has, Origin
<1> QED BY ZenonT(30), <1>3, <1>4, <1>5, <1>6 DEF Inv, CustodyInv

\* Every step keeps it.
LEMMA NextKeeps == ASSUME Inv, [Next]_vars PROVE Inv'
<1>1. CASE Work
  BY ZenonT(30), <1>1, ResourcesKeeps, WriteKeeps, StatusKeeps DEF Work
<1>2. CASE Hooks
  BY ZenonT(30), <1>2, PlanKeeps, NodePoolForShardKeeps, MigrateKeeps, EnsureDefaultKeeps,
     DeleteDeploymentsKeeps, ReleaseKeeps, StartStrippingKeeps, StripKeeps, FinishKeeps DEF Hooks
<1>3. CASE Restart
  BY ZenonT(30), <1>3, RestartKeeps
<1>4. CASE \E p \in Pools : Take(p)
  BY <1>4, ReconcileNothingKeeps, FinalizeKeeps, ReconcileKeeps DEF Take
<1>5. CASE \E kind \in {"pools", "shards"} : Sync(kind)
  BY <1>5, SyncKeeps
<1>6. CASE \E s \in ShardNames : GarbageCollect(s) \/ Deploy(s)
  BY <1>6, CollectKeeps, DeployKeeps
<1>7. CASE Release \/ EditPool \/ EditShard
  BY ZenonT(30), <1>7, ReleaseStartKeeps, EditPoolKeeps, EditShardKeeps
<1>8. CASE UNCHANGED vars
  BY ZenonT(30), <1>8 DEF vars, Inv, CustodyInv, TypeOK, Control, PoolsKept, Births, Held, WriteHeld, Releases,
     Origin, Has, OwnedByPool
<1> QED BY ZenonT(30), <1>1, <1>2, <1>3, <1>4, <1>5, <1>6, <1>7, <1>8 DEF Next

\* The invariant holds in every behaviour.
LEMMA Invariance == Spec => []Inv
<1>1. Init => Inv
  BY InitKeeps
<1>2. Inv /\ [Next]_vars => Inv'
  BY NextKeeps
<1> QED BY <1>1, <1>2, PTL DEF Spec

\* Store, caches, Helm operation, hook and reconcile stay what they may be; in particular the
\* status patch at the end of a reconcile and the hooks' patches find the object they patch.
THEOREM TypeCorrect == Spec => []TypeOK
<1>1. Inv => TypeOK
  BY DEF Inv
<1> QED BY <1>1, Invariance, PTL

\* In a state of the invariant every adopted shard has been released once the hook strips.
LEMMA Handing == Inv => HandedBack
<1> SUFFICES ASSUME Inv, krm = "out" \/ hook.kind = "strip", NEW s \in ShardNames, Predates(s)
             PROVE  ~OwnedByPool(live.shards[s])
  BY ZenonT(30) DEF HandedBack
<1>1. ~live.shards[s].adopted
  BY DEF Inv, CustodyInv, Releases, Predates
<1> QED BY ZenonT(30), <1>1 DEF Inv, CustodyInv, Held, Has, Origin, Predates

\* Whatever was interrupted, repeated or changed by hand: when the cleanup hook strips the
\* finalizers, and after the uninstall, no NodePool owns a shard that predates KRM.
THEOREM HandedBackCorrect == Spec => []HandedBack
BY Handing, Invariance, PTL

-----------------------------------------------------------------------------
(* Custody.  Each action of hooks, controller, garbage collector and people  *)
(* is a step of ShardCustody or leaves its variables alone.                  *)

\* The refinement mapping.
CustodyOf(s) == IF ~Predates(s) THEN "gone"
                ELSE IF OwnedByPool(live.shards[s]) THEN "ours" ELSE "theirs"
SettingsOf(s) == IF ~Predates(s) THEN Gone
                 ELSE [args |-> live.shards[s].args, strategy |-> live.shards[s].strategy,
                       fair |-> live.shards[s].fair]
CustodyMap == [s \in ShardNames |-> CustodyOf(s)]
SettingsMap == [s \in ShardNames |-> SettingsOf(s)]

\* Custody after a step that stores one shard.
LEMMA OneShard ==
    ASSUME TypeOK, NEW s \in ShardNames, NEW obj, setup' = setup,
           live'.shards = [live.shards EXCEPT ![s] = obj]
    PROVE  /\ CustodyMap' = [CustodyMap EXCEPT ![s] = CustodyOf(s)']
           /\ SettingsMap' = [SettingsMap EXCEPT ![s] = SettingsOf(s)']
           /\ live'.shards[s] = obj
           /\ Predates(s) <=> Origin(s) /\ Has(live.shards, s)
           /\ Predates(s)' <=> obj # Gone /\ Origin(s) /\ obj.id = setup.shards[s].id
<1>0. live.shards \in [ShardNames -> Shard \cup {Gone}]
  BY DEF TypeOK, Store
<1>1. live'.shards[s] = obj
  BY <1>0
<1>2. ASSUME NEW t \in ShardNames, t # s
      PROVE  CustodyOf(t)' = CustodyOf(t) /\ SettingsOf(t)' = SettingsOf(t)
  <2>1. live'.shards[t] = live.shards[t]
    BY <1>0, <1>2
  <2> QED BY <2>1 DEF CustodyOf, SettingsOf, Predates, OwnedByPool
<1>3. CustodyMap' = [CustodyMap EXCEPT ![s] = CustodyOf(s)']
  BY ZenonT(30), <1>2 DEF CustodyMap
<1>4. SettingsMap' = [SettingsMap EXCEPT ![s] = SettingsOf(s)']
  BY ZenonT(30), <1>2 DEF SettingsMap
<1>5. /\ Predates(s) <=> Origin(s) /\ Has(live.shards, s)
      /\ Predates(s)' <=> obj # Gone /\ Origin(s) /\ obj.id = setup.shards[s].id
  BY ZenonT(30), <1>1 DEF Predates, Origin, Has, OwnedByPool
<1> QED BY <1>1, <1>3, <1>4, <1>5

\* The actions of the abstract specification, in terms of the mapping.
LEMMA AbstractActions ==
    ASSUME NEW s \in ShardNames
    PROVE  /\ Phase \in {"installing", "upgrading"} /\ CustodyMap[s] = "theirs"
              /\ CustodyMap' = [CustodyMap EXCEPT ![s] = "ours"]
              /\ SettingsMap' = SettingsMap /\ Phase' = Phase /\ edits' = edits
              => Custody!TakeOver(s)
           /\ Phase \in {"in", "upgrading", "leaving"} /\ CustodyMap[s] = "ours"
              /\ SettingsMap' = [SettingsMap EXCEPT ![s] = SettingsMap'[s]]
              /\ CustodyMap' = CustodyMap /\ Phase' = Phase /\ edits' = edits
              => Custody!Write(s)
           /\ Phase = "releasing" /\ CustodyMap[s] = "ours"
              /\ CustodyMap' = [CustodyMap EXCEPT ![s] = "theirs"]
              /\ SettingsMap' = SettingsMap /\ Phase' = Phase /\ edits' = edits
              => Custody!GiveBack(s)
           /\ CustodyMap[s] = "ours"
              /\ CustodyMap' = [CustodyMap EXCEPT ![s] = "gone"]
              /\ SettingsMap' = [SettingsMap EXCEPT ![s] = SettingsMap'[s]]
              /\ Phase' = Phase /\ edits' = edits
              => Custody!Collect(s)
BY DEF Custody!TakeOver, Custody!Write, Custody!GiveBack, Custody!Collect, Custody!Rest, Custody!Kept,
   CustodyMap, SettingsMap, CustodyOf, SettingsOf

\* A step that leaves shards, phase and edits alone.
LEMMA Stutter ==
    ASSUME CustodyMap' = CustodyMap, SettingsMap' = SettingsMap, Phase' = Phase, edits' = edits
    PROVE  UNCHANGED Custody!vars
BY DEF Custody!vars, CustodyMap, SettingsMap, CustodyOf, SettingsOf

\* The mapping depends on the shards alone.
LEMMA SameCustody ==
    ASSUME live'.shards = live.shards, setup' = setup
    PROVE  CustodyMap' = CustodyMap /\ SettingsMap' = SettingsMap
BY DEF CustodyMap, SettingsMap, CustodyOf, SettingsOf, Predates, OwnedByPool

\* A step that leaves shards and Helm alone is invisible.
LEMMA Quiet ==
    ASSUME live'.shards = live.shards, UNCHANGED <<setup, krm, helm, edits>>
    PROVE  UNCHANGED Custody!vars
<1>1. Phase' = Phase
  BY DEF Phase
<1> QED BY <1>1, SameCustody, Stutter

\* The phases of the states that the invariant allows.
LEMMA Phases ==
    ASSUME Inv
    PROVE  /\ helm = "install" => Phase = "installing"
           /\ helm = "upgrade" => Phase = "upgrading"
           /\ helm = "uninstall" /\ krm # "stopped" => Phase = "leaving"
           /\ krm = "new" => Phase = "installing"
           /\ krm = "stopped" => Phase = "releasing"
           /\ krm = "out" => Phase = "out"
           /\ helm = "none" /\ krm = "in" => Phase = "in"
           /\ krm = "in" => Phase \in {"in", "upgrading", "leaving"}
BY DEF Inv, Control, TypeOK, Phase

\* One shard is stored, and neither phase nor edits change: how that looks from outside.
LEMMA StoredMaps ==
    ASSUME Inv, NEW s \in ShardNames, NEW obj \in Shard \cup {Gone},
           live'.shards = [live.shards EXCEPT ![s] = obj], UNCHANGED <<setup, krm, helm, edits>>,
           \/ obj # Gone /\ obj.id = born.shards + 1 /\ live.shards[s] = Gone
           \/ obj = Gone /\ live.shards[s] # Gone /\ OwnedByPool(live.shards[s])
           \/ /\ obj # Gone /\ live.shards[s] # Gone /\ obj.id = live.shards[s].id
              /\ \/ krm = "in" /\ OwnedByPool(obj) /\ (Predates(s) => OwnedByPool(live.shards[s]))
                 \/ /\ obj.args = live.shards[s].args /\ obj.strategy = live.shards[s].strategy
                    /\ obj.fair = live.shards[s].fair
                    /\ \/ OwnedByPool(obj) /\ Phase \in {"installing", "upgrading"}
                       \/ ~OwnedByPool(obj) /\ Phase = "releasing"
                       \/ obj.owner = live.shards[s].owner
    PROVE  [Custody!Next]_(Custody!vars)
<1>1. /\ CustodyMap' = [CustodyMap EXCEPT ![s] = CustodyOf(s)']
      /\ SettingsMap' = [SettingsMap EXCEPT ![s] = SettingsOf(s)']
      /\ live'.shards[s] = obj
      /\ Predates(s) <=> Origin(s) /\ Has(live.shards, s)
      /\ Predates(s)' <=> obj # Gone /\ Origin(s) /\ obj.id = setup.shards[s].id
  BY OneShard DEF Inv
<1>2. Phase' = Phase /\ edits' = edits
  BY DEF Phase
<1>3. /\ CustodyMap[s] = CustodyOf(s) /\ SettingsMap[s] = SettingsOf(s)
      /\ SettingsMap'[s] = SettingsOf(s)'
      /\ [CustodyMap EXCEPT ![s] = CustodyOf(s)] = CustodyMap
      /\ [SettingsMap EXCEPT ![s] = SettingsOf(s)] = SettingsMap
  BY ZenonT(30) DEF CustodyMap, SettingsMap
<1>4. CASE CustodyOf(s)' = CustodyOf(s) /\ SettingsOf(s)' = SettingsOf(s)
  <2>1. CustodyMap' = CustodyMap /\ SettingsMap' = SettingsMap
    BY ZenonT(30), <1>1, <1>3, <1>4
  <2> QED BY ZenonT(30), <1>2, <2>1, Stutter
<1>5. CASE ~Predates(s)
  <2>1. ~Predates(s)'
    <3>1. CASE obj # Gone /\ obj.id = born.shards + 1
      <4>1. Modest(s, obj)
        BY ZenonT(30), <3>1, NewIsModest
      <4>2. ~(obj # Gone /\ Origin(s) /\ obj.id = setup.shards[s].id)
        BY ZenonT(30), <1>1, <1>5, <4>1 DEF Modest
      <4> QED BY <1>1, <4>2
    <3>2. CASE obj = Gone
      BY ZenonT(30), <1>1, <3>2
    <3>3. CASE obj # Gone /\ live.shards[s] # Gone /\ obj.id = live.shards[s].id
      BY ZenonT(30), <1>1, <1>5, <3>3 DEF Has
    <3> QED BY ZenonT(30), <3>1, <3>2, <3>3
  <2> QED BY ZenonT(30), <1>4, <1>5, <2>1 DEF CustodyOf, SettingsOf
<1>6. CASE Predates(s) /\ obj = Gone
  <2>1. CustodyOf(s) = "ours" /\ CustodyOf(s)' = "gone"
    BY <1>1, <1>6 DEF CustodyOf
  <2>2. SettingsMap' = [SettingsMap EXCEPT ![s] = SettingsMap'[s]]
    BY ZenonT(30), <1>1, <1>3
  <2>3. Custody!Collect(s)
    BY ZenonT(30), <1>1, <1>2, <1>3, <2>1, <2>2, AbstractActions
  <2> QED BY ZenonT(30), <2>3 DEF Custody!Next
<1>7. CASE /\ Predates(s) /\ obj # Gone /\ live.shards[s] # Gone /\ obj.id = live.shards[s].id
           /\ krm = "in" /\ OwnedByPool(obj) /\ OwnedByPool(live.shards[s])
  <2>1. Predates(s)'
    BY <1>1, <1>7 DEF Has
  <2>2. CustodyOf(s) = "ours" /\ CustodyOf(s)' = "ours"
    <3>1. OwnedByPool(live'.shards[s])
      BY ZenonT(30), <1>1, <1>7
    <3> QED BY ZenonT(30), <1>7, <2>1, <3>1 DEF CustodyOf, OwnedByPool
  <2>3. SettingsMap' = [SettingsMap EXCEPT ![s] = SettingsMap'[s]]
    BY ZenonT(30), <1>1, <1>3
  <2>4. CustodyMap' = CustodyMap
    BY ZenonT(30), <1>1, <1>3, <2>2
  <2>5. Phase \in {"in", "upgrading", "leaving"}
    BY ZenonT(30), <1>7, Phases
  <2>6. Custody!Write(s)
    BY ZenonT(30), <1>2, <1>3, <2>2, <2>3, <2>4, <2>5, AbstractActions
  <2> QED BY <2>6 DEF Custody!Next
<1>8. CASE /\ Predates(s) /\ obj # Gone /\ live.shards[s] # Gone /\ obj.id = live.shards[s].id
           /\ obj.args = live.shards[s].args /\ obj.strategy = live.shards[s].strategy
           /\ obj.fair = live.shards[s].fair
           /\ \/ OwnedByPool(obj) /\ Phase \in {"installing", "upgrading"}
              \/ ~OwnedByPool(obj) /\ Phase = "releasing"
              \/ obj.owner = live.shards[s].owner
  <2>1. Predates(s)'
    BY ZenonT(30), <1>1, <1>8 DEF Has
  <2>2. SettingsOf(s)' = SettingsOf(s)
    BY ZenonT(30), <1>1, <1>8, <2>1 DEF SettingsOf
  <2>3. SettingsMap' = SettingsMap
    BY ZenonT(30), <1>1, <1>3, <2>2
  <2>4. CustodyOf(s)' = IF OwnedByPool(obj) THEN "ours" ELSE "theirs"
    BY ZenonT(30), <1>1, <2>1 DEF CustodyOf, OwnedByPool
  <2>5. CustodyOf(s) = IF OwnedByPool(live.shards[s]) THEN "ours" ELSE "theirs"
    BY ZenonT(30), <1>8 DEF CustodyOf
  <2>6. CASE OwnedByPool(obj) <=> OwnedByPool(live.shards[s])
    BY <1>4, <2>2, <2>4, <2>5, <2>6
  <2>7. CASE OwnedByPool(obj) /\ ~OwnedByPool(live.shards[s])
    <3>1. Phase \in {"installing", "upgrading"}
      BY <1>8, <2>7 DEF OwnedByPool
    <3>2. Custody!TakeOver(s)
      BY ZenonT(30), <1>1, <1>2, <1>3, <2>3, <2>4, <2>5, <2>7, <3>1, AbstractActions
    <3> QED BY <3>2 DEF Custody!Next
  <2>8. CASE ~OwnedByPool(obj) /\ OwnedByPool(live.shards[s])
    <3>1. Phase = "releasing"
      BY <1>8, <2>8 DEF OwnedByPool
    <3>2. Custody!GiveBack(s)
      BY ZenonT(30), <1>1, <1>2, <1>3, <2>3, <2>4, <2>5, <2>8, <3>1, AbstractActions
    <3> QED BY ZenonT(30), <3>2 DEF Custody!Next
  <2> QED BY ZenonT(30), <2>6, <2>7, <2>8
<1>9. Predates(s) => live.shards[s] # Gone
  BY DEF Predates
<1> QED BY ZenonT(30), <1>5, <1>6, <1>7, <1>8, <1>9

\* The phase moves on, and nothing else.
LEMMA ProceedMaps ==
    ASSUME live'.shards = live.shards, UNCHANGED <<setup, edits>>,
           \/ Phase' = Phase
           \/ Phase \in {"installing", "upgrading"} /\ Phase' = "in"
           \/ Phase = "leaving" /\ Phase' = "releasing"
           \/ /\ Phase = "releasing" /\ Phase' = "out"
              /\ \A s \in ShardNames : Predates(s) => ~OwnedByPool(live.shards[s])
    PROVE  [Custody!Next]_(Custody!vars)
<1>1. CustodyMap' = CustodyMap /\ SettingsMap' = SettingsMap
  BY SameCustody
<1>2. CASE Phase' = Phase
  BY ZenonT(30), <1>1, <1>2, Stutter
<1>3. CASE Phase' # Phase
  <2>1. \/ Phase \in {"installing", "upgrading"} /\ Phase' = "in"
        \/ Phase = "leaving" /\ Phase' = "releasing"
        \/ Phase = "releasing" /\ Phase' = "out" /\ \A s \in ShardNames : CustodyMap[s] # "ours"
    BY ZenonT(30), <1>3 DEF CustodyMap, CustodyOf
  <2>2. Custody!Proceed
    BY <1>1, <2>1 DEF Custody!Proceed, CustodyMap, SettingsMap, CustodyOf, SettingsOf
  <2> QED BY <2>2 DEF Custody!Next
<1> QED BY <1>2, <1>3

\* Somebody changes something.
LEMMA ByHandMaps ==
    ASSUME edits' # edits,
           \A s \in ShardNames : CustodyOf(s)' \in {CustodyOf(s), "gone"},
           \/ Phase' = Phase
           \/ Phase = "in" /\ Phase' \in {"upgrading", "leaving"}
           \/ Phase = "out" /\ Phase' = "installing"
    PROVE  [Custody!Next]_(Custody!vars)
<1>1. \A s \in ShardNames : CustodyMap'[s] \in {CustodyMap[s], "gone"}
  BY DEF CustodyMap
<1>2. Custody!ByHand
  BY <1>1 DEF Custody!ByHand, CustodyMap, CustodyOf
<1> QED BY <1>2 DEF Custody!Next

\* The controller's steps: only a write to a shard shows, and only if a NodePool has it.
LEMMA WorkMaps == ASSUME Inv, Work PROVE [Custody!Next]_(Custody!vars)
<1>0. live \in Store /\ stale \subseteq Event /\ TypeOK
  BY DEF Inv, TypeOK
<1>1. CASE getSchedulerResources
  BY <1>1, Quiet DEF getSchedulerResources, Rest, Unstored
<1>2. CASE reconcileNodePoolStatus
  <2>1. live'.shards = live.shards
    BY ZenonT(30), <1>0, <1>2 DEF reconcileNodePoolStatus, Unstored, StorePool, Store
  <2> QED BY <1>2, <2>1, Quiet DEF reconcileNodePoolStatus, Rest
<1>3. CASE CreateOrUpdateIfNeeded
  <2>1. UNCHANGED <<setup, krm, helm, edits>> /\ krm = "in" /\ job.name \in ShardNames
    <3>1. job \in Job
      BY <1>0, <1>3 DEF TypeOK, Idle, CreateOrUpdateIfNeeded
    <3> QED BY <1>3, <3>1 DEF CreateOrUpdateIfNeeded, Rest, Running, Job
  <2>2. PICK obj \in Shard :
             \/ UNCHANGED <<live, stale, born>>
             \/ /\ live.shards[job.name] = Gone /\ BirthOfShard
                /\ StoreShard(job.name, obj) /\ obj.id = born.shards + 1
             \/ /\ live.shards[job.name] # Gone /\ UNCHANGED born
                /\ StoreShard(job.name, obj) /\ obj.id = live.shards[job.name].id
                /\ OwnedByPool(obj)
                /\ Origin(job.name) /\ Has(live.shards, job.name)
                   => obj.adopted /\ OwnedByPool(live.shards[job.name])
    BY <1>3, WriteCases
  <2>3. obj # Gone
    BY ShardFields
  <2>4. CASE UNCHANGED live
    BY ZenonT(30), <2>1, <2>4, Quiet
  <2>5. CASE StoreShard(job.name, obj)
    <3>1. live'.shards = [live.shards EXCEPT ![job.name] = obj]
      BY ZenonT(30), <1>0, <2>1, <2>5, StoreShardIs
    <3>2. Predates(job.name) => Origin(job.name) /\ Has(live.shards, job.name)
      BY ZenonT(30) DEF Predates, Origin, Has
    <3>3. CASE live.shards[job.name] = Gone /\ obj.id = born.shards + 1
      BY ZenonT(30), <2>1, <2>3, <3>1, <3>3, StoredMaps
    <3>4. CASE /\ live.shards[job.name] # Gone /\ obj.id = live.shards[job.name].id /\ OwnedByPool(obj)
               /\ Origin(job.name) /\ Has(live.shards, job.name) => OwnedByPool(live.shards[job.name])
      BY ZenonT(30), <2>1, <2>3, <3>1, <3>2, <3>4, StoredMaps
    <3>5. CASE UNCHANGED <<live, stale, born>>
      BY <2>4, <3>5
    <3> QED BY ZenonT(30), <2>2, <3>3, <3>4, <3>5
  <2> QED BY ZenonT(30), <2>2, <2>4, <2>5
<1> QED BY <1>1, <1>2, <1>3 DEF Work

\* Steps that do not concern shards.
LEMMA TakeMaps == ASSUME Inv, NEW p \in Pools, Take(p) PROVE [Custody!Next]_(Custody!vars)
<1>1. live'.shards = live.shards
  BY ZenonT(30) DEF Inv, TypeOK, Store, Take, ReconcileNothing, Finalize, Reconcile, Unstored, StorePool
<1>2. UNCHANGED <<setup, krm, helm, edits>>
  BY ZenonT(30) DEF Take, ReconcileNothing, Finalize, Reconcile, Rest
<1> QED BY ZenonT(30), <1>1, <1>2, Quiet

\* Caches are invisible.
LEMMA InformerMaps ==
    ASSUME Restart \/ \E kind \in {"pools", "shards"} : Sync(kind)
    PROVE  [Custody!Next]_(Custody!vars)
<1>1. live' = live /\ UNCHANGED <<setup, krm, helm, edits>>
  BY DEF Restart, Sync, Rest
<1> QED BY ZenonT(30), <1>1, Quiet

\* The migration hook takes shards over and ends an install or upgrade.
LEMMA MigrationMaps ==
    ASSUME Inv, Inv', planMigrations \/ nodePoolForShard \/ migrate \/ ensureDefaultNodePool
    PROVE  [Custody!Next]_(Custody!vars)
<1>0. live \in Store /\ stale \subseteq Event /\ TypeOK
  BY DEF Inv, TypeOK
<1>1. CASE planMigrations
  <2>1. live' = live /\ UNCHANGED <<setup, edits, krm>> /\ helm \in {"install", "upgrade"}
        /\ (helm' = helm \/ helm' = "none")
    BY <1>1 DEF planMigrations, Unstored, HookRest, Installing
  <2>2. Phase' = Phase \/ (Phase \in {"installing", "upgrading"} /\ Phase' = "in")
    <3>1. CASE helm' = helm
      BY <2>1, <3>1 DEF Phase
    <3>2. CASE helm' = "none"
      BY <2>1, <3>2 DEF Inv, Control, Phase
    <3> QED BY <2>1, <3>1, <3>2
  <2> QED BY ZenonT(30), <2>1, <2>2, ProceedMaps
<1>2. CASE nodePoolForShard
  <2>1. live'.shards = live.shards
    BY ZenonT(30), <1>0, <1>2 DEF nodePoolForShard, Unstored, StorePool, Store
  <2> QED BY ZenonT(30), <1>2, <2>1, Quiet DEF nodePoolForShard, HookRest
<1>3. CASE migrate
  <2>1. UNCHANGED <<setup, krm, helm, edits>> /\ Migrating
    BY <1>3 DEF migrate, HookRest
  <2>2. CASE UNCHANGED <<live, stale>>
    BY ZenonT(30), <2>1, <2>2, Quiet
  <2>3. CASE ~UNCHANGED <<live, stale>>
    <3>1. PICK s \in ShardNames : \E obj \in Shard :
                    /\ live.shards[s] # Gone
                    /\ StoreShard(s, obj) /\ obj.id = live.shards[s].id
                    /\ obj.adopted /\ OwnedByPool(obj)
                    /\ obj.args = live.shards[s].args
                    /\ obj.strategy = live.shards[s].strategy
                    /\ obj.fair = live.shards[s].fair
      BY ZenonT(30), <1>3, <2>3, MigrateCases
    <3>2. PICK obj \in Shard :
                    /\ live.shards[s] # Gone
                    /\ StoreShard(s, obj) /\ obj.id = live.shards[s].id
                    /\ OwnedByPool(obj)
                    /\ obj.args = live.shards[s].args
                    /\ obj.strategy = live.shards[s].strategy
                    /\ obj.fair = live.shards[s].fair
      BY ZenonT(30), <3>1
    <3>3. live'.shards = [live.shards EXCEPT ![s] = obj] /\ obj # Gone
      BY ZenonT(30), <1>0, <3>2, StoreShardIs, ShardFields
    <3>4. Phase \in {"installing", "upgrading"}
      BY ZenonT(30), <2>1, Phases DEF Inv, Control, Migrating
    <3> QED BY ZenonT(30), <2>1, <3>2, <3>3, <3>4, StoredMaps
  <2> QED BY <2>2, <2>3
<1>4. CASE ensureDefaultNodePool
  <2>1. UNCHANGED <<setup, edits>> /\ live'.shards = live.shards /\ Migrating
        /\ (UNCHANGED <<krm, helm>> \/ (krm' = "in" /\ helm' = "none"))
    BY ZenonT(30), <1>0, <1>4 DEF ensureDefaultNodePool, Unstored, Store
  <2>2. Phase \in {"installing", "upgrading"}
    BY ZenonT(30), <2>1, Phases DEF Inv, Control, Migrating
  <2>3. Phase' = Phase \/ Phase' = "in"
    BY <2>1 DEF Phase
  <2> QED BY ZenonT(30), <2>1, <2>2, <2>3, ProceedMaps
<1> QED BY ZenonT(30), <1>1, <1>2, <1>3, <1>4

\* The cleanup hook stops the controllers, gives shards back, and ends once none is left.
LEMMA CleanupMaps ==
    ASSUME Inv, \/ deleteOperatorManagedDeployments \/ releaseAdoptedSchedulingShards
                \/ startStripping \/ stripNodePoolFinalizers \/ finishCleanup
    PROVE  [Custody!Next]_(Custody!vars)
<1>0. live \in Store /\ stale \subseteq Event /\ TypeOK
  BY DEF Inv, TypeOK
<1>1. CASE deleteOperatorManagedDeployments
  <2>1. live' = live /\ UNCHANGED <<setup, edits>> /\ helm = "uninstall" /\ krm' = "stopped"
    BY <1>1 DEF deleteOperatorManagedDeployments, Unstored
  <2>2. Phase' = "releasing" /\ Phase \in {"leaving", "releasing"}
    <3>1. Phase' = "releasing"
      BY <2>1 DEF Phase
    <3> QED BY <2>1, <3>1, Phases
  <2> QED BY ZenonT(30), <2>1, <2>2, ProceedMaps
<1>2. CASE releaseAdoptedSchedulingShards
  <2>1. UNCHANGED <<setup, krm, helm, edits>> /\ Phase = "releasing"
    <3>1. krm = "stopped"
      BY <1>2 DEF releaseAdoptedSchedulingShards, Inv, Control
    <3> QED BY ZenonT(30), <1>2, <3>1, Phases DEF releaseAdoptedSchedulingShards, CleanupRest
  <2>2. CASE UNCHANGED <<live, stale>>
    BY ZenonT(30), <2>1, <2>2, Quiet
  <2>3. ASSUME NEW s \in ShardNames, live.shards[s] \in Shard, StoreShard(s, Released(live.shards[s]))
        PROVE  [Custody!Next]_(Custody!vars)
    <3>1. /\ Released(live.shards[s]) \in Shard /\ Released(live.shards[s]) # Gone
          /\ Released(live.shards[s]).id = live.shards[s].id
          /\ Released(live.shards[s]).args = live.shards[s].args
          /\ Released(live.shards[s]).strategy = live.shards[s].strategy
          /\ Released(live.shards[s]).fair = live.shards[s].fair
          /\ ~OwnedByPool(Released(live.shards[s])) /\ live.shards[s] # Gone
      BY ZenonT(30), <2>3, ReleasedIs, ShardFields
    <3>2. live'.shards = [live.shards EXCEPT ![s] = Released(live.shards[s])]
      BY ZenonT(30), <1>0, <2>3, <3>1, StoreShardIs
    <3> QED BY ZenonT(30), <2>1, <3>1, <3>2, StoredMaps
  <2> QED BY ZenonT(30), <1>2, <2>2, <2>3, ReleaseCases
<1>3. CASE startStripping
  BY <1>3, Quiet DEF startStripping, Unstored, CleanupRest
<1>4. CASE stripNodePoolFinalizers
  <2>1. live'.shards = live.shards
    BY ZenonT(30), <1>0, <1>4 DEF stripNodePoolFinalizers, Unstored, StorePool, Store
  <2> QED BY ZenonT(30), <1>4, <2>1, Quiet DEF stripNodePoolFinalizers, CleanupRest
<1>5. CASE finishCleanup
  <2>1. live' = live /\ UNCHANGED <<setup, edits>> /\ hook.kind = "strip" /\ krm' = "out"
    BY <1>5 DEF finishCleanup, Unstored, CleanupRest
  <2>2. Phase = "releasing" /\ Phase' = "out"
    <3>1. Phase' = "out"
      BY <2>1 DEF Phase
    <3> QED BY ZenonT(30), <2>1, <3>1, Phases DEF Inv, Control
  <2>3. \A s \in ShardNames : Predates(s) => ~OwnedByPool(live.shards[s])
    BY <2>1, Handing DEF HandedBack
  <2> QED BY ZenonT(30), <2>1, <2>2, <2>3, ProceedMaps
<1> QED BY ZenonT(30), <1>1, <1>2, <1>3, <1>4, <1>5

\* The garbage collector, KAI's operator, and people.
LEMMA OutsideMaps ==
    ASSUME Inv, \/ \E s \in ShardNames : GarbageCollect(s) \/ Deploy(s)
                \/ Release \/ EditPool \/ EditShard
    PROVE  [Custody!Next]_(Custody!vars)
<1>0. live \in Store /\ stale \subseteq Event /\ TypeOK
  BY ZenonT(30) DEF Inv, TypeOK
<1>1. ASSUME NEW s \in ShardNames, GarbageCollect(s) PROVE [Custody!Next]_(Custody!vars)
  <2>1. /\ live.shards[s] # Gone /\ OwnedByPool(live.shards[s]) /\ StoreShard(s, Gone)
        /\ UNCHANGED <<setup, krm, helm, edits>>
    BY ZenonT(30), <1>1 DEF GarbageCollect, Orphan, Outside
  <2>2. live'.shards = [live.shards EXCEPT ![s] = Gone]
    BY ZenonT(30), <1>0, <2>1, StoreShardIs
  <2> QED BY <2>1, <2>2, StoredMaps
<1>2. ASSUME NEW s \in ShardNames, Deploy(s) PROVE [Custody!Next]_(Custody!vars)
  <2> DEFINE obj == [live.shards[s] EXCEPT !.ready = TRUE]
  <2>1. live.shards[s] # Gone /\ StoreShard(s, obj) /\ UNCHANGED <<setup, krm, helm, edits>>
    BY <1>2 DEF Deploy, Outside
  <2>2. live.shards[s] \in Shard
    BY <1>0, <2>1 DEF Store
  <2>3. /\ obj \in Shard /\ obj.id = live.shards[s].id /\ obj.owner = live.shards[s].owner
        /\ obj.args = live.shards[s].args /\ obj.strategy = live.shards[s].strategy
        /\ obj.fair = live.shards[s].fair
    BY ZenonT(30), <2>2 DEF Shard
  <2> HIDE DEF obj
  <2>4. live'.shards = [live.shards EXCEPT ![s] = obj] /\ obj # Gone
    BY ZenonT(30), <1>0, <2>1, <2>3, StoreShardIs, ShardFields
  <2> QED BY ZenonT(30), <2>1, <2>3, <2>4, StoredMaps
<1>3. CASE Release
  <2>1. edits' # edits
    BY <1>3, EditTyped DEF Release, Upgrade, Uninstall, Reinstall
  <2>2. live' = live /\ setup' = setup
    BY ZenonT(30), <1>3 DEF Release, Unstored
  <2>3. \A s \in ShardNames : CustodyOf(s)' = CustodyOf(s)
    BY <2>2 DEF CustodyOf, Predates, OwnedByPool
  <2>4. /\ helm = "none"
        /\ \/ krm = "in" /\ krm' = "in" /\ helm' \in {"upgrade", "uninstall"}
           \/ krm = "out" /\ krm' = "new"
    BY <1>3 DEF Release, Upgrade, Uninstall, Reinstall
  <2>5. \/ Phase = "in" /\ Phase' \in {"upgrading", "leaving"}
        \/ Phase = "out" /\ Phase' = "installing"
    BY <2>4 DEF Phase
  <2> QED BY ZenonT(30), <2>1, <2>3, <2>5, ByHandMaps
<1>4. CASE EditPool
  <2>1. edits' # edits
    BY ZenonT(30), <1>4, EditTyped DEF EditPool
  <2>2. live'.shards = live.shards
    BY ZenonT(30), <1>0, <1>4 DEF EditPool, StorePool, Store
  <2>3. UNCHANGED <<setup, krm, helm>>
    BY ZenonT(30), <1>4 DEF EditPool, Outside
  <2>4. Phase' = Phase /\ \A s \in ShardNames : CustodyOf(s)' = CustodyOf(s)
    BY <2>2, <2>3 DEF Phase, CustodyOf, Predates, OwnedByPool
  <2> QED BY <2>1, <2>4, ByHandMaps
<1>5. CASE EditShard
  <2>1. edits' # edits
    BY ZenonT(30), <1>5, EditTyped DEF EditShard
  <2>2. UNCHANGED <<setup, krm, helm>>
    BY ZenonT(30), <1>5 DEF EditShard, Outside
  <2>3. Phase' = Phase
    BY ZenonT(30), <2>2 DEF Phase
  <2>4. PICK s \in ShardNames : \E obj \in Shard \cup {Gone} :
             /\ StoreShard(s, obj)
             /\ \/ obj # Gone /\ live.shards[s] = Gone /\ obj.id = born.shards + 1
                \/ obj = Gone
                \/ /\ obj # Gone /\ live.shards[s] # Gone
                   /\ obj.id = live.shards[s].id /\ obj.owner = live.shards[s].owner
    BY ZenonT(30), <1>5, EditShardCases
  <2>5. PICK obj \in Shard \cup {Gone} :
             /\ StoreShard(s, obj)
             /\ \/ obj # Gone /\ live.shards[s] = Gone /\ obj.id = born.shards + 1
                \/ obj = Gone
                \/ /\ obj # Gone /\ live.shards[s] # Gone
                   /\ obj.id = live.shards[s].id /\ obj.owner = live.shards[s].owner
    BY ZenonT(30), <2>4
  <2>6. live'.shards = [live.shards EXCEPT ![s] = obj]
    BY ZenonT(30), <1>0, <2>5, StoreShardIs
  <2>7. /\ CustodyMap' = [CustodyMap EXCEPT ![s] = CustodyOf(s)']
        /\ live'.shards[s] = obj
        /\ Predates(s) <=> Origin(s) /\ Has(live.shards, s)
        /\ Predates(s)' <=> obj # Gone /\ Origin(s) /\ obj.id = setup.shards[s].id
    BY ZenonT(30), <1>0, <2>2, <2>6, OneShard
  <2>8. CustodyOf(s)' \in {CustodyOf(s), "gone"}
    <3>1. CASE ~Predates(s)'
      BY ZenonT(30), <3>1 DEF CustodyOf
    <3>2. CASE Predates(s)'
      <4>1. obj # Gone /\ obj \in Shard /\ Origin(s) /\ obj.id = setup.shards[s].id
        BY ZenonT(30), <2>7, <3>2
      <4>2. live.shards[s] # Gone
        <5>1. obj.id = born.shards + 1 => Modest(s, obj)
          BY ZenonT(30), <4>1, NewIsModest
        <5>2. obj.id = born.shards + 1 => Has(live.shards, s)
          BY ZenonT(30), <4>1, <5>1 DEF Modest
        <5> QED BY ZenonT(30), <2>5, <4>1, <5>2 DEF Has
      <4>3. obj.id = live.shards[s].id /\ obj.owner = live.shards[s].owner
        BY ZenonT(30), <2>5, <4>1, <4>2
      <4>4. Predates(s)
        BY ZenonT(30), <2>7, <3>2, <4>2, <4>3 DEF Has
      <4> QED BY ZenonT(30), <2>7, <3>2, <4>3, <4>4 DEF CustodyOf, OwnedByPool
    <3> QED BY ZenonT(30), <3>1, <3>2
  <2>9. \A t \in ShardNames : CustodyOf(t)' \in {CustodyOf(t), "gone"}
    <3>1. \A t \in ShardNames : CustodyMap'[t] \in {CustodyMap[t], "gone"}
      BY ZenonT(30), <2>7, <2>8 DEF CustodyMap
    <3> QED BY <3>1 DEF CustodyMap
  <2> QED BY ZenonT(30), <2>1, <2>3, <2>9, ByHandMaps
<1> QED BY ZenonT(30), <1>1, <1>2, <1>3, <1>4, <1>5

\* The initial states map to initial states.
LEMMA InitMaps == ASSUME Init PROVE Custody!Init
<1>0. TypeOK /\ live \in Store
  BY InitKeeps DEF Inv, TypeOK
<1>1. CustodyMap \in [ShardNames -> {"theirs", "ours", "gone"}]
  BY ZenonT(30) DEF CustodyMap, CustodyOf
<1>2. SettingsMap \in [ShardNames -> [args : Args, strategy : Strategies, fair : ShardFairness] \cup {Gone}]
  <2>1. ASSUME NEW s \in ShardNames, Predates(s)
        PROVE  /\ live.shards[s].args \in Args /\ live.shards[s].strategy \in Strategies
               /\ live.shards[s].fair \in ShardFairness
    <3>1. live.shards[s] \in Shard
      BY ZenonT(30), <1>0, <2>1 DEF Store, Predates
    <3> QED BY ZenonT(30), <3>1, ShardFields
  <2> QED BY ZenonT(30), <2>1 DEF SettingsMap, SettingsOf
<1>3. Phase \in {"installing", "in"} /\ edits = {}
  BY DEF Init, Phase
<1> QED BY ZenonT(30), <1>1, <1>2, <1>3 DEF Custody!Init, CustodyMap, SettingsMap, CustodyOf, SettingsOf

\* Every step maps to a step of the abstract specification, or to none.
LEMMA NextMaps == ASSUME Inv, Inv', [Next]_vars PROVE [Custody!Next]_(Custody!vars)
<1>1. CASE Work
  BY ZenonT(30), <1>1, WorkMaps
<1>2. CASE Hooks
  BY ZenonT(30), <1>2, MigrationMaps, CleanupMaps DEF Hooks
<1>3. CASE Restart \/ \E kind \in {"pools", "shards"} : Sync(kind)
  BY ZenonT(30), <1>3, InformerMaps
<1>4. CASE \E p \in Pools : Take(p)
  BY ZenonT(30), <1>4, TakeMaps
<1>5. CASE (\E s \in ShardNames : GarbageCollect(s) \/ Deploy(s)) \/ Release \/ EditPool \/ EditShard
  BY ZenonT(30), <1>5, OutsideMaps
<1>6. CASE UNCHANGED vars
  BY <1>6, Quiet DEF vars
<1> QED BY ZenonT(30), <1>1, <1>2, <1>3, <1>4, <1>5, <1>6 DEF Next

\* The hooks, the controller with its lagging cache and the garbage collector keep the promise
\* of ShardCustody to every shard that predates KRM: a NodePool gets it only by the migration
\* hook, the controller writes it only while a NodePool has it, and the cleanup hook ends only
\* when all are given back.
THEOREM CustodyKept == Spec => KeepsCustody
<1>1. Init => Custody!Init
  BY ZenonT(30), InitMaps
<1>2. Inv /\ Inv' /\ [Next]_vars => [Custody!Next]_(Custody!vars)
  BY NextMaps
<1> QED BY <1>1, <1>2, Invariance, PTL DEF Spec, KeepsCustody, Custody!Spec

=============================================================================
