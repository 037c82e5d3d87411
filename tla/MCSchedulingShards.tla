------------------------- MODULE MCSchedulingShards -------------------------
(* Small instances of SchedulingShards.                                     *)
EXTENDS SchedulingShards

CONSTANTS k, x, v      \* an arg KRM sets, one it does not, and a value

MCKeys == {k, x}
MCKrmArgs == [a \in {k, x} |-> IF a = k THEN v ELSE Unset]
OwnArgs == [a \in {k, x} |-> IF a = x THEN v ELSE Unset]

NoShards == [s \in ShardNames |-> Gone]
NoPools == [p \in Pools |-> Gone]

\* Fair share of a shard: none, a weight alone, a usage database with everything unset and with
\* what KAI, a NodePool, or only a shard would set, and one with a window that cannot be read.
Usage == [NoUsage EXCEPT !.db = TRUE]
KaiUsage == [Usage EXCEPT !.weight = "negative", !.queries = "kai", !.client = "other",
                          !.variable = TRUE, !.halfLife = "some", !.window = "other"]
PoolUsage == [Usage EXCEPT !.weight = "wide", !.queries = "pool", !.client = "prometheus",
                           !.address = "given", !.halfLife = "none", !.window = "week"]
MCFairness == {NoUsage, [NoUsage EXCEPT !.weight = "zero"], Usage, KaiUsage, PoolUsage,
               [Usage EXCEPT !.window = "unreadable"]}

\* A shard of KAI's own, one that KRM manages, and a NodePool.
Old(id, part, fair) ==
    [NewShard(part) EXCEPT !.id = id, !.args = OwnArgs, !.strategy = "pack", !.fair = fair,
                           !.ready = TRUE]
Cfg(args) == [args |-> args, strategy |-> "pack", fair |-> NoFairShare]
PoolOf(p, n, cfg) ==
    [uid |-> <<p, n>>, sel |-> IF p = Default THEN "empty" ELSE "partition", cfg |-> cfg,
     fin |-> TRUE, dying |-> FALSE, status |-> "served"]
Managed(id, pool) ==
    [SchedulingShardForNodePool(Gone, pool) EXCEPT !.id = id, !.owner = pool.uid, !.ready = TRUE]

Fresh(shards, pools, e) == [shards |-> shards, pools |-> pools, running |-> FALSE, edits |-> e]

\* Installing beside an existing scheduler: shards with every kind of fair share, one excluded,
\* one of another controller, one whose partition a NodePool has under other settings.
InstallSetups ==
    {Fresh([NoShards EXCEPT !["p"] = Old(1, "p", fair), !["s"] = Old(2, "", NoUsage)], NoPools, {}) :
        fair \in MCFairness}
    \cup
    {Fresh([NoShards EXCEPT !["s"] = Old(1, "p", Usage)], NoPools, {e}) : e \in {"uninstall", "upgrade"}}
    \cup
    {Fresh([NoShards EXCEPT !["s"] = Old(1, "", Usage)],
           IF "deletePool" \in e THEN [NoPools EXCEPT ![Default] = PoolOf(Default, 1, Cfg(NoArgs))]
           ELSE NoPools, e) :
        e \in {{"editPool"}, {"dropShard"}, {"deletePool", "upgrade"}, {"upgrade", "uninstall"}}}
    \cup
    {Fresh([NoShards EXCEPT !["s"] = [Old(1, "p", Usage) EXCEPT !.ignore = io[1], !.owner = io[2]]],
           [NoPools EXCEPT !["p"] = PoolOf("p", 1, Cfg(NoArgs))],
           {"uninstall", "reinstall"}) :
        io \in {<<FALSE, Nobody>>, <<TRUE, Nobody>>, <<FALSE, Foreign>>}}
    \cup
    {Fresh([NoShards EXCEPT !["s"] = Old(1, "p", KaiUsage)],
           [NoPools EXCEPT !["p"] = IF e = "createPool" THEN Gone
                                    ELSE [PoolOf("p", 1, Cfg(NoArgs)) EXCEPT !.fin = FALSE]],
           {e}) : e \in {"createPool", "deletePool"}}

\* A cluster in which KRM runs.
RunningSetups ==
    LET d == PoolOf(Default, 1, Cfg(NoArgs))  q == PoolOf("p", 2, Cfg(OwnArgs)) IN
    {[shards |-> [NoShards EXCEPT ![Default] = Managed(1, d), !["p"] = Managed(2, q)],
      pools |-> [NoPools EXCEPT ![Default] = d, !["p"] = q],
      running |-> TRUE, edits |-> e] :
        e \in {{"deletePool", "createPool"}, {"createShard", "upgrade"}, {"dropShard", "upgrade"},
               {"editPool", "handArg"}, {"outage", "handArg"}}}
    \cup
    {[shards |-> [NoShards EXCEPT ![Default] = Managed(1, d)],
      pools |-> [NoPools EXCEPT ![Default] = d],
      running |-> TRUE, edits |-> e] :
        e \in {{"createPool", "deletePool"}, {"createPool", "createShard"}}}

\* A shard that already has KRM's args, as after an uninstall, and an arg added by hand.
ReinstallSetups ==
    {Fresh([NoShards EXCEPT !["s"] = [Old(1, "p", NoUsage) EXCEPT !.args = MCKrmArgs]], NoPools,
           {"handArg"})}

\* A NodePool that is deleted and created again while the hook works with the old one.
RecreatedSetups ==
    {Fresh([NoShards EXCEPT !["s"] = Old(1, "p", KaiUsage)],
           [NoPools EXCEPT !["p"] = [PoolOf("p", 1, Cfg(NoArgs)) EXCEPT !.fin = FALSE]],
           {"deletePool", "createPool"})}

\* A NodePool and a shard of its partition, created at the same moment.
TakenSetups == {start \in RunningSetups : start.edits = {"createPool", "createShard"}}

MCSetups == InstallSetups \cup RunningSetups

\* All that start with a shard that KRM did not make are first installs.
ASSUME FirstInstalls ==
    \A start \in MCSetups :
        (\E s \in ShardNames : start.shards[s] # Gone /\ ~OwnedByPool(start.shards[s])) => FromScratch(start)
=============================================================================
