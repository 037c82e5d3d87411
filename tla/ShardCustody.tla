---------------------------- MODULE ShardCustody ----------------------------
(* What installing, running and uninstalling KRM promises the scheduling     *)
(* shards that were there before it.  A shard is in the custody of whoever   *)
(* made it ("theirs") or of a NodePool ("ours"):                             *)
(*   - only an install or upgrade takes a shard over, and only an uninstall, *)
(*     once no controller runs, gives it back; neither changes its settings; *)
(*   - KRM changes the settings of a shard only while it has custody;        *)
(*   - an uninstall ends only when every shard has been given back, and a    *)
(*     shard that is not in KRM's custody never disappears with a NodePool.  *)
(* People may change settings and delete shards whenever they like.          *)
(* SchedulingShards implements this specification.                           *)
CONSTANTS Shards, Settings

VARIABLES
    custody,    \* shard -> "theirs", "ours" or "gone"
    settings,   \* shard -> what its scheduler is told
    phase,      \* where KRM is between install and uninstall
    hands       \* what people have done so far

vars == <<custody, settings, phase, hands>>

Init == /\ custody \in [Shards -> {"theirs", "ours", "gone"}]
        /\ settings \in [Shards -> Settings]
        /\ phase \in {"installing", "in"}
        /\ hands = {}

Kept(s) == settings' = [settings EXCEPT ![s] = settings'[s]]
Rest == UNCHANGED <<phase, hands>>

TakeOver(s) ==
    /\ phase \in {"installing", "upgrading"} /\ custody[s] = "theirs"
    /\ custody' = [custody EXCEPT ![s] = "ours"]
    /\ UNCHANGED settings /\ Rest

Write(s) ==
    /\ phase \in {"in", "upgrading", "leaving"} /\ custody[s] = "ours"
    /\ Kept(s)
    /\ UNCHANGED custody /\ Rest

GiveBack(s) ==
    /\ phase = "releasing" /\ custody[s] = "ours"
    /\ custody' = [custody EXCEPT ![s] = "theirs"]
    /\ UNCHANGED settings /\ Rest

\* The NodePool that had it is gone.
Collect(s) ==
    /\ custody[s] = "ours"
    /\ custody' = [custody EXCEPT ![s] = "gone"]
    /\ Kept(s) /\ Rest

Proceed ==
    /\ \/ phase \in {"installing", "upgrading"} /\ phase' = "in"
       \/ phase = "leaving" /\ phase' = "releasing"
       \/ /\ phase = "releasing" /\ phase' = "out"
          /\ \A s \in Shards : custody[s] # "ours"
    /\ UNCHANGED <<custody, settings, hands>>

\* Somebody changes or deletes a shard, or starts to install, upgrade or uninstall.
ByHand ==
    /\ hands' # hands
    /\ \A s \in Shards : custody'[s] \in {custody[s], "gone"}
    /\ \/ phase' = phase
       \/ phase = "in" /\ phase' \in {"upgrading", "leaving"}
       \/ phase = "out" /\ phase' = "installing"

Next == \/ \E s \in Shards : TakeOver(s) \/ Write(s) \/ GiveBack(s) \/ Collect(s)
        \/ Proceed \/ ByHand

Spec == Init /\ [][Next]_vars
=============================================================================
