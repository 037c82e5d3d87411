----------------------- MODULE NodePoolHealthProofs -----------------------
(* Proofs about NodePoolHealth: its types, and that at rest the status of a  *)
(* NodePool is true of its nodes (Reported).                                 *)
(*                                                                           *)
(* What is true of a NodePool that nothing will reconcile again has to be    *)
(* true of what is stored, although every reconcile worked on caches.  Three *)
(* facts carry it:                                                           *)
(*   - a cache differs from what is stored only while an event is on its     *)
(*     way to every NodePool that the difference concerns (Lags);            *)
(*   - whatever writes to a node or a NodePool announces it to the NodePools *)
(*     concerned, the controller's own annotations and conditions excepted;  *)
(*   - so a reconcile after which nothing is on its way to its NodePool has  *)
(*     seen what is stored and written nothing that it has not seen.         *)
EXTENDS NodePoolHealth, TLAPS

\* Z3 first, then Zenon; a leaf that cites Zenon starts with it.
USE SMTT(30), ZenonT(30)

\* The event will have the NodePool reconciled, or counted as unheard.
Touches(e, p) ==
    /\ e.heard \/ e.missed
    /\ \/ e.kind \in {"nodes", "pools", "schedulers"} /\ e.of = p
       \/ e.kind = "nrt" /\ seen.nodes[e.of] # Gone /\ seen.nodes[e.of].pool = p
       \/ e.kind = "topology" /\ seen.pools[p].topology

Announced(p) == \E e \in stale : Touches(e, p)

Said(kind, of) == \E e \in stale : e.kind = kind /\ e.of = of /\ (e.heard \/ e.missed)

In(node, p) == node # Gone /\ node.pool = p

\* The same but for what only the controller writes, without waking itself.
Same(a, b) ==
    \/ a = b
    \/ /\ a # Gone /\ b # Gone
       /\ a.sel = b.sel /\ a.pool = b.pool /\ a.up = b.up /\ a.cordoned = b.cordoned
       /\ a.level = b.level /\ a.nvlink = b.nvlink

\* A cache lags behind only with events on their way.
NodesLag == \A n \in Nodes : ~Same(seen.nodes[n], live.nodes[n]) =>
               \A p \in Pools : In(seen.nodes[n], p) \/ In(live.nodes[n], p) => Said("nodes", p)
NrtLag == \A n \in Nodes : seen.nrt[n] # live.nrt[n] => Said("nrt", n)
PoolsLag == \A p \in Pools : /\ seen.pools[p] # live.pools[p] => Said("pools", p)
                             /\ seen.schedulers[p] # live.schedulers[p] => Said("schedulers", p)
TopologyLag == seen.topology # live.topology => Said("topology", Nobody)
Lags == NodesLag /\ NrtLag /\ PoolsLag /\ TopologyLag

\* What the controller knows of the CRD.
Installed == /\ nrtEnabled => live.crd
             /\ live.crd \/ \A n \in Nodes : live.nrt[n] = Gone

NodesOf(p) == [n \in Members(p) |-> live.nodes[n]]

\* The nodes of the NodePool are its own and carry what it wants of them.
Marked(p) ==
    \A n \in Members(p) :
        /\ live.nodes[n].sel = p
        /\ live.nodes[n].cond = NrtCondition(live.pools[p], live.nrt[n])
        /\ live.nodes[n].policy = PolicyOf(live.pools[p], live.nrt[n])
        /\ live.nodes[n].link = (live.pools[p].detect = "Auto")

\* The status and the detection result are those of these nodes.
Stated(p) ==
    LET pool == live.pools[p]  status == pool.status  nodes == NodesOf(p) IN
    /\ status.phase = IF live.schedulers[p] THEN nodePoolPhaseForNodeSituation(nodes)
                      ELSE "Unschedulable"
    /\ \A n \in Nodes : IF n \in Members(p)
                        THEN /\ status.nodes[n] # Gone
                             /\ status.nodes[n].state = NodeState(live.nodes[n])
                        ELSE status.nodes[n] = Gone
    /\ live.schedulers[p] =>
         /\ status.nrt = MissingItems(nodes)
         /\ status.mismatch <=> \E n \in Members(p) :
                                   pool.topology /\ live.topology = "levels" /\ ~live.nodes[n].level
    /\ pool.detect # "absent" => pool.detected = calculateGPUNetworkAccelerationDetected(pool, nodes)

\* What a reconcile between its two halves has in hand.
InHand(p) ==
    /\ job.copy = live.pools[p]
    /\ ~job.failed => job.nodes = NodesOf(p) /\ Marked(p)

\* A NodePool that nothing will wake is in order, or its reconcile knows what it has to.
Followed(p) ==
    \/ p \in unheard \/ p \in queued \/ Announced(p)
    \/ IF job # Idle /\ job.pool = p THEN InHand(p) ELSE Marked(p) /\ Stated(p)

Inv == Lags /\ Installed /\ \A p \in Pools : Followed(p)

-----------------------------------------------------------------------------
(* Events and views.                                                         *)

\* What is said of a NodePool touches it.
LEMMA SaidTouches ==
    ASSUME NEW p \in Pools, Said("nodes", p) \/ Said("pools", p) \/ Said("schedulers", p)
    PROVE  Announced(p)
BY DEF Said, Announced, Touches

\* Likewise of what is said after a step.
LEMMA SaidTouchesNext ==
    ASSUME NEW p \in Pools, Said("nodes", p)' \/ Said("pools", p)' \/ Said("schedulers", p)'
    PROVE  Announced(p)'
BY DEF Said, Announced, Touches

\* What is on its way stays so, as long as no cache moves.
LEMMA StillAnnounced ==
    ASSUME seen' = seen, stale \subseteq stale'
    PROVE  /\ \A p \in Pools : Announced(p) => Announced(p)'
           /\ \A kind, of : Said(kind, of) => Said(kind, of)'
BY DEF Announced, Touches, Said

\* Without an event on its way to it, the caches show a NodePool and its nodes as they are.
LEMMA SeenAsIs ==
    ASSUME TypeOK, Lags, NEW p \in Pools, ~Announced(p)
    PROVE  /\ seen.pools[p] = live.pools[p] /\ seen.schedulers[p] = live.schedulers[p]
           /\ live.pools[p].topology => seen.topology = live.topology
           /\ \A n \in Nodes : In(seen.nodes[n], p) \/ In(live.nodes[n], p) =>
                 Same(seen.nodes[n], live.nodes[n]) /\ seen.nrt[n] = live.nrt[n]
<1>1. ~Said("nodes", p) /\ ~Said("pools", p) /\ ~Said("schedulers", p)
  BY SaidTouches
<1>2. seen.pools[p] = live.pools[p] /\ seen.schedulers[p] = live.schedulers[p]
  BY <1>1 DEF Lags, PoolsLag
<1>3. live.pools[p].topology => seen.topology = live.topology
  BY <1>2 DEF Lags, TopologyLag, Said, Announced, Touches
<1>4. ASSUME NEW n \in Nodes, In(seen.nodes[n], p) \/ In(live.nodes[n], p)
      PROVE  Same(seen.nodes[n], live.nodes[n]) /\ seen.nrt[n] = live.nrt[n]
  <2>1. Same(seen.nodes[n], live.nodes[n])
    BY <1>1, <1>4 DEF Lags, NodesLag
  <2>2. In(seen.nodes[n], p)
    BY <1>4, <2>1 DEF Same, In
  <2>3. Said("nrt", n) => Announced(p)
    BY <2>2 DEF Said, Announced, Touches, In
  <2> QED BY <2>1, <2>3 DEF Lags, NrtLag
<1> QED BY <1>2, <1>3, <1>4

\* A step after which everything a NodePool's status depends on is as before.
Untouched(p) ==
    /\ nrtEnabled' = nrtEnabled
    /\ live'.pools[p] = live.pools[p] /\ live'.schedulers[p] = live.schedulers[p]
    /\ live.pools[p].topology => live'.topology = live.topology
    /\ \A n \in Nodes : In(live.nodes[n], p) \/ In(live'.nodes[n], p) =>
          live'.nodes[n] = live.nodes[n] /\ live'.nrt[n] = live.nrt[n]

\* After such a step the NodePool is as much in order as before.
LEMMA UntouchedView ==
    ASSUME NEW p \in Pools, Untouched(p)
    PROVE  /\ Members(p)' = Members(p) /\ NodesOf(p)' = NodesOf(p)
           /\ Marked(p) => Marked(p)'
           /\ Stated(p) => Stated(p)'
<1>1. Members(p)' = Members(p)
  BY DEF Members, Untouched, In
<1>2. \A n \in Members(p) : live'.nodes[n] = live.nodes[n] /\ live'.nrt[n] = live.nrt[n]
  BY DEF Members, Untouched, In
<1>3. NodesOf(p)' = NodesOf(p)
  BY <1>1, <1>2 DEF NodesOf
<1>4. Marked(p) => Marked(p)'
  BY <1>1, <1>2 DEF Marked, Untouched, NrtCondition, PolicyOf, evaluateNrtHealth,
               isPolicyEnforcing, topologyManagerPolicy
<1>5. Stated(p) => Stated(p)'
  <2>1. ASSUME NEW n \in Members(p) PROVE live'.nodes[n] = live.nodes[n]
    BY <1>2
  <2> DEFINE mismatch == \E n \in Members(p) :
                 live.pools[p].topology /\ live.topology = "levels" /\ ~live.nodes[n].level
  <2>2. mismatch' = mismatch
    BY <1>1, <1>2 DEF Untouched
  <2> QED BY <1>1, <1>2, <1>3, <2>2 DEF Stated, Untouched, NodeState, isNodeReady, MissingItems,
               nodePoolPhaseForNodeSituation, calculateGPUNetworkAccelerationDetected
<1> QED BY <1>1, <1>3, <1>4, <1>5

\* Such a step loses nothing that is on its way.
LEMMA UntouchedFollowed ==
    ASSUME NEW p \in Pools, Followed(p), Untouched(p), job' = job,
           p \in unheard \/ p \in queued \/ Announced(p)
              => p \in unheard' \/ p \in queued' \/ Announced(p)'
    PROVE  Followed(p)'
<1>1. InHand(p) => InHand(p)'
  BY UntouchedView DEF InHand, Untouched
<1> QED BY <1>1, UntouchedView DEF Followed

-----------------------------------------------------------------------------
(* Writes.                                                                   *)

\* The fields of a node and of a NodePool.
LEMMA NodeFields ==
    ASSUME NEW node \in Node
    PROVE  /\ node # Gone /\ node.sel \in Pools /\ node.pool \in Pools
           /\ node.up \in BOOLEAN /\ node.cordoned \in BOOLEAN /\ node.level \in BOOLEAN
           /\ node.nvlink \in BOOLEAN
BY HealthAssumption DEF Node

\* What is stored, field by field.
LEMMA StoreFields ==
    ASSUME TypeOK
    PROVE  /\ live.nodes \in [Nodes -> Node \cup {Gone}] /\ live.nrt \in [Nodes -> Nrts \cup {Gone}]
           /\ live.pools \in [Pools -> Pool] /\ live.schedulers \in [Pools -> BOOLEAN]
           /\ live.topology \in Topologies /\ live.crd \in BOOLEAN
           /\ seen.nodes \in [Nodes -> Node \cup {Gone}] /\ seen.nrt \in [Nodes -> Nrts \cup {Gone}]
           /\ seen.pools \in [Pools -> Pool] /\ seen.schedulers \in [Pools -> BOOLEAN]
           /\ seen.topology \in Topologies
BY DEF TypeOK, Store, Cache

\* Events as TypeOK has them.
EventsTyped(events) ==
    \A e \in events :
        /\ e.kind \in Kinds /\ e.heard \in BOOLEAN /\ e.missed \in BOOLEAN
        /\ e.kind \in {"nodes", "pools", "schedulers"} => e.of \in Pools
        /\ e.kind = "nrt" => e.of \in Nodes

\* The events of a node that changes go to its NodePool before and after; one that is neither
\* heard nor missed is about the controller's own fields.
LEMMA NodeEventsAre ==
    ASSUME NEW old \in Node \cup {Gone}, NEW new \in Node \cup {Gone}
    PROVE  /\ EventsTyped(NodeEvents(old, new))
           /\ ~Same(old, new) => \A p \in Pools : In(old, p) \/ In(new, p) =>
                 \E e \in NodeEvents(old, new) :
                    e.kind = "nodes" /\ e.of = p /\ (e.heard \/ e.missed)
<1> DEFINE heard == old = Gone \/ new = Gone \/ FilterNodeUpdatesForNPController(old, new)
           missed == ~heard /\ old.up # new.up
           ev(o) == [kind |-> "nodes", of |-> o.pool, heard |-> heard, missed |-> missed]
<1>1. NodeEvents(old, new) = {ev(o) : o \in {old, new} \ {Gone}}
  BY DEF NodeEvents
<1>2. heard \in BOOLEAN /\ missed \in BOOLEAN
  BY DEF FilterNodeUpdatesForNPController
<1>3. ~Same(old, new) => heard \/ missed
  BY DEF Same, FilterNodeUpdatesForNPController
<1> HIDE DEF heard, missed
<1>4. EventsTyped(NodeEvents(old, new))
  <2> SUFFICES ASSUME NEW e \in NodeEvents(old, new)
               PROVE  /\ e.kind = "nodes" /\ e.of \in Pools
                      /\ e.heard \in BOOLEAN /\ e.missed \in BOOLEAN
    BY DEF EventsTyped, Kinds
  <2>1. PICK o \in {old, new} \ {Gone} : e = ev(o)
    BY <1>1
  <2> QED BY <1>2, <2>1, NodeFields
<1>5. ASSUME ~Same(old, new), NEW p \in Pools, In(old, p) \/ In(new, p)
      PROVE  \E e \in NodeEvents(old, new) :
                e.kind = "nodes" /\ e.of = p /\ (e.heard \/ e.missed)
  <2>1. PICK o \in {old, new} \ {Gone} : o.pool = p
    BY <1>5 DEF In
  <2>2. ev(o) \in NodeEvents(old, new)
    BY <1>1
  <2>3. ev(o).kind = "nodes" /\ ev(o).of = p /\ (ev(o).heard \/ ev(o).missed)
    BY <1>3, <1>5, <2>1
  <2> QED BY <2>2, <2>3
<1> QED BY <1>4, <1>5

\* What storing nodes does.
LEMMA StoreNodesIs ==
    ASSUME TypeOK, NEW nodes \in [Nodes -> Node \cup {Gone}], StoreNodes(nodes)
    PROVE  /\ live' \in Store /\ live'.nodes = nodes /\ live'.nrt = live.nrt
           /\ live'.pools = live.pools /\ live'.schedulers = live.schedulers
           /\ live'.topology = live.topology /\ live'.crd = live.crd
           /\ stale \subseteq stale' /\ EventsTyped(stale')
           /\ \A n \in Nodes, p \in Pools :
                 ~Same(live.nodes[n], nodes[n]) /\ (In(live.nodes[n], p) \/ In(nodes[n], p))
                 => Said("nodes", p)'
<1>1. live' = [live EXCEPT !.nodes = nodes]
  BY DEF StoreNodes
<1>2. /\ live' \in Store /\ live'.nodes = nodes /\ live'.nrt = live.nrt
      /\ live'.pools = live.pools /\ live'.schedulers = live.schedulers
      /\ live'.topology = live.topology /\ live'.crd = live.crd
  BY <1>1 DEF TypeOK, Store
<1> DEFINE changed == {m \in Nodes : live.nodes[m] # nodes[m]}
<1>3. stale' = stale \cup UNION {NodeEvents(live.nodes[n], nodes[n]) : n \in changed}
  BY DEF StoreNodes
<1>4. EventsTyped(stale)
  BY DEF TypeOK, EventsTyped
<1>5. \A n \in Nodes : EventsTyped(NodeEvents(live.nodes[n], nodes[n]))
  BY ZenonT(30), NodeEventsAre, StoreFields
<1>6. EventsTyped(stale')
  BY <1>3, <1>4, <1>5 DEF EventsTyped
<1>7. ASSUME NEW n \in Nodes, NEW p \in Pools,
             ~Same(live.nodes[n], nodes[n]), In(live.nodes[n], p) \/ In(nodes[n], p)
      PROVE  Said("nodes", p)'
  <2>1. n \in changed
    BY <1>7 DEF Same
  <2>2. PICK e \in NodeEvents(live.nodes[n], nodes[n]) :
           e.kind = "nodes" /\ e.of = p /\ (e.heard \/ e.missed)
    <3>1. live.nodes[n] \in Node \cup {Gone} /\ nodes[n] \in Node \cup {Gone}
      BY StoreFields
    <3> QED BY <1>7, <3>1, NodeEventsAre
  <2>3. e \in stale'
    BY <1>3, <2>1, <2>2
  <2> QED BY <2>2, <2>3 DEF Said
<1> QED BY <1>2, <1>3, <1>6, <1>7

\* After a write to nodes, the caches lag only with events on their way.
LEMMA LagsAfterNodes ==
    ASSUME TypeOK, Lags, NEW nodes \in [Nodes -> Node \cup {Gone}], StoreNodes(nodes), seen' = seen
    PROVE  Lags'
<1>1. /\ live'.nodes = nodes /\ live'.nrt = live.nrt
      /\ live'.pools = live.pools /\ live'.schedulers = live.schedulers
      /\ live'.topology = live.topology /\ stale \subseteq stale'
      /\ \A n \in Nodes, p \in Pools :
            ~Same(live.nodes[n], nodes[n]) /\ (In(live.nodes[n], p) \/ In(nodes[n], p))
            => Said("nodes", p)'
  BY StoreNodesIs
<1>2. \A kind, of : Said(kind, of) => Said(kind, of)'
  BY <1>1, StillAnnounced
<1>3. NodesLag'
  <2> SUFFICES ASSUME NEW n \in Nodes, ~Same(seen.nodes[n], nodes[n]), NEW p \in Pools,
                      In(seen.nodes[n], p) \/ In(nodes[n], p)
               PROVE  Said("nodes", p)'
    BY <1>1 DEF NodesLag
  <2>1. CASE Same(seen.nodes[n], live.nodes[n])
    <3>1. ~Same(live.nodes[n], nodes[n])
      BY <2>1 DEF Same
    <3>2. In(live.nodes[n], p) \/ In(nodes[n], p)
      BY <2>1 DEF Same, In
    <3> QED BY <1>1, <3>1, <3>2
  <2>2. CASE ~Same(seen.nodes[n], live.nodes[n]) /\ Same(live.nodes[n], nodes[n])
    <3>1. In(seen.nodes[n], p) \/ In(live.nodes[n], p)
      BY <2>2 DEF Same, In
    <3> QED BY <1>2, <2>2, <3>1 DEF Lags, NodesLag
  <2>3. CASE ~Same(seen.nodes[n], live.nodes[n]) /\ ~Same(live.nodes[n], nodes[n])
    BY <1>1, <1>2, <2>3 DEF Lags, NodesLag
  <2> QED BY <2>1, <2>2, <2>3
<1>4. NrtLag' /\ PoolsLag' /\ TopologyLag'
  BY <1>1, <1>2 DEF Lags, NrtLag, PoolsLag, TopologyLag
<1> QED BY <1>3, <1>4 DEF Lags

\* What storing a NodePool does.
LEMMA StorePoolIs ==
    ASSUME TypeOK, NEW p \in Pools, NEW pool \in Pool, StorePool(p, pool)
    PROVE  /\ live' \in Store /\ live'.pools = [live.pools EXCEPT ![p] = pool]
           /\ live'.nodes = live.nodes /\ live'.nrt = live.nrt /\ live'.schedulers = live.schedulers
           /\ live'.topology = live.topology /\ live'.crd = live.crd
           /\ stale \subseteq stale' /\ EventsTyped(stale')
           /\ live.pools[p] # pool => Said("pools", p)'
<1>1. live' = [live EXCEPT !.pools[p] = pool]
  BY DEF StorePool
<1>2. /\ live' \in Store /\ live'.pools = [live.pools EXCEPT ![p] = pool]
      /\ live'.nodes = live.nodes /\ live'.nrt = live.nrt /\ live'.schedulers = live.schedulers
      /\ live'.topology = live.topology /\ live'.crd = live.crd
  BY <1>1 DEF TypeOK, Store
<1> DEFINE e == Event("pools", p, TRUE)
<1>3. stale' = IF pool = live.pools[p] THEN stale ELSE stale \cup {e}
  BY DEF StorePool
<1>4. e.kind = "pools" /\ e.of = p /\ e.heard = TRUE /\ e.missed = FALSE /\ "pools" \in Kinds
  BY ZenonT(30) DEF Event, Kinds
<1> HIDE DEF e
<1>5. EventsTyped(stale')
  BY ZenonT(30), <1>3, <1>4 DEF TypeOK, EventsTyped
<1>6. live.pools[p] # pool => Said("pools", p)'
  BY <1>3, <1>4 DEF Said
<1> QED BY <1>2, <1>3, <1>5, <1>6

\* Likewise after a write to a NodePool.
LEMMA LagsAfterPool ==
    ASSUME TypeOK, Lags, NEW p \in Pools, NEW pool \in Pool, StorePool(p, pool), seen' = seen
    PROVE  Lags'
<1>1. /\ live'.pools = [live.pools EXCEPT ![p] = pool]
      /\ live'.nodes = live.nodes /\ live'.nrt = live.nrt /\ live'.schedulers = live.schedulers
      /\ live'.topology = live.topology /\ stale \subseteq stale'
      /\ live.pools[p] # pool => Said("pools", p)'
  BY StorePoolIs
<1>2. \A kind, of : Said(kind, of) => Said(kind, of)'
  BY <1>1, StillAnnounced
<1>3. PoolsLag'
  BY <1>1, <1>2, StoreFields DEF Lags, PoolsLag
<1>4. NodesLag' /\ NrtLag' /\ TopologyLag'
  BY <1>1, <1>2 DEF Lags, NodesLag, NrtLag, TopologyLag
<1> QED BY <1>3, <1>4 DEF Lags

-----------------------------------------------------------------------------
(* Events that arrive.                                                       *)

\* A delivery passes on what it takes from under way.
LEMMA SyncPasses ==
    ASSUME TypeOK, Lags, NEW kind \in Kinds, Sync(kind), NEW p \in Pools, Announced(p)
    PROVE  p \in queued' \/ p \in unheard' \/ Announced(p)'
<1> DEFINE events == {e \in stale : e.kind = kind}
           of(e) == CASE kind = "nrt" -> MapNrtToNodePoolEvent(e.of, seen.nodes)
                      [] kind = "topology" -> {q \in Pools : seen.pools[q].topology}
                      [] OTHER -> {e.of}
<1>1. /\ stale' = stale \ events
      /\ seen' = [seen EXCEPT ![kind] = live[kind]]
      /\ queued' = queued \cup UNION {of(e) : e \in {f \in events : f.heard}}
      /\ unheard' = unheard \cup UNION {of(e) : e \in {f \in events : f.missed}}
  BY DEF Sync
<1>2. ASSUME NEW e \in stale, e.kind = kind, e.heard \/ e.missed, p \in of(e)
      PROVE  p \in queued' \/ p \in unheard'
  BY <1>1, <1>2
<1>3. PICK e \in stale : Touches(e, p)
  BY DEF Announced
<1>4. CASE e.kind = kind
  <2>1. p \in of(e)
    BY <1>3, <1>4 DEF Touches, MapNrtToNodePoolEvent
  <2> QED BY <1>2, <1>3, <1>4, <2>1 DEF Touches
<1>5. CASE e.kind # kind
  <2>1. e \in stale'
    BY <1>1, <1>5
  <2>2. CASE e.kind = "nrt" /\ kind = "nodes"
    <3>1. e.of \in Nodes /\ In(seen.nodes[e.of], p) /\ seen'.nodes = live.nodes
      BY <1>1, <1>3, <2>2 DEF Touches, In, TypeOK, Cache
    <3>2. CASE Same(seen.nodes[e.of], live.nodes[e.of])
      <4>1. In(live.nodes[e.of], p)
        BY <3>1, <3>2 DEF Same, In
      <4>2. Touches(e, p)'
        BY <1>3, <2>2, <3>1, <4>1 DEF Touches, In
      <4> QED BY <2>1, <4>2 DEF Announced
    <3>3. CASE ~Same(seen.nodes[e.of], live.nodes[e.of])
      <4>1. PICK f \in stale : f.kind = "nodes" /\ f.of = p /\ (f.heard \/ f.missed)
        BY <3>1, <3>3 DEF Lags, NodesLag, Said
      <4>2. p \in of(f)
        BY <2>2, <4>1
      <4> QED BY <1>2, <2>2, <4>1, <4>2
    <3> QED BY <3>2, <3>3
  <2>3. CASE e.kind = "topology" /\ kind = "pools"
    <3>1. seen'.pools = live.pools
      BY <1>1, <2>3 DEF TypeOK, Cache
    <3>2. CASE seen.pools[p] = live.pools[p]
      <4>1. Touches(e, p)'
        BY <1>3, <2>3, <3>1, <3>2 DEF Touches
      <4> QED BY <2>1, <4>1 DEF Announced
    <3>3. CASE seen.pools[p] # live.pools[p]
      <4>1. PICK f \in stale : f.kind = "pools" /\ f.of = p /\ (f.heard \/ f.missed)
        BY <3>3 DEF Lags, PoolsLag, Said
      <4>2. p \in of(f)
        BY <2>3, <4>1
      <4> QED BY <1>2, <2>3, <4>1, <4>2
    <3> QED BY <3>2, <3>3
  <2>4. CASE ~(e.kind = "nrt" /\ kind = "nodes") /\ ~(e.kind = "topology" /\ kind = "pools")
    <3>1. /\ e.kind = "nrt" => seen'.nodes = seen.nodes
          /\ e.kind = "topology" => seen'.pools = seen.pools
      BY <1>1, <1>5, <2>4 DEF TypeOK, Cache, Kinds
    <3>2. Touches(e, p)'
      BY <1>3, <3>1 DEF Touches
    <3> QED BY <2>1, <3>2 DEF Announced
  <2> QED BY <2>2, <2>3, <2>4
<1> QED BY <1>4, <1>5

\* A delivery.
LEMMA SyncKeeps ==
    ASSUME TypeOK, Inv, NEW kind \in Kinds, Sync(kind)
    PROVE  TypeOK' /\ Inv'
<1> DEFINE events == {e \in stale : e.kind = kind}
           of(e) == CASE kind = "nrt" -> MapNrtToNodePoolEvent(e.of, seen.nodes)
                      [] kind = "topology" -> {q \in Pools : seen.pools[q].topology}
                      [] OTHER -> {e.of}
<1>1. /\ stale' = stale \ events
      /\ seen' = [seen EXCEPT ![kind] = live[kind]]
      /\ queued' = queued \cup UNION {of(e) : e \in {f \in events : f.heard}}
      /\ unheard' = unheard \cup UNION {of(e) : e \in {f \in events : f.missed}}
      /\ UNCHANGED <<live, job, failures, setup, nrtEnabled, edits>>
  BY DEF Sync, Rest
<1>2. \A e \in events : of(e) \subseteq Pools
  <2> SUFFICES ASSUME NEW e \in events PROVE of(e) \subseteq Pools
    OBVIOUS
  <2>1. /\ kind \in {"nodes", "pools", "schedulers"} => e.of \in Pools
        /\ kind = "nrt" => e.of \in Nodes
    BY DEF TypeOK
  <2>2. CASE kind = "nrt"
    BY <2>1, <2>2, StoreFields, NodeFields DEF MapNrtToNodePoolEvent
  <2>3. CASE kind = "topology"
    BY <2>3
  <2>4. CASE kind \in {"nodes", "pools", "schedulers"}
    BY <2>1, <2>4
  <2> QED BY <2>2, <2>3, <2>4 DEF Kinds
<1>3. seen' \in Cache
  BY <1>1, StoreFields DEF TypeOK, Cache, Kinds
<1>4. TypeOK'
  BY <1>1, <1>2, <1>3 DEF TypeOK
<1>5. ASSUME NEW k \in Kinds \ {kind}, NEW x, Said(k, x) PROVE Said(k, x)'
  BY <1>1, <1>5 DEF Said
<1>6. /\ kind = "nodes" => seen'.nodes = live.nodes
      /\ kind = "nrt" => seen'.nrt = live.nrt
      /\ kind = "pools" => seen'.pools = live.pools
      /\ kind = "schedulers" => seen'.schedulers = live.schedulers
      /\ kind = "topology" => seen'.topology = live.topology
      /\ kind # "nodes" => seen'.nodes = seen.nodes
      /\ kind # "nrt" => seen'.nrt = seen.nrt
      /\ kind # "pools" => seen'.pools = seen.pools
      /\ kind # "schedulers" => seen'.schedulers = seen.schedulers
      /\ kind # "topology" => seen'.topology = seen.topology
  BY <1>1 DEF TypeOK, Cache, Kinds
<1>7. NodesLag'
  BY <1>1, <1>5, <1>6 DEF Inv, Lags, NodesLag, Same, Kinds
<1>8. NrtLag' /\ TopologyLag'
  BY <1>1, <1>5, <1>6 DEF Inv, Lags, NrtLag, TopologyLag, Kinds
<1>9. PoolsLag'
  BY <1>1, <1>5, <1>6 DEF Inv, Lags, PoolsLag, Kinds
<1>10. Installed'
  BY <1>1 DEF Inv, Installed
<1>11. ASSUME NEW p \in Pools PROVE Followed(p)'
  <2>1. p \in unheard \/ p \in queued \/ Announced(p)
        => p \in unheard' \/ p \in queued' \/ Announced(p)'
    BY <1>1, SyncPasses DEF Inv
  <2>2. Untouched(p)
    BY <1>1 DEF Untouched
  <2> QED BY <1>1, <2>1, <2>2, UntouchedFollowed DEF Inv
<1> QED BY <1>4, <1>7, <1>8, <1>9, <1>10, <1>11 DEF Inv, Lags

\* A start: every NodePool is in the queue.
LEMMA StartedKeeps ==
    ASSUME TypeOK, Inv, Started, failures' \in 0 .. MaxFailures
    PROVE  TypeOK' /\ Inv'
<1>1. /\ seen' = [k \in Kinds |-> live[k]] /\ stale' = {}
      /\ queued' = Pools /\ job' = Idle /\ unheard' = {} /\ nrtEnabled' = live.crd
      /\ UNCHANGED <<setup, live, edits>>
  BY DEF Started
<1>2. /\ seen'.nodes = live.nodes /\ seen'.nrt = live.nrt /\ seen'.pools = live.pools
      /\ seen'.schedulers = live.schedulers /\ seen'.topology = live.topology
  BY <1>1 DEF Kinds
<1>3. seen' \in Cache
  BY <1>1, StoreFields DEF Cache, Kinds
<1>4. TypeOK'
  BY <1>1, <1>3, StoreFields DEF TypeOK
<1>5. Lags'
  BY <1>1, <1>2 DEF Lags, NodesLag, NrtLag, PoolsLag, TopologyLag, Same
<1>6. Installed' /\ \A p \in Pools : Followed(p)'
  BY <1>1 DEF Inv, Installed, Followed
<1> QED BY <1>4, <1>5, <1>6 DEF Inv

-----------------------------------------------------------------------------
(* Other people's changes.                                                   *)

\* A change that is announced to every NodePool it concerns.
LEMMA AnnouncedKeeps ==
    ASSUME TypeOK, Inv, Outside, live' \in Store, stale \subseteq stale', EventsTyped(stale'),
           edits' \in 0 .. MaxEdits, Lags', Installed',
           \A p \in Pools : Untouched(p) \/ Announced(p)'
    PROVE  TypeOK' /\ Inv'
<1>1. UNCHANGED <<setup, seen, queued, job, nrtEnabled, unheard, failures>>
  BY DEF Outside
<1>2. TypeOK'
  BY <1>1 DEF TypeOK, EventsTyped
<1>3. ASSUME NEW p \in Pools PROVE Followed(p)'
  <2>1. CASE Announced(p)'
    BY <2>1 DEF Followed
  <2>2. CASE Untouched(p)
    <3>1. Announced(p) => Announced(p)'
      BY <1>1, StillAnnounced
    <3> QED BY <1>1, <2>2, <3>1, UntouchedFollowed DEF Inv
  <2> QED BY <2>1, <2>2
<1> QED BY <1>2, <1>3 DEF Inv

\* A bounded number of changes.
LEMMA EditCounts ==
    ASSUME TypeOK, NEW kind, Edit(kind)
    PROVE  edits' \in 0 .. MaxEdits
BY HealthAssumption DEF TypeOK, Edit

\* A node that changes in a way others can tell.
LEMMA NodeChanged ==
    ASSUME TypeOK, Inv, Outside, edits' \in 0 .. MaxEdits,
           NEW n \in Nodes, NEW node \in Node \cup {Gone}, ~Same(live.nodes[n], node),
           StoreNodes([live.nodes EXCEPT ![n] = node])
    PROVE  TypeOK' /\ Inv'
<1> DEFINE nodes == [live.nodes EXCEPT ![n] = node]
<1>1. /\ nodes \in [Nodes -> Node \cup {Gone}] /\ nodes[n] = node
      /\ \A m \in Nodes \ {n} : nodes[m] = live.nodes[m]
  BY StoreFields
<1>2. StoreNodes(nodes) /\ seen' = seen /\ nrtEnabled' = nrtEnabled
  BY DEF Outside
<1> HIDE DEF nodes
<1>3. /\ live' \in Store /\ live'.nodes = nodes /\ live'.nrt = live.nrt
      /\ live'.pools = live.pools /\ live'.schedulers = live.schedulers
      /\ live'.topology = live.topology /\ live'.crd = live.crd
      /\ stale \subseteq stale' /\ EventsTyped(stale')
      /\ \A m \in Nodes, p \in Pools :
            ~Same(live.nodes[m], nodes[m]) /\ (In(live.nodes[m], p) \/ In(nodes[m], p))
            => Said("nodes", p)'
  BY <1>1, <1>2, StoreNodesIs
<1>4. Lags'
  BY ZenonT(30), <1>1, <1>2, LagsAfterNodes DEF Inv
<1>5. Installed'
  BY <1>2, <1>3 DEF Inv, Installed
<1>6. ASSUME NEW p \in Pools PROVE Untouched(p) \/ Announced(p)'
  <2>1. CASE In(live.nodes[n], p) \/ In(node, p)
    BY <1>1, <1>3, <2>1, SaidTouchesNext
  <2>2. CASE ~(In(live.nodes[n], p) \/ In(node, p))
    BY <1>1, <1>2, <1>3, <2>2 DEF Untouched
  <2> QED BY <2>1, <2>2
<1> QED BY <1>3, <1>4, <1>5, <1>6, AnnouncedKeeps

\* A node joins, leaves or changes.
LEMMA EditNodeKeeps ==
    ASSUME TypeOK, Inv, EditNode
    PROVE  TypeOK' /\ Inv'
<1>1. PICK n \in Nodes :
        LET set(node) == StoreNodes([live.nodes EXCEPT ![n] = node]) IN
        /\ \/ Edit("join") /\ live.nodes[n] = Gone /\ \E p \in Pools : set(NewNode(p))
           \/ /\ live.nodes[n] # Gone
              /\ \/ Edit("leave") /\ set(Gone)
                 \/ Edit("select") /\ \E p \in Pools \ {live.nodes[n].sel} :
                                         set([live.nodes[n] EXCEPT !.sel = p])
                 \/ Edit("cordon") /\ set([live.nodes[n] EXCEPT !.cordoned = ~@])
                 \/ Edit("level") /\ set([live.nodes[n] EXCEPT !.level = ~@])
                 \/ Edit("nvlink") /\ set([live.nodes[n] EXCEPT !.nvlink = ~@])
                 \/ Edit("up") /\ set([live.nodes[n] EXCEPT !.up = ~@])
        /\ Outside
  BY ZenonT(30) DEF EditNode
<1> DEFINE old == live.nodes[n]
<1>2. old \in Node \cup {Gone}
  BY StoreFields
<1>3. Outside /\ edits' \in 0 .. MaxEdits
  BY <1>1, EditCounts
<1>4. SUFFICES \E node \in Node \cup {Gone} :
                  ~Same(old, node) /\ StoreNodes([live.nodes EXCEPT ![n] = node])
  BY <1>3, NodeChanged
<1>5. CASE old = Gone /\ \E p \in Pools : StoreNodes([live.nodes EXCEPT ![n] = NewNode(p)])
  <2>1. PICK p \in Pools : StoreNodes([live.nodes EXCEPT ![n] = NewNode(p)])
    BY <1>5
  <2>2. NewNode(p) \in Node
    BY HealthAssumption DEF NewNode, Node, Policies
  <2>3. ~Same(old, NewNode(p))
    BY <1>5, <2>2, NodeFields DEF Same
  <2> QED BY <2>1, <2>2, <2>3
<1>6. CASE old # Gone
  <2>1. old \in Node
    BY <1>2, <1>6
  <2>2. CASE StoreNodes([live.nodes EXCEPT ![n] = Gone])
    BY ZenonT(30), <1>6, <2>2 DEF Same
  <2>3. ASSUME NEW p \in Pools \ {old.sel}, StoreNodes([live.nodes EXCEPT ![n] = [old EXCEPT !.sel = p]])
        PROVE  \E node \in Node \cup {Gone} :
                  ~Same(old, node) /\ StoreNodes([live.nodes EXCEPT ![n] = node])
    <3>1. [old EXCEPT !.sel = p] \in Node /\ [old EXCEPT !.sel = p].sel = p
      BY <2>1 DEF Node
    <3>2. ~Same(old, [old EXCEPT !.sel = p])
      BY ZenonT(30), <3>1 DEF Same
    <3> QED BY <2>3, <3>1, <3>2
  <2>4. CASE StoreNodes([live.nodes EXCEPT ![n] = [old EXCEPT !.cordoned = ~@]])
    <3>1. /\ [old EXCEPT !.cordoned = ~@] \in Node
          /\ [old EXCEPT !.cordoned = ~@].cordoned = ~old.cordoned /\ old.cordoned \in BOOLEAN
      BY ZenonT(30), <2>1 DEF Node
    <3>2. ~Same(old, [old EXCEPT !.cordoned = ~@])
      BY ZenonT(30), <3>1 DEF Same
    <3> QED BY <2>4, <3>1, <3>2
  <2>5. CASE StoreNodes([live.nodes EXCEPT ![n] = [old EXCEPT !.level = ~@]])
    <3>1. /\ [old EXCEPT !.level = ~@] \in Node
          /\ [old EXCEPT !.level = ~@].level = ~old.level /\ old.level \in BOOLEAN
      BY ZenonT(30), <2>1 DEF Node
    <3>2. ~Same(old, [old EXCEPT !.level = ~@])
      BY ZenonT(30), <3>1 DEF Same
    <3> QED BY <2>5, <3>1, <3>2
  <2>6. CASE StoreNodes([live.nodes EXCEPT ![n] = [old EXCEPT !.nvlink = ~@]])
    <3>1. /\ [old EXCEPT !.nvlink = ~@] \in Node
          /\ [old EXCEPT !.nvlink = ~@].nvlink = ~old.nvlink /\ old.nvlink \in BOOLEAN
      BY ZenonT(30), <2>1 DEF Node
    <3>2. ~Same(old, [old EXCEPT !.nvlink = ~@])
      BY ZenonT(30), <3>1 DEF Same
    <3> QED BY <2>6, <3>1, <3>2
  <2>7. CASE StoreNodes([live.nodes EXCEPT ![n] = [old EXCEPT !.up = ~@]])
    <3>1. /\ [old EXCEPT !.up = ~@] \in Node
          /\ [old EXCEPT !.up = ~@].up = ~old.up /\ old.up \in BOOLEAN
      BY ZenonT(30), <2>1 DEF Node
    <3>2. ~Same(old, [old EXCEPT !.up = ~@])
      BY ZenonT(30), <3>1 DEF Same
    <3> QED BY <2>7, <3>1, <3>2
  <2> QED BY ZenonT(30), <1>1, <1>6, <2>2, <2>3, <2>4, <2>5, <2>6, <2>7
<1> QED BY <1>1, <1>5, <1>6

\* A NodePool that changes.
LEMMA PoolChanged ==
    ASSUME TypeOK, Inv, Outside, edits' \in 0 .. MaxEdits,
           NEW p \in Pools, NEW pool \in Pool, StorePool(p, pool)
    PROVE  TypeOK' /\ Inv'
<1>1. /\ live' \in Store /\ live'.pools = [live.pools EXCEPT ![p] = pool]
      /\ live'.nodes = live.nodes /\ live'.nrt = live.nrt /\ live'.schedulers = live.schedulers
      /\ live'.topology = live.topology /\ live'.crd = live.crd
      /\ stale \subseteq stale' /\ EventsTyped(stale')
      /\ live.pools[p] # pool => Said("pools", p)'
  BY StorePoolIs
<1>2. seen' = seen /\ nrtEnabled' = nrtEnabled
  BY DEF Outside
<1>3. Lags'
  BY <1>2, LagsAfterPool DEF Inv
<1>4. Installed'
  BY <1>1, <1>2 DEF Inv, Installed
<1>5. ASSUME NEW q \in Pools PROVE Untouched(q) \/ Announced(q)'
  <2>1. CASE q = p /\ live.pools[p] # pool
    BY <1>1, <2>1, SaidTouchesNext
  <2>2. CASE ~(q = p /\ live.pools[p] # pool)
    BY ZenonT(30), <1>1, <1>2, <2>2, StoreFields DEF Untouched
  <2> QED BY <2>1, <2>2
<1> QED BY <1>1, <1>3, <1>4, <1>5, AnnouncedKeeps

\* A scheduler that becomes ready or no longer is.
LEMMA SchedulerChanged ==
    ASSUME TypeOK, Inv, Outside, edits' \in 0 .. MaxEdits, NEW p \in Pools,
           live' = [live EXCEPT !.schedulers[p] = ~@],
           stale' = stale \cup {Event("schedulers", p, TRUE)}
    PROVE  TypeOK' /\ Inv'
<1> DEFINE e == Event("schedulers", p, TRUE)
<1>1. /\ live' \in Store /\ live'.pools = live.pools
      /\ live'.nodes = live.nodes /\ live'.nrt = live.nrt
      /\ \A q \in Pools \ {p} : live'.schedulers[q] = live.schedulers[q]
      /\ live'.topology = live.topology /\ live'.crd = live.crd
  BY ZenonT(30), StoreFields DEF TypeOK, Store
<1>2. e.kind = "schedulers" /\ e.of = p /\ e.heard = TRUE /\ e.missed = FALSE /\ "schedulers" \in Kinds
  BY ZenonT(30) DEF Event, Kinds
<1>3. stale' = stale \cup {e} /\ seen' = seen /\ nrtEnabled' = nrtEnabled
  BY DEF Outside
<1> HIDE DEF e
<1>4. stale \subseteq stale' /\ EventsTyped(stale') /\ Said("schedulers", p)'
  BY ZenonT(30), <1>2, <1>3 DEF TypeOK, EventsTyped, Said
<1>5. \A kind, of : Said(kind, of) => Said(kind, of)'
  BY ZenonT(30), <1>3, <1>4, StillAnnounced
<1>6. Lags'
  <2>1. PoolsLag'
    BY <1>1, <1>3, <1>4, <1>5 DEF Inv, Lags, PoolsLag
  <2>2. NodesLag' /\ NrtLag' /\ TopologyLag'
    BY <1>1, <1>3, <1>5 DEF Inv, Lags, NodesLag, NrtLag, TopologyLag
  <2> QED BY <2>1, <2>2 DEF Lags
<1>7. Installed'
  BY <1>1, <1>3 DEF Inv, Installed
<1>8. ASSUME NEW q \in Pools PROVE Untouched(q) \/ Announced(q)'
  <2>1. CASE q = p
    BY <1>4, <2>1, SaidTouchesNext
  <2>2. CASE q # p
    BY <1>1, <1>3, <2>2 DEF Untouched
  <2> QED BY <2>1, <2>2
<1> QED BY ZenonT(30), <1>1, <1>4, <1>6, <1>7, <1>8, AnnouncedKeeps

\* A NodePool or its scheduler changes.
LEMMA EditPoolKeeps ==
    ASSUME TypeOK, Inv, EditPool
    PROVE  TypeOK' /\ Inv'
<1>1. PICK p \in Pools :
        /\ \/ Edit("numa") /\ StorePool(p, [live.pools[p] EXCEPT !.numa = ~@])
           \/ Edit("detect") /\ \E d \in Detections \ {live.pools[p].detect} :
                                   StorePool(p, [live.pools[p] EXCEPT !.detect = d])
           \/ Edit("network") /\ StorePool(p, [live.pools[p] EXCEPT !.topology = ~@])
           \/ /\ Edit("scheduler")
              /\ live' = [live EXCEPT !.schedulers[p] = ~@]
              /\ stale' = stale \cup {Event("schedulers", p, TRUE)}
        /\ Outside
  BY ZenonT(30) DEF EditPool
<1>2. live.pools[p] \in Pool
  BY StoreFields
<1>3. Outside /\ edits' \in 0 .. MaxEdits
  BY ZenonT(30), <1>1, EditCounts
<1>4. CASE StorePool(p, [live.pools[p] EXCEPT !.numa = ~@])
  <2>1. [live.pools[p] EXCEPT !.numa = ~@] \in Pool
    BY ZenonT(30), <1>2 DEF Pool
  <2> QED BY <1>3, <1>4, <2>1, PoolChanged
<1>5. ASSUME NEW d \in Detections, StorePool(p, [live.pools[p] EXCEPT !.detect = d])
      PROVE  TypeOK' /\ Inv'
  <2>1. [live.pools[p] EXCEPT !.detect = d] \in Pool
    BY <1>2 DEF Pool
  <2> QED BY <1>3, <1>5, <2>1, PoolChanged
<1>6. CASE StorePool(p, [live.pools[p] EXCEPT !.topology = ~@])
  <2>1. [live.pools[p] EXCEPT !.topology = ~@] \in Pool
    BY ZenonT(30), <1>2 DEF Pool
  <2> QED BY <1>3, <1>6, <2>1, PoolChanged
<1>7. CASE /\ live' = [live EXCEPT !.schedulers[p] = ~@]
           /\ stale' = stale \cup {Event("schedulers", p, TRUE)}
  BY ZenonT(30), <1>3, <1>7, SchedulerChanged
<1> QED BY ZenonT(30), <1>1, <1>4, <1>5, <1>6, <1>7

\* A NodeResourceTopology changes: the NodePool of its node is told, or already has been
\* told of the node.
LEMMA EditNrtKeeps ==
    ASSUME TypeOK, Inv, EditNrt
    PROVE  TypeOK' /\ Inv'
<1>1. PICK n \in Nodes, nrt \in Nrts \cup {Gone} :
        /\ live' = [live EXCEPT !.nrt[n] = nrt]
        /\ stale' = stale \cup {Event("nrt", n, NrtPasses(live.nrt[n], nrt))}
  BY ZenonT(30) DEF EditNrt
<1>2. Outside /\ edits' \in 0 .. MaxEdits /\ live.crd
  BY EditCounts DEF EditNrt
<1>3. /\ live' \in Store /\ live'.pools = live.pools /\ live'.nodes = live.nodes
      /\ \A m \in Nodes \ {n} : live'.nrt[m] = live.nrt[m]
      /\ live'.schedulers = live.schedulers
      /\ live'.topology = live.topology /\ live'.crd = live.crd
  BY <1>1, StoreFields DEF TypeOK, Store
<1>4. PICK e : /\ e = Event("nrt", n, NrtPasses(live.nrt[n], nrt))
               /\ e.kind = "nrt" /\ e.of = n /\ e.heard \in BOOLEAN /\ e.missed \in BOOLEAN
               /\ e.heard \/ e.missed
  <2> DEFINE ev == Event("nrt", n, NrtPasses(live.nrt[n], nrt))
  <2>1. /\ ev.kind = "nrt" /\ ev.of = n /\ ev.heard \in BOOLEAN /\ ev.missed \in BOOLEAN
        /\ ev.heard \/ ev.missed
    BY ZenonT(30) DEF Event, NrtPasses
  <2> HIDE DEF ev
  <2>2. ev = Event("nrt", n, NrtPasses(live.nrt[n], nrt))
    BY DEF ev
  <2> QED BY <2>1, <2>2
<1>5. stale' = stale \cup {e} /\ seen' = seen /\ nrtEnabled' = nrtEnabled
  BY <1>1, <1>2, <1>4 DEF Outside
<1>6. stale \subseteq stale' /\ EventsTyped(stale') /\ Said("nrt", n)'
  BY <1>4, <1>5 DEF TypeOK, EventsTyped, Said, Kinds
<1>7. \A kind, of : Said(kind, of) => Said(kind, of)'
  BY <1>5, <1>6, StillAnnounced
<1>8. Lags'
  <2>1. NrtLag'
    BY ZenonT(30), <1>3, <1>5, <1>6, <1>7 DEF Inv, Lags, NrtLag
  <2>2. NodesLag' /\ PoolsLag' /\ TopologyLag'
    BY <1>3, <1>5, <1>7 DEF Inv, Lags, NodesLag, PoolsLag, TopologyLag
  <2> QED BY <2>1, <2>2 DEF Lags
<1>9. Installed'
  BY <1>2, <1>3, <1>5 DEF Inv, Installed
<1>10. ASSUME NEW q \in Pools PROVE Untouched(q) \/ Announced(q)'
  <2>1. CASE ~In(live.nodes[n], q)
    BY <1>3, <1>5, <2>1 DEF Untouched
  <2>2. CASE In(seen.nodes[n], q)
    <3>1. Touches(e, q)'
      BY <1>4, <1>5, <2>2 DEF Touches, In
    <3> QED BY <1>5, <3>1 DEF Announced
  <2>3. CASE In(live.nodes[n], q) /\ ~In(seen.nodes[n], q)
    <3>1. ~Same(seen.nodes[n], live.nodes[n])
      BY <2>3 DEF Same, In
    <3>2. Said("nodes", q)'
      BY <1>7, <2>3, <3>1 DEF Inv, Lags, NodesLag
    <3> QED BY <3>2, SaidTouchesNext
  <2> QED BY <2>1, <2>2, <2>3
<1> QED BY <1>2, <1>3, <1>6, <1>8, <1>9, <1>10, AnnouncedKeeps

\* The topology changes: no NodePool that uses it is told, and each counts as unheard.
LEMMA EditTopologyKeeps ==
    ASSUME TypeOK, Inv, EditTopology
    PROVE  TypeOK' /\ Inv'
<1>1. PICK t \in Topologies : live' = [live EXCEPT !.topology = t]
  BY DEF EditTopology
<1> DEFINE e == Event("topology", Nobody, FALSE)
<1>2. /\ live' \in Store /\ live'.pools = live.pools /\ live'.nodes = live.nodes
      /\ live'.nrt = live.nrt /\ live'.schedulers = live.schedulers /\ live'.crd = live.crd
  BY <1>1 DEF TypeOK, Store
<1>3. /\ e.kind = "topology" /\ e.of = Nobody /\ e.heard = FALSE /\ e.missed = TRUE
      /\ "topology" \in Kinds
  BY ZenonT(30) DEF Event, Kinds
<1>4. /\ stale' = stale \cup {e} /\ seen' = seen /\ nrtEnabled' = nrtEnabled
      /\ Outside /\ edits' \in 0 .. MaxEdits
  BY EditCounts DEF EditTopology, Outside
<1> HIDE DEF e
<1>5. stale \subseteq stale' /\ EventsTyped(stale') /\ Said("topology", Nobody)'
  BY ZenonT(30), <1>3, <1>4 DEF TypeOK, EventsTyped, Said
<1>6. \A kind, of : Said(kind, of) => Said(kind, of)'
  BY ZenonT(30), <1>4, <1>5, StillAnnounced
<1>7. Lags'
  BY <1>2, <1>4, <1>5, <1>6 DEF Inv, Lags, NodesLag, NrtLag, PoolsLag, TopologyLag
<1>8. Installed'
  BY <1>2, <1>4 DEF Inv, Installed
<1>9. ASSUME NEW q \in Pools PROVE Untouched(q) \/ Announced(q)'
  <2>1. CASE ~live.pools[q].topology
    BY <1>2, <1>4, <2>1 DEF Untouched
  <2>2. CASE seen.pools[q].topology
    <3>1. Touches(e, q)'
      BY <1>3, <1>4, <2>2 DEF Touches
    <3> QED BY <1>4, <3>1 DEF Announced
  <2>3. CASE live.pools[q].topology /\ ~seen.pools[q].topology
    <3>1. Said("pools", q)'
      BY <1>6, <2>3 DEF Inv, Lags, PoolsLag
    <3> QED BY <3>1, SaidTouchesNext
  <2> QED BY <2>1, <2>2, <2>3
<1> QED BY <1>2, <1>4, <1>5, <1>7, <1>8, <1>9, AnnouncedKeeps

\* The CRD is installed.
LEMMA InstallCRDKeeps ==
    ASSUME TypeOK, Inv, InstallCRD
    PROVE  TypeOK' /\ Inv'
<1>1. /\ live' = [live EXCEPT !.crd = TRUE] /\ stale' = stale
      /\ Outside /\ edits' \in 0 .. MaxEdits
  BY EditCounts DEF InstallCRD
<1>2. /\ live' \in Store /\ live'.pools = live.pools /\ live'.nodes = live.nodes
      /\ live'.nrt = live.nrt /\ live'.schedulers = live.schedulers
      /\ live'.topology = live.topology /\ live'.crd = TRUE
  BY ZenonT(30), <1>1 DEF TypeOK, Store
<1>3. seen' = seen /\ nrtEnabled' = nrtEnabled /\ EventsTyped(stale')
  BY <1>1 DEF Outside, TypeOK, EventsTyped
<1>4. Lags' /\ Installed'
  BY <1>1, <1>2, <1>3 DEF Inv, Lags, NodesLag, NrtLag, PoolsLag, TopologyLag, Said, Installed
<1>5. \A q \in Pools : Untouched(q)
  BY <1>2, <1>3 DEF Untouched
<1> QED BY <1>1, <1>2, <1>3, <1>4, <1>5, AnnouncedKeeps

-----------------------------------------------------------------------------
(* The nodes of a NodePool.                                                  *)

\* A copy, a node and an error after a write: r is the outcome of Patch.
Written(a, b, c, new, r) ==
    \E a2 \in Node, b2 \in Node \cup {Gone}, c2 \in BOOLEAN :
      /\ r = <<a2, b2, c2>>
      /\ \/ new = a /\ a2 = a /\ b2 = b /\ c2 = c
         \/ new # a /\ a2 = a /\ b2 = b /\ c2 = TRUE
         \/ /\ new # a /\ b # Gone /\ a2 = b2 /\ c2 = c
            /\ b2.pool = IF new.pool # a.pool THEN new.pool ELSE b.pool
            /\ a = b => b2 = new

\* A write changes nothing because nothing has to change, or fails, or stores the fields that
\* differ in the copy; then copy and node are one, and what was wanted if they were one before.
LEMMA PatchIs ==
    ASSUME NEW a \in Node, NEW b \in Node \cup {Gone}, NEW c \in BOOLEAN,
           NEW new \in Node, NEW fails \in BOOLEAN
    PROVE  Written(a, b, c, new, Patch(<<a, b, c>>, new, fails))
<1>1. CASE new = a
  BY <1>1 DEF Patch, Written
<1>2. CASE new # a /\ (fails \/ b = Gone)
  BY ZenonT(30), <1>2 DEF Patch, Written
<1>3. CASE new # a /\ ~fails /\ b # Gone
  <2> DEFINE stored == [f \in DOMAIN new |-> IF new[f] # a[f] THEN new[f] ELSE b[f]]
  <2>1. Patch(<<a, b, c>>, new, fails) = <<stored, stored, c>>
    BY <1>3 DEF Patch
  <2>2. DOMAIN new = {"sel", "pool", "up", "cordoned", "level", "nvlink", "link", "policy", "cond"}
    BY DEF Node
  <2>3. stored = [sel |-> IF new.sel # a.sel THEN new.sel ELSE b.sel,
                  pool |-> IF new.pool # a.pool THEN new.pool ELSE b.pool,
                  up |-> IF new.up # a.up THEN new.up ELSE b.up,
                  cordoned |-> IF new.cordoned # a.cordoned THEN new.cordoned ELSE b.cordoned,
                  level |-> IF new.level # a.level THEN new.level ELSE b.level,
                  nvlink |-> IF new.nvlink # a.nvlink THEN new.nvlink ELSE b.nvlink,
                  link |-> IF new.link # a.link THEN new.link ELSE b.link,
                  policy |-> IF new.policy # a.policy THEN new.policy ELSE b.policy,
                  cond |-> IF new.cond # a.cond THEN new.cond ELSE b.cond]
    BY <2>2
  <2> HIDE DEF stored
  <2>4. stored \in Node
    BY <1>3, <2>3 DEF Node
  <2>5. stored.pool = IF new.pool # a.pool THEN new.pool ELSE b.pool
    BY <2>3
  <2>6. a = b => stored = new
    BY <2>3 DEF Node
  <2> QED BY <1>3, <2>1, <2>4, <2>5, <2>6 DEF Written
<1> QED BY <1>1, <1>2, <1>3

\* What has to be written is a node.
LEMMA WantedTyped ==
    ASSUME TypeOK, NEW pool \in Pool, NEW nrt \in Nrts \cup {Gone}
    PROVE  PolicyOf(pool, nrt) \in Policies /\ NrtCondition(pool, nrt) \in {"absent"} \cup Reasons
BY DEF PolicyOf, NrtCondition, topologyManagerPolicy, isPolicyEnforcing, evaluateNrtHealth,
       Policies, Reasons, Nrts

\* What comes of one node: a node that is not the NodePool's becomes so, or nothing is written
\* and an error is returned.  If the cache is right, and there is no error, a node that the
\* NodePool selects has what the NodePool wants, and another one moves.
HandledAs(q, pool, n, r) ==
    LET old == live.nodes[n]  s == seen.nodes[n] IN
    /\ r[1] \in Node /\ r[2] \in Node \cup {Gone} /\ r[3] \in BOOLEAN
    /\ s.pool # q => In(r[2], q) \/ (r[2] = old /\ r[3])
    /\ ~r[3] /\ s = old /\ s.pool = q /\ s.sel = q =>
          /\ r[1] = r[2] /\ In(r[2], q) /\ r[2].sel = q
          /\ r[2].cond = NrtCondition(pool, seen.nrt[n])
          /\ r[2].policy = PolicyOf(pool, seen.nrt[n])
          /\ r[2].link = (pool.detect = "Auto")
    /\ ~r[3] /\ s = old /\ s.pool = q /\ s.sel # q => r[2] # Gone /\ r[2].pool # q

\* HandleNode does that.
LEMMA HandleNodeIs ==
    ASSUME TypeOK, NEW q \in Pools, NEW n \in Handled(q), NEW pool \in Pool, NEW fails
    PROVE  HandledAs(q, pool, n, HandleNode(q, pool, n, fails))
<1> DEFINE old == live.nodes[n]
           s == seen.nodes[n]
           nrt == seen.nrt[n]
           r == HandleNode(q, pool, n, fails)
<1>1. s \in Node /\ old \in Node \cup {Gone} /\ nrt \in Nrts \cup {Gone} /\ n \in Nodes
  BY StoreFields DEF Handled
<1>2. s.pool = q \/ s.sel = q
  BY DEF Handled
<1> HIDE DEF s, old, nrt
<1> DEFINE new1 == [s EXCEPT !.pool = s.sel]
           f1 == fails = "label"
           f2 == fails = "annotations"
           f3 == fails = "condition"
<1>3. new1 \in Node /\ new1.pool = s.sel /\ (s.sel = s.pool => new1 = s)
      /\ f1 \in BOOLEAN /\ f2 \in BOOLEAN /\ f3 \in BOOLEAN /\ FALSE \in BOOLEAN
  BY <1>1 DEF Node
<1> HIDE DEF new1, f1, f2, f3
<1>4. PICK a1 \in Node, b1 \in Node \cup {Gone}, c1 \in BOOLEAN :
        /\ Patch(<<s, old, FALSE>>, new1, f1) = <<a1, b1, c1>>
        /\ \/ new1 = s /\ a1 = s /\ b1 = old /\ c1 = FALSE
           \/ new1 # s /\ a1 = s /\ b1 = old /\ c1 = TRUE
           \/ /\ new1 # s /\ old # Gone /\ a1 = b1 /\ c1 = FALSE
              /\ b1.pool = IF new1.pool # s.pool THEN new1.pool ELSE old.pool
              /\ s = old => b1 = new1
  <2>1. Written(s, old, FALSE, new1, Patch(<<s, old, FALSE>>, new1, f1))
    BY ZenonT(30), <1>1, <1>3, PatchIs
  <2> QED BY <2>1 DEF Written
<1>5. Label(<<s, old, FALSE>>, f1) = <<a1, b1, c1>> /\ Label(<<s, old, FALSE>>, f1)[1] = a1
  <2>1. Label(<<s, old, FALSE>>, f1) = <<a1, b1, c1>>
    BY ZenonT(30), <1>4 DEF Label, new1
  <2> QED BY <2>1
<1>6. CASE a1.pool # q
  <2>1. r = <<a1, b1, c1>>
    BY <1>5, <1>6, Zenon DEF HandleNode, s, old, f1
  <2> HIDE DEF r
  <2>2. r[1] = a1 /\ r[2] = b1 /\ r[3] = c1
    BY <2>1
  <2>3. s.pool # q => b1 = old /\ c1
    BY <1>2, <1>3, <1>4, <1>6
  <2>4. ~c1 /\ s = old /\ s.pool = q => s.sel # q /\ b1 # Gone /\ b1.pool # q
    BY <1>1, <1>3, <1>4, <1>6, NodeFields
  <2> QED BY <2>2, <2>3, <2>4 DEF HandledAs, r, s, old, In
<1>7. CASE a1.pool = q
  <2> DEFINE new2 == [a1 EXCEPT !.link = (pool.detect = "Auto"), !.policy = PolicyOf(pool, nrt)]
  <2>1. /\ new2 \in Node /\ new2.pool = a1.pool /\ new2.policy = PolicyOf(pool, nrt)
        /\ new2.sel = a1.sel /\ new2.link = (pool.detect = "Auto")
    BY ZenonT(30), <1>1, WantedTyped DEF Node
  <2> HIDE DEF new2
  <2>2. PICK a2 \in Node, b2 \in Node \cup {Gone}, c2 \in BOOLEAN :
          /\ Patch(<<a1, b1, c1>>, new2, f2) = <<a2, b2, c2>>
          /\ \/ new2 = a1 /\ a2 = a1 /\ b2 = b1 /\ c2 = c1
             \/ new2 # a1 /\ a2 = a1 /\ b2 = b1 /\ c2 = TRUE
             \/ /\ new2 # a1 /\ b1 # Gone /\ a2 = b2 /\ c2 = c1
                /\ b2.pool = IF new2.pool # a1.pool THEN new2.pool ELSE b1.pool
                /\ a1 = b1 => b2 = new2
    <3>1. Written(a1, b1, c1, new2, Patch(<<a1, b1, c1>>, new2, f2))
      BY <1>3, <2>1, PatchIs
    <3> QED BY <3>1 DEF Written
  <2> DEFINE new3 == [a2 EXCEPT !.cond = NrtCondition(pool, nrt)]
  <2>3. /\ new3 \in Node /\ new3.pool = a2.pool /\ new3.policy = a2.policy /\ new3.link = a2.link
        /\ new3.sel = a2.sel /\ new3.cond = NrtCondition(pool, nrt)
    BY <1>1, WantedTyped DEF Node
  <2> HIDE DEF new3
  <2>4. PICK a3 \in Node, b3 \in Node \cup {Gone}, c3 \in BOOLEAN :
          /\ Patch(<<a2, b2, c2>>, new3, f3) = <<a3, b3, c3>>
          /\ \/ new3 = a2 /\ a3 = a2 /\ b3 = b2 /\ c3 = c2
             \/ new3 # a2 /\ a3 = a2 /\ b3 = b2 /\ c3 = TRUE
             \/ /\ new3 # a2 /\ b2 # Gone /\ a3 = b3 /\ c3 = c2
                /\ b3.pool = IF new3.pool # a2.pool THEN new3.pool ELSE b2.pool
                /\ a2 = b2 => b3 = new3
    <3>1. Written(a2, b2, c2, new3, Patch(<<a2, b2, c2>>, new3, f3))
      BY <1>3, <2>3, PatchIs
    <3> QED BY ZenonT(30), <3>1 DEF Written
  <2>5. r = <<a3, b3, c3>>
    <3>1. Annotate(<<a1, b1, c1>>, pool, nrt, f2) = <<a2, b2, c2>>
      BY <2>2 DEF Annotate, new2
    <3>2. Mark(<<a2, b2, c2>>, pool, nrt, f3) = <<a3, b3, c3>>
      BY <2>4 DEF Mark, new3
    <3> QED BY <1>5, <1>7, <3>1, <3>2, Zenon DEF HandleNode, s, old, nrt, f1, f2, f3
  <2> HIDE DEF r
  <2>6. r[1] = a3 /\ r[2] = b3 /\ r[3] = c3
    BY <2>5
  <2>7. c3 \/ (~c1 /\ ~c2)
    BY <2>2, <2>4
  <2>8. s.pool # q => b3 # Gone /\ b3.pool = q
    <3>1. s.pool # q => b1 \in Node /\ b1.pool = q
      BY ZenonT(30), <1>2, <1>3, <1>4, <1>7
    <3>2. b1 \in Node => b2 \in Node /\ b2.pool = b1.pool
      BY ZenonT(30), <2>1, <2>2, NodeFields
    <3>3. b2 \in Node => b3 \in Node /\ b3.pool = b2.pool
      BY ZenonT(30), <2>3, <2>4, NodeFields
    <3> QED BY <3>1, <3>2, <3>3, NodeFields
  <2>9. ~c3 /\ s = old /\ s.pool = q =>
               /\ s.sel = q /\ a3 = b3 /\ b3 # Gone /\ b3.pool = q /\ b3.sel = q
               /\ b3.cond = NrtCondition(pool, nrt) /\ b3.policy = PolicyOf(pool, nrt)
               /\ b3.link = (pool.detect = "Auto")
    <3> HAVE ~c3 /\ s = old /\ s.pool = q
    <3>1. a1 = s /\ b1 = s /\ s.sel = q
      BY ZenonT(30), <1>3, <1>4, <1>7, <2>7
    <3>2. a2 = new2 /\ b2 = new2
      BY <2>2, <2>7, <3>1
    <3>3. a3 = new3 /\ b3 = new3
      BY <2>4, <2>7, <3>2
    <3> QED BY ZenonT(30), <1>7, <2>1, <2>3, <3>1, <3>2, <3>3, NodeFields
  <2> QED BY ZenonT(30), <2>6, <2>8, <2>9 DEF HandledAs, r, s, old, nrt, In
<1> QED BY <1>6, <1>7

\* The first half of a reconcile.
LEMMA ReconcileNodesKeeps ==
    ASSUME TypeOK, Inv, NEW q \in Pools, reconcileNodes(q)
    PROVE  TypeOK' /\ Inv'
<1>1. /\ job = Idle /\ queued' = queued \ {q} /\ seen' = seen
      /\ unheard' = IF OwnWritesSeen(q) THEN unheard \ {q} ELSE unheard \cup {q}
      /\ UNCHANGED <<setup, nrtEnabled, edits>>
  BY DEF reconcileNodes, Rest
<1>2. PICK bad \in Nodes \cup {Nobody}, fails \in {"label", "annotations", "condition"} :
         LET at == [n \in Handled(q) |-> HandleNode(q, seen.pools[q], n,
                                                    IF n = bad THEN fails ELSE "none")] IN
         /\ bad # Nobody => failures < MaxFailures
         /\ failures' = IF bad = Nobody THEN failures ELSE failures + 1
         /\ StoreNodes([n \in Nodes |-> IF n \in Handled(q) THEN at[n][2] ELSE live.nodes[n]])
         /\ job' = [step |-> "status", pool |-> q, copy |-> seen.pools[q],
                    failed |-> \E n \in Handled(q) : at[n][3],
                    nodes |-> [n \in {m \in Handled(q) : at[m][1].pool = q} |-> at[n][1]]]
  BY ZenonT(30) DEF reconcileNodes
<1> DEFINE at == [n \in Handled(q) |-> HandleNode(q, seen.pools[q], n,
                                                  IF n = bad THEN fails ELSE "none")]
           nodes == [n \in Nodes |-> IF n \in Handled(q) THEN at[n][2] ELSE live.nodes[n]]
           own == {m \in Handled(q) : at[m][1].pool = q}
           failed == \E n \in Handled(q) : at[n][3]
<1>3. ASSUME NEW n \in Handled(q)
      PROVE  HandledAs(q, seen.pools[q], n, at[n])
  <2>1. seen.pools[q] \in Pool
    BY StoreFields
  <2>2. PICK f : at[n] = HandleNode(q, seen.pools[q], n, f)
    OBVIOUS
  <2> HIDE DEF at
  <2>3. HandledAs(q, seen.pools[q], n, HandleNode(q, seen.pools[q], n, f))
    BY ZenonT(30), <2>1, HandleNodeIs
  <2> QED BY <2>2, <2>3
<1>4. StoreNodes(nodes) /\ failures' \in 0 .. MaxFailures
  <2>1. StoreNodes(nodes)
    BY ZenonT(30), <1>2
  <2>2. failures' \in 0 .. MaxFailures
    BY <1>2, HealthAssumption DEF TypeOK
  <2> QED BY ZenonT(30), <2>1, <2>2
<1>5. /\ job'.step = "status" /\ job'.pool = q /\ job'.copy = seen.pools[q]
      /\ job'.failed = failed /\ job'.nodes = [n \in own |-> at[n][1]] /\ job' # Idle
  <2>1. job' = [step |-> "status", pool |-> q, copy |-> seen.pools[q], failed |-> failed,
                nodes |-> [n \in own |-> at[n][1]]]
    BY ZenonT(30), <1>2
  <2> HIDE DEF failed, own, at
  <2> QED BY ZenonT(30), <2>1 DEF Idle
<1>6. /\ own \subseteq Handled(q) /\ Handled(q) \subseteq Nodes /\ failed \in BOOLEAN
      /\ \A n \in own : at[n][1] \in Node
  BY ZenonT(30), <1>3 DEF Handled, HandledAs
<1> HIDE DEF at
<1>7. nodes \in [Nodes -> Node \cup {Gone}]
  BY ZenonT(30), <1>3, StoreFields DEF HandledAs
<1>8. /\ \A n \in Handled(q) : nodes[n] = at[n][2]
      /\ \A n \in Nodes \ Handled(q) : nodes[n] = live.nodes[n]
  BY ZenonT(30), <1>6
<1> HIDE DEF nodes
<1>9. /\ live' \in Store /\ live'.nodes = nodes /\ live'.nrt = live.nrt
      /\ live'.pools = live.pools /\ live'.schedulers = live.schedulers
      /\ live'.topology = live.topology /\ live'.crd = live.crd
      /\ stale \subseteq stale' /\ EventsTyped(stale')
      /\ \A n \in Nodes, p \in Pools :
            ~Same(live.nodes[n], nodes[n]) /\ (In(live.nodes[n], p) \/ In(nodes[n], p))
            => Said("nodes", p)'
  BY ZenonT(30), <1>4, <1>7, StoreNodesIs
<1>10. TypeOK'
  <2>1. job' # Idle => /\ job'.step = "status" /\ job'.pool \in Pools /\ job'.copy \in Pool
                       /\ job'.failed \in BOOLEAN /\ DOMAIN job'.nodes \subseteq Nodes
                       /\ \A n \in DOMAIN job'.nodes : job'.nodes[n] \in Node
    <3> HIDE DEF own, failed
    <3> QED BY <1>5, <1>6, StoreFields
  <2> QED BY ZenonT(30), <1>1, <1>4, <1>9, <2>1 DEF TypeOK, EventsTyped
<1>11. Lags' /\ Installed'
  <2>1. Lags'
    BY ZenonT(30), <1>1, <1>4, <1>7, LagsAfterNodes DEF Inv
  <2> QED BY ZenonT(30), <1>1, <1>9, <2>1 DEF Inv, Installed
<1>12. \A p \in Pools : Announced(p) => Announced(p)'
  BY ZenonT(30), <1>1, <1>9, StillAnnounced
<1>13. ASSUME NEW p \in Pools, p # q PROVE Followed(p)'
  <2>1. CASE p \in unheard \/ p \in queued \/ Announced(p)'
    BY ZenonT(30), <1>1, <1>13, <2>1 DEF Followed
  <2>2. CASE ~(p \in unheard \/ p \in queued \/ Announced(p)')
    <3>1. ASSUME NEW n \in Nodes, In(live.nodes[n], p) \/ In(nodes[n], p)
          PROVE  nodes[n] = live.nodes[n]
      <4>1. Same(live.nodes[n], nodes[n])
        BY ZenonT(30), <1>9, <2>2, <3>1, SaidTouchesNext
      <4>2. In(live.nodes[n], p) /\ In(nodes[n], p)
        BY ZenonT(30), <3>1, <4>1 DEF Same, In
      <4>3. Same(seen.nodes[n], live.nodes[n])
        BY ZenonT(30), <1>12, <2>2, <4>2, SeenAsIs DEF Inv
      <4>4. seen.nodes[n].pool # q
        BY ZenonT(30), <1>13, <4>2, <4>3 DEF Same, In
      <4>5. n \in Handled(q) => nodes[n] = live.nodes[n]
        BY ZenonT(30), <1>3, <1>8, <1>13, <4>2, <4>4 DEF HandledAs, In
      <4> QED BY ZenonT(30), <1>8, <4>5
    <3>2. Untouched(p)
      BY ZenonT(30), <1>1, <1>9, <3>1 DEF Untouched
    <3>3. Marked(p) /\ Stated(p)
      BY <1>1, <1>12, <2>2 DEF Inv, Followed
    <3>4. Marked(p)' /\ Stated(p)'
      BY <3>2, <3>3, UntouchedView
    <3> QED BY <1>5, <1>13, <3>4 DEF Followed
  <2> QED BY <2>1, <2>2
<1>14. Followed(q)'
  <2>1. CASE ~OwnWritesSeen(q) \/ Announced(q)'
    BY ZenonT(30), <1>1, <2>1 DEF Followed
  <2>2. CASE OwnWritesSeen(q) /\ ~Announced(q)'
    <3>1. ~Announced(q)
      BY ZenonT(30), <1>12, <2>2
    <3>2. /\ seen.pools[q] = live.pools[q]
          /\ \A n \in Nodes : In(seen.nodes[n], q) \/ In(live.nodes[n], q) =>
                Same(seen.nodes[n], live.nodes[n]) /\ seen.nrt[n] = live.nrt[n]
      BY <3>1, SeenAsIs DEF Inv
    <3>3. ASSUME NEW n \in Nodes, In(live.nodes[n], q) \/ In(nodes[n], q)
          PROVE  In(live.nodes[n], q) /\ In(nodes[n], q) /\ n \in Handled(q)
      <4>1. Same(live.nodes[n], nodes[n])
        BY ZenonT(30), <1>9, <2>2, <3>3, SaidTouchesNext
      <4>2. In(live.nodes[n], q) /\ In(nodes[n], q)
        BY ZenonT(30), <3>3, <4>1 DEF Same, In
      <4>3. In(seen.nodes[n], q)
        BY ZenonT(30), <3>2, <4>2 DEF Same, In
      <4> QED BY ZenonT(30), <4>2, <4>3 DEF Handled, In
    <3>4. ASSUME ~failed, NEW n \in Handled(q)
          PROVE  /\ at[n][1] = nodes[n] /\ In(nodes[n], q) /\ nodes[n].sel = q
                 /\ nodes[n].cond = NrtCondition(live.pools[q], live.nrt[n])
                 /\ nodes[n].policy = PolicyOf(live.pools[q], live.nrt[n])
                 /\ nodes[n].link = (live.pools[q].detect = "Auto")
      <4>1. ~at[n][3] /\ n \in Nodes
        BY ZenonT(30), <1>6, <3>4
      <4>2. In(seen.nodes[n], q)
        <5>1. seen.nodes[n].pool # q => In(nodes[n], q)
          BY ZenonT(30), <1>3, <1>8, <4>1 DEF HandledAs
        <5>2. In(live.nodes[n], q) => Same(seen.nodes[n], live.nodes[n])
          BY ZenonT(30), <3>2, <4>1
        <5> QED BY ZenonT(30), <3>3, <4>1, <5>1, <5>2 DEF Handled, In, Same
      <4>3. seen.nodes[n] = live.nodes[n]
        <5>1. Same(seen.nodes[n], live.nodes[n])
          BY <3>2, <4>1, <4>2
        <5>2. live.nodes[n] # Gone
          BY ZenonT(30), <4>2, <5>1 DEF Same, In
        <5>3. /\ seen.nodes[n].link = live.nodes[n].link /\ seen.nodes[n].policy = live.nodes[n].policy
              /\ seen.nodes[n].cond = live.nodes[n].cond
          BY <2>2, <5>2 DEF OwnWritesSeen
        <5>4. seen.nodes[n] \in Node /\ live.nodes[n] \in Node
          BY ZenonT(30), <4>1, <4>2, <5>2, StoreFields DEF In
        <5> QED BY <5>1, <5>2, <5>3, <5>4 DEF Same, Node
      <4>4. seen.nodes[n].sel = q
        <5>1. In(live.nodes[n], q)
          BY <4>2, <4>3
        <5>2. In(nodes[n], q)
          BY ZenonT(30), <3>3, <4>1, <5>1
        <5> QED BY ZenonT(30), <1>3, <1>8, <4>1, <4>2, <4>3, <5>2 DEF HandledAs, In
      <4>5. seen.nrt[n] = live.nrt[n] /\ seen.pools[q] = live.pools[q]
        BY ZenonT(30), <3>2, <4>1, <4>2
      <4> QED BY ZenonT(30), <1>3, <1>8, <4>1, <4>2, <4>3, <4>4, <4>5 DEF HandledAs, In
    <3>5. ~failed => job'.nodes = NodesOf(q)' /\ Marked(q)'
      <4> HAVE ~failed
      <4>1. Members(q)' = Handled(q)
        <5>1. \A n \in Nodes : In(nodes[n], q) <=> n \in Handled(q)
          BY ZenonT(30), <1>6, <3>3, <3>4
        <5>2. Members(q)' = {n \in Nodes : In(nodes[n], q)}
          BY ZenonT(30), <1>9 DEF Members, In
        <5> QED BY ZenonT(30), <1>6, <5>1, <5>2
      <4>2. own = Handled(q)
        BY ZenonT(30), <3>4 DEF In
      <4>3. NodesOf(q)' = [n \in Handled(q) |-> nodes[n]]
        BY ZenonT(30), <1>9, <4>1 DEF NodesOf
      <4>4. [n \in Handled(q) |-> at[n][1]] = [n \in Handled(q) |-> nodes[n]]
        BY ZenonT(30), <3>4
      <4>5. job'.nodes = NodesOf(q)'
        BY ZenonT(30), <1>5, <4>2, <4>3, <4>4
      <4>6. Marked(q)'
        <5>1. \A n \in Nodes :
                /\ NrtCondition(live.pools[q], live.nrt[n])' = NrtCondition(live.pools[q], live.nrt[n])
                /\ PolicyOf(live.pools[q], live.nrt[n])' = PolicyOf(live.pools[q], live.nrt[n])
          BY ZenonT(30), <1>1, <1>9 DEF NrtCondition, PolicyOf, evaluateNrtHealth,
               isPolicyEnforcing, topologyManagerPolicy
        <5>2. ASSUME NEW n \in Handled(q)
              PROVE  /\ live'.nodes[n].sel = q
                     /\ live'.nodes[n].cond = NrtCondition(live.pools[q], live.nrt[n])'
                     /\ live'.nodes[n].policy = PolicyOf(live.pools[q], live.nrt[n])'
                     /\ live'.nodes[n].link = (live'.pools[q].detect = "Auto")
          <6>1. /\ nodes[n].sel = q
                /\ nodes[n].cond = NrtCondition(live.pools[q], live.nrt[n])
                /\ nodes[n].policy = PolicyOf(live.pools[q], live.nrt[n])
                /\ nodes[n].link = (live.pools[q].detect = "Auto")
            BY ZenonT(30), <3>4
          <6>2. n \in Nodes
            BY ZenonT(30), <1>6
          <6> QED BY ZenonT(30), <1>9, <5>1, <6>1, <6>2
        <5> QED BY ZenonT(30), <4>1, <5>2 DEF Marked
      <4> QED BY <4>5, <4>6
    <3>6. InHand(q)'
      <4> HIDE DEF failed, own
      <4> QED BY ZenonT(30), <1>5, <1>9, <3>2, <3>5 DEF InHand
    <3> QED BY <1>5, <3>6 DEF Followed
  <2> QED BY <2>1, <2>2
<1> QED BY ZenonT(30), <1>10, <1>11, <1>13, <1>14 DEF Inv

-----------------------------------------------------------------------------
(* The status of a NodePool.                                                 *)

\* What is computed is a status and a detection result.
LEMMA StatusTyped ==
    ASSUME TypeOK, NEW pool \in Pool, NEW nodes, DOMAIN nodes \subseteq Nodes,
           \A n \in DOMAIN nodes : nodes[n] \in Node, NEW ready \in BOOLEAN
    PROVE  /\ calculateNodePoolStatus(pool, nodes, ready) \in Status
           /\ Detected(pool, nodes) \in {"unset", "true", "false"}
<1>1. \A n \in DOMAIN nodes : NodeState(nodes[n]) \in NodeStates
  BY DEF NodeState, NodeStates
<1>2. \A bad : NodesInPool(nodes, bad) \in [Nodes -> {Gone} \cup [state : NodeStates, mismatch : BOOLEAN]]
  BY <1>1 DEF NodesInPool
<1>3. MissingItems(nodes) \in SUBSET Reasons
  BY DEF MissingItems, Node
<1>4. /\ nodePoolPhaseForNodeSituation(nodes)
            \in {"Ready", "Empty", "Unschedulable", "MissingPrerequisites"}
      /\ pool.status \in Status /\ pool.detected \in {"unset", "true", "false"}
  BY DEF nodePoolPhaseForNodeSituation, Pool
<1>5. pool.status.mismatch \in BOOLEAN
  BY <1>4 DEF Status
<1>6. ASSUME ~ready PROVE calculateNodePoolStatus(pool, nodes, ready) \in Status
  <2>1. calculateNodePoolStatus(pool, nodes, ready) =
          [pool.status EXCEPT !.phase = "Unschedulable", !.by = "scheduler",
                              !.nodes = NodesInPool(nodes, {})]
    BY <1>6 DEF calculateNodePoolStatus
  <2>2. NodesInPool(nodes, {}) \in [Nodes -> {Gone} \cup [state : NodeStates, mismatch : BOOLEAN]]
    BY ZenonT(30), <1>2
  <2> QED BY ZenonT(30), <1>4, <2>1, <2>2 DEF Status
<1>7. ASSUME ready PROVE calculateNodePoolStatus(pool, nodes, ready) \in Status
  <2> DEFINE bad == TopologyMismatchNodes(pool, nodes)
             shown == IF TopologyFails(pool) THEN {} ELSE bad
             mismatch == IF TopologyFails(pool) THEN pool.status.mismatch ELSE bad # {}
  <2>1. calculateNodePoolStatus(pool, nodes, ready) =
          [phase |-> nodePoolPhaseForNodeSituation(nodes), by |-> "nodes",
           nodes |-> NodesInPool(nodes, shown), nrt |-> MissingItems(nodes), mismatch |-> mismatch]
    BY <1>7 DEF calculateNodePoolStatus
  <2>2. mismatch \in BOOLEAN
    BY ZenonT(30), <1>5
  <2> HIDE DEF shown, mismatch
  <2>3. NodesInPool(nodes, shown) \in [Nodes -> {Gone} \cup [state : NodeStates, mismatch : BOOLEAN]]
    BY <1>2
  <2> QED BY <1>3, <1>4, <2>1, <2>2, <2>3 DEF Status
<1>8. Detected(pool, nodes) \in {"unset", "true", "false"}
  BY <1>4 DEF Detected, calculateGPUNetworkAccelerationDetected
<1> QED BY <1>6, <1>7, <1>8

\* A NodePool whose stored status and detection result are the computed ones.
LEMMA ComputedStated ==
    ASSUME TypeOK, NEW p \in Pools, NEW ready, ready = live.schedulers[p],
           live.pools[p].status = calculateNodePoolStatus(live.pools[p], NodesOf(p), ready),
           live.pools[p].detected = Detected(live.pools[p], NodesOf(p)),
           ready => ~TopologyFails(live.pools[p]),
           live.pools[p].topology => seen.topology = live.topology
    PROVE  Stated(p)
<1> DEFINE pool == live.pools[p]
           nodes == NodesOf(p)
           bad == TopologyMismatchNodes(pool, nodes)
<1>1. pool \in Pool /\ pool.status \in Status /\ ready \in BOOLEAN
  BY ZenonT(30), StoreFields DEF Pool
<1>2. DOMAIN nodes = Members(p) /\ \A n \in Members(p) : nodes[n] = live.nodes[n]
  BY DEF NodesOf
<1> HIDE DEF nodes
<1>3. ASSUME NEW shown, NEW n \in Nodes
      PROVE  IF n \in Members(p)
             THEN /\ NodesInPool(nodes, shown)[n] # Gone
                  /\ NodesInPool(nodes, shown)[n].state = NodeState(live.nodes[n])
             ELSE NodesInPool(nodes, shown)[n] = Gone
  <2>1. CASE n \in Members(p)
    <3> DEFINE item == [state |-> NodeState(nodes[n]), mismatch |-> n \in shown]
    <3>1. NodesInPool(nodes, shown)[n] = item
      BY ZenonT(30), <1>2, <2>1 DEF NodesInPool
    <3>2. item \in [state : NodeStates, mismatch : BOOLEAN] /\ item.state = NodeState(nodes[n])
      <4>1. NodeState(nodes[n]) \in NodeStates
        BY DEF NodeState, NodeStates
      <4>2. (n \in shown) \in BOOLEAN
        OBVIOUS
      <4> QED BY ZenonT(30), <4>1, <4>2
    <3> HIDE DEF item
    <3> QED BY ZenonT(30), <1>2, <2>1, <3>1, <3>2, HealthAssumption
  <2>2. CASE n \notin Members(p)
    BY ZenonT(30), <1>2, <2>2 DEF NodesInPool
  <2> QED BY ZenonT(30), <2>1, <2>2
<1>4. pool.detect # "absent" => pool.detected = calculateGPUNetworkAccelerationDetected(pool, nodes)
  BY ZenonT(30) DEF Detected, nodes
<1>5. CASE ~ready
  <2>1. pool.status = [pool.status EXCEPT !.phase = "Unschedulable", !.by = "scheduler",
                                          !.nodes = NodesInPool(nodes, {})]
    BY <1>5 DEF calculateNodePoolStatus, nodes
  <2>2. pool.status.phase = "Unschedulable" /\ pool.status.nodes = NodesInPool(nodes, {})
    BY ZenonT(30), <1>1, <2>1 DEF Status
  <2> QED BY <1>3, <1>4, <1>5, <2>2 DEF Stated, nodes
<1>6. CASE ready
  <2>1. pool.status = [phase |-> nodePoolPhaseForNodeSituation(nodes), by |-> "nodes",
                       nodes |-> NodesInPool(nodes, bad), nrt |-> MissingItems(nodes),
                       mismatch |-> bad # {}]
    BY <1>6 DEF calculateNodePoolStatus, nodes
  <2>2. /\ pool.status.phase = nodePoolPhaseForNodeSituation(nodes)
        /\ pool.status.nodes = NodesInPool(nodes, bad)
        /\ pool.status.nrt = MissingItems(nodes) /\ pool.status.mismatch = (bad # {})
    <3> DEFINE st == pool.status
               ph == nodePoolPhaseForNodeSituation(nodes)
               ns == NodesInPool(nodes, bad)
               ms == MissingItems(nodes)
               mm == bad # {}
    <3>1. st = [phase |-> ph, by |-> "nodes", nodes |-> ns, nrt |-> ms, mismatch |-> mm]
      BY <2>1
    <3> HIDE DEF st, ph, ns, ms, mm
    <3>2. st.phase = ph /\ st.nodes = ns /\ st.nrt = ms /\ st.mismatch = mm
      BY ZenonT(30), <3>1
    <3> QED BY <3>2 DEF st, ph, ns, ms, mm
  <2>3. bad # {} <=> \E n \in Members(p) : pool.topology /\ live.topology = "levels" /\ ~live.nodes[n].level
    BY <1>2 DEF TopologyMismatchNodes
  <2> HIDE DEF bad
  <2> QED BY ZenonT(30), <1>3, <1>4, <1>6, <2>2, <2>3 DEF Stated, nodes
<1> QED BY ZenonT(30), <1>1, <1>5, <1>6

\* The second half of a reconcile: if it returns no error, and writes nothing although it was
\* given the NodePool as it is stored, then the status is the computed one.
LEMMA StatusStep ==
    ASSUME TypeOK, reconcileNodePoolStatus, job # Idle, NEW p \in Pools, p = job.pool
    PROVE  \E pool \in Pool, failed \in BOOLEAN :
             /\ StorePool(p, pool) /\ Finish(failed)
             /\ ~failed => ~job.failed
             /\ ~failed /\ job.copy = live.pools[p] /\ pool = live.pools[p] =>
                   /\ pool.status = calculateNodePoolStatus(pool, job.nodes, seen.schedulers[p])
                   /\ Detected(pool, job.nodes) = pool.detected
                   /\ seen.schedulers[p] => ~TopologyFails(pool)
<1> DEFINE ready == seen.schedulers[p]
           status == calculateNodePoolStatus(job.copy, job.nodes, ready)
           writes == status # job.copy.status
           stored == [live.pools[p] EXCEPT !.status = status]
<1>1. PICK fails \in {"none", "status", "annotation"} :
         LET patched == writes /\ fails # "status"
             base == IF patched THEN stored ELSE live.pools[p]
             copy == IF patched THEN stored ELSE job.copy
             annotates == Detected(copy, job.nodes) # copy.detected
             failed == \/ job.failed
                       \/ writes /\ fails = "status"
                       \/ annotates /\ fails = "annotation"
                       \/ ready /\ TopologyFails(job.copy) IN
         /\ StorePool(p, IF annotates /\ fails # "annotation"
                         THEN [base EXCEPT !.detected = Detected(copy, job.nodes)] ELSE base)
         /\ Finish(failed)
  BY Zenon DEF reconcileNodePoolStatus
<1> DEFINE patched == writes /\ fails # "status"
           base == IF patched THEN stored ELSE live.pools[p]
           copy == IF patched THEN stored ELSE job.copy
           annotates == Detected(copy, job.nodes) # copy.detected
           failed == \/ job.failed
                     \/ writes /\ fails = "status"
                     \/ annotates /\ fails = "annotation"
                     \/ ready /\ TopologyFails(job.copy)
           pool == IF annotates /\ fails # "annotation"
                   THEN [base EXCEPT !.detected = Detected(copy, job.nodes)] ELSE base
<1>2. /\ job.copy \in Pool /\ job.failed \in BOOLEAN /\ DOMAIN job.nodes \subseteq Nodes
      /\ \A n \in DOMAIN job.nodes : job.nodes[n] \in Node
      /\ live.pools[p] \in Pool /\ ready \in BOOLEAN
  BY StoreFields DEF TypeOK
<1>3. StorePool(p, pool) /\ Finish(failed)
  BY ZenonT(30), <1>1
<1>4. failed \in BOOLEAN
  BY <1>2
<1> HIDE DEF ready
<1>5. status \in Status
  BY <1>2, StatusTyped
<1> HIDE DEF status
<1>6. stored \in Pool /\ stored.status = status /\ stored.detected = live.pools[p].detected
  BY ZenonT(30), <1>2, <1>5 DEF Pool
<1> HIDE DEF stored
<1>7. base \in Pool /\ copy \in Pool
  BY ZenonT(30), <1>2, <1>6
<1>8. Detected(copy, job.nodes) \in {"unset", "true", "false"}
  <2> HIDE DEF copy
  <2> QED BY <1>2, <1>7, StatusTyped
<1>9. /\ pool \in Pool /\ pool.status = base.status
      /\ annotates /\ fails # "annotation" => pool.detected = Detected(copy, job.nodes)
  <2> HIDE DEF base, copy
  <2> QED BY <1>7, <1>8 DEF Pool
<1>10. ~failed => /\ ~job.failed /\ (writes => fails # "status") /\ (annotates => fails # "annotation")
                  /\ ready => ~TopologyFails(job.copy)
  OBVIOUS
<1> HIDE DEF failed, pool
<1>11. ASSUME ~failed, job.copy = live.pools[p], pool = live.pools[p]
       PROVE  /\ pool.status = calculateNodePoolStatus(pool, job.nodes, ready)
              /\ Detected(pool, job.nodes) = pool.detected
              /\ ready => ~TopologyFails(pool)
  <2>1. ~writes
    BY <1>6, <1>9, <1>10, <1>11
  <2>2. copy = live.pools[p]
    BY ZenonT(30), <1>11, <2>1
  <2>3. Detected(pool, job.nodes) = pool.detected
    <3> HIDE DEF copy
    <3> QED BY <1>9, <1>10, <1>11, <2>2
  <2>4. pool.status = calculateNodePoolStatus(pool, job.nodes, ready)
    BY <1>11, <2>1 DEF status
  <2> QED BY ZenonT(30), <1>10, <1>11, <2>3, <2>4
<1>12. ~failed => ~job.failed
  BY <1>10
<1>13. pool \in Pool
  BY <1>9
<1> QED BY <1>3, <1>4, <1>11, <1>12, <1>13 DEF ready

\* The second half of a reconcile.
LEMMA ReconcileStatusKeeps ==
    ASSUME TypeOK, Inv, reconcileNodePoolStatus
    PROVE  TypeOK' /\ Inv'
<1>1. job.step = "status" /\ job # Idle
  BY DEF reconcileNodePoolStatus, Idle
<1>2. PICK p \in Pools : p = job.pool
  BY ZenonT(30), <1>1 DEF TypeOK
<1>3. PICK pool \in Pool, failed \in BOOLEAN :
         /\ StorePool(p, pool) /\ Finish(failed)
         /\ ~failed => ~job.failed
         /\ ~failed /\ job.copy = live.pools[p] /\ pool = live.pools[p] =>
               /\ pool.status = calculateNodePoolStatus(pool, job.nodes, seen.schedulers[p])
               /\ Detected(pool, job.nodes) = pool.detected
               /\ seen.schedulers[p] => ~TopologyFails(pool)
  BY ZenonT(30), <1>1, <1>2, StatusStep
<1>4. UNCHANGED <<seen, unheard, setup, nrtEnabled, edits>>
  BY ZenonT(30) DEF reconcileNodePoolStatus, Rest
<1>5. failures' \in 0 .. MaxFailures
  <2>1. PICK fails : /\ fails # "none" => failures < MaxFailures
                     /\ failures' = IF fails = "none" THEN failures ELSE failures + 1
    BY Zenon DEF reconcileNodePoolStatus
  <2> QED BY <2>1, HealthAssumption DEF TypeOK
<1>6. job' = Idle /\ queued' = IF failed THEN queued \cup {p} ELSE queued
  BY ZenonT(30), <1>2, <1>3 DEF Finish
<1>7. /\ live' \in Store /\ live'.pools = [live.pools EXCEPT ![p] = pool]
      /\ live'.nodes = live.nodes /\ live'.nrt = live.nrt /\ live'.schedulers = live.schedulers
      /\ live'.topology = live.topology /\ live'.crd = live.crd
      /\ stale \subseteq stale' /\ EventsTyped(stale')
      /\ live.pools[p] # pool => Said("pools", p)'
  BY ZenonT(30), <1>3, StorePoolIs
<1>8. TypeOK'
  <2>1. queued' \subseteq Pools
    BY ZenonT(30), <1>6 DEF TypeOK
  <2> QED BY ZenonT(30), <1>4, <1>5, <1>6, <1>7, <2>1 DEF TypeOK, EventsTyped
<1>9. Lags' /\ Installed'
  <2>1. Lags'
    BY ZenonT(30), <1>3, <1>4, LagsAfterPool DEF Inv
  <2> QED BY ZenonT(30), <1>4, <1>7, <2>1 DEF Inv, Installed
<1>10. \A r \in Pools : Announced(r) => Announced(r)'
  BY <1>4, <1>7, StillAnnounced
<1>11. ASSUME NEW r \in Pools, r # p PROVE Followed(r)'
  <2>1. Untouched(r)
    BY <1>4, <1>7, <1>11, StoreFields DEF Untouched
  <2>2. CASE r \in unheard \/ r \in queued \/ Announced(r)
    BY <1>4, <1>6, <1>10, <2>2 DEF Followed
  <2>3. CASE ~(r \in unheard \/ r \in queued \/ Announced(r))
    <3>1. Marked(r) /\ Stated(r)
      BY <1>2, <1>11, <2>3 DEF Inv, Followed
    <3> QED BY <1>6, <2>1, <3>1, UntouchedView DEF Followed
  <2> QED BY ZenonT(30), <2>2, <2>3
<1>12. Followed(p)'
  <2>1. CASE failed \/ p \in queued \/ p \in unheard \/ Announced(p)'
    BY ZenonT(30), <1>4, <1>6, <2>1 DEF Followed
  <2>2. CASE ~(failed \/ p \in queued \/ p \in unheard \/ Announced(p)')
    <3>1. ~Announced(p) /\ ~job.failed
      BY ZenonT(30), <1>3, <1>10, <2>2
    <3>2. job.copy = live.pools[p] /\ job.nodes = NodesOf(p) /\ Marked(p)
      BY ZenonT(30), <1>1, <1>2, <2>2, <3>1 DEF Inv, Followed, InHand
    <3>3. pool = live.pools[p]
      BY ZenonT(30), <1>7, <2>2, SaidTouchesNext
    <3>4. /\ seen.schedulers[p] = live.schedulers[p]
          /\ live.pools[p].topology => seen.topology = live.topology
      BY ZenonT(30), <3>1, SeenAsIs DEF Inv
    <3>5. /\ live.pools[p].status = calculateNodePoolStatus(live.pools[p], NodesOf(p), seen.schedulers[p])
          /\ live.pools[p].detected = Detected(live.pools[p], NodesOf(p))
          /\ seen.schedulers[p] => ~TopologyFails(live.pools[p])
      BY ZenonT(30), <1>3, <2>2, <3>2, <3>3
    <3>6. Stated(p)
      BY ZenonT(30), <3>4, <3>5, ComputedStated
    <3>7. Untouched(p)
      BY <1>4, <1>7, <3>3, StoreFields DEF Untouched
    <3> QED BY ZenonT(30), <1>6, <3>2, <3>6, <3>7, UntouchedView DEF Followed
  <2> QED BY ZenonT(30), <2>1, <2>2
<1> QED BY ZenonT(30), <1>8, <1>9, <1>11, <1>12 DEF Inv

-----------------------------------------------------------------------------
(* The theorems.                                                             *)

\* At the start every NodePool is in the queue.
LEMMA InitHolds ==
    ASSUME Init
    PROVE  TypeOK /\ Inv
<1>1. /\ setup \in Setups
      /\ live = [nodes |-> setup.nodes, nrt |-> setup.nrt, pools |-> setup.pools, crd |-> setup.crd,
                 topology |-> setup.topology, schedulers |-> [p \in Pools |-> TRUE]]
      /\ seen = [k \in Kinds |-> live[k]] /\ stale = {}
      /\ queued = Pools /\ job = Idle /\ nrtEnabled = setup.crd /\ unheard = {}
      /\ edits = 0 /\ failures = 0
  BY DEF Init
<1>2. setup \in Setup /\ (setup.crd \/ \A n \in Nodes : setup.nrt[n] = Gone)
  BY ZenonT(30), <1>1, HealthAssumption
<1>3. live \in Store /\ live.crd = setup.crd /\ live.nrt = setup.nrt
  BY ZenonT(30), <1>1, <1>2 DEF Setup, Store
<1>4. /\ seen.nodes = live.nodes /\ seen.nrt = live.nrt /\ seen.pools = live.pools
      /\ seen.schedulers = live.schedulers /\ seen.topology = live.topology
  BY ZenonT(30), <1>1 DEF Kinds
<1>5. seen \in Cache
  BY ZenonT(30), <1>1, <1>3 DEF Store, Cache, Kinds
<1>6. TypeOK
  <2>1. edits \in 0 .. MaxEdits /\ failures \in 0 .. MaxFailures
    BY <1>1, HealthAssumption
  <2>2. nrtEnabled \in BOOLEAN
    BY ZenonT(30), <1>1, <1>2 DEF Setup
  <2> QED BY ZenonT(30), <1>1, <1>3, <1>5, <2>1, <2>2 DEF TypeOK
<1>7. Lags
  BY ZenonT(30), <1>4 DEF Lags, NodesLag, NrtLag, PoolsLag, TopologyLag, Same
<1>8. Installed /\ \A p \in Pools : Followed(p)
  BY ZenonT(30), <1>1, <1>2, <1>3 DEF Installed, Followed
<1> QED BY ZenonT(30), <1>6, <1>7, <1>8 DEF Inv

\* Every step keeps the invariant.
LEMMA NextKeeps ==
    ASSUME TypeOK, Inv, [Next]_vars
    PROVE  TypeOK' /\ Inv'
<1>1. ASSUME NEW kind \in Kinds, Sync(kind) PROVE TypeOK' /\ Inv'
  BY <1>1, SyncKeeps
<1>2. ASSUME NEW p \in Pools, reconcileNodes(p) PROVE TypeOK' /\ Inv'
  BY <1>2, ReconcileNodesKeeps
<1>3. CASE reconcileNodePoolStatus
  BY <1>3, ReconcileStatusKeeps
<1>4. CASE RestartForNrt
  <2>1. Started /\ failures' \in 0 .. MaxFailures
    BY ZenonT(30), <1>4 DEF RestartForNrt, TypeOK
  <2> QED BY ZenonT(30), <2>1, StartedKeeps
<1>5. CASE Crash
  <2>1. Started /\ failures' \in 0 .. MaxFailures
    BY <1>5, HealthAssumption DEF Crash, TypeOK
  <2> QED BY <2>1, StartedKeeps
<1>6. CASE EditNode
  BY <1>6, EditNodeKeeps
<1>7. CASE EditPool
  BY <1>7, EditPoolKeeps
<1>8. CASE EditNrt
  BY <1>8, EditNrtKeeps
<1>9. CASE EditTopology
  BY <1>9, EditTopologyKeeps
<1>10. CASE InstallCRD
  BY <1>10, InstallCRDKeeps
<1>11. CASE UNCHANGED vars
  <2>1. UNCHANGED <<setup, live, seen, stale, queued, job, nrtEnabled, unheard, edits, failures>>
    BY ZenonT(30), <1>11 DEF vars
  <2>2. TypeOK'
    BY ZenonT(30), <2>1 DEF TypeOK
  <2>3. Lags' /\ Installed'
    <3>1. \A kind, of : Said(kind, of) => Said(kind, of)'
      BY ZenonT(30), <2>1, StillAnnounced
    <3>2. Lags'
      BY ZenonT(30), <2>1, <3>1 DEF Inv, Lags, NodesLag, NrtLag, PoolsLag, TopologyLag
    <3> QED BY ZenonT(30), <2>1, <3>2 DEF Inv, Installed
  <2>4. ASSUME NEW p \in Pools PROVE Followed(p)'
    <3>1. Untouched(p)
      BY ZenonT(30), <2>1 DEF Untouched
    <3>2. Announced(p) => Announced(p)'
      BY <2>1, StillAnnounced
    <3> QED BY ZenonT(30), <2>1, <3>1, <3>2, UntouchedFollowed DEF Inv
  <2> QED BY ZenonT(30), <2>2, <2>3, <2>4 DEF Inv
<1> QED BY ZenonT(30), <1>1, <1>2, <1>3, <1>4, <1>5, <1>6, <1>7, <1>8, <1>9, <1>10, <1>11 DEF Next

\* The invariant of the model.
LEMMA Invariance == Spec => [](TypeOK /\ Inv)
<1>1. Init => TypeOK /\ Inv
  BY InitHolds
<1>2. (TypeOK /\ Inv) /\ [Next]_vars => (TypeOK /\ Inv)'
  BY NextKeeps
<1> QED BY <1>1, <1>2, PTL DEF Spec

\* A NodePool that is in order is reported as it is.
LEMMA InOrderTruthful ==
    ASSUME TypeOK, Installed, nrtEnabled = live.crd, NEW p \in Pools, Marked(p), Stated(p)
    PROVE  Truthful(p)
<1> DEFINE pool == live.pools[p]
           status == pool.status
           nodes == NodesOf(p)
<1>1. DOMAIN nodes = Members(p) /\ \A n \in Members(p) : nodes[n] = live.nodes[n]
  BY ZenonT(30) DEF NodesOf
<1>2. Members(p) \subseteq Nodes /\ \A n \in Members(p) : live.nodes[n] \in Node
  BY ZenonT(30), StoreFields DEF Members
<1>3. ASSUME NEW n \in Members(p)
      PROVE  /\ live.nodes[n].sel = p
             /\ live.nodes[n].cond # "absent" <=> Lacks(p, n)
             /\ live.nodes[n].policy # "absent" <=> Attributed(p, n)
             /\ live.nodes[n].link = (pool.detect = "Auto")
  <2>1. live.nrt[n] \in Nrts \cup {Gone} /\ Gone \notin Nrts
    BY ZenonT(30), <1>2, StoreFields, HealthAssumption
  <2>2. /\ live.nodes[n].sel = p
        /\ live.nodes[n].cond = NrtCondition(pool, live.nrt[n])
        /\ live.nodes[n].policy = PolicyOf(pool, live.nrt[n])
        /\ live.nodes[n].link = (pool.detect = "Auto")
    BY ZenonT(30) DEF Marked
  <2>3. nrtEnabled \/ live.nrt[n] = Gone
    BY ZenonT(30), <1>2 DEF Installed
  <2>4. live.nodes[n].cond # "absent" <=> Lacks(p, n)
    <3> DEFINE nrt == live.nrt[n]
               good == [zones |-> TRUE, policy |-> "strict"]
    <3>1. good \in Nrts
      BY DEF Nrts
    <3>2. evaluateNrtHealth(nrt) = "absent" <=> nrt = good
      <4>1. CASE nrt = Gone
        BY ZenonT(30), <2>1, <3>1, <4>1 DEF evaluateNrtHealth
      <4>2. CASE nrt # Gone
        <5>1. nrt.zones \in BOOLEAN /\ nrt.policy \in {"absent", "None", "strict"}
          BY <2>1, <4>2 DEF Nrts
        <5>2. nrt = good <=> nrt.zones = TRUE /\ nrt.policy = "strict"
          <6>1. nrt = [zones |-> nrt.zones, policy |-> nrt.policy]
            BY <2>1, <4>2 DEF Nrts
          <6>2. nrt = good => nrt.zones = TRUE /\ nrt.policy = "strict"
            <7> HIDE DEF nrt
            <7> QED OBVIOUS
          <6>3. nrt.zones = TRUE /\ nrt.policy = "strict" => nrt = good
            <7> HIDE DEF nrt
            <7> QED BY ZenonT(30), <6>1
          <6> QED BY <6>2, <6>3
        <5> HIDE DEF nrt, good
        <5>3. isPolicyEnforcing(nrt) <=> nrt.policy = "strict"
          BY <5>1 DEF isPolicyEnforcing, topologyManagerPolicy
        <5>4. evaluateNrtHealth(nrt) = "absent" <=> nrt.zones /\ isPolicyEnforcing(nrt)
          BY <4>2 DEF evaluateNrtHealth
        <5> QED BY ZenonT(30), <5>1, <5>2, <5>3, <5>4
      <4> QED BY <4>1, <4>2
    <3>3. nrtEnabled \/ nrt # good
      BY ZenonT(30), <2>1, <2>3, <3>1
    <3> QED BY ZenonT(30), <2>2, <3>2, <3>3 DEF NrtCondition, Lacks
  <2>5. live.nodes[n].policy # "absent" <=> Attributed(p, n)
    BY ZenonT(30), <2>1, <2>2, <2>3 DEF PolicyOf, topologyManagerPolicy, Attributed, Nrts
  <2> QED BY ZenonT(30), <2>2, <2>4, <2>5
<1>4. ASSUME NEW n \in Members(p)
      PROVE  /\ isNodeReady(nodes[n]) <=> Usable(n)
             /\ (NodeState(live.nodes[n]) = "Unschedulable") = ~Usable(n)
             /\ Usable(n) => (NodeState(live.nodes[n]) = "Ready") = ~Lacks(p, n)
  BY ZenonT(30), <1>1, <1>3 DEF NodeState, isNodeReady, Usable
<1>5. MissingItems(nodes) # {} <=> \E n \in Members(p) : Lacks(p, n)
  <2>1. MissingItems(nodes) # {} <=> \E n \in DOMAIN nodes : nodes[n].cond # "absent"
    <3> HIDE DEF nodes
    <3> QED BY ZenonT(30) DEF MissingItems
  <2>2. \A n \in Members(p) : nodes[n].cond # "absent" <=> Lacks(p, n)
    BY ZenonT(30), <1>1, <1>3
  <2> HIDE DEF nodes
  <2> QED BY <1>1, <2>1, <2>2
<1>6. (\E n \in DOMAIN nodes : isNodeReady(nodes[n])) <=> \E n \in Members(p) : Usable(n)
  BY <1>1, <1>4
<1> HIDE DEF nodes
<1>7. live.schedulers[p] => nodePoolPhaseForNodeSituation(nodes) = PhaseOf(p)
  BY <1>1, <1>5, <1>6 DEF nodePoolPhaseForNodeSituation, PhaseOf
<1>8. ~live.schedulers[p] => PhaseOf(p) = "Unschedulable"
  BY ZenonT(30) DEF PhaseOf
<1>9. status.phase = PhaseOf(p)
  BY ZenonT(30), <1>7, <1>8 DEF Stated, nodes
<1>10. \A n \in Nodes : (status.nodes[n] # Gone) = (n \in Members(p))
  BY DEF Stated
<1>11. \A n \in Members(p) : status.nodes[n].state = NodeState(live.nodes[n])
  BY <1>2 DEF Stated
<1>12. live.schedulers[p] =>
          /\ (status.nrt # {}) = (\E n \in Members(p) : Lacks(p, n))
          /\ status.mismatch = (\E n \in Members(p) :
                                  pool.topology /\ live.topology = "levels" /\ ~live.nodes[n].level)
  <2>1. status.mismatch \in BOOLEAN
    BY StoreFields DEF Pool, Status
  <2> QED BY ZenonT(30), <1>5, <2>1 DEF Stated, nodes
<1>13. pool.detect = "Auto" => (pool.detected = "true") = (\E n \in Members(p) : live.nodes[n].nvlink)
  <2>1. pool.detect = "Auto" => pool.detected = calculateGPUNetworkAccelerationDetected(pool, nodes)
    BY DEF Stated, nodes
  <2> QED BY ZenonT(30), <1>1, <2>1 DEF calculateGPUNetworkAccelerationDetected
<1>14. ASSUME NEW n \in Members(p)
       PROVE  /\ live.nodes[n].sel = p
              /\ (live.nodes[n].cond # "absent") = Lacks(p, n)
              /\ (status.nodes[n].state = "Unschedulable") = ~Usable(n)
              /\ Usable(n) => (status.nodes[n].state = "Ready") = ~Lacks(p, n)
              /\ (live.nodes[n].policy # "absent") = Attributed(p, n)
              /\ live.nodes[n].link = (pool.detect = "Auto")
  BY ZenonT(30), <1>3, <1>4, <1>11 DEF Lacks, Usable, Attributed
<1> QED BY <1>9, <1>10, <1>12, <1>13, <1>14, Zenon DEF Truthful

\* What is stored and cached, the events, which NodePools wait, and the reconcile in progress
\* always have their types.
THEOREM TypeCorrect == Spec => []TypeOK
BY Invariance, PTL

\* When the controller has nothing left to do, the status of every NodePool, the conditions and
\* annotations of its nodes and its detection result are those of what is stored, unless
\* something changed that no event announces or a reconcile had not seen the controller's own
\* writes: for any nodes and NodePools, any number of changes, failures and crashes.
THEOREM ReportedCorrect == Spec => []Reported
<1>1. TypeOK /\ Inv => Reported
  <2> SUFFICES ASSUME TypeOK, Inv, AtRest, NEW p \in Pools \ unheard PROVE Truthful(p)
    BY DEF Reported
  <2>1. Marked(p) /\ Stated(p)
    BY DEF AtRest, Inv, Followed, Announced
  <2> QED BY <2>1, InOrderTruthful DEF AtRest, Inv
<1> QED BY <1>1, Invariance, PTL
=============================================================================
