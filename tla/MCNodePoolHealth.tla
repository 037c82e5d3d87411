-------------------------- MODULE MCNodePoolHealth --------------------------
(* NodePoolHealth with two nodes, a NodePool and the default one.            *)
EXTENDS NodePoolHealth, TLC

CONSTANTS n1, n2, blue

NoStatus == [phase |-> "Empty", by |-> "nodes", nodes |-> [n \in Nodes |-> Gone], nrt |-> {},
             mismatch |-> FALSE]
Plain == [numa |-> FALSE, detect |-> "absent", topology |-> FALSE, detected |-> "unset", status |-> NoStatus]
In(p) == [NewNode(p) EXCEPT !.pool = p]

Base == [nodes |-> (n1 :> In(blue) @@ n2 :> In(blue)), nrt |-> [n \in Nodes |-> Gone],
         pools |-> [p \in Pools |-> Plain], crd |-> FALSE, topology |-> Gone, kinds |-> {}]

Numa == [Base EXCEPT !.pools[blue].numa = TRUE, !.crd = TRUE,
                       !.nrt[n1] = [zones |-> TRUE, policy |-> "strict"]]

MCSetups == {
    [Base EXCEPT !.kinds = {"join", "leave", "select", "cordon"}, !.nodes[n2] = Gone],
    [Base EXCEPT !.kinds = {"detect", "nvlink", "select", "scheduler"}],
    [Base EXCEPT !.kinds = {"network", "level", "topology"}, !.topology = "levels"],
    [Base EXCEPT !.kinds = {"crd", "nrt", "select"}, !.pools[blue].numa = TRUE],
    [Numa EXCEPT !.kinds = {"nrt", "numa", "cordon"}, !.nodes[n2] = Gone],
    [Numa EXCEPT !.kinds = {"nrt", "join", "leave"}, !.nodes[n1] = Gone],
    [Numa EXCEPT !.kinds = {"nrt", "up", "scheduler"}] }

DownSetups == {[Base EXCEPT !.kinds = {"up"}]}
=============================================================================
