------------------------ MODULE MCPodGroupAssigner ------------------------
(* A pod group that asks for two node pools and the default one, or for    *)
(* the two in its affinity, or carries a label.                            *)
EXTENDS PodGroupAssigner, TLC

CONSTANTS p1, p2

MCRequested == <<p1, p2, Default>>
MCAnnotated == {<<"annotation", Sentinel>>}
MCWorkloads == {<<"annotation", Sentinel>>, <<"affinity", Sentinel>>, <<"none", Sentinel>>, <<"none", p1>>}
MCReady == {[p \in Pools |-> "Ready"]}
MCPhases == MCReady \cup {(p2 :> "Absent") @@ [p \in Pools |-> "Ready"],
                          (p2 :> "Deleting") @@ (Default :> "Unschedulable") @@ [p \in Pools |-> "Ready"]}
MCTopology == (p1 :> "rack") @@ [p \in Pools |-> None]
=============================================================================
