------------------------ MODULE MCDepartmentQueues ------------------------
(* Small instances of DepartmentQueues: two or three departments, a        *)
(* suggested queue name for each and one suffixed name per department.     *)
EXTENDS DepartmentQueues, TLC

CONSTANTS a, b, c

MCSuggested == [d \in Departments |-> <<"q", d>>]
MCSuffixed == [d \in Departments |-> {<<"q1", d>>}]
MCChain == (a :> NoDept) @@ (b :> a)
MCRoot == a :> NoDept
MCQueues == UNION {{MCSuggested[d]} \cup MCSuffixed[d] : d \in Departments}

\* Names follow their departments, and b and c start alike when only a is placed.
MCAlike == Permutations({b, c})
=============================================================================
