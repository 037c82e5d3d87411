SPECIFICATION Spec
CONSTANTS
    k = k
    x = x
    v = v
    Default = "default"
    Named = {"p"}
    Free = {"s"}
    Keys <- MCKeys
    Values = {v}
    KrmArgs <- MCKrmArgs
    Unset = Unset
    Gone = Gone
    None = None
    Unresolvable = Unresolvable
    Untracked = Untracked
    Nobody = Nobody
    Foreign = Foreign
    Setups <- TakenSetups
    MaxIds = 8
    MaxEdits = 2
    MaxFailures = 0
INVARIANT
    ShardNamed
CHECK_DEADLOCK FALSE
