SPECIFICATION Spec
CONSTANTS
    k = k
    x = x
    v = v
    Default = "default"
    Named = {"p"}
    Free = {"s"}
    Keys <- MCKeys
    Values = {v}
    KrmArgs <- MCKrmArgs
    Unset = Unset
    Gone = Gone
    None = None
    Unresolvable = Unresolvable
    Untracked = Untracked
    Nobody = Nobody
    Foreign = Foreign
    Setups <- ReinstallSetups
    MaxIds = 8
    MaxEdits = 3
    MaxFailures = 0
INVARIANT
    HandArgKept
CHECK_DEADLOCK FALSE
