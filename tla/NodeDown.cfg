CONSTANTS
    n1 = n1
    n2 = n2
    blue = blue
    Default = Default
    Gone = Gone
    Nobody = Nobody
    Nodes = {n1, n2}
    Pools = {blue, Default}
    Setups <- DownSetups
    MaxEdits = 2
    MaxFailures = 1
SPECIFICATION Spec
INVARIANTS
    ReadyHasNode
CHECK_DEADLOCK FALSE
