SPECIFICATION FairSpec
CONSTANTS
    p1 = p1
    p2 = p2
    Default = Default
    Sentinel = Sentinel
    None = None
    User = User
    Pools = {p1, p2, Default}
    Queued = {p1, p2, Default}
    Requested <- MCRequested
    InitPhases <- MCReady
    Workloads <- MCAnnotated
    Topology <- MCTopology
    Edits = {"phase", "delete"}
    MaxEdits = 2
    MaxFailures = 0
PROPERTY AlwaysRotates
CHECK_DEADLOCK FALSE
