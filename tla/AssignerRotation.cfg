SPECIFICATION FairSpec
CONSTANTS
    p1 = p1
    p2 = p2
    Default = Default
    Sentinel = Sentinel
    None = None
    User = User
    Pools = {p1, p2, Default}
    Queued = {p1, p2, Default}
    Requested <- MCRequested
    InitPhases <- MCPhases
    Workloads <- MCWorkloads
    Topology <- MCTopology
    Edits = {"phase", "delete", "topology", "wake"}
    MaxEdits = 1
    MaxFailures = 1
INVARIANTS TypeOK QueueFollowsPool MarkedAfterTrying
PROPERTY Rotates
CHECK_DEADLOCK FALSE
