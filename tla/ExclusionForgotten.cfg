SPECIFICATION Spec
CONSTANTS
    p1 = p1
    p2 = p2
    legacy = legacy
    Pools = {}
    Default = Default
    Excluded = Excluded
    Unmanaged = {}
    Find = Find
    Roster = {}
    Edits = {"labels", "criteria", "cordon"}
    MaxEdits = 3
    MaxBinds = 1
    MaxFailures = 2
INVARIANT SettledPlaced
CHECK_DEADLOCK FALSE
