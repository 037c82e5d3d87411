SPECIFICATION Spec
CONSTANTS
    p1 = p1
    p2 = p2
    legacy = legacy
    Pools = {p1}
    Default = Default
    Excluded = Excluded
    Unmanaged = {}
    Find = Find
    Roster = {p1}
    Edits = {"labels", "criteria"}
    MaxEdits = 3
    MaxBinds = 1
    MaxFailures = 0
INVARIANT MarkerRemoved
CHECK_DEADLOCK FALSE
