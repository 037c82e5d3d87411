SPECIFICATION Spec
CONSTANTS
    p1 = p1
    p2 = p2
    legacy = legacy
    Pools = {p1}
    Default = Default
    Excluded = Excluded
    Unmanaged = {}
    Find = Find
    Roster = {p1}
    Edits = {"labels", "pools", "newPools", "projects"}
    MaxEdits = 4
    MaxBinds = 1
    MaxFailures = 1
INVARIANT SettledPlaced
CHECK_DEADLOCK FALSE
