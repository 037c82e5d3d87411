SPECIFICATION Spec
CONSTANTS
    p1 = p1
    p2 = p2
    legacy = legacy
    Pools = {p1, p2}
    Default = Default
    Excluded = Excluded
    Unmanaged = {}
    Find = Find
    Roster = {p1, p2}
    Edits = {"labels", "pools"}
    MaxEdits = 3
    MaxBinds = 0
    MaxFailures = 0
INVARIANT SettledPlaced
CHECK_DEADLOCK FALSE
