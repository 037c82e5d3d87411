SPECIFICATION Spec
CONSTANTS
    p1 = p1
    p2 = p2
    legacy = legacy
    Pools = {p1, p2}
    Default = Default
    Excluded = Excluded
    Unmanaged = {legacy}
    Find = Find
    Roster = {p1}
    Edits = {"labels", "criteria", "pools", "newPools"}
    MaxEdits = 2
    MaxBinds = 1
    MaxFailures = 1
INVARIANTS TypeOK CordonIsMarked
PROPERTY UnmanagedUntouched
CHECK_DEADLOCK FALSE
