CONSTANTS
    r1 = r1
    r2 = r2
    q1 = q1
    q2 = q2
    x1 = x1
    x2 = x2
    u1 = u1
    u2 = u2
    Uids = {u1, u2}
    Pools = {r1}
    Names = {q1, x1}
    Suggested <- OnePool
    Suffixed <- OneSuffix
    Held <- NoneHeld
    Resources = {"gpu"}
    Roles = {"view", "edit"}
    Gone = Gone
    Twin = Twin
    Other = Other
    Nobody = Nobody
    Setups <- LivelySetups
    MaxEdits = 2
    MaxFailures = 1
SPECIFICATION Spec
PROPERTIES
    Settles
CHECK_DEADLOCK FALSE
