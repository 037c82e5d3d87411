SPECIFICATION Spec
CONSTANTS
    a = a
    b = b
    c = c
    Departments = {a, b}
    NoDept = NoDept
    NoQueue = NoQueue
    Quotas = {0}
    Unowned = {}
    MaxDepth = 2
    WebhookEnabled = TRUE
    Readds = TRUE
    MaxEdits = 3
    MaxFailures = 0
    MaxMidSyncs = 0
    Queues <- MCQueues
    Suggested <- MCSuggested
    Suffixed <- MCSuffixed
    Roster <- MCChain
INVARIANT SettledPlaced
CHECK_DEADLOCK FALSE
