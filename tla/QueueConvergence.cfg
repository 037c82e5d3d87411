SPECIFICATION FairSpec
CONSTANTS
    a = a
    b = b
    c = c
    Departments = {a, b}
    NoDept = NoDept
    NoQueue = NoQueue
    Quotas = {0}
    Unowned = {}
    MaxDepth = 2
    WebhookEnabled = TRUE
    Readds = FALSE
    MaxEdits = 3
    MaxFailures = 0
    MaxMidSyncs = 1
    Queues <- MCQueues
    Suggested <- MCSuggested
    Suffixed <- MCSuffixed
    Roster <- MCChain
PROPERTY Converges
CHECK_DEADLOCK FALSE
