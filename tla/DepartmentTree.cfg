SPECIFICATION Spec
CONSTANTS
    a = a
    b = b
    c = c
    Departments = {a, b, c}
    NoDept = NoDept
    NoQueue = NoQueue
    Quotas = {0}
    Unowned = {}
    MaxDepth = 2
    WebhookEnabled = TRUE
    Readds = FALSE
    MaxEdits = 3
    MaxFailures = 1
    MaxMidSyncs = 0
    Queues <- MCQueues
    Suggested <- MCSuggested
    Suffixed <- MCSuffixed
    Roster <- MCRoot
SYMMETRY MCAlike
INVARIANTS TypeOK NoQueueLoop
PROPERTY AdmissionKeepsTree
CHECK_DEADLOCK FALSE
