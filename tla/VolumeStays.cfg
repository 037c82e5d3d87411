SPECIFICATION Spec
CONSTANTS
    gone = gone
    Gone <- gone
    Operands <- MCOperands
    KindsOf <- MCKinds
    Namespaces = {"a", "b"}
    Setups <- Webhooks
    MaxEdits = 2
INVARIANT VolumeOnlyWithWebhooks
CHECK_DEADLOCK FALSE
