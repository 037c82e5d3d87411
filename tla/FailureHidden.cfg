SPECIFICATION Spec
CONSTANTS
    gone = gone
    Gone <- gone
    Operands <- MCOperands
    KindsOf <- MCKinds
    Namespaces = {"a", "b"}
    Setups <- Fresh1
    MaxEdits = 2
INVARIANT FailureShows
CHECK_DEADLOCK FALSE
