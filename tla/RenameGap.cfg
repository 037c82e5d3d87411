SPECIFICATION Spec
CONSTANTS
    gone = gone
    Gone <- gone
    Operands <- MCOperands
    KindsOf <- MCKinds
    Namespaces = {"a", "b"}
    Setups <- Moves
    MaxEdits = 2
PROPERTY NeverAbsent
CHECK_DEADLOCK FALSE
