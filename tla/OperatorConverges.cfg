SPECIFICATION FairSpec
CONSTANTS
    gone = gone
    Gone <- gone
    Operands <- MCOperands
    KindsOf <- MCKinds
    Namespaces = {"a", "b"}
    Setups <- Both
    MaxEdits = 2
INVARIANTS TypeOK SettledInstalled
PROPERTIES Converges
CHECK_DEADLOCK FALSE
