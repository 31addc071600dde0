SPECIFICATION Spec
CONSTANTS
    Node <- MCNode
    Coordinator = 1
    MaxGenNum = 5
    MaxRestarts = 1
    None = None
INVARIANTS
    TypeOK
    HoldsAll
    Agreement
    NeverOutvoted
    GrantRemembered
CHECK_DEADLOCK FALSE
