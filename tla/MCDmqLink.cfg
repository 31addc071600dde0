CONSTANTS
    s1 = s1
    s2 = s2
    None = None
    Server <- MCServer
    Budget = 3
    MaxCount = 2
SPECIFICATION Spec
INVARIANTS OneReceiver GoneIsDisconnected
PROPERTY WaitEnds
CHECK_DEADLOCK FALSE
