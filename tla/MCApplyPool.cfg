CONSTANTS
    x1 = x1
    x2 = x2
    None = None
    Stream <- MCStream
    Worker = {w1, w2}
    QSize = 12
    TxlSize = 3
    MaxDeaths = 1
    MaxHolds = 1
SPECIFICATION Spec
INVARIANTS RingHoldsWaiting AbortSticks
PROPERTIES KeepsOrder StreamApplied
CHECK_DEADLOCK FALSE
