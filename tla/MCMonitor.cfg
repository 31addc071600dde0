CONSTANTS
    None = None
    Peer <- MCPeer
    Founders <- MCFounders
    Readd = FALSE
    Budget = 4
SPECIFICATION Spec
INVARIANTS DoneHasSlots WardsKept
PROPERTIES KeepsConfig ConfiguredIsServed DroppedIsCleaned
CHECK_DEADLOCK FALSE
