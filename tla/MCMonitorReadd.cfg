CONSTANTS
    None = None
    Peer <- MCPeer
    Founders <- MCFounders
    Readd = TRUE
    Budget = 2
SPECIFICATION Spec
PROPERTY KeepsConfig
CHECK_DEADLOCK FALSE
