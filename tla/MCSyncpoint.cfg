CONSTANTS
    Node = {1, 2, 3}
    InitialWal <- MCWal
    InitialRows <- MCRows
    Pulls <- MCPulls
    Writer = {1}
    Hinter = {1, 2}
    Restarting = {3}
    MaxXacts = 1
    MaxSyncpoints = 2
    MaxStops = 1
SPECIFICATION Spec
INVARIANTS AppliedOnce SyncpointTrue NeededIsKept HorizonKept
CHECK_DEADLOCK FALSE
