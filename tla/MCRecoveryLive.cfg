CONSTANTS
    Node <- MCNode
    Xact <- OneXact
    MaxVoters = 2
    MaxEvents = 2
    Proposable <- LeavingDonor
SPECIFICATION RLiveSpec
PROPERTY RecoveryEnds
CHECK_DEADLOCK FALSE
