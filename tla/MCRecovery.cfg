CONSTANTS
    Node <- MCNode
    Xact <- TwoXacts
    MaxVoters = 2
    MaxEvents = 3
    Proposable <- TwoElections
SPECIFICATION RSpec
INVARIANTS HoldsCommittable NeverMisplaced PreparesOrdered
CHECK_DEADLOCK FALSE
