CONSTANTS
    Node <- MCNode
    MaxGenNum <- MCMaxGenNum
    Proposable <- MCProposable
    Views <- MCViews
    MaxTours = 2
    MaxRestarts = 1
SPECIFICATION CSpec
INVARIANTS ModeMatchesStatus UniqueGen PromiseKept DonorsAreCurrent
PROPERTY Spec
CHECK_DEADLOCK FALSE
