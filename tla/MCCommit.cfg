CONSTANTS
    Node <- MCNode
    Coordinator = 1
    Members <- MCMembers
    Reloading <- Others
    Crashing <- First
    MaxBallot = 2
SPECIFICATION Spec
CONSTRAINT FewEvents
INVARIANTS Agreement CommittedIsPrepared OneDecreePerTerm
CHECK_DEADLOCK FALSE
