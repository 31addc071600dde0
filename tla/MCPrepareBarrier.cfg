CONSTANTS
    b1 = b1
    a1 = a1
    s1 = s1
    s2 = s2
    h1 = h1
    r1 = r1
    c1 = c1
    Backend <- MCBackend
    Applier <- MCApplier
    Switcher <- MCSwitcher
    Handler <- MCHandler
    Reader <- MCReader
    Checker <- MCChecker
    MaxGen = 2
SPECIFICATION Spec
INVARIANTS CountersExact PrepareInOneGen CheckerExcludesBackends
PROPERTY EveryoneReturns
CHECK_DEADLOCK FALSE
