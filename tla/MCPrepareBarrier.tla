-------------------------- MODULE MCPrepareBarrier --------------------------
EXTENDS PrepareBarrier

CONSTANTS b1, a1, s1, s2, h1, r1, c1

MCBackend == {b1}
MCApplier == {a1}
MCSwitcher == {s1, s2}
MCHandler == {h1}
MCReader == {r1}
MCChecker == {c1}
=============================================================================
