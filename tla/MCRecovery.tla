----------------------------- MODULE MCRecovery -----------------------------
EXTENDS Recovery

MCNode == 1 .. 3
OneXact == {1}
TwoXacts == {1, 2}
TwoElections == {[num |-> 2, members |-> {1, 2}], [num |-> 3, members |-> {1, 2, 3}]}

\* Node 3 may be the only donor of the second generation, which it is not in,
\* and node 1 vote for that one before it is online in the first.
LeavingDonor == {[num |-> 2, members |-> {1, 3}], [num |-> 3, members |-> {1, 2}]}
=============================================================================
