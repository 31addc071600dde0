------------------------------ MODULE MCCommit ------------------------------
EXTENDS Commit

MCNode == 1 .. 3
MCMembers == {1, 2}
First == {1}
Others == {2, 3}

\* Bounds: ballots started and nodes that leave the generation, together;
\* WAL scans at a time.
MaxEvents == 3
MaxScans == 1
FewEvents ==
    /\ Cardinality({m \in sent : m.type = "1a"}) + Cardinality({i \in Node : later[i] # "same"})
         <= MaxEvents
    /\ Cardinality({i \in Node : replier[i].at # "idle"}) <= MaxScans
=============================================================================
