----------------------------- MODULE MaxClique -----------------------------
(***************************************************************************)
(* The connectivity clique: MtmFindMaxClique (Bron-Kerbosch with a pivot,  *)
(* keeping one biggest clique) and MtmGetConnectivityClique, which feeds   *)
(* it with what a node knows of the others.  A node mask is a set of node  *)
(* numbers counted from 0, a graph maps each node to its neighbours.       *)
(*                                                                         *)
(* The order in which vertices are tried decides which of several biggest  *)
(* cliques is found, so the array oldSet is a sequence: its first ne       *)
(* elements are X of the algorithm, the rest is P.                         *)
(***************************************************************************)
EXTENDS Integers, FiniteSets, Sequences, FiniteSetsExt

CONSTANT N    \* number of node ids the clique is searched among

Id == 0 .. (N - 1)

\* Comparison of masks as numbers: the greatest node they differ in decides.
Smaller(S, T) == S # T /\ Max(SymDiff(S, T)) \in T

\* Mutant of Better: the last clique is kept.
Latest(result, cur) == cur

\* What extend keeps when it has completed the clique cur.
Better(result, cur) ==
    IF \/ Cardinality(result) < Cardinality(cur)
       \/ Cardinality(result) = Cardinality(cur) /\ Smaller(cur, result)
      THEN cur ELSE result

\* Recursion is cut off when it cannot give a bigger clique.
Promising(cur, nCandidates, result) == Cardinality(cur) + nCandidates > Cardinality(result)

Swap(s, i, j) == [s EXCEPT ![i] = s[j], ![j] = s[i]]

\* The positions in P of the vertices that p is not connected with.
NonNeighbours(graph, old, ne, p) == {j \in (ne + 1) .. Len(old) : old[j] \notin graph[p]}

\* The position of the pivot: the first vertex with the fewest of these.
Pivot(graph, old, ne) ==
    LET cnt(i) == Cardinality(NonNeighbours(graph, old, ne, old[i]))
    IN  CHOOSE i \in DOMAIN old :
            \A j \in DOMAIN old : cnt(i) < cnt(j) \/ (cnt(i) = cnt(j) /\ i <= j)

\* extend, and the iterations of its main loop from the one with counter k.
RECURSIVE extend(_, _, _, _, _), Branch(_, _, _, _, _, _, _, _)

extend(cur, result, graph, old, ne) ==
    LET i == Pivot(graph, old, ne)
        others == NonNeighbours(graph, old, ne, old[i])
        s == IF i <= ne THEN IF others = {} THEN 0 ELSE Max(others) ELSE i
        nod == IF i <= ne THEN 0 ELSE 1
    IN  Branch(cur, result, graph, old, ne, old[i], s, Cardinality(others) + nod)

Branch(cur, result, graph, old, ne, fixp, s, k) ==
    IF k = 0 THEN result
    ELSE LET sel == old[s]
             old2 == Swap(old, s, ne + 1)
             newX == SelectSeq(SubSeq(old2, 1, ne), LAMBDA v : v \in graph[sel])
             newP == SelectSeq(SubSeq(old2, ne + 2, Len(old2)), LAMBDA v : v \in graph[sel])
             cur2 == cur \cup {sel}
             result2 ==
                 IF newX \o newP = <<>> THEN Better(result, cur2)
                 ELSE IF newP # <<>> /\ Promising(cur2, Len(newP), result)
                   THEN extend(cur2, result, graph, newX \o newP, Len(newX))
                   ELSE result
             rest == NonNeighbours(graph, old2, ne + 1, fixp)
         IN  Branch(cur, result2, graph, old2, ne + 1, fixp,
                    IF k > 1 THEN Min(rest) ELSE 0, k - 1)

MtmFindMaxClique(graph) == extend({}, {}, graph, [i \in 1 .. N |-> i - 1], 0)

\* Mutant of MtmGetConnectivityClique: one end is enough.
CliqueOfOneWayEdges(topology, heard, me) ==
    LET row(i) == IF i \in heard \cup {me} THEN topology[i] ELSE {}
        graph == [i \in Id |-> {i} \cup {j \in Id : j \in row(i) \/ i \in row(j)}]
    IN  MtmFindMaxClique(graph)

\* What me knows: its own connected mask and those that came with the
\* heartbeats of the nodes it hears.  An edge counts if both ends see it.
MtmGetConnectivityClique(topology, heard, me) ==
    LET row(i) == IF i \in heard \cup {me} THEN topology[i] ELSE {}
        graph == [i \in Id |-> {i} \cup {j \in Id : j \in row(i) /\ i \in row(j)}]
        clique == MtmFindMaxClique(graph)
    IN  IF Cardinality(clique) = 1 THEN {me} ELSE clique

----------------------------------------------------------------------------
(* Reference definitions.                                                  *)

IsClique(graph, S) == \A i, j \in S : i # j => j \in graph[i]

Biggest(graph) ==
    {S \in SUBSET Id : /\ IsClique(graph, S)
                       /\ \A T \in SUBSET Id : IsClique(graph, T) => Cardinality(T) <= Cardinality(S)}

----------------------------------------------------------------------------
(* Every topology, with at most one edge (the bound) that only one end has *)
(* noticed to be down, and what each node computes once heartbeats have    *)
(* spread it.                                                              *)

VARIABLES
    topology,   \* topology[i]: the nodes i has connections with in both directions, and i
    clique      \* clique[i]: what i has computed, {} before

Edges == {e \in SUBSET Id : Cardinality(e) = 2}

TopologyOf(E, lost) == [i \in Id |-> {i} \cup {j \in Id : {i, j} \in E /\ <<i, j>> \notin lost}]

Lost(E) == {{}} \cup {{e} : e \in {f \in Id \X Id : {f[1], f[2]} \in E}}

Init ==
    /\ \E E \in SUBSET Edges : \E lost \in Lost(E) : topology = TopologyOf(E, lost)
    /\ clique = [i \in Id |-> {}]

\* A node hears those it is connected with, and may hear one that it has no
\* connection to any more.
Compute(i, heard) ==
    /\ \A j \in Id : clique[j] = {} => i <= j
    /\ clique[i] = {}
    /\ clique' = [clique EXCEPT ![i] = MtmGetConnectivityClique(topology, heard, i)]
    /\ UNCHANGED topology

Next ==
    \E i \in Id : \E heard \in {topology[i], topology[i] \cup {j \in Id : i \in topology[j]}} :
        Compute(i, heard)

Spec == Init /\ [][Next]_<<topology, clique>>

Symmetric == \A i, j \in Id : j \in topology[i] <=> i \in topology[j]

----------------------------------------------------------------------------

\* The pivot and the cut-offs lose nothing: for every graph the algorithm
\* returns a clique, and no clique is bigger.
FindsBiggest ==
    Symmetric /\ clique[0] = {} => MtmFindMaxClique(topology) \in Biggest(topology)

\* Whoever computes it, all members of the clique see each other, although
\* the masks it is made of are those of different nodes and may disagree: a
\* node never proposes a generation with a member it knows to be out of reach
\* of another one.
CliqueInView == \A i \in Id : IsClique(topology, clique[i])
=============================================================================
