---------------------------- MODULE GenElection ----------------------------
(***************************************************************************)
(* What the generation machinery of state.c promises, without messages.    *)
(*                                                                         *)
(* A generation is a numbered set of member nodes.  Nodes vote for         *)
(* generations; a vote is a promise not to become online in any lower      *)
(* generation.  A generation is elected once a majority of the configured  *)
(* nodes has voted for it, and its donors are the voters that were online  *)
(* last (with the greatest last_online_in).  Campaign.tla models the       *)
(* request/response protocol and implements this specification;            *)
(* Recovery.tla adds the transactions.                                     *)
(*                                                                         *)
(* The set of configured nodes is fixed and there is no referee.           *)
(***************************************************************************)
EXTENDS Integers, FiniteSets

CONSTANTS
    Node,        \* the configured nodes, by node id
    Proposable   \* the generations campaigners may propose

ASSUME NodeAssumption == IsFiniteSet(Node)
ASSUME ProposableAssumption == Proposable \subseteq [num : Nat, members : SUBSET Node]

VARIABLES
    cur,       \* cur[i]: current_gen_num and current_gen_members of node i
    donors,    \* donors[i]: donors of cur[i]
    loi,       \* loi[i]: last_online_in, the last generation i was online in
    vote,      \* vote[i]: last_vote
    ballots,   \* history: the votes given, with the voter's last_online_in
    onlineIn   \* history: <<i, n>> when i has been online in generation n

vars == <<cur, donors, loi, vote, ballots, onlineIn>>

Gen == [num : Nat, members : SUBSET Node]
Ballot == [node : Node, gen : Gen, loi : Nat]

\* Mutant of Majority: half is enough.
HalfIsEnough(S) == Cardinality(S) >= Cardinality(Node) \div 2

\* Quorum(n_configured, |S|)
Majority(S) == Cardinality(S) >= (Cardinality(Node) \div 2) + 1

\* MTM_GEN_ONLINE of MtmGetCurrentStatusInGen
Online(i) == loi[i] = cur[i].num

\* MTM_GEN_RECOVERY of MtmGetCurrentStatusInGen
InRecovery(i) ==
    /\ ~Online(i)
    /\ i \in cur[i].members
    /\ Majority(cur[i].members)
    /\ vote[i].num = cur[i].num

\* MTM_GEN_DEAD of MtmGetCurrentStatusInGen
Dead(i) == ~Online(i) /\ ~InRecovery(i)

----------------------------------------------------------------------------

\* The first generation, written by mtm_state_create.  last_vote of the code
\* carries configured = 0 here, so no later candidate is equal to it; the
\* empty member set says the same.
FirstGen == [num |-> 1, members |-> Node]

Init ==
    /\ cur = [i \in Node |-> FirstGen]
    /\ donors = [i \in Node |-> Node]
    /\ loi = [i \in Node |-> 1]
    /\ vote = [i \in Node |-> [num |-> 1, members |-> {}]]
    /\ ballots = {}
    /\ onlineIn = Node \X {1}

\* Mutant of MostAdvanced: every voter is a donor.
EveryVoter(Q) == {b.node : b \in Q}

\* Of a set of ballots, the nodes that were online last.
MostAdvanced(Q) ==
    {b.node : b \in {c \in Q : \A d \in Q : d.loi <= c.loi}}

\* The sets of ballots that elect g.
Victories(g) ==
    {Q \in SUBSET {b \in ballots : b.gen = g} : Majority({b.node : b \in Q})}

\* g has won an election that made D its donors.
Elected(g, D) == \E Q \in Victories(g) : D = MostAdvanced(Q)

\* i votes for g, be it its own candidate or another node's.
Vote(i, g) ==
    /\ vote[i].num < g.num
    /\ vote' = [vote EXCEPT ![i] = g]
    /\ ballots' = ballots \cup {[node |-> i, gen |-> g, loi |-> loi[i]]}
    /\ UNCHANGED <<cur, donors, loi, onlineIn>>

\* i learns that another node has voted for number n, not below its own, and
\* gives up its own vote, so that its next candidate gets a number above n.
GiveUp(i, n) ==
    /\ vote[i].num <= n
    /\ vote' = [vote EXCEPT ![i] = [num |-> n, members |-> {}]]
    /\ UNCHANGED <<cur, donors, loi, ballots, onlineIn>>

\* Mutant of MayServe: the promise is forgotten.
MayServeAnyway(i, g) == i \in g.members /\ Majority(g.members)

\* A node may take part in g: member, normal generation, no promise against it.
MayServe(i, g) ==
    /\ i \in g.members
    /\ Majority(g.members)
    /\ vote[i].num <= g.num

\* MtmConsiderGenSwitch
Switch(i, g, D) ==
    /\ cur[i].num < g.num
    /\ vote' = [vote EXCEPT ![i] = IF @.num < g.num THEN g ELSE @]
    /\ cur' = [cur EXCEPT ![i] = g]
    /\ donors' = [donors EXCEPT ![i] = D]
    /\ IF MayServe(i, g) /\ i \in D
         THEN /\ loi' = [loi EXCEPT ![i] = g.num]
              /\ onlineIn' = onlineIn \cup {<<i, g.num>>}
         ELSE UNCHANGED <<loi, onlineIn>>
    /\ UNCHANGED ballots

\* MtmHandleParallelSafe in recovery: i has pulled everything up to the
\* ParallelSafe record of its current generation.
GetOnline(i) ==
    /\ InRecovery(i)
    /\ loi' = [loi EXCEPT ![i] = cur[i].num]
    /\ onlineIn' = onlineIn \cup {<<i, cur[i].num>>}
    /\ UNCHANGED <<cur, donors, vote, ballots>>

Next ==
    \E i \in Node :
        \/ \E g \in Proposable : Vote(i, g)
        \/ \E j \in Node \ {i} : \E n \in 1 .. vote[j].num : GiveUp(i, n)
        \/ \E g \in {b.gen : b \in ballots} :
               \E Q \in Victories(g) : Switch(i, g, MostAdvanced(Q))
        \/ GetOnline(i)

Spec == Init /\ [][Next]_vars

----------------------------------------------------------------------------

\* The types of MtmState, and of the history of ballots and of being online.
TypeOK ==
    /\ cur \in [Node -> Gen]
    /\ donors \in [Node -> SUBSET Node]
    /\ loi \in [Node -> Nat]
    /\ vote \in [Node -> Gen]
    /\ ballots \subseteq Ballot
    /\ onlineIn \subseteq Node \X Nat

\* A generation number names one member set: nodes that have switched to the
\* same number agree on who is in it.  MtmConsiderGenSwitch asserts it.
UniqueGen ==
    \A i, j \in Node : cur[i].num = cur[j].num => cur[i].members = cur[j].members

\* A vote is a promise: since node b.node voted for b.gen it has not become
\* online in any generation between the last_online_in it reported and b.gen,
\* although switches, crashes and ParallelSafe records kept arriving.
PromiseKept ==
    \A b \in ballots, o \in onlineIn :
        o[1] = b.node => o[2] <= b.loi \/ o[2] >= b.gen.num

\* The nodes that have been online in generation number n.
OnlineSet(n) == {i \in Node : <<i, n>> \in onlineIn}

\* Donors know everything: a generation commits only when all of its members,
\* a majority, are online in it.  Once that has happened in generation n, the
\* donors of every later generation have been online in n or after it, so
\* that they may become online at once without missing anything committable.
DonorsAreCurrent ==
    \A i \in Node : \A n \in 1 .. (cur[i].num - 1) :
        Majority(OnlineSet(n)) =>
            \A d \in donors[i] : \E m \in n .. cur[i].num : <<d, m>> \in onlineIn
=============================================================================
