------------------------- MODULE GenElectionProofs -------------------------
(***************************************************************************)
(* The safety of generation election, for any number of nodes and          *)
(* generations: generations with the same number are the same, votes are   *)
(* kept as promises, and donors have been online in every generation that  *)
(* could commit.                                                           *)
(***************************************************************************)
EXTENDS GenElection, FiniteSetTheorems, TLAPS

\* The order of the numbers a node holds, and what a ballot says about them.
NumbersOrdered ==
    \A i \in Node : 1 <= loi[i] /\ loi[i] <= cur[i].num /\ cur[i].num <= vote[i].num

BallotsRemembered ==
    \A b \in ballots : 1 <= b.loi /\ b.loi < b.gen.num /\ b.gen.num <= vote[b.node].num

\* A node votes at most once under a number.
OneVotePerNumber ==
    \A b, c \in ballots : b.node = c.node /\ b.gen.num = c.gen.num => b = c

\* last_online_in is the last generation the node was online in, and so was
\* the one a ballot reports.
OnlineHistory ==
    /\ \A o \in onlineIn : o[2] <= loi[o[1]]
    /\ \A i \in Node : <<i, loi[i]>> \in onlineIn
    /\ \A b \in ballots : <<b.node, b.loi>> \in onlineIn

\* Only elected generations become current.
CurIsElected ==
    \A i \in Node : cur[i] = FirstGen \/ Elected(cur[i], donors[i])

IInv ==
    /\ TypeOK
    /\ NumbersOrdered
    /\ BallotsRemembered
    /\ OneVotePerNumber
    /\ PromiseKept
    /\ OnlineHistory
    /\ CurIsElected

\* Leaves are for Zenon, unless they cite SMT.
USE ZenonT(60)

----------------------------------------------------------------------------

\* Any two majorities of the configured nodes share a node: what
\* Quorum(ntotal, nvotes) is for.
LEMMA MajoritiesMeet ==
    ASSUME NEW S \in SUBSET Node, NEW T \in SUBSET Node, Majority(S), Majority(T)
    PROVE  S \cap T # {}
<1>1. /\ IsFiniteSet(S)
      /\ IsFiniteSet(T)
  BY NodeAssumption, FS_Subset
<1>2. /\ Cardinality(Node) \in Nat
      /\ Cardinality(S) \in Nat
      /\ Cardinality(T) \in Nat
  BY <1>1, NodeAssumption, FS_CardinalityType
<1>3. Cardinality(S) + Cardinality(T) > Cardinality(Node)
  BY SMTT(30), <1>2 DEF Majority
<1> QED
  BY <1>3, NodeAssumption, FS_MajoritiesIntersect

\* Two elected generations with the same number are equal, because a common
\* voter voted once under that number.
LEMMA ElectedUnique ==
    ASSUME TypeOK, OneVotePerNumber,
           NEW g, NEW D, Elected(g, D), NEW h, NEW E, Elected(h, E), g.num = h.num
    PROVE  g = h
<1>1. PICK Q \in Victories(g) : D = MostAdvanced(Q)
  BY DEF Elected
<1>2. PICK R \in Victories(h) : E = MostAdvanced(R)
  BY DEF Elected
<1> DEFINE S == {b.node : b \in Q}
           T == {b.node : b \in R}
<1>3. /\ S \in SUBSET Node /\ Majority(S)
      /\ T \in SUBSET Node /\ Majority(T)
  BY SMTT(30) DEF Victories, TypeOK, Ballot
<1>4. PICK i : i \in S /\ i \in T
  <2> HIDE DEF S, T
  <2> QED BY <1>3, MajoritiesMeet
<1>5. PICK b \in Q : b.node = i
  BY <1>4
<1>6. PICK c \in R : c.node = i
  BY <1>4
<1>7. b \in ballots /\ b.gen = g /\ c \in ballots /\ c.gen = h
  BY <1>5, <1>6 DEF Victories
<1> QED
  BY <1>5, <1>6, <1>7 DEF OneVotePerNumber

\* An election stays won: ballots are never taken back.
LEMMA ElectedStable ==
    ASSUME NEW g, NEW D, Elected(g, D), ballots \subseteq ballots'
    PROVE  Elected(g, D)'
<1>1. PICK Q \in Victories(g) : D = MostAdvanced(Q)
  BY DEF Elected
<1>2. Q \in Victories(g)'
  BY DEF Victories, Majority
<1> QED
  BY <1>1, <1>2 DEF Elected, MostAdvanced

----------------------------------------------------------------------------

\* The invariant holds before the first election.
LEMMA InitIInv == Init => IInv
<1> SUFFICES ASSUME Init PROVE IInv
  OBVIOUS
<1> USE DEF Init
<1>1. TypeOK
  BY SMTT(30) DEF TypeOK, FirstGen, Gen
<1>2. NumbersOrdered
  BY SMTT(30) DEF NumbersOrdered, FirstGen
<1>3. BallotsRemembered /\ OneVotePerNumber /\ PromiseKept
  BY DEF BallotsRemembered, OneVotePerNumber, PromiseKept
<1>4. OnlineHistory
  BY SMTT(30) DEF OnlineHistory
<1>5. CurIsElected
  BY DEF CurIsElected
<1> QED
  BY <1>1, <1>2, <1>3, <1>4, <1>5 DEF IInv

\* Every step preserves the invariant, action by action.
LEMMA NextIInv == IInv /\ [Next]_vars => IInv'
<1> SUFFICES ASSUME IInv, [Next]_vars PROVE IInv'
  OBVIOUS
<1> USE DEF IInv
<1>1. ASSUME NEW i \in Node, NEW g \in Proposable, Vote(i, g) PROVE IInv'
  <2> USE <1>1 DEF Vote
  <2> DEFINE new == [node |-> i, gen |-> g, loi |-> loi[i]]
  <2>1. g \in Gen
    BY ProposableAssumption DEF Gen
  <2>2. new \in Ballot
    BY <2>1 DEF TypeOK, Ballot
  <2>3. TypeOK'
    BY <2>1, <2>2 DEF TypeOK
  <2>4. NumbersOrdered'
    BY SMTT(30), <2>1 DEF NumbersOrdered, TypeOK, Gen
  <2>5. BallotsRemembered'
    BY SMTT(30), <2>1, <2>2 DEF BallotsRemembered, NumbersOrdered, TypeOK, Gen, Ballot
  <2>6. OneVotePerNumber'
    BY SMTT(30), <2>1, <2>2 DEF OneVotePerNumber, BallotsRemembered, TypeOK, Gen, Ballot
  <2>7. PromiseKept'
    BY SMTT(30), <2>2 DEF PromiseKept, OnlineHistory, TypeOK, Ballot
  <2>8. OnlineHistory'
    BY SMTT(30), <2>2 DEF OnlineHistory, TypeOK, Ballot
  <2>9. CurIsElected'
    BY ElectedStable DEF CurIsElected, FirstGen
  <2> QED
    BY <2>3, <2>4, <2>5, <2>6, <2>7, <2>8, <2>9
<1>2. ASSUME NEW i \in Node, NEW j \in Node, NEW n \in 1 .. vote[j].num, GiveUp(i, n) PROVE IInv'
  <2> USE <1>2 DEF GiveUp
  <2>1. n \in Nat
    BY SMTT(30) DEF TypeOK, Gen
  <2>2. TypeOK'
    BY <2>1 DEF TypeOK, Gen
  <2>3. NumbersOrdered' /\ BallotsRemembered'
    BY SMTT(30), <2>1 DEF NumbersOrdered, BallotsRemembered, TypeOK, Gen, Ballot
  <2>4. OneVotePerNumber' /\ PromiseKept' /\ OnlineHistory'
    BY DEF OneVotePerNumber, PromiseKept, OnlineHistory
  <2>5. CurIsElected'
    BY ElectedStable DEF CurIsElected, FirstGen
  <2> QED
    BY <2>2, <2>3, <2>4, <2>5
<1>3. ASSUME NEW i \in Node, NEW g, NEW D, Elected(g, D), Switch(i, g, D) PROVE IInv'
  <2> USE <1>3 DEF Switch
  <2>1. PICK Q \in Victories(g) : D = MostAdvanced(Q)
    BY DEF Elected
  <2>2. Q \subseteq Ballot /\ \A b \in Q : b.gen = g
    BY DEF Victories, TypeOK
  <2>3. D \in SUBSET Node
    BY <2>1, <2>2 DEF MostAdvanced, Ballot
  <2>4. Majority({b.node : b \in Q})
    BY DEF Victories
  <2>5. Q # {}
    <3> SUFFICES ASSUME Q = {} PROVE FALSE
      OBVIOUS
    <3>1. {b.node : b \in Q} = {}
      OBVIOUS
    <3> QED
      BY <3>1, <2>4, MajoritiesMeet
  <2>6. g \in Gen
    BY <2>2, <2>5 DEF Ballot
  <2>7. TypeOK'
    BY SMTT(30), <2>3, <2>6 DEF TypeOK, Gen
  <2>8. NumbersOrdered'
    BY SMTT(30), <2>6 DEF NumbersOrdered, MayServe, TypeOK, Gen
  <2>9. BallotsRemembered'
    BY SMTT(30), <2>6 DEF BallotsRemembered, TypeOK, Gen, Ballot
  <2>10. OneVotePerNumber'
    BY DEF OneVotePerNumber
  <2>11. PromiseKept'
    <3> SUFFICES ASSUME NEW b \in ballots, NEW o \in onlineIn', o[1] = b.node
                 PROVE  o[2] <= b.loi \/ o[2] >= b.gen.num
      BY DEF PromiseKept
    <3>1. CASE o \in onlineIn
      BY <3>1 DEF PromiseKept
    <3>2. CASE o = <<i, g.num>> /\ MayServe(i, g)
      BY SMTT(30), <3>2, <2>6 DEF BallotsRemembered, MayServe, TypeOK, Gen, Ballot
    <3> QED
      BY <3>1, <3>2
  <2>12. OnlineHistory'
    BY SMTT(30), <2>6 DEF OnlineHistory, NumbersOrdered, TypeOK, Gen
  <2>13. CurIsElected'
    BY ElectedStable DEF CurIsElected, FirstGen, TypeOK
  <2> QED
    BY <2>7, <2>8, <2>9, <2>10, <2>11, <2>12, <2>13
<1>4. ASSUME NEW i \in Node, GetOnline(i) PROVE IInv'
  <2> USE <1>4 DEF GetOnline, InRecovery
  <2>1. TypeOK'
    BY SMTT(30) DEF TypeOK, Gen
  <2>2. NumbersOrdered'
    BY SMTT(30) DEF NumbersOrdered, TypeOK, Gen
  <2>3. BallotsRemembered' /\ OneVotePerNumber'
    BY DEF BallotsRemembered, OneVotePerNumber
  <2>4. PromiseKept'
    BY SMTT(30) DEF PromiseKept, BallotsRemembered, TypeOK, Gen, Ballot
  <2>5. OnlineHistory'
    BY SMTT(30) DEF OnlineHistory, NumbersOrdered, TypeOK, Gen
  <2>6. CurIsElected'
    BY ElectedStable DEF CurIsElected, FirstGen
  <2> QED
    BY <2>1, <2>2, <2>3, <2>4, <2>5, <2>6
<1>5. CASE UNCHANGED vars
  BY <1>5 DEF vars, TypeOK, NumbersOrdered, BallotsRemembered, OneVotePerNumber, PromiseKept,
              OnlineHistory, CurIsElected, Elected, Victories, MostAdvanced
<1> QED
  BY <1>1, <1>2, <1>3, <1>4, <1>5 DEF Next, Elected

----------------------------------------------------------------------------

\* The invariant gives the agreement MtmConsiderGenSwitch asserts ...
LEMMA IInvUniqueGen == IInv => UniqueGen
<1> SUFFICES ASSUME IInv, NEW i \in Node, NEW j \in Node, cur[i].num = cur[j].num
             PROVE  cur[i].members = cur[j].members
  BY DEF UniqueGen
<1> USE DEF IInv
<1>1. ASSUME NEW k \in Node, Elected(cur[k], donors[k]) PROVE cur[k].num > 1
  <2>1. PICK Q \in Victories(cur[k]) : TRUE
    BY <1>1 DEF Elected
  <2>2. Q # {}
    <3> SUFFICES ASSUME Q = {} PROVE FALSE
      OBVIOUS
    <3>1. {b.node : b \in Q} = {}
      OBVIOUS
    <3> QED
      BY <3>1, MajoritiesMeet DEF Victories
  <2>3. PICK b \in ballots : b.gen = cur[k]
    BY <2>2 DEF Victories
  <2> QED
    BY SMTT(30), <2>3 DEF BallotsRemembered, TypeOK, Ballot, Gen
<1>2. CASE cur[i] = FirstGen \/ cur[j] = FirstGen
  BY SMTT(30), <1>1, <1>2 DEF CurIsElected, FirstGen
<1>3. CASE Elected(cur[i], donors[i]) /\ Elected(cur[j], donors[j])
  BY <1>3, ElectedUnique
<1> QED
  BY <1>2, <1>3 DEF CurIsElected

\* ... and the knowledge of donors: the majority that was online in n and the
\* majority that elected the generation share a node, whose ballot reports n
\* or later; donors report at least as much.
LEMMA IInvDonorsAreCurrent == IInv => DonorsAreCurrent
<1> SUFFICES ASSUME IInv, NEW i \in Node, NEW n \in 1 .. (cur[i].num - 1),
                    Majority(OnlineSet(n)), NEW d \in donors[i]
             PROVE  \E m \in n .. cur[i].num : <<d, m>> \in onlineIn
  BY DEF DonorsAreCurrent
<1> USE DEF IInv
<1>1. n \in Nat /\ cur[i].num \in Nat /\ n < cur[i].num /\ cur[i] # FirstGen
  BY SMTT(30) DEF TypeOK, Gen, FirstGen
<1>2. PICK Q \in Victories(cur[i]) : donors[i] = MostAdvanced(Q)
  BY <1>1 DEF CurIsElected, Elected
<1>3. Q \subseteq ballots /\ \A b \in Q : b \in Ballot /\ b.gen = cur[i]
  BY DEF Victories, TypeOK
<1>4. PICK c \in Q : c.node = d /\ \A b \in Q : b.loi <= c.loi
  BY <1>2 DEF MostAdvanced
<1>5. PICK b \in Q : <<b.node, n>> \in onlineIn
  <2> DEFINE S == {b.node : b \in Q}
             T == OnlineSet(n)
  <2>1. S \in SUBSET Node /\ Majority(S) /\ T \in SUBSET Node
    BY <1>3 DEF Victories, Ballot, OnlineSet
  <2>2. S \cap T # {}
    <3> HIDE DEF S, T
    <3> QED BY <2>1, MajoritiesMeet DEF T
  <2> QED
    BY <2>2 DEF OnlineSet
<1>6. n <= b.loi
  BY SMTT(30), <1>1, <1>3, <1>5 DEF PromiseKept, Ballot
<1>7. n <= c.loi /\ c.loi < cur[i].num /\ <<d, c.loi>> \in onlineIn
  BY SMTT(30), <1>1, <1>3, <1>4, <1>6 DEF BallotsRemembered, OnlineHistory, Ballot
<1> QED
  BY SMTT(30), <1>1, <1>3, <1>7 DEF Ballot

\* The inductive invariant holds throughout.
THEOREM Invariance == Spec => []IInv
<1> QED
  BY InitIInv, NextIInv, PTL DEF Spec

\* The persistent state of every node is well formed throughout.
THEOREM TypeCorrect == Spec => []TypeOK
<1>1. IInv => TypeOK
  BY DEF IInv
<1> QED
  BY <1>1, Invariance, PTL

\* A generation number names one member set on all nodes, the assertion of
\* MtmConsiderGenSwitch, however many nodes campaign at once.
THEOREM GenerationsUnique == Spec => []UniqueGen
<1> QED
  BY IInvUniqueGen, Invariance, PTL

\* The promise a vote makes about last_online_in is kept for ever.
THEOREM PromisesKept == Spec => []PromiseKept
<1>1. IInv => PromiseKept
  BY DEF IInv
<1> QED
  BY <1>1, Invariance, PTL

\* The donors of a generation have been online in or after every earlier
\* generation in which a majority was online.
THEOREM DonorsCurrent == Spec => []DonorsAreCurrent
<1> QED
  BY IInvDonorsAreCurrent, Invariance, PTL
=============================================================================
