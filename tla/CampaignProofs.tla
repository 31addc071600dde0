--------------------------- MODULE CampaignProofs ---------------------------
(***************************************************************************)
(* The campaign protocol implements the election of generations, for any   *)
(* number of nodes, tours and restarts and any connectivity: whatever      *)
(* answers are lost, late or taken for those of another tour, a node       *)
(* switches only to a generation that a majority has voted for.  And its   *)
(* receivers are told to do what its status calls for.                     *)
(***************************************************************************)
EXTENDS Campaign, GenElectionProofs

\* A generation with its donors that a node may hear of: it was elected.
Legit(g, D) == g = FirstGen \/ Elected(g, D)

HasVoted(i, g) == \E b \in ballots : b.node = i /\ b.gen = g

\* A generation that is voted for has a member, and could be proposed.
BallotsProposable ==
    \A b \in ballots : b.gen \in Proposable /\ b.gen.members # {}

\* last_vote is a vote the node has given, unless it was given up or came with
\* a switch; and it tells the last_online_in of the node as it is now, as long
\* as the generation voted for is ahead.
VoteIsBallot ==
    \A i \in Node : vote[i].members # {} =>
        /\ vote[i] = cur[i] \/ HasVoted(i, vote[i])
        /\ cur[i].num < vote[i].num => [node |-> i, gen |-> vote[i], loi |-> loi[i]] \in ballots

\* Whoever asks for votes has voted for the candidate.
SoundRequest(m) ==
    /\ m.from \in Node /\ m.to \in Node /\ m.from # m.to
    /\ HasVoted(m.from, m.gen)

\* A positive response stands for a ballot for the generation that the one who
\* asked has voted for under that number; the others tell the truth as of
\* some time before.
SoundResponse(r) ==
    /\ r.from \in Node /\ r.to \in Node /\ r.from # r.to
    /\ r.kind = "ok" =>
          \E b \in ballots : /\ b.node = r.from /\ b.loi = r.loi /\ b.gen.num = r.num
                             /\ HasVoted(r.to, b.gen)
    /\ r.kind = "passed" => Legit(r.cur, r.donors)
    /\ r.kind \in {"passed", "voted"} => r.lastVote \in 1 .. vote[r.from].num

\* What the campaigner of i keeps between its steps.
SoundTour(i) ==
    /\ tour[i].phase \in {"asked", "polled"} =>
          /\ HasVoted(i, tour[i].gen)
          /\ cur[i].num < tour[i].gen.num =>
                [node |-> i, gen |-> tour[i].gen, loi |-> tour[i].loi] \in ballots
    /\ tour[i].phase = "polled" =>
          /\ \A r \in tour[i].polled :
                SoundResponse(r) /\ r.to = i /\ r.num = tour[i].gen.num
          /\ \A a \in tour[i].learn : Legit(a.gen, a.donors)
    /\ tour[i].phase = "decided" =>
          \A n \in tour[i].refused : \E j \in Node \ {i} : n \in 1 .. vote[j].num

\* The shapes of the functions that actions update at one node.
Shapes ==
    /\ mode = [i \in Node |-> mode[i]]
    /\ tour = [i \in Node |-> tour[i]]
    /\ psLogged \in [Node -> BOOLEAN]

\* A node that has not logged ParallelSafe yet is online already; for the others
\* ModeMatchesStatus holds.
StatusOk(i) ==
    /\ ~psLogged[i] => Online(i)
    /\ psLogged[i] =>
          /\ Online(i) => mode[i] = Normal
          /\ InRecovery(i) => mode[i] = RecoverFrom(FirstSetBit(donors[i]))

CInv ==
    /\ IInv
    /\ Shapes
    /\ BallotsProposable
    /\ VoteIsBallot
    /\ \A m \in requests : SoundRequest(m)
    /\ \A r \in responses : SoundResponse(r)
    /\ \A i \in Node : SoundTour(i)
    /\ \A a \in announced \cup parallelSafe : Legit(a.gen, a.donors)
    /\ \A i \in Node : StatusOk(i)

\* Leaves are for Zenon, unless they cite SMT.
USE ZenonT(60)

----------------------------------------------------------------------------
(* Every step of the campaign is a step of the election, or none.          *)

\* Somebody has voted for an elected generation.
LEMMA ElectedHasBallot ==
    ASSUME NEW g, NEW D, Elected(g, D)
    PROVE  \E b \in ballots : b.gen = g
<1>1. PICK Q \in Victories(g) : D = MostAdvanced(Q)
  BY DEF Elected
<1>2. Majority({b.node : b \in Q})
  BY DEF Victories
<1>3. ~Majority({})
  BY SMTT(30), NodeAssumption, FS_EmptySet, FS_CardinalityType DEF Majority
<1>4. Q # {}
  BY <1>2, <1>3
<1> QED
  BY <1>4 DEF Victories

\* What may be learnt is a generation.
LEMMA LegitGen == ASSUME TypeOK, NEW g, NEW D, Legit(g, D) PROVE g \in Gen
BY SMTT(30), ElectedHasBallot DEF Legit, FirstGen, Gen, TypeOK, Ballot

\* Only an elected generation is switched to.
LEMMA SwitchStep ==
    ASSUME CInv, NEW i \in Node, NEW g, NEW D, Legit(g, D), ConsiderGenSwitch(i, g, D)
    PROVE  [Next]_vars /\ ballots' = ballots
<1>1. CASE cur[i].num >= g.num
  BY <1>1 DEF ConsiderGenSwitch, vars
<1>2. CASE ~(cur[i].num >= g.num)
  <2>1. Switch(i, g, D)
    BY <1>2 DEF ConsiderGenSwitch
  <2>2. g # FirstGen
    BY SMTT(30), <2>1 DEF CInv, IInv, NumbersOrdered, TypeOK, Gen, Switch, FirstGen
  <2>3. PICK Q \in Victories(g) : D = MostAdvanced(Q)
    BY <2>2 DEF Legit, Elected
  <2>4. g \in {b.gen : b \in ballots}
    BY <2>2, ElectedHasBallot DEF Legit
  <2> QED
    BY <2>1, <2>3, <2>4 DEF Next, Switch
<1> QED
  BY <1>1, <1>2

\* A candidate is voted for by the one who proposes it, now or before.
LEMMA ProposeStep ==
    ASSUME CInv, NEW i \in Node, NEW clique \in SUBSET Node, Propose(i, clique)
    PROVE  /\ [Next]_vars
           /\ BallotsProposable'
           /\ \A j \in Node \ {i} : tour'[j] = tour[j]
           /\ tour'[i].phase = "asked" /\ tour'[i].gen = vote'[i] /\ tour'[i].loi = loi[i]
           /\ tour' = [j \in Node |-> tour'[j]]
           /\ \A m \in requests' \ requests :
                 m.from = i /\ m.to \in Node \ {i} /\ m.gen = vote'[i]
           /\ HasVoted(i, vote[i])'
           /\ cur[i].num < vote'[i].num =>
                 [node |-> i, gen |-> vote'[i], loi |-> loi[i]] \in ballots'
           /\ UNCHANGED <<cur, donors, loi, onlineIn>>
           /\ \A j \in Node \ {i} : vote'[j] = vote[j]
           /\ vote'[i] # vote[i] => vote'[i].num > vote[i].num
<1> DEFINE members == CandidateMembers(i, clique)
           fresh == [num |-> vote[i].num + 1, members |-> members]
<1>1. members \in SUBSET Node /\ i \in members
  BY DEF CandidateMembers, CInv, IInv, TypeOK, Gen
<1>2. CASE members = vote[i].members
  <2>1. UNCHANGED vars
    BY <1>2 DEF Propose
  <2>2. vote[i] # cur[i]
    BY <1>2 DEF Propose, SameAsCurrent
  <2>3. /\ HasVoted(i, vote[i])
        /\ cur[i].num < vote[i].num => [node |-> i, gen |-> vote[i], loi |-> loi[i]] \in ballots
    BY <1>1, <1>2, <2>2 DEF CInv, VoteIsBallot
  <2>4. UNCHANGED <<cur, donors, loi, vote, ballots, onlineIn>>
    BY <2>1 DEF vars
  <2>5. HasVoted(i, vote[i])' /\ BallotsProposable'
    BY <2>3, <2>4 DEF HasVoted, BallotsProposable, CInv
  <2>6. /\ \A j \in Node \ {i} : tour'[j] = tour[j]
        /\ tour'[i].phase = "asked" /\ tour'[i].gen = vote[i] /\ tour'[i].loi = loi[i]
        /\ tour' = [j \in Node |-> tour'[j]]
    BY <1>2 DEF Propose, CInv, Shapes
  <2>7. \A m \in requests' \ requests : m.from = i /\ m.to \in Node \ {i} /\ m.gen = vote[i]
    BY SMTT(30), <1>2 DEF Propose
  <2> QED
    BY <2>1, <2>3, <2>4, <2>5, <2>6, <2>7
<1>3. CASE members # vote[i].members
  <2>1. Vote(i, fresh) /\ fresh.num <= MaxGenNum
    BY <1>3 DEF Propose
  <2>2. vote[i] \in Gen
    BY DEF CInv, IInv, TypeOK
  <2>3. fresh \in Proposable
    <3>1. vote[i].num + 1 \in 1 .. MaxGenNum
      BY SMTT(30), <2>1, <2>2, CandidatesAssumption DEF Gen
    <3> QED
      BY <1>1, <3>1, CandidatesAssumption
  <2>4. vote' = [vote EXCEPT ![i] = fresh] /\ vote'[i] = fresh
    BY <2>1 DEF Vote, CInv, IInv, TypeOK
  <2>5. ballots' = ballots \cup {[node |-> i, gen |-> fresh, loi |-> loi[i]]}
    BY <2>1 DEF Vote
  <2>6. HasVoted(i, vote[i])'
    <3> DEFINE new == [node |-> i, gen |-> vote'[i], loi |-> loi[i]]
    <3>1. new \in ballots' /\ new.node = i /\ new.gen = vote'[i]
      BY SMTT(30), <2>4, <2>5
    <3> HIDE DEF new
    <3> QED
      BY <3>1 DEF HasVoted
  <2>7. BallotsProposable'
    BY SMTT(30), <1>1, <2>3, <2>5 DEF BallotsProposable, CInv
  <2>8. [Next]_vars
    BY <2>1, <2>3 DEF Next
  <2>9. UNCHANGED <<cur, donors, loi, onlineIn>> /\ fresh.num > vote[i].num
    BY <2>1, <2>2 DEF Vote, Gen
  <2>10. /\ \A j \in Node \ {i} : tour'[j] = tour[j]
         /\ tour'[i].phase = "asked" /\ tour'[i].gen = fresh /\ tour'[i].loi = loi[i]
         /\ tour' = [j \in Node |-> tour'[j]]
    BY <1>3 DEF Propose, CInv, Shapes
  <2>11. \A m \in requests' \ requests : m.from = i /\ m.to \in Node \ {i} /\ m.gen = fresh
    BY SMTT(30), <1>3 DEF Propose
  <2> HIDE DEF fresh
  <2>12. \A j \in Node \ {i} : vote'[j] = vote[j]
    BY <2>4 DEF CInv, IInv, TypeOK
  <2> QED
    BY SMTT(30), <2>4, <2>5, <2>6, <2>7, <2>8, <2>9, <2>10, <2>11, <2>12
<1> QED
  BY <1>2, <1>3

----------------------------------------------------------------------------
(* What a step leaves true.                                                *)

\* Ballots are not taken back, and numbers do not fall.
LEMMA Monotone ==
    ASSUME IInv, [Next]_vars
    PROVE  /\ ballots \subseteq ballots'
           /\ \A j \in Node : cur[j].num <= cur'[j].num /\ vote[j].num <= vote'[j].num
<1> DEFINE Grown == /\ ballots \subseteq ballots'
                    /\ \A j \in Node : cur[j].num <= cur'[j].num /\ vote[j].num <= vote'[j].num
<1>1. ASSUME NEW i \in Node, NEW g \in Proposable, Vote(i, g) PROVE Grown
  BY SMTT(30), <1>1, ProposableAssumption DEF Vote, IInv, TypeOK, Gen
<1>2. ASSUME NEW i \in Node, NEW n \in Nat, GiveUp(i, n) PROVE Grown
  BY SMTT(30), <1>2 DEF GiveUp, IInv, TypeOK, Gen
<1>3. ASSUME NEW i \in Node, NEW g \in Gen, NEW D, Switch(i, g, D) PROVE Grown
  BY SMTT(30), <1>3 DEF Switch, IInv, TypeOK, Gen
<1>4. ASSUME NEW i \in Node, GetOnline(i) PROVE Grown
  BY SMTT(30), <1>4 DEF GetOnline, IInv, TypeOK, Gen
<1>5. /\ \A b \in ballots : b.gen \in Gen
      /\ \A j \in Node : vote[j].num \in Nat
  BY DEF IInv, TypeOK, Ballot, Gen
<1>6. CASE UNCHANGED vars
  BY SMTT(30), <1>6 DEF vars, IInv, TypeOK, Gen
<1> HIDE DEF Grown
<1>7. ASSUME Next PROVE Grown
  <2>1. PICK i \in Node :
          \/ \E g \in Proposable : Vote(i, g)
          \/ \E j \in Node \ {i} : \E n \in 1 .. vote[j].num : GiveUp(i, n)
          \/ \E g \in {b.gen : b \in ballots} : \E Q \in Victories(g) : Switch(i, g, MostAdvanced(Q))
          \/ GetOnline(i)
    BY <1>7 DEF Next
  <2>2. ASSUME NEW j \in Node \ {i}, NEW n \in 1 .. vote[j].num, GiveUp(i, n) PROVE Grown
    BY SMTT(30), <1>2, <1>5, <2>2
  <2>3. ASSUME NEW g \in {b.gen : b \in ballots}, NEW Q \in Victories(g),
               Switch(i, g, MostAdvanced(Q))
        PROVE  Grown
    <3>1. g \in Gen
      BY <1>5
    <3> QED
      BY <1>3, <2>3, <3>1
  <2>4. ASSUME NEW g \in Proposable, Vote(i, g) PROVE Grown
    BY <1>1, <2>4
  <2>5. ASSUME GetOnline(i) PROVE Grown
    BY <1>4, <2>5
  <2>6. CASE \E g \in Proposable : Vote(i, g)
    BY <2>4, <2>6
  <2>7. CASE \E j \in Node \ {i} : \E n \in 1 .. vote[j].num : GiveUp(i, n)
    BY <2>2, <2>7
  <2>8. CASE \E g \in {b.gen : b \in ballots} : \E Q \in Victories(g) :
               Switch(i, g, MostAdvanced(Q))
    BY <2>3, <2>8
  <2> QED
    BY <2>1, <2>5, <2>6, <2>7, <2>8
<1> QED
  BY <1>6, <1>7 DEF Grown

\* What was sound stays so.
LEMMA Stable ==
    ASSUME IInv, [Next]_vars
    PROVE  /\ \A g, D : Legit(g, D) => Legit(g, D)'
           /\ \A i, g : HasVoted(i, g) => HasVoted(i, g)'
           /\ \A m : SoundRequest(m) => SoundRequest(m)'
           /\ \A r : SoundResponse(r) => SoundResponse(r)'
<1>1. IInv'
  BY NextIInv
<1>2. ballots \subseteq ballots'
  BY Monotone
<1>3. ASSUME NEW j \in Node, NEW n \in 1 .. vote[j].num
      PROVE  n \in 1 .. vote'[j].num
  BY SMTT(30), <1>1, Monotone DEF IInv, TypeOK, Gen
<1>4. ASSUME NEW g, NEW D, Legit(g, D) PROVE Legit(g, D)'
  BY <1>2, <1>4, ElectedStable DEF Legit, FirstGen
<1>5. ASSUME NEW i, NEW g, HasVoted(i, g) PROVE HasVoted(i, g)'
  BY <1>2, <1>5 DEF HasVoted
<1>6. ASSUME NEW m, SoundRequest(m) PROVE SoundRequest(m)'
  BY <1>5, <1>6 DEF SoundRequest
<1>7. ASSUME NEW r, SoundResponse(r) PROVE SoundResponse(r)'
  BY <1>2, <1>3, <1>4, <1>5, <1>7 DEF SoundResponse
<1> QED
  BY <1>4, <1>5, <1>6, <1>7

\* A tour that is not touched stays sound.
LEMMA TourStable ==
    ASSUME IInv, [Next]_vars, NEW i \in Node, SoundTour(i), tour'[i] = tour[i]
    PROVE  SoundTour(i)'
<1>1. IInv'
  BY NextIInv
<1>2. /\ ballots \subseteq ballots'
      /\ \A j \in Node : cur[j].num <= cur'[j].num /\ vote[j].num <= vote'[j].num
  BY Monotone
<1>3. ASSUME tour[i].phase \in {"asked", "polled"}
      PROVE  /\ HasVoted(i, tour[i].gen)'
             /\ cur'[i].num < tour[i].gen.num =>
                   [node |-> i, gen |-> tour[i].gen, loi |-> tour[i].loi] \in ballots'
  <2>1. PICK b \in ballots : b.node = i /\ b.gen = tour[i].gen
    BY <1>3 DEF SoundTour, HasVoted
  <2>2. tour[i].gen \in Gen
    BY <2>1 DEF IInv, TypeOK, Ballot
  <2>3. cur'[i].num < tour[i].gen.num => cur[i].num < tour[i].gen.num
    BY SMTT(30), <1>1, <1>2, <2>2 DEF IInv, TypeOK, Gen
  <2>4. HasVoted(i, tour[i].gen)'
    BY <1>2, <2>1 DEF HasVoted
  <2> QED
    BY <1>2, <1>3, <2>3, <2>4 DEF SoundTour
<1>4. ASSUME tour[i].phase = "polled"
      PROVE  /\ \A r \in tour[i].polled :
                   SoundResponse(r)' /\ r.to = i /\ r.num = tour[i].gen.num
             /\ \A a \in tour[i].learn : Legit(a.gen, a.donors)'
  BY <1>4, Stable DEF SoundTour
<1>5. ASSUME tour[i].phase = "decided"
      PROVE  \A n \in tour[i].refused : \E j \in Node \ {i} : n \in 1 .. vote'[j].num
  BY SMTT(30), <1>1, <1>2, <1>5 DEF SoundTour, IInv, TypeOK, Gen
<1> QED
  BY <1>3, <1>4, <1>5 DEF SoundTour

\* last_vote keeps standing for a ballot: going online and switching move
\* last_online_in only when no vote is ahead.
LEMMA VoteStep ==
    ASSUME IInv, VoteIsBallot, [Next]_vars
    PROVE  VoteIsBallot'
<1> USE DEF IInv
<1>1. IInv'
  BY NextIInv
<1>2. ballots \subseteq ballots'
  BY Monotone
<1>3. ASSUME NEW j \in Node, vote'[j] = vote[j], cur'[j] = cur[j], loi'[j] = loi[j],
             vote'[j].members # {}
      PROVE  /\ vote'[j] = cur'[j] \/ HasVoted(j, vote[j])'
             /\ cur'[j].num < vote'[j].num =>
                   [node |-> j, gen |-> vote'[j], loi |-> loi'[j]] \in ballots'
  BY <1>2, <1>3 DEF VoteIsBallot, HasVoted
<1>4. ASSUME NEW i \in Node, NEW g \in Proposable, Vote(i, g) PROVE VoteIsBallot'
  <2> DEFINE new == [node |-> i, gen |-> g, loi |-> loi[i]]
  <2>1. new \in ballots' /\ new.node = i /\ new.gen = g
    BY <1>4 DEF Vote
  <2>2. vote'[i] = g /\ loi'[i] = loi[i]
    BY <1>4 DEF Vote, TypeOK
  <2>3. HasVoted(i, vote[i])'
    <3> HIDE DEF new
    <3> QED BY <2>1, <2>2 DEF HasVoted
  <2>4. \A j \in Node \ {i} : vote'[j] = vote[j] /\ cur'[j] = cur[j] /\ loi'[j] = loi[j]
    BY <1>4 DEF Vote, TypeOK
  <2> QED
    BY <1>3, <2>1, <2>2, <2>3, <2>4 DEF VoteIsBallot
<1>5. ASSUME NEW i \in Node, NEW n, GiveUp(i, n) PROVE VoteIsBallot'
  <2>1. vote'[i].members = {}
    BY <1>5 DEF GiveUp, TypeOK
  <2>2. \A j \in Node \ {i} : vote'[j] = vote[j] /\ cur'[j] = cur[j] /\ loi'[j] = loi[j]
    BY <1>5 DEF GiveUp, TypeOK
  <2> QED
    BY <1>3, <2>1, <2>2 DEF VoteIsBallot
<1>6. ASSUME NEW i \in Node, NEW g \in Gen, NEW D, Switch(i, g, D) PROVE VoteIsBallot'
  <2>1. cur'[i] = g /\ cur[i].num < g.num
    BY <1>6 DEF Switch, TypeOK
  <2>2. \A j \in Node \ {i} : vote'[j] = vote[j] /\ cur'[j] = cur[j] /\ loi'[j] = loi[j]
    BY <1>6 DEF Switch, TypeOK
  <2>3. CASE vote[i].num < g.num
    <3>1. vote'[i] = g
      BY <1>6, <2>3 DEF Switch, TypeOK
    <3> QED
      BY SMTT(30), <1>3, <2>1, <2>2, <3>1 DEF VoteIsBallot, Gen
  <2>4. CASE ~(vote[i].num < g.num)
    <3>1. vote'[i] = vote[i]
      BY <1>6, <2>4 DEF Switch, TypeOK
    <3>2. vote[i] # cur[i] /\ cur[i].num < vote[i].num
      BY SMTT(30), <2>1, <2>4 DEF TypeOK, Gen
    <3>3. g.num < vote[i].num => loi'[i] = loi[i]
      BY SMTT(30), <1>6 DEF Switch, MayServe, TypeOK, Gen
    <3>4. vote[i].members # {} =>
            /\ HasVoted(i, vote[i])
            /\ [node |-> i, gen |-> vote[i], loi |-> loi[i]] \in ballots
      BY <3>2 DEF VoteIsBallot
    <3>5. HasVoted(i, vote[i]) => HasVoted(i, vote[i])'
      BY <1>2, <3>1 DEF HasVoted
    <3> QED
      BY <1>2, <1>3, <2>1, <2>2, <3>1, <3>3, <3>4, <3>5 DEF VoteIsBallot
  <2> QED
    BY <2>3, <2>4
<1>7. ASSUME NEW i \in Node, GetOnline(i) PROVE VoteIsBallot'
  <2>1. /\ vote' = vote /\ cur' = cur /\ ballots' = ballots
        /\ vote[i].num = cur[i].num
        /\ \A j \in Node \ {i} : loi'[j] = loi[j]
    BY <1>7 DEF GetOnline, InRecovery, TypeOK
  <2>2. ~(cur[i].num < vote[i].num)
    BY SMTT(30), <2>1 DEF TypeOK, Gen
  <2>3. vote[i].members # {} => vote[i] = cur[i] \/ HasVoted(i, vote[i])'
    BY <2>1 DEF VoteIsBallot, HasVoted
  <2> QED
    BY <1>3, <2>1, <2>2, <2>3 DEF VoteIsBallot
<1>8. CASE UNCHANGED vars
  BY <1>3, <1>8 DEF vars, VoteIsBallot
<1>9. \A b \in ballots : b.gen \in Gen
  BY DEF TypeOK, Ballot
<1> QED
  BY <1>4, <1>5, <1>6, <1>7, <1>8, <1>9 DEF Next

\* What each action has to show.
Keeps ==
    /\ [Next]_vars
    /\ BallotsProposable'
    /\ Shapes'
    /\ \A m \in requests' \ requests : SoundRequest(m)'
    /\ \A r \in responses' \ responses : SoundResponse(r)'
    /\ \A i \in Node : tour'[i] = tour[i] \/ SoundTour(i)'
    /\ \A a \in (announced \cup parallelSafe)' \ (announced \cup parallelSafe) :
          Legit(a.gen, a.donors)'
    /\ \A i \in Node : StatusOk(i)'

\* Keeps collects what a step must do for CInv to hold after it.
LEMMA KeepsCInv == ASSUME CInv, Keeps PROVE CInv'
<1> USE DEF Keeps
<1>1. IInv'
  BY NextIInv DEF CInv
<1>2. VoteIsBallot'
  BY VoteStep DEF CInv
<1>3. \A m \in requests' : SoundRequest(m)'
  BY Stable DEF CInv
<1>4. \A r \in responses' : SoundResponse(r)'
  BY Stable DEF CInv
<1>5. \A i \in Node : SoundTour(i)'
  BY TourStable DEF CInv
<1>6. \A a \in (announced \cup parallelSafe)' : Legit(a.gen, a.donors)'
  BY Stable DEF CInv
<1> QED
  BY <1>1, <1>2, <1>3, <1>4, <1>5, <1>6 DEF CInv

\* Nothing happens to node j.
LEMMA StatusSame ==
    ASSUME NEW j \in Node, StatusOk(j), cur'[j] = cur[j], donors'[j] = donors[j],
           loi'[j] = loi[j], vote'[j] = vote[j], mode'[j] = mode[j], psLogged'[j] = psLogged[j]
    PROVE  StatusOk(j)'
BY DEF StatusOk, Online, InRecovery, Majority

----------------------------------------------------------------------------
(* The actions.                                                            *)

\* MtmConsiderGenSwitch, from wherever it is called.
LEMMA SwitchKeeps ==
    ASSUME CInv, NEW i \in Node, NEW g, NEW D, Legit(g, D), psLogged[i],
           ConsiderGenSwitch(i, g, D)
    PROVE  /\ [Next]_vars
           /\ BallotsProposable'
           /\ mode' = [j \in Node |-> mode'[j]] /\ psLogged' \in [Node -> BOOLEAN]
           /\ \A a \in announced' \ announced : Legit(a.gen, a.donors)'
           /\ \A j \in Node : StatusOk(j)'
<1>1. [Next]_vars /\ ballots' = ballots
  BY SwitchStep
<1>2. BallotsProposable'
  BY <1>1 DEF BallotsProposable, CInv
<1>3. Legit(g, D)'
  BY <1>1, Stable DEF CInv
<1>4. CASE cur[i].num >= g.num
  <2>1. UNCHANGED <<cur, donors, loi, vote, mode, psLogged, announced>>
    BY <1>4 DEF ConsiderGenSwitch, vars, localVars
  <2>2. \A j \in Node : StatusOk(j)'
    BY <2>1, StatusSame DEF CInv
  <2> QED
    BY <1>1, <1>2, <2>1, <2>2 DEF CInv, Shapes
<1>5. CASE ~(cur[i].num >= g.num)
  <2> USE DEF IInv, TypeOK, Shapes
  <2>1. Switch(i, g, D) /\ announced' = announced \cup {Pair(g, D)}
    BY <1>5 DEF ConsiderGenSwitch
  <2>2. g \in Gen
    BY LegitGen DEF CInv
  <2>3. \A a \in announced' \ announced : a.gen = g /\ a.donors = D
    BY SMTT(30), <2>1 DEF Pair
  <2>4. \A a \in announced' \ announced : Legit(a.gen, a.donors)'
    BY <1>3, <2>3
  <2>5. mode' = [j \in Node |-> mode'[j]] /\ psLogged' \in [Node -> BOOLEAN]
    BY <1>5 DEF CInv, ConsiderGenSwitch
  <2>6. ASSUME NEW j \in Node \ {i} PROVE StatusOk(j)'
    <3>1. /\ cur'[j] = cur[j] /\ donors'[j] = donors[j] /\ loi'[j] = loi[j]
          /\ vote'[j] = vote[j]
      BY <2>1 DEF CInv, Switch
    <3>2. mode'[j] = mode[j] /\ psLogged'[j] = psLogged[j]
      BY <1>5 DEF CInv, ConsiderGenSwitch
    <3> QED
      BY <3>1, <3>2, StatusSame DEF CInv
  <2>7. StatusOk(i)'
    <3>1. cur'[i] = g /\ donors'[i] = D
      BY <2>1 DEF CInv, Switch
    <3>2. vote'[i].num = IF vote[i].num < g.num THEN g.num ELSE vote[i].num
      BY <2>1, <2>2 DEF CInv, Switch
    <3>3. CASE MayServe(i, g) /\ i \in D
      <4>1. loi'[i] = g.num /\ ~psLogged'[i]
        BY <1>5, <2>1, <3>3 DEF CInv, Switch, ConsiderGenSwitch
      <4> QED
        BY <3>1, <4>1 DEF StatusOk, Online
    <3>4. CASE ~(MayServe(i, g) /\ i \in D)
      <4>1. /\ loi'[i] = loi[i] /\ psLogged'[i]
            /\ mode'[i] = IF MayServe(i, g) THEN RecoverFrom(FirstSetBit(D)) ELSE Disabled
        BY <1>5, <2>1, <3>4 DEF CInv, Switch, ConsiderGenSwitch
      <4>2. loi[i] # g.num
        BY <1>5, <2>2 DEF CInv, NumbersOrdered, Gen
      <4>3. ~MayServe(i, g) => ~InRecovery(i)'
        BY SMTT(30), <2>2, <3>1, <3>2 DEF CInv, InRecovery, MayServe, Majority, Gen
      <4> QED
        BY <3>1, <4>1, <4>2, <4>3 DEF StatusOk, Online
    <3> QED
      BY <3>3, <3>4
  <2> QED
    BY <1>1, <1>2, <2>4, <2>5, <2>6, <2>7
<1> QED
  BY <1>4, <1>5

\* LogParallelSafe of a node that is already online.
LEMMA LogParallelSafeKeeps ==
    ASSUME CInv, NEW i \in Node, LogParallelSafe(i)
    PROVE  Keeps
<1> USE DEF LogParallelSafe
<1>1. /\ UNCHANGED <<cur, donors, loi, vote, ballots, onlineIn>>
      /\ UNCHANGED <<tour, requests, responses, announced>>
  BY DEF vars, netVars
<1>2. \A a \in parallelSafe' \ parallelSafe : a.gen = cur[i] /\ a.donors = donors[i]
  BY SMTT(30) DEF CInv, Pair
<1>3. Legit(cur[i], donors[i])'
  BY <1>1, Stable DEF CInv, IInv, CurIsElected, Legit
<1>4. \A a \in parallelSafe' \ parallelSafe : Legit(a.gen, a.donors)'
  BY <1>1, <1>2, <1>3
<1>5. Shapes'
  BY <1>1 DEF CInv, Shapes
<1>6. ASSUME NEW j \in Node \ {i} PROVE StatusOk(j)'
  <2>1. mode'[j] = mode[j] /\ psLogged'[j] = psLogged[j]
    BY DEF CInv, Shapes
  <2> QED
    BY <1>1, <2>1, StatusSame DEF CInv
<1>7. StatusOk(i)'
  BY <1>1 DEF CInv, StatusOk, Shapes, Online, InRecovery
<1>8. BallotsProposable'
  BY <1>1 DEF CInv, BallotsProposable
<1> QED
  BY <1>1, <1>4, <1>5, <1>6, <1>7, <1>8 DEF Keeps, vars

\* A heartbeat: what it carries was elected.
LEMMA HeartbeatKeeps ==
    ASSUME CInv, NEW i \in Node, Heartbeat(i)
    PROVE  Keeps
<1>1. PICK a \in announced : ConsiderGenSwitch(i, a.gen, a.donors)
  BY DEF Heartbeat
<1>2. Legit(a.gen, a.donors) /\ psLogged[i]
  BY DEF CInv, Heartbeat, Unlocked
<1>3. UNCHANGED <<tour, requests, responses, parallelSafe>>
  BY DEF Heartbeat, netVars
<1>4. Shapes'
  BY <1>1, <1>2, <1>3, SwitchKeeps DEF Shapes, CInv
<1> QED
  BY <1>1, <1>2, <1>3, <1>4, SwitchKeeps DEF Keeps

\* MtmHandleParallelSafe: the node goes online after a donor.
LEMMA HandleParallelSafeKeeps ==
    ASSUME CInv, NEW i \in Node, HandleParallelSafe(i)
    PROVE  Keeps
<1>1. UNCHANGED <<tour, requests, responses, parallelSafe>> /\ psLogged[i]
  BY DEF HandleParallelSafe, netVars, Unlocked
<1>2. ASSUME NEW p \in parallelSafe, ConsiderGenSwitch(i, p.gen, p.donors) PROVE Keeps
  <2>1. Legit(p.gen, p.donors)
    BY DEF CInv
  <2>2. Shapes'
    BY <1>1, <1>2, <2>1, SwitchKeeps DEF Shapes, CInv
  <2> QED
    BY <1>1, <1>2, <2>1, <2>2, SwitchKeeps DEF Keeps
<1>3. ASSUME GetOnline(i), psLogged' = [psLogged EXCEPT ![i] = FALSE],
             UNCHANGED <<mode, announced>>
      PROVE  Keeps
  <2> USE DEF Shapes
  <2>1. [Next]_vars
    BY <1>3 DEF Next
  <2>2. BallotsProposable' /\ Shapes'
    BY <1>1, <1>3 DEF CInv, BallotsProposable, GetOnline
  <2>3. StatusOk(i)'
    BY <1>3 DEF CInv, GetOnline, StatusOk, Online, IInv, TypeOK
  <2>4. ASSUME NEW j \in Node \ {i} PROVE StatusOk(j)'
    <3>1. /\ cur'[j] = cur[j] /\ donors'[j] = donors[j] /\ loi'[j] = loi[j]
          /\ vote'[j] = vote[j] /\ psLogged'[j] = psLogged[j] /\ mode'[j] = mode[j]
      BY <1>3 DEF CInv, GetOnline, IInv, TypeOK
    <3> QED
      BY <3>1, StatusSame DEF CInv
  <2> QED
    BY <1>1, <1>3, <2>1, <2>2, <2>3, <2>4 DEF Keeps
<1> QED
  BY <1>2, <1>3 DEF HandleParallelSafe

\* The start of a campaign: the campaigner votes before it asks.
LEMMA CampaignMyselfKeeps ==
    ASSUME CInv, NEW i \in Node, NEW connected \in SUBSET Node, NEW clique \in SUBSET Node,
           CampaignMyself(i, connected, clique)
    PROVE  Keeps
<1> USE DEF Shapes
<1>1. /\ UNCHANGED <<psLogged, responses, announced, parallelSafe>>
      /\ mode' = [j \in Node |-> mode'[j]]
      /\ \A j \in Node \ {i} : mode'[j] = mode[j]
      /\ ~Dead(i) => mode'[i] = mode[i]
      /\ psLogged[i]
  BY DEF CInv, CampaignMyself, Unlocked
<1>2. CASE UNCHANGED <<vars, tour, requests>>
  <2>1. UNCHANGED <<cur, donors, loi, vote, ballots>>
    BY <1>2 DEF vars
  <2>2. StatusOk(i)'
    <3>1. CASE Dead(i)
      BY <1>1, <2>1, <3>1 DEF StatusOk, Dead, Online, InRecovery, Majority
    <3>2. CASE ~Dead(i)
      BY <1>1, <2>1, <3>2, StatusSame DEF CInv
    <3> QED
      BY <3>1, <3>2
  <2>3. \A j \in Node \ {i} : StatusOk(j)'
    BY <1>1, <2>1, StatusSame DEF CInv
  <2>4. BallotsProposable' /\ Shapes'
    BY <1>1, <1>2, <2>1 DEF CInv, BallotsProposable
  <2> QED
    BY <1>1, <1>2, <2>2, <2>3, <2>4 DEF Keeps
<1>3. CASE Propose(i, clique)
  <2>1. /\ [Next]_vars
        /\ BallotsProposable'
        /\ \A j \in Node \ {i} : tour'[j] = tour[j]
        /\ tour'[i].phase = "asked" /\ tour'[i].gen = vote'[i] /\ tour'[i].loi = loi[i]
        /\ tour' = [j \in Node |-> tour'[j]]
        /\ \A m \in requests' \ requests :
              m.from = i /\ m.to \in Node \ {i} /\ m.gen = vote'[i]
        /\ HasVoted(i, vote[i])'
        /\ cur[i].num < vote'[i].num =>
              [node |-> i, gen |-> vote'[i], loi |-> loi[i]] \in ballots'
        /\ UNCHANGED <<cur, donors, loi, onlineIn>>
        /\ \A j \in Node \ {i} : vote'[j] = vote[j]
        /\ vote'[i] # vote[i] => vote'[i].num > vote[i].num
    BY <1>3, ProposeStep
  <2>2. SoundTour(i)'
    BY <2>1 DEF SoundTour, HasVoted
  <2>3. \A m \in requests' \ requests : SoundRequest(m)'
    BY <2>1 DEF SoundRequest, HasVoted
  <2>4. Shapes'
    BY <1>1, <2>1 DEF CInv
  <2>5. \A j \in Node \ {i} : StatusOk(j)'
    BY <1>1, <2>1, StatusSame DEF CInv
  <2>6. StatusOk(i)'
    <3>1. IInv'
      BY <2>1, NextIInv DEF CInv
    <3>2. Online(i)' => Online(i) /\ mode'[i] = mode[i]
      BY <1>1, <2>1 DEF Online, Dead
    <3>3. InRecovery(i)' => InRecovery(i) /\ mode'[i] = mode[i]
      <4>1. vote'[i] # vote[i] => ~(vote'[i].num = cur[i].num)
        BY SMTT(30), <2>1, <3>1 DEF CInv, IInv, NumbersOrdered, TypeOK, Gen
      <4> QED
        BY <1>1, <2>1, <4>1 DEF InRecovery, Online, Dead, Majority
    <3> QED
      BY <1>1, <2>1, <3>2, <3>3 DEF CInv, StatusOk
  <2> QED
    BY <1>1, <2>1, <2>2, <2>3, <2>4, <2>5, <2>6 DEF Keeps
<1> QED
  BY <1>2, <1>3 DEF CampaignMyself

\* An answer is gathered: it stands for a ballot.
LEMMA GatherKeeps ==
    ASSUME CInv, NEW i \in Node, Gather(i)
    PROVE  Keeps
<1>1. /\ UNCHANGED <<cur, donors, loi, vote, ballots, onlineIn>>
      /\ UNCHANGED <<psLogged, mode, requests, announced, parallelSafe>>
      /\ tour[i].phase = "asked"
      /\ responses' \subseteq responses
  BY DEF Gather, vars, localVars
<1>2. [Next]_vars
  BY <1>1 DEF vars
<1>3. PICK S \in SUBSET responses :
        /\ \A r \in S : r.to = i /\ r.num = tour[i].gen.num
        /\ tour' = [tour EXCEPT ![i] =
               [phase |-> "polled", gen |-> @.gen, loi |-> @.loi, polled |-> S,
                learn |-> {Pair(r.cur, r.donors) : r \in {s \in S : s.kind = "passed"}}]]
  BY DEF Gather
<1>4. /\ \A j \in Node \ {i} : tour'[j] = tour[j]
      /\ tour' = [j \in Node |-> tour'[j]]
      /\ tour'[i].phase = "polled" /\ tour'[i].gen = tour[i].gen /\ tour'[i].loi = tour[i].loi
      /\ tour'[i].polled = S
      /\ tour'[i].learn = {Pair(r.cur, r.donors) : r \in {s \in S : s.kind = "passed"}}
  BY <1>3 DEF CInv, Shapes
<1>5. \A r \in S : SoundResponse(r)'
  BY <1>2, Stable DEF CInv
<1>6. \A a \in tour'[i].learn : Legit(a.gen, a.donors)'
  BY SMTT(30), <1>4, <1>5 DEF CInv, SoundResponse, Pair
<1>7. SoundTour(i)'
  BY SMTT(30), <1>1, <1>3, <1>4, <1>5, <1>6 DEF CInv, SoundTour, HasVoted
<1>8. BallotsProposable' /\ Shapes'
  BY <1>1, <1>4 DEF CInv, BallotsProposable, Shapes
<1>9. \A j \in Node : StatusOk(j)'
  BY <1>1, StatusSame DEF CInv
<1> QED
  BY <1>1, <1>2, <1>4, <1>7, <1>8, <1>9 DEF Keeps

\* A response that tells of a generation: one that was elected.
LEMMA LearnFromResponseKeeps ==
    ASSUME CInv, NEW i \in Node, LearnFromResponse(i)
    PROVE  Keeps
<1>1. /\ UNCHANGED <<requests, responses, parallelSafe>>
      /\ psLogged[i] /\ tour[i].phase = "polled"
  BY DEF LearnFromResponse, netVars, Unlocked
<1>2. PICK a \in tour[i].learn :
        /\ ConsiderGenSwitch(i, a.gen, a.donors)
        /\ tour' = [tour EXCEPT ![i].learn = @ \ {a}]
  BY DEF LearnFromResponse
<1>3. Legit(a.gen, a.donors)
  BY <1>1 DEF CInv, SoundTour
<1>4. /\ [Next]_vars
      /\ BallotsProposable'
      /\ mode' = [j \in Node |-> mode'[j]] /\ psLogged' \in [Node -> BOOLEAN]
      /\ \A b \in announced' \ announced : Legit(b.gen, b.donors)'
      /\ \A j \in Node : StatusOk(j)'
  BY <1>1, <1>2, <1>3, SwitchKeeps
<1>5. /\ \A j \in Node \ {i} : tour'[j] = tour[j]
      /\ tour' = [j \in Node |-> tour'[j]]
      /\ tour'[i] = [tour[i] EXCEPT !.learn = @ \ {a}]
  BY <1>2 DEF CInv, Shapes
<1>6. SoundTour(i)'
  <2>1. IInv'
    BY <1>4, NextIInv DEF CInv
  <2>2. /\ ballots \subseteq ballots'
        /\ cur[i].num <= cur'[i].num
    BY <1>4, Monotone DEF CInv
  <2>3. PICK b \in ballots : b.node = i /\ b.gen = tour[i].gen
    BY <1>1 DEF CInv, SoundTour, HasVoted
  <2>4. cur'[i].num < tour[i].gen.num =>
          [node |-> i, gen |-> tour[i].gen, loi |-> tour[i].loi] \in ballots'
    <3>1. tour[i].gen \in Gen
      BY <2>3 DEF CInv, IInv, TypeOK, Ballot
    <3>2. cur'[i].num < tour[i].gen.num => cur[i].num < tour[i].gen.num
      BY SMTT(30), <2>1, <2>2, <3>1 DEF CInv, IInv, TypeOK, Gen
    <3> QED
      BY <1>1, <2>2, <3>2 DEF CInv, SoundTour
  <2>5. \A r \in tour[i].polled : SoundResponse(r)' /\ r.to = i /\ r.num = tour[i].gen.num
    BY <1>1, <1>4, Stable DEF CInv, SoundTour
  <2>6. \A b2 \in tour[i].learn : Legit(b2.gen, b2.donors)'
    BY <1>1, <1>4, Stable DEF CInv, SoundTour
  <2>7. /\ tour'[i].phase = tour[i].phase /\ tour'[i].gen = tour[i].gen
        /\ tour'[i].loi = tour[i].loi /\ tour'[i].polled = tour[i].polled
        /\ tour'[i].learn \subseteq tour[i].learn
    BY SMTT(30), <1>5
  <2>8. HasVoted(i, tour[i].gen)'
    BY <2>2, <2>3, <2>7 DEF HasVoted
  <2> QED
    BY <1>1, <2>4, <2>5, <2>6, <2>7, <2>8 DEF SoundTour
<1>7. Shapes'
  BY <1>4, <1>5 DEF Shapes
<1> QED
  BY <1>1, <1>4, <1>5, <1>6, <1>7 DEF Keeps

\* The votes that a tour counts were given for its candidate: under its number
\* the campaigner has voted for nothing else, so neither has anybody who says
\* to have granted its request.
LEMMA CountedAreBallots ==
    ASSUME CInv, NEW i \in Node, tour[i].phase = "polled", cur[i].num < tour[i].gen.num, Won(i)
    PROVE  Elected(tour[i].gen, MostAdvanced(CountedBallots(i)))
<1>1. PICK own \in ballots : own.node = i /\ own.gen = tour[i].gen
  BY DEF CInv, SoundTour, HasVoted
<1>2. [node |-> i, gen |-> tour[i].gen, loi |-> tour[i].loi] \in ballots
  BY DEF CInv, SoundTour
<1>3. ASSUME NEW r \in tour[i].polled, r.kind = "ok"
      PROVE  [node |-> r.from, gen |-> tour[i].gen, loi |-> r.loi] \in ballots
  <2>1. SoundResponse(r) /\ r.to = i /\ r.num = tour[i].gen.num
    BY DEF CInv, SoundTour
  <2>2. PICK b \in ballots : /\ b.node = r.from /\ b.loi = r.loi /\ b.gen.num = r.num
                             /\ HasVoted(i, b.gen)
    BY <1>3, <2>1 DEF SoundResponse
  <2>3. PICK c \in ballots : c.node = i /\ c.gen = b.gen
    BY <2>2 DEF HasVoted
  <2>4. c = own
    BY <1>1, <2>1, <2>2, <2>3 DEF CInv, IInv, OneVotePerNumber
  <2>5. b = [node |-> r.from, gen |-> tour[i].gen, loi |-> r.loi]
    BY <1>1, <2>2, <2>3, <2>4 DEF CInv, IInv, TypeOK, Ballot
  <2> QED
    BY <2>5
<1>4. CountedBallots(i) \in SUBSET {b \in ballots : b.gen = tour[i].gen}
  BY SMTT(30), <1>2, <1>3 DEF CInv, CountedBallots
<1>5. Majority({b.node : b \in CountedBallots(i)})
  BY DEF Won
<1> HIDE DEF CInv
<1> QED
  BY <1>4, <1>5 DEF Elected, Victories

\* A tour is decided: answers of a majority are an election.
LEMMA DecideTourKeeps ==
    ASSUME CInv, NEW i \in Node, DecideTour(i)
    PROVE  Keeps
<1>1. /\ UNCHANGED <<requests, responses, parallelSafe>>
      /\ psLogged[i] /\ tour[i].phase = "polled"
  BY DEF DecideTour, netVars, Unlocked
<1>2. /\ [Next]_vars
      /\ BallotsProposable'
      /\ mode' = [j \in Node |-> mode'[j]] /\ psLogged' \in [Node -> BOOLEAN]
      /\ \A a \in announced' \ announced : Legit(a.gen, a.donors)'
      /\ \A j \in Node : StatusOk(j)'
  <2>1. CASE UNCHANGED <<vars, localVars, announced>>
    <3>1. UNCHANGED <<cur, donors, loi, vote, ballots, mode, psLogged, announced>>
      BY <2>1 DEF vars, localVars
    <3>2. \A j \in Node : StatusOk(j)'
      BY <3>1, StatusSame DEF CInv
    <3> QED
      BY <2>1, <3>1, <3>2 DEF CInv, Shapes, BallotsProposable
  <2>2. CASE /\ Won(i) /\ cur[i].num < tour[i].gen.num
             /\ ConsiderGenSwitch(i, tour[i].gen, MostAdvanced(CountedBallots(i)))
    <3>1. Legit(tour[i].gen, MostAdvanced(CountedBallots(i)))
      BY <1>1, <2>2, CountedAreBallots DEF Legit
    <3> QED
      BY <1>1, <2>2, <3>1, SwitchKeeps
  <2>3. tour[i].gen \in Gen
    BY <1>1 DEF CInv, SoundTour, HasVoted, IInv, TypeOK, Ballot
  <2>4. ~(cur[i].num < tour[i].gen.num) => cur[i].num >= tour[i].gen.num
    BY SMTT(30), <2>3 DEF CInv, IInv, TypeOK, Gen
  <2> QED
    BY <2>1, <2>2, <2>4 DEF DecideTour, ConsiderGenSwitch
<1>3. /\ \A j \in Node \ {i} : tour'[j] = tour[j]
      /\ tour' = [j \in Node |-> tour'[j]]
      /\ tour'[i].phase = "decided"
      /\ tour'[i].refused =
            {r.lastVote : r \in {s \in tour[i].polled : s.kind \in {"passed", "voted"}}}
  BY DEF DecideTour, CInv, Shapes
<1>4. ASSUME NEW r \in tour[i].polled, r.kind \in {"passed", "voted"}
      PROVE  \E j \in Node \ {i} : r.lastVote \in 1 .. vote'[j].num
  <2>1. SoundResponse(r)' /\ r.to = i
    BY <1>1, <1>2, Stable DEF CInv, SoundTour
  <2> QED
    BY <1>4, <2>1 DEF SoundResponse
<1>5. SoundTour(i)'
  BY SMTT(30), <1>3, <1>4 DEF CInv, SoundTour
<1>6. Shapes'
  BY <1>2, <1>3 DEF Shapes
<1> QED
  BY <1>1, <1>2, <1>3, <1>5, <1>6 DEF Keeps

\* The end of a tour raises last_vote to what it was refused with.
LEMMA FinishTourKeeps ==
    ASSUME CInv, NEW i \in Node, FinishTour(i)
    PROVE  Keeps
<1>1. /\ UNCHANGED <<psLogged, mode, requests, responses, announced, parallelSafe>>
      /\ psLogged[i] /\ tour[i].phase = "decided"
      /\ tour' = [tour EXCEPT ![i] = NoTour]
  BY DEF FinishTour, netVars, localVars, Unlocked
<1>2. /\ \A j \in Node \ {i} : tour'[j] = tour[j]
      /\ Shapes'
      /\ SoundTour(i)'
  BY <1>1 DEF CInv, Shapes, SoundTour, NoTour
<1>3. CASE UNCHANGED vars
  <2>1. UNCHANGED <<cur, donors, loi, vote, ballots>>
    BY <1>3 DEF vars
  <2>2. \A j \in Node : StatusOk(j)'
    BY <1>1, <2>1, StatusSame DEF CInv
  <2>3. BallotsProposable'
    BY <2>1 DEF CInv, BallotsProposable
  <2> QED
    BY <1>1, <1>2, <1>3, <2>2, <2>3 DEF Keeps
<1>4. ASSUME NEW n \in tour[i].refused, GiveUp(i, n) PROVE Keeps
  <2>1. PICK k \in Node \ {i} : n \in 1 .. vote[k].num
    BY <1>1 DEF CInv, SoundTour
  <2>2. [Next]_vars
    BY <1>4, <2>1 DEF Next
  <2>3. /\ UNCHANGED <<cur, donors, loi, ballots, onlineIn>>
        /\ \A j \in Node \ {i} : vote'[j] = vote[j]
        /\ vote'[i].num = n /\ vote[i].num <= n
    BY <1>4 DEF CInv, GiveUp, IInv, TypeOK
  <2>4. \A j \in Node \ {i} : StatusOk(j)'
    BY <1>1, <2>3, StatusSame DEF CInv
  <2>5. StatusOk(i)'
    <3>1. InRecovery(i)' => InRecovery(i)
      <4>1. n \in Nat /\ vote[i].num \in Nat /\ cur[i].num \in Nat /\ cur[i].num <= vote[i].num
        BY SMTT(30), <2>1 DEF CInv, IInv, NumbersOrdered, TypeOK, Gen
      <4>2. n = cur[i].num => vote[i].num = cur[i].num
        BY SMTT(30), <2>3, <4>1 DEF CInv
      <4> QED
        BY <2>3, <4>2 DEF InRecovery, Online, Majority
    <3> QED
      BY <1>1, <2>3, <3>1 DEF CInv, StatusOk, Online
  <2>6. BallotsProposable'
    BY <2>3 DEF CInv, BallotsProposable
  <2> QED
    BY <1>1, <1>2, <2>2, <2>4, <2>5, <2>6 DEF Keeps
<1> QED
  BY <1>3, <1>4 DEF FinishTour

\* HandleGenVoteRequest: an answer, and possibly a vote.
LEMMA VoteRequestKeeps ==
    ASSUME CInv, NEW j \in Node, NEW m \in requests, NEW clique, NEW b \in BOOLEAN,
           HandleGenVoteRequest(j, m, clique, b)
    PROVE  Keeps
<1> DEFINE Ok == [from |-> j, to |-> m.from, num |-> m.gen.num, kind |-> "ok", loi |-> loi[j]]
           Passed == [from |-> j, to |-> m.from, num |-> m.gen.num, kind |-> "passed",
                      lastVote |-> vote[j].num, cur |-> cur[j], donors |-> donors[j]]
           Voted == [from |-> j, to |-> m.from, num |-> m.gen.num, kind |-> "voted",
                     lastVote |-> vote[j].num]
           No == [from |-> j, to |-> m.from, num |-> m.gen.num, kind |-> "no"]
<1>1. /\ UNCHANGED <<psLogged, tour, announced, parallelSafe>>
      /\ psLogged[j] /\ m.to = j
      /\ requests' = requests \ {m}
  BY DEF HandleGenVoteRequest, Unlocked, Reply
<1>2. PICK asked \in ballots : asked.node = m.from /\ asked.gen = m.gen
  BY DEF CInv, SoundRequest, HasVoted
<1>3. /\ m.gen \in Gen /\ m.gen \in Proposable /\ m.gen.members # {}
      /\ m.from \in Node /\ m.from # j
  BY <1>1, <1>2 DEF CInv, BallotsProposable, SoundRequest, IInv, TypeOK, Ballot
<1>4. ASSUME UNCHANGED <<vars, mode>>, NEW answer, Reply(m, answer), SoundResponse(answer)
      PROVE  Keeps
  <2>1. [Next]_vars /\ UNCHANGED <<cur, donors, loi, vote, ballots>>
    BY <1>4 DEF vars
  <2>2. SoundResponse(answer)'
    BY <1>4, <2>1, Stable DEF CInv
  <2>3. \A r \in responses' \ responses : r = answer
    BY <1>4 DEF Reply
  <2>4. \A k \in Node : StatusOk(k)'
    BY <1>1, <1>4, <2>1, StatusSame DEF CInv
  <2>5. BallotsProposable' /\ Shapes'
    BY <1>1, <1>4, <2>1 DEF CInv, BallotsProposable, Shapes
  <2> QED
    BY <1>1, <2>1, <2>2, <2>3, <2>4, <2>5 DEF Keeps
<1>5. vote[j].num \in 1 .. vote[j].num
  BY SMTT(30) DEF CInv, IInv, NumbersOrdered, TypeOK, Gen
<1>6. SoundResponse(Passed)
  BY <1>3, <1>5 DEF CInv, SoundResponse, IInv, CurIsElected, Legit
<1>7. SoundResponse(Voted)
  BY <1>3, <1>5 DEF SoundResponse
<1>8. SoundResponse(No)
  BY <1>3 DEF SoundResponse
<1>9. ASSUME cur[j].num < m.gen.num, vote[j] = m.gen PROVE SoundResponse(Ok)
  <2> DEFINE given == [node |-> j, gen |-> m.gen, loi |-> loi[j]]
  <2>1. given \in ballots /\ given.node = j /\ given.gen = m.gen /\ given.loi = loi[j]
    BY <1>3, <1>9 DEF CInv, VoteIsBallot
  <2>2. HasVoted(m.from, m.gen)
    BY <1>2 DEF HasVoted
  <2> HIDE DEF given
  <2> QED
    BY <1>3, <2>1, <2>2 DEF SoundResponse
<1>10. ASSUME Reply(m, Ok), Vote(j, m.gen),
              mode' = IF InRecovery(j) THEN [mode EXCEPT ![j] = Disabled] ELSE mode
       PROVE  Keeps
  <2> DEFINE given == [node |-> j, gen |-> m.gen, loi |-> loi[j]]
  <2>1. [Next]_vars
    BY <1>3, <1>10 DEF Next
  <2>2. ballots' = ballots \cup {given} /\ UNCHANGED <<cur, donors, loi>>
    BY <1>10 DEF Vote
  <2>3. given.node = j /\ given.gen = m.gen /\ given.loi = loi[j]
    OBVIOUS
  <2>4. BallotsProposable'
    <3>1. BallotsProposable /\ m.gen \in Proposable /\ m.gen.members # {}
      BY <1>3 DEF CInv
    <3>2. \A c \in ballots' : c \in ballots \/ c.gen = m.gen
      BY SMTT(30), <2>2
    <3> QED
      BY <3>1, <3>2 DEF BallotsProposable
  <2>5. ASSUME NEW r, r = Ok PROVE SoundResponse(r)'
    <3>1. asked \in ballots'
      BY <2>2
    <3>2. \E c \in ballots' : c.node = m.from /\ c.gen = m.gen
      BY <1>2, <3>1
    <3>3. given \in ballots'
      BY <2>2
    <3> HIDE DEF given
    <3> QED
      BY <1>3, <2>3, <2>5, <3>2, <3>3 DEF SoundResponse, HasVoted
  <2>6. \A r \in responses' \ responses : r = Ok
    BY <1>10 DEF Reply
  <2>7. \A k \in Node \ {j} : vote'[k] = vote[k] /\ mode'[k] = mode[k]
    BY <1>10 DEF CInv, Vote, IInv, TypeOK, Shapes
  <2>8. \A k \in Node \ {j} : StatusOk(k)'
    BY <1>1, <2>2, <2>7, StatusSame DEF CInv
  <2>9. StatusOk(j)'
    <3>1. vote'[j] = m.gen /\ vote[j].num < m.gen.num
      BY <1>10 DEF CInv, Vote, IInv, TypeOK
    <3>2. cur[j].num \in Nat /\ vote[j].num \in Nat /\ m.gen.num \in Nat /\ cur[j].num <= vote[j].num
      BY <1>3 DEF CInv, IInv, NumbersOrdered, TypeOK, Gen
    <3>3. cur[j].num < m.gen.num /\ vote'[j].num = m.gen.num /\ cur'[j] = cur[j]
      BY SMTT(30), <2>2, <3>1, <3>2 DEF CInv
    <3>4. ~InRecovery(j)'
      BY SMTT(30), <3>2, <3>3 DEF CInv, InRecovery
    <3>5. Online(j)' => Online(j) /\ mode'[j] = mode[j]
      <4>1. Online(j)' => Online(j)
        BY <2>2 DEF Online
      <4>2. Online(j) => ~InRecovery(j)
        BY DEF InRecovery
      <4> QED
        BY <1>10, <4>1, <4>2
    <3>6. psLogged'[j] /\ (Online(j) => mode[j] = Normal)
      BY <1>1 DEF CInv, StatusOk
    <3> QED
      BY <3>4, <3>5, <3>6 DEF StatusOk
  <2>10. Shapes'
    BY <1>1, <1>10 DEF CInv, Shapes
  <2>11. \A r \in responses' \ responses : SoundResponse(r)'
    BY <2>5, <2>6
  <2> HIDE DEF Ok
  <2> QED
    BY <1>1, <2>1, <2>4, <2>8, <2>9, <2>10, <2>11 DEF Keeps
<1> HIDE DEF Ok, Passed, Voted, No, CInv
<1>11. \/ UNCHANGED <<vars, mode>> /\ Reply(m, Passed)
       \/ UNCHANGED <<vars, mode>> /\ Reply(m, Voted)
       \/ UNCHANGED <<vars, mode>> /\ Reply(m, No)
       \/ UNCHANGED <<vars, mode>> /\ Reply(m, Ok) /\ cur[j].num < m.gen.num /\ vote[j] = m.gen
       \/ /\ Reply(m, Ok) /\ Vote(j, m.gen)
          /\ mode' = IF InRecovery(j) THEN [mode EXCEPT ![j] = Disabled] ELSE mode
  BY DEF HandleGenVoteRequest, Ok, Passed, Voted, No
<1> QED
  BY <1>4, <1>6, <1>7, <1>8, <1>9, <1>10, <1>11

\* A restart: what was saved is what was true.
LEMMA RestartKeeps ==
    ASSUME CInv, NEW i \in Node, Restart(i)
    PROVE  Keeps
<1> USE DEF Restart
<1>1. /\ UNCHANGED <<cur, donors, loi, vote, ballots, onlineIn>>
      /\ UNCHANGED <<requests, responses, announced>>
  BY DEF vars, netVars
<1>2. \A a \in parallelSafe' \ parallelSafe : a.gen = cur[i] /\ a.donors = donors[i]
  BY SMTT(30) DEF CInv, Pair
<1>3. Legit(cur[i], donors[i])'
  BY <1>1, Stable DEF CInv, IInv, CurIsElected, Legit
<1>4. \A a \in parallelSafe' \ parallelSafe : Legit(a.gen, a.donors)'
  BY <1>1, <1>2, <1>3
<1>5. /\ \A j \in Node \ {i} : /\ tour'[j] = tour[j] /\ mode'[j] = mode[j]
                               /\ psLogged'[j] = psLogged[j]
      /\ tour'[i] = NoTour /\ mode'[i] = RestoredMode(i) /\ psLogged'[i]
      /\ Shapes'
  BY DEF CInv, Shapes
<1>6. SoundTour(i)'
  BY SMTT(30), <1>5 DEF CInv, SoundTour, NoTour
<1>7. \A j \in Node \ {i} : StatusOk(j)'
  BY <1>1, <1>5, StatusSame DEF CInv
<1>8. StatusOk(i)'
  BY <1>1, <1>5 DEF StatusOk, RestoredMode, Online, InRecovery, Majority
<1>9. BallotsProposable'
  BY <1>1 DEF CInv, BallotsProposable
<1> QED
  BY <1>1, <1>4, <1>5, <1>6, <1>7, <1>8, <1>9 DEF Keeps, vars

----------------------------------------------------------------------------

\* The invariant holds at the start.
LEMMA InitCInv == CInit => CInv
<1> SUFFICES ASSUME CInit PROVE CInv
  OBVIOUS
<1> USE DEF CInit
<1>1. IInv
  BY InitIInv
<1>2. Shapes
  BY DEF Shapes
<1>3. BallotsProposable /\ VoteIsBallot
  BY DEF Init, BallotsProposable, VoteIsBallot
<1>4. \A i \in Node : SoundTour(i)
  BY DEF SoundTour, NoTour
<1>5. \A a \in announced \cup parallelSafe : Legit(a.gen, a.donors)
  BY SMTT(30) DEF CInv, Pair, Legit
<1>6. \A i \in Node : StatusOk(i)
  BY DEF Init, StatusOk, Online, InRecovery, FirstGen
<1> QED
  BY <1>1, <1>2, <1>3, <1>4, <1>5, <1>6 DEF CInv

\* Every action does what Keeps asks.
LEMMA NextKeeps == ASSUME CInv, CNext PROVE Keeps
<1>1. PICK i \in Node :
        \/ LogParallelSafe(i)
        \/ Heartbeat(i)
        \/ HandleParallelSafe(i)
        \/ \E connected \in Views : \E clique \in Views \cup {{}} :
               /\ i \in connected
               /\ clique \subseteq connected
               /\ CampaignMyself(i, connected, clique)
        \/ Gather(i)
        \/ LearnFromResponse(i)
        \/ DecideTour(i)
        \/ FinishTour(i)
        \/ \E m \in requests, clique \in Views, b \in BOOLEAN :
               HandleGenVoteRequest(i, m, clique, b)
        \/ Restart(i)
  BY DEF CNext
<1>2. \A V \in Views \cup {{}} : V \in SUBSET Node
  BY ViewsAssumption
<1> QED
  BY <1>1, <1>2, LogParallelSafeKeeps, HeartbeatKeeps, HandleParallelSafeKeeps,
     CampaignMyselfKeeps, GatherKeeps, LearnFromResponseKeeps, DecideTourKeeps,
     FinishTourKeeps, VoteRequestKeeps, RestartKeeps

\* So does a step that changes nothing.
LEMMA StutterKeeps == ASSUME CInv, UNCHANGED cvars PROVE Keeps
<1>1. /\ UNCHANGED <<cur, donors, loi, vote, ballots, onlineIn>>
      /\ UNCHANGED <<psLogged, mode, tour, requests, responses, announced, parallelSafe>>
  BY DEF cvars, vars
<1>2. \A i \in Node : StatusOk(i)'
  BY <1>1, StatusSame DEF CInv
<1>3. BallotsProposable' /\ Shapes'
  BY <1>1 DEF CInv, BallotsProposable, Shapes
<1> QED
  BY <1>1, <1>2, <1>3 DEF Keeps, vars

\* The inductive invariant of the protocol holds throughout.
THEOREM CInvariance == CSpec => []CInv
<1>1. CInv /\ [CNext]_cvars => CInv'
  BY NextKeeps, StutterKeeps, KeepsCInv
<1> QED
  BY <1>1, InitCInv, PTL DEF CSpec

\* CampaignMyself, CampaignTour, HandleGenVoteRequest and
\* MtmConsiderGenSwitch, with the messages between them and with crashes,
\* implement the election of generations: all that is proved of GenElection
\* holds of them.
THEOREM CampaignImplements == CSpec => Spec
<1>1. CInit => Init
  BY DEF CInit
<1>2. CInv /\ [CNext]_cvars => [Next]_vars
  BY NextKeeps, StutterKeeps DEF Keeps
<1> QED
  BY <1>1, <1>2, CInvariance, PTL DEF CSpec, Spec

\* In the protocol, too, a generation number names one member set.
THEOREM CampaignGensUnique == CSpec => []UniqueGen
<1> QED
  BY CampaignImplements, GenerationsUnique, PTL

\* In the protocol, too, a voter stays out of every generation between the
\* last_online_in it reported and the generation it voted for.
THEOREM CampaignPromises == CSpec => []PromiseKept
<1> QED
  BY CampaignImplements, PromisesKept, PTL

\* In the protocol, too, donors miss nothing that could be committed.
THEOREM CampaignDonorsCurrent == CSpec => []DonorsAreCurrent
<1> QED
  BY CampaignImplements, DonorsCurrent, PTL

\* receive_mode fits the status of the node, whatever sequence of votes, failed
\* campaigns, switches and restarts led to it.
THEOREM ModeFollowsStatus == CSpec => []ModeMatchesStatus
<1>1. CInv => ModeMatchesStatus
  BY DEF CInv, StatusOk, ModeMatchesStatus, Unlocked
<1> QED
  BY <1>1, CInvariance, PTL
=============================================================================
