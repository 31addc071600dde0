--------------------------- MODULE RefereeProofs ---------------------------
(***************************************************************************)
(* The safety of a cluster of two nodes with a referee, for all bounds:    *)
(* no split brain (HoldsAll), a transaction that ends the same way at both *)
(* nodes (Agreement), campaigns that do not compete (NeverOutvoted) and a  *)
(* grant that is turned in (GrantRemembered).                              *)
(***************************************************************************)
EXTENDS Referee, TLAPS

Gen == [num : Nat \ {0}, members : SUBSET Node]
Rec == {"P", "PC", "CP", "AP"}
State == {"sent", "done", "failed"}
Call == [op : {"ask", "tour"}, gen : Gen, state : State]
        \cup [op : {"clear"}, gen : Gen, mine : Nat, state : State]

Typed ==
    /\ cur \in [Node -> Gen] /\ vote \in [Node -> Gen]
    /\ donors \in [Node -> SUBSET Node]
    /\ loi \in [Node -> Nat \ {0}] /\ seen \in [Node -> Nat]
    /\ ballots \subseteq [node : Node, gen : Gen, loi : Nat]
    /\ call \in [Node -> Call \cup {None}]
    /\ grant \in [node : Node, num : Nat] \cup {None}
    /\ alone \subseteq Gen
    /\ has \in [Node -> SUBSET Gen]
    /\ ps \subseteq [num : Nat, by : Node, has : SUBSET Gen, wal : SUBSET Rec]
    /\ wal \in [Node -> SUBSET Rec]
    /\ busy \in BOOLEAN

----------------------------------------------------------------------------
(* Elections.                                                              *)

\* The numbers a node keeps are ordered, and it never overstates how far its
\* peer has been online.
OrderedAt(i) ==
    /\ loi[i] <= cur[i].num /\ cur[i].num <= vote[i].num
    /\ seen[i] <= loi[Other(i)]
NumbersOrdered == \A i \in Node : OrderedAt(i)

\* A vote binds: no later vote of the node has its number, and the node had
\* worked alone in no generation below it, except for those it told of.
Binds(b) ==
    /\ b.gen.members = Node
    /\ b.gen.num <= vote[b.node].num
    /\ b.gen.num = vote[b.node].num => vote[b.node] = b.gen
    /\ b.loi <= loi[b.node] /\ b.loi < b.gen.num
    /\ \A g \in alone : g.members = {b.node} /\ g.num <= b.gen.num => g.num <= b.loi
BallotsBind == \A b \in ballots : Binds(b)

\* Both voted for g, and k is as advanced as its peer.
Advanced(k, g) ==
    \E b, c \in ballots :
        /\ b.gen = g /\ c.gen = g
        /\ b.node = k /\ c.node = Other(k)
        /\ c.loi <= b.loi

\* What a node knows of generations: one of both has most advanced donors, and
\* one of the peer alone is known from the peer.
ElectedAt(i) ==
    \/ /\ cur[i].members = Node
       /\ \A k \in donors[i] : cur[i].num = 1 \/ Advanced(k, cur[i])
    \/ /\ cur[i].members = {i}
       /\ Online(i) => cur[i] \in alone
    \/ /\ cur[i].members = {Other(i)}
       /\ ~Online(i) /\ cur[i].num <= cur[Other(i)].num
CurrentElected == \A i \in Node : ElectedAt(i)

\* Why a node was online where it was last.
LastOnlineAt(i) ==
    \/ loi[i] = 1
    \/ \E b \in ballots : b.node = Other(i) /\ b.gen.num = loi[i]
    \/ \E g \in alone : g.members = {i} /\ g.num = loi[i]
LastOnline == \A i \in Node : LastOnlineAt(i)

\* What campaigners ask for.  The grant is turned in on behalf of a generation
\* in which both have been online and since when i did not work alone.
CallSound(i) ==
    /\ Waits(i, "ask") =>
        /\ call[i].gen.members = {i}
        /\ call[i].gen.num <= vote[i].num
        /\ call[i].gen.num = vote[i].num => vote[i] = call[i].gen
    /\ Waits(i, "tour") => call[i].gen.members = Node
    /\ Waits(i, "clear") =>
        /\ call[i].gen.num <= loi[i] /\ call[i].gen.num <= loi[Other(i)]
        /\ \A g \in alone : g.members = {i} => g.num <= call[i].gen.num
CallsSound == \A i \in Node : CallSound(i)

----------------------------------------------------------------------------
(* Generations of one node, and who has their commits.                     *)

AloneOwned ==
    \A g \in alone : 1 < g.num /\ \E i \in Node : g.members = {i} /\ g \in has[i]

\* A node has such commits up to where it was last online, and all of those;
\* those of its peer when the peer has left the generation for good.
HasSoundAt(i) ==
    /\ has[i] \subseteq alone
    /\ \A g \in has[i] : g.num <= loi[i]
    /\ \A g \in has[i] : g.members = {Other(i)} => g.num < cur[Other(i)].num
HasSound == \A i \in Node : HasSoundAt(i)

HasAll == \A i \in Node : \A g \in alone : g.num <= loi[i] => g \in has[i]

\* The same of the logs that lie before ParallelSafe records.
SafeRecord(r) ==
    /\ r.num <= loi[r.by] /\ r.has \subseteq alone
    /\ \A g \in r.has : g.num < r.num
    /\ \A g \in r.has : \A i \in Node : g.members = {i} => g.num < cur[i].num
    /\ \A g \in alone : g.num < r.num => g \in r.has
SafeSound == \A r \in ps : SafeRecord(r)

\* While one node lacks what the other did alone, the other has the grant ...
GrantHeld ==
    \A i \in Node : \A g \in alone :
        g.members = {i} /\ g \notin has[Other(i)]
            => grant # None /\ grant.node = i /\ g.num <= grant.num

\* ... and it has it when it is about to go on alone.
FreshFor(i) ==
    Waits(i, "ask") /\ call[i].state = "done" /\ cur[i].num < call[i].gen.num
        => grant # None /\ grant.node = i /\ grant.num = call[i].gen.num
GrantFresh == \A i \in Node : FreshFor(i)

ClusterInv ==
    /\ Typed /\ NumbersOrdered /\ BallotsBind /\ CurrentElected /\ LastOnline /\ CallsSound
    /\ AloneOwned /\ HasSound /\ HasAll /\ SafeSound /\ GrantHeld /\ GrantFresh

----------------------------------------------------------------------------
(* The transaction.                                                        *)

\* What the records of one node say of those of the other.
RecordsSound ==
    /\ busy => ~Finished(Coordinator)
    /\ "PC" \in acks => "PC" \in wal[Participant]
    /\ "PC" \in wal[Participant] => "PC" \in wal[Coordinator]
    /\ \A i \in Node : "CP" \in wal[i] => "PC" \in wal[Coordinator]
    /\ \A r \in ps : r.wal \subseteq wal[r.by]

\* i finished the transaction by itself, in its generation g, and who has the
\* commits of g has that.
Resolved(i, o, g) ==
    /\ g.members = {i}
    /\ o = "AP" => "PC" \notin wal[i]
    /\ g \in has[Other(i)] => o \in wal[Other(i)]
    /\ \A r \in ps : g \in r.has => o \in r.wal

\* Why the outcome o, known at i, will be the only one: both know it, or both
\* have precommitted, or the coordinator has not and will not, or it is of the
\* time that i was alone.
Settled(i, o) ==
    \/ o \in wal[Other(i)]
    \/ o = "CP" /\ \A k \in Node : "PC" \in wal[k]
    \/ o = "AP" /\ "AP" \in wal[Coordinator] /\ "PC" \notin wal[Coordinator]
    \/ \E g \in alone : Resolved(i, o, g)

OutcomesSettled ==
    \A i \in Node : \A o \in {"CP", "AP"} : o \in wal[i] => Settled(i, o)

IInv == ClusterInv /\ RecordsSound /\ OutcomesSettled /\ Agreement

----------------------------------------------------------------------------
(* Two nodes.                                                              *)

\* Leaves are for Zenon, unless they cite SMT.
USE ZenonT(60)

\* Each node has one peer.
LEMMA TwoNodes ==
    ASSUME NEW i \in Node
    PROVE  Other(i) \in Node /\ Other(i) # i /\ Node = {i, Other(i)} /\ Other(Other(i)) = i
<1>1. PICK j : j # i /\ Node = {i, j}
  BY RefereeAssumption
<1>3. j \in Node /\ j # i /\ Node = {i, j}
  BY <1>1
<1>4. Other(i) = j
  BY <1>3 DEF Other
<1>5. Other(j) = i
  BY <1>3 DEF Other
<1> QED BY <1>3, <1>4, <1>5

\* A generation of one node is one the referee may grant; one of both is not.
LEMMA RefereeGens ==
    ASSUME NEW g, NEW i \in Node
    PROVE  /\ g.members = Node => ~IsRefereeGen(g)
           /\ g.members = {i} => IsRefereeGen(g)
BY TwoNodes DEF IsRefereeGen

\* One node is not both.
LEMMA NotBoth ==
    ASSUME NEW i \in Node
    PROVE  {i} # Node /\ {Other(i)} # Node /\ {i} # {Other(i)}
BY TwoNodes

\* The two nodes are the coordinator and the participant.
LEMMA ParticipantIs ==
    /\ Coordinator \in Node /\ Participant \in Node /\ Participant # Coordinator
    /\ Node = {Coordinator, Participant}
    /\ Other(Coordinator) = Participant /\ Other(Participant) = Coordinator
BY TwoNodes, RefereeAssumption DEF Participant

----------------------------------------------------------------------------
(* Steps that switch no generation.                                        *)

\* No call is begun, and what a node has seen is true.
Calmly ==
    /\ call' \in [Node -> Call \cup {None}]
    /\ \A k \in Node : call'[k] = call[k] \/ call'[k] = None
    /\ seen' \in [Node -> Nat]
    /\ \A k \in Node : seen'[k] <= loi'[Other(k)]
    /\ wal' \in [Node -> SUBSET Rec] /\ busy' \in BOOLEAN
    /\ UNCHANGED <<ballots, grant>>

\* Calls end without effect on anything else.
LEMMA CalmKeeps ==
    ASSUME ClusterInv, Calmly, UNCHANGED <<elect, data>>
    PROVE  ClusterInv'
<1>1. UNCHANGED <<cur, donors, loi, vote, ballots, alone, has, ps, grant>>
  BY DEF Calmly, elect, data
<1>2. Typed'
  BY <1>1 DEF ClusterInv, Typed, Calmly
<1>3. NumbersOrdered'
  BY <1>1 DEF ClusterInv, NumbersOrdered, OrderedAt, Calmly
<1>4. BallotsBind' /\ LastOnline' /\ AloneOwned' /\ HasSound' /\ HasAll' /\ SafeSound' /\ GrantHeld'
  BY <1>1 DEF ClusterInv, BallotsBind, Binds, LastOnline, LastOnlineAt, AloneOwned, HasSound, HasSoundAt,
              HasSoundAt, HasAll, SafeSound, SafeRecord, GrantHeld
<1>5. CurrentElected'
  BY <1>1 DEF ClusterInv, CurrentElected, ElectedAt, Advanced, Online
<1>6. \A k \in Node : \A op : Waits(k, op)' => Waits(k, op) /\ call'[k] = call[k]
  BY DEF Waits, Calmly
<1>7. CallsSound'
  BY <1>1, <1>6 DEF ClusterInv, CallsSound, CallSound
<1>8. GrantFresh'
  BY <1>1, <1>6 DEF ClusterInv, GrantFresh, FreshFor
<1> QED BY <1>2, <1>3, <1>4, <1>5, <1>7, <1>8 DEF ClusterInv

----------------------------------------------------------------------------
(* Switches.                                                               *)

\* last_vote moves to higher numbers only.
LEMMA VoteRises ==
    ASSUME NEW i \in Node, NEW g \in Gen, Typed,
           vote' = [vote EXCEPT ![i] = Vote(i, g)]
    PROVE  /\ vote' \in [Node -> Gen]
           /\ \A k \in Node : vote'[k] = vote[k] \/ vote[k].num < vote'[k].num
           /\ \A k \in Node : vote[k].num <= vote'[k].num
           /\ g.num <= vote'[i].num
BY SMTT(30) DEF Vote, Typed, Gen

\* The generation g, with the donors D, as a switch of i may meet it: elected,
\* or granted to i, or known from the peer.
Offered(i, g, D) ==
    \/ g.members = Node /\ \A k \in D : Advanced(k, g)
    \/ g.members = {i} /\ D = {i}
    \/ g.members = {Other(i)} /\ g.num <= cur[Other(i)].num

\* The step of i to g, without getting online by it.
StaysOffline(i, g, D) ==
    /\ cur[i].num < g.num
    /\ cur' = [cur EXCEPT ![i] = g] /\ donors' = [donors EXCEPT ![i] = D]
    /\ vote' = [vote EXCEPT ![i] = Vote(i, g)]
    /\ UNCHANGED <<loi, data>>

\* i switches, and does not get online by it.
LEMMA SwitchOffline ==
    ASSUME NEW i \in Node, NEW g \in Gen, NEW D \in SUBSET Node,
           ClusterInv, Calmly, Offered(i, g, D), StaysOffline(i, g, D)
    PROVE  ClusterInv'
<1>0. UNCHANGED <<loi, alone, has, ps, ballots, grant>>
  BY DEF data, Calmly, StaysOffline
<1>T. Typed
  BY DEF ClusterInv
<1>V. /\ vote' \in [Node -> Gen]
      /\ \A k \in Node : vote'[k] = vote[k] \/ vote[k].num < vote'[k].num
      /\ \A k \in Node : vote[k].num <= vote'[k].num
      /\ g.num <= vote'[i].num
  BY VoteRises, <1>T DEF StaysOffline
<1>C. /\ cur' \in [Node -> Gen] /\ cur'[i] = g
      /\ \A k \in Node \ {i} : cur'[k] = cur[k]
      /\ \A k \in Node : cur[k].num <= cur'[k].num
      /\ cur[i].num < g.num /\ donors' = [donors EXCEPT ![i] = D]
  BY SMTT(30), <1>T DEF Typed, Gen, StaysOffline
<1>N. \A k \in Node : cur[k].num \in Nat /\ cur'[k].num \in Nat /\ vote[k].num \in Nat
                      /\ vote'[k].num \in Nat /\ loi[k] \in Nat
  BY <1>T, <1>V, <1>C DEF Typed, Gen
<1>2. Typed'
  BY <1>0, <1>T, <1>V, <1>C DEF Typed, Calmly
<1>3. NumbersOrdered'
  <2> SUFFICES ASSUME NEW k \in Node PROVE OrderedAt(k)'
    BY DEF NumbersOrdered
  <2>1. loi[k] <= cur[k].num /\ cur[k].num <= vote[k].num
    BY DEF ClusterInv, NumbersOrdered, OrderedAt
  <2>2. seen'[k] <= loi'[Other(k)]
    BY DEF Calmly
  <2>3. cur'[k].num <= vote'[k].num
    BY SMTT(30), <2>1, <1>C, <1>V, <1>N
  <2> QED BY SMTT(30), <2>1, <2>2, <2>3, <1>0, <1>C, <1>N DEF OrderedAt
<1>4. BallotsBind'
  <2> SUFFICES ASSUME NEW b \in ballots' PROVE Binds(b)'
    BY DEF BallotsBind
  <2>1. b \in ballots /\ b.node \in Node /\ b.gen.num \in Nat
    BY <1>0, <1>T DEF Typed, Gen
  <2>2. /\ b.gen.members = Node
        /\ b.gen.num <= vote[b.node].num
        /\ b.gen.num = vote[b.node].num => vote[b.node] = b.gen
        /\ b.loi <= loi[b.node] /\ b.loi < b.gen.num
        /\ \A h \in alone : h.members = {b.node} /\ h.num <= b.gen.num => h.num <= b.loi
    BY <2>1 DEF ClusterInv, BallotsBind, Binds
  <2>3. /\ b.gen.num <= vote'[b.node].num
        /\ b.gen.num = vote'[b.node].num => vote'[b.node] = b.gen
    BY SMTT(30), <2>1, <2>2, <1>V, <1>N
  <2> QED BY <2>2, <2>3, <1>0 DEF Binds
<1>5. CurrentElected'
  <2> SUFFICES ASSUME NEW k \in Node PROVE ElectedAt(k)'
    BY DEF CurrentElected
  <2>1. \A n, h : Advanced(n, h)' = Advanced(n, h)
    BY <1>0 DEF Advanced
  <2>2. CASE k = i
    <3>1. ~Online(k)'
      BY SMTT(30), <2>2, <1>0, <1>C, <1>N DEF Online, ClusterInv, NumbersOrdered, OrderedAt
    <3>2. donors'[k] = D
      BY <2>2, <1>C, <1>T DEF Typed
    <3>3. cur'[Other(k)] = cur[Other(k)]
      BY <2>2, <1>C, TwoNodes
    <3> QED BY <3>1, <3>2, <3>3, <2>1, <2>2, <1>C DEF Offered, ElectedAt
  <2>3. CASE k # i
    <3>1. cur'[k] = cur[k] /\ donors'[k] = donors[k] /\ Online(k)' = Online(k)
      BY <2>3, <1>0, <1>C, <1>T DEF Typed, Online
    <3>2. Other(k) = i /\ cur[i].num <= cur'[i].num
      BY <2>3, TwoNodes, <1>C
    <3>3. cur[k].num <= cur[Other(k)].num => cur'[k].num <= cur'[Other(k)].num
      BY SMTT(30), <3>1, <3>2, <1>N
    <3> QED BY <3>1, <3>3, <2>1, <1>0 DEF ClusterInv, CurrentElected, ElectedAt
  <2> QED BY <2>2, <2>3
<1>6. LastOnline' /\ AloneOwned' /\ HasAll' /\ GrantHeld'
  <2>1. LastOnline'
    BY <1>0 DEF ClusterInv, LastOnline, LastOnlineAt
  <2>2. AloneOwned' /\ HasAll'
    BY <1>0 DEF ClusterInv, AloneOwned, HasAll
  <2>3. GrantHeld'
    BY <1>0 DEF ClusterInv, GrantHeld
  <2> QED BY <2>1, <2>2, <2>3
<1>7. \A k \in Node : \A op : Waits(k, op)' => Waits(k, op) /\ call'[k] = call[k]
  BY DEF Waits, Calmly
<1>8. CallsSound'
  <2> SUFFICES ASSUME NEW k \in Node PROVE CallSound(k)'
    BY DEF CallsSound
  <2>1. Waits(k, "ask")' =>
            /\ call'[k].gen.members = {k}
            /\ call'[k].gen.num <= vote'[k].num
            /\ call'[k].gen.num = vote'[k].num => vote'[k] = call'[k].gen
    <3> HAVE Waits(k, "ask")'
    <3>1. /\ call[k].gen.members = {k} /\ call'[k] = call[k]
          /\ call[k].gen.num <= vote[k].num
          /\ call[k].gen.num = vote[k].num => vote[k] = call[k].gen
      BY <1>7 DEF ClusterInv, CallsSound, CallSound
    <3>2. call[k].gen.num \in Nat
      BY SMTT(30), <1>7, <1>T DEF Typed, Waits, Call, Gen
    <3> QED BY SMTT(30), <3>1, <3>2, <1>V, <1>N
  <2> QED BY <2>1, <1>0, <1>7 DEF ClusterInv, CallsSound, CallSound
<1>9. HasSound'
  <2> SUFFICES ASSUME NEW k \in Node PROVE HasSoundAt(k)'
    BY DEF HasSound
  <2>1. \A h \in has[k] : h.members = {Other(k)} => h.num < cur'[Other(k)].num
    <3> SUFFICES ASSUME NEW h \in has[k], h.members = {Other(k)}
                 PROVE  h.num < cur'[Other(k)].num
      OBVIOUS
    <3>1. h.num < cur[Other(k)].num
      BY DEF ClusterInv, HasSound, HasSoundAt
    <3>2. h.num \in Nat /\ Other(k) \in Node
      BY SMTT(30), <1>T, TwoNodes DEF Typed, Gen
    <3> QED BY SMTT(30), <3>1, <3>2, <1>C, <1>N
  <2> QED BY <2>1, <1>0 DEF ClusterInv, HasSound, HasSoundAt
<1>10. SafeSound'
  <2> SUFFICES ASSUME NEW r \in ps' PROVE SafeRecord(r)'
    BY DEF SafeSound
  <2>1. \A h \in r.has : \A k \in Node : h.members = {k} => h.num < cur'[k].num
    <3> SUFFICES ASSUME NEW h \in r.has, NEW k \in Node, h.members = {k}
                 PROVE  h.num < cur'[k].num
      OBVIOUS
    <3>1. r \in ps /\ h.num < cur[k].num
      BY <1>0 DEF ClusterInv, SafeSound, SafeRecord
    <3>2. h.num \in Nat
      BY SMTT(30), <3>1, <1>T DEF Typed, Gen
    <3> QED BY SMTT(30), <3>1, <3>2, <1>C, <1>N
  <2> QED BY <2>1, <1>0 DEF ClusterInv, SafeSound, SafeRecord
<1>11. GrantFresh'
  <2> SUFFICES ASSUME NEW k \in Node, Waits(k, "ask")', (call[k].state = "done")',
                      (cur[k].num < call[k].gen.num)'
               PROVE  (grant # None /\ grant.node = k /\ grant.num = call[k].gen.num)'
    BY DEF GrantFresh, FreshFor
  <2>1. Waits(k, "ask") /\ call'[k] = call[k]
    BY <1>7
  <2>2. call[k].gen.num \in Nat
    BY <2>1, <1>T DEF Typed, Waits, Call, Gen
  <2>3. cur[k].num < call[k].gen.num
    BY SMTT(30), <2>1, <2>2, <1>C, <1>N
  <2> QED BY <2>1, <2>3, <1>0 DEF ClusterInv, GrantFresh, FreshFor
<1> QED BY <1>2, <1>3, <1>4, <1>5, <1>6, <1>8, <1>9, <1>10, <1>11 DEF ClusterInv

\* The step of i to g, in which it is online at once.
GoesOnline(i, g, D) ==
    /\ cur[i].num < g.num
    /\ cur' = [cur EXCEPT ![i] = g] /\ donors' = [donors EXCEPT ![i] = D]
    /\ loi' = [loi EXCEPT ![i] = g.num]
    /\ vote' = [vote EXCEPT ![i] = Vote(i, g)]
    /\ ps' = ps \cup {ParallelSafe(g.num, i)}

\* What that does to the numbers.
LEMMA NumbersRise ==
    ASSUME NEW i \in Node, NEW g \in Gen, NEW D, ClusterInv, GoesOnline(i, g, D)
    PROVE  /\ cur' \in [Node -> Gen] /\ vote' \in [Node -> Gen] /\ loi' \in [Node -> Nat \ {0}]
           /\ cur'[i] = g /\ loi'[i] = g.num
           /\ \A k \in Node \ {i} : cur'[k] = cur[k] /\ loi'[k] = loi[k] /\ vote'[k] = vote[k]
           /\ \A k \in Node : /\ cur[k].num \in Nat /\ cur'[k].num \in Nat
                              /\ vote[k].num \in Nat /\ vote'[k].num \in Nat
                              /\ loi[k] \in Nat /\ loi'[k] \in Nat
           /\ \A k \in Node : cur[k].num <= cur'[k].num /\ loi[k] <= loi'[k]
           /\ \A k \in Node : vote'[k] = vote[k] \/ vote[k].num < vote'[k].num
           /\ \A k \in Node : loi'[k] <= cur'[k].num /\ cur'[k].num <= vote'[k].num
<1>T. Typed
  BY DEF ClusterInv
<1>1. /\ cur' \in [Node -> Gen] /\ loi' \in [Node -> Nat \ {0}] /\ vote' \in [Node -> Gen]
      /\ cur'[i] = g /\ loi'[i] = g.num
      /\ \A k \in Node \ {i} : cur'[k] = cur[k] /\ loi'[k] = loi[k] /\ vote'[k] = vote[k]
  BY <1>T, VoteRises DEF Typed, Gen, GoesOnline
<1>2. \A k \in Node : /\ cur[k].num \in Nat /\ cur'[k].num \in Nat
                      /\ vote[k].num \in Nat /\ vote'[k].num \in Nat
                      /\ loi[k] \in Nat /\ loi'[k] \in Nat
  BY <1>T, <1>1 DEF Typed, Gen
<1>3. \A k \in Node : loi[k] <= cur[k].num /\ cur[k].num <= vote[k].num
  BY DEF ClusterInv, NumbersOrdered, OrderedAt
<1>4. /\ \A k \in Node : vote'[k] = vote[k] \/ vote[k].num < vote'[k].num
      /\ g.num <= vote'[i].num
  BY <1>T, VoteRises DEF GoesOnline
<1>5. \A k \in Node : cur[k].num <= cur'[k].num /\ loi[k] <= loi'[k]
  BY SMTT(30), <1>1, <1>2, <1>3 DEF GoesOnline
<1>6. \A k \in Node : loi'[k] <= cur'[k].num /\ cur'[k].num <= vote'[k].num
  BY SMTT(30), <1>1, <1>2, <1>3, <1>4
<1> QED BY <1>1, <1>2, <1>4, <1>5, <1>6

\* What a most advanced node lacks, its peer has not done alone before it voted.
LEMMA DonorHasAll ==
    ASSUME NEW i \in Node, NEW g, ClusterInv, Advanced(i, g)
    PROVE  /\ \A h \in alone : h.num <= g.num => h \in has[i] /\ h.num < g.num
           /\ \E b \in ballots : b.node = Other(i) /\ b.gen = g
<1>1. PICK b, c \in ballots : /\ b.gen = g /\ c.gen = g
                              /\ b.node = i /\ c.node = Other(i) /\ c.loi <= b.loi
  BY DEF Advanced
<1>2. /\ b.loi <= loi[i] /\ b.loi < g.num /\ c.loi < g.num
      /\ \A h \in alone : h.members = {i} /\ h.num <= g.num => h.num <= b.loi
      /\ \A h \in alone : h.members = {Other(i)} /\ h.num <= g.num => h.num <= c.loi
  BY <1>1 DEF ClusterInv, BallotsBind, Binds
<1>3. b.loi \in Nat /\ c.loi \in Nat /\ loi[i] \in Nat /\ g.num \in Nat
  BY <1>1 DEF ClusterInv, Typed, Gen
<1>4. ASSUME NEW h \in alone, h.num <= g.num
      PROVE  h \in has[i] /\ h.num < g.num
  <2>1. h.members = {i} \/ h.members = {Other(i)}
    BY TwoNodes DEF ClusterInv, AloneOwned
  <2>2. h.num \in Nat
    BY DEF ClusterInv, Typed, Gen
  <2>3. h.num <= b.loi
    BY SMTT(30), <2>1, <2>2, <1>1, <1>2, <1>3, <1>4
  <2>4. h.num <= loi[i] /\ h.num < g.num
    BY SMTT(30), <2>2, <2>3, <1>2, <1>3
  <2> QED BY <2>4 DEF ClusterInv, HasAll
<1> QED BY <1>1, <1>4

\* i switches to a generation of both and gets online in it, as a donor.
LEMMA SwitchDonor ==
    ASSUME NEW i \in Node, NEW g \in Gen, NEW D \in SUBSET Node,
           ClusterInv, Calmly,
           g.members = Node, \A k \in D : Advanced(k, g), i \in D,
           GoesOnline(i, g, D), UNCHANGED <<alone, has>>
    PROVE  ClusterInv'
<1>0. UNCHANGED <<alone, has, ballots, grant>>
  BY DEF Calmly
<1>E. /\ cur[i].num < g.num
      /\ donors' = [donors EXCEPT ![i] = D] /\ ps' = ps \cup {ParallelSafe(g.num, i)}
  BY DEF GoesOnline
<1>T. Typed
  BY DEF ClusterInv
<1>R. /\ cur' \in [Node -> Gen] /\ vote' \in [Node -> Gen] /\ loi' \in [Node -> Nat \ {0}]
      /\ cur'[i] = g /\ loi'[i] = g.num
      /\ \A k \in Node \ {i} : cur'[k] = cur[k] /\ loi'[k] = loi[k] /\ vote'[k] = vote[k]
  BY NumbersRise
<1>N. \A k \in Node : /\ cur[k].num \in Nat /\ cur'[k].num \in Nat
                      /\ vote[k].num \in Nat /\ vote'[k].num \in Nat
                      /\ loi[k] \in Nat /\ loi'[k] \in Nat
  BY NumbersRise
<1>U. /\ \A k \in Node : cur[k].num <= cur'[k].num /\ loi[k] <= loi'[k]
      /\ \A k \in Node : vote'[k] = vote[k] \/ vote[k].num < vote'[k].num
      /\ \A k \in Node : loi'[k] <= cur'[k].num /\ cur'[k].num <= vote'[k].num
  BY NumbersRise
<1>D. /\ \A h \in alone : h.num <= g.num => h \in has[i] /\ h.num < g.num
      /\ \E b \in ballots : b.node = Other(i) /\ b.gen = g
  BY DonorHasAll
<1>A. /\ \A h \in alone : h.num \in Nat
      /\ \A k \in Node : has[k] \subseteq alone /\ \A h \in has[k] : h.num <= loi[k]
      /\ loi[i] <= cur[i].num /\ g.num \in Nat
  BY <1>T DEF ClusterInv, HasSound, HasSoundAt, NumbersOrdered, OrderedAt, Typed, Gen
<1>2. Typed'
  <2>1. ParallelSafe(g.num, i) \in [num : Nat, by : Node, has : SUBSET Gen, wal : SUBSET Rec]
    BY <1>T DEF ParallelSafe, Typed, Gen
  <2>2. /\ donors' \in [Node -> SUBSET Node]
        /\ ps' \subseteq [num : Nat, by : Node, has : SUBSET Gen, wal : SUBSET Rec]
    BY <1>E, <2>1, <1>T DEF Typed
  <2> QED BY <2>2, <1>0, <1>T, <1>R DEF Typed, Calmly
<1>3. NumbersOrdered'
  BY <1>U DEF NumbersOrdered, OrderedAt, Calmly
<1>4. BallotsBind'
  <2> SUFFICES ASSUME NEW b \in ballots' PROVE Binds(b)'
    BY DEF BallotsBind
  <2>1. b \in ballots /\ b.node \in Node /\ b.gen.num \in Nat /\ b.loi \in Nat
    BY <1>0, <1>T DEF Typed, Gen
  <2>2. /\ b.gen.members = Node
        /\ b.gen.num <= vote[b.node].num
        /\ b.gen.num = vote[b.node].num => vote[b.node] = b.gen
        /\ b.loi <= loi[b.node] /\ b.loi < b.gen.num
        /\ \A h \in alone : h.members = {b.node} /\ h.num <= b.gen.num => h.num <= b.loi
    BY <2>1 DEF ClusterInv, BallotsBind, Binds
  <2>3. /\ b.gen.num <= vote'[b.node].num
        /\ b.gen.num = vote'[b.node].num => vote'[b.node] = b.gen
    BY SMTT(30), <2>1, <2>2, <1>U, <1>N
  <2>4. b.loi <= loi'[b.node]
    BY SMTT(30), <2>1, <2>2, <1>U, <1>N
  <2> QED BY <2>2, <2>3, <2>4, <1>0 DEF Binds
<1>5. CurrentElected'
  <2> SUFFICES ASSUME NEW k \in Node PROVE ElectedAt(k)'
    BY DEF CurrentElected
  <2>1. \A n, h : Advanced(n, h)' = Advanced(n, h)
    BY <1>0 DEF Advanced
  <2>2. CASE k = i
    <3>1. donors'[k] = D
      BY <1>E, <2>2, <1>T DEF Typed
    <3> QED BY <3>1, <2>1, <2>2, <1>R DEF ElectedAt
  <2>3. CASE k # i
    <3>1. cur'[k] = cur[k] /\ donors'[k] = donors[k] /\ Online(k)' = Online(k)
      BY <1>E, <2>3, <1>R, <1>T DEF Typed, Online
    <3>2. Other(k) = i /\ cur[i].num <= cur'[i].num
      BY <2>3, TwoNodes, <1>U
    <3>3. cur[k].num <= cur[Other(k)].num => cur'[k].num <= cur'[Other(k)].num
      BY SMTT(30), <3>1, <3>2, <1>N
    <3> QED BY <3>1, <3>3, <2>1, <1>0 DEF ClusterInv, CurrentElected, ElectedAt
  <2> QED BY <2>2, <2>3
<1>6. LastOnline'
  <2> SUFFICES ASSUME NEW k \in Node PROVE LastOnlineAt(k)'
    BY DEF LastOnline
  <2>1. CASE k = i
    BY <2>1, <1>0, <1>D, <1>R DEF LastOnlineAt
  <2>2. CASE k # i
    <3>1. LastOnlineAt(k) /\ loi'[k] = loi[k]
      BY <2>2, <1>R DEF ClusterInv, LastOnline
    <3> QED BY <3>1, <1>0 DEF LastOnlineAt
  <2> QED BY <2>1, <2>2
<1>7. \A k \in Node : \A op : Waits(k, op)' => Waits(k, op) /\ call'[k] = call[k]
  BY DEF Waits, Calmly
<1>G. \A k \in Node : \A op : Waits(k, op) => call[k].gen.num \in Nat
  BY <1>T DEF Typed, Waits, Call, Gen
<1>8. CallsSound'
  <2> SUFFICES ASSUME NEW k \in Node PROVE CallSound(k)'
    BY DEF CallsSound
  <2>1. Waits(k, "ask")' =>
            /\ call'[k].gen.members = {k}
            /\ call'[k].gen.num <= vote'[k].num
            /\ call'[k].gen.num = vote'[k].num => vote'[k] = call'[k].gen
    <3> HAVE Waits(k, "ask")'
    <3>1. /\ call[k].gen.members = {k} /\ call'[k] = call[k]
          /\ call[k].gen.num <= vote[k].num
          /\ call[k].gen.num = vote[k].num => vote[k] = call[k].gen
      BY <1>7 DEF ClusterInv, CallsSound, CallSound
    <3>2. call[k].gen.num \in Nat
      BY <1>7, <1>G
    <3> QED BY SMTT(30), <3>1, <3>2, <1>U, <1>N
  <2>2. Waits(k, "clear")' =>
            /\ call'[k].gen.num <= loi'[k] /\ call'[k].gen.num <= loi'[Other(k)]
            /\ \A h \in alone : h.members = {k} => h.num <= call'[k].gen.num
    <3> HAVE Waits(k, "clear")'
    <3>1. /\ call[k].gen.num <= loi[k] /\ call[k].gen.num <= loi[Other(k)]
          /\ \A h \in alone : h.members = {k} => h.num <= call[k].gen.num
          /\ call'[k] = call[k]
      BY <1>7 DEF ClusterInv, CallsSound, CallSound
    <3>2. call[k].gen.num \in Nat /\ Other(k) \in Node
      BY <1>7, <1>G, TwoNodes
    <3> QED BY SMTT(30), <3>1, <3>2, <1>U, <1>N
  <2>3. Waits(k, "tour")' => call'[k].gen.members = Node
    BY <1>7 DEF ClusterInv, CallsSound, CallSound
  <2> QED BY <2>1, <2>2, <2>3, <1>0 DEF CallSound
<1>9. HasSound'
  <2> SUFFICES ASSUME NEW k \in Node PROVE HasSoundAt(k)'
    BY DEF HasSound
  <2>1. \A h \in has[k] : h.num <= loi'[k]
    BY SMTT(30), <1>A, <1>U, <1>N
  <2>2. \A h \in has[k] : h.members = {Other(k)} => h.num < cur'[Other(k)].num
    <3> SUFFICES ASSUME NEW h \in has[k], h.members = {Other(k)}
                 PROVE  h.num < cur'[Other(k)].num
      OBVIOUS
    <3>1. h.num < cur[Other(k)].num
      BY DEF ClusterInv, HasSound, HasSoundAt
    <3>2. h.num \in Nat /\ Other(k) \in Node
      BY <1>A, TwoNodes
    <3> QED BY SMTT(30), <3>1, <3>2, <1>U, <1>N
  <2> QED BY <2>1, <2>2, <1>0, <1>A DEF HasSoundAt
<1>10. AloneOwned' /\ HasAll'
  <2>1. AloneOwned'
    BY <1>0 DEF ClusterInv, AloneOwned
  <2>2. ASSUME NEW k \in Node, NEW h \in alone, h.num <= loi'[k]
        PROVE  h \in has[k]
    BY <2>2, <1>D, <1>R DEF ClusterInv, HasAll
  <2> QED BY <2>1, <2>2, <1>0 DEF HasAll
<1>11. SafeSound'
  <2> SUFFICES ASSUME NEW r \in ps' PROVE SafeRecord(r)'
    BY DEF SafeSound
  <2>1. CASE r \in ps
    <3>1. /\ r.num <= loi[r.by] /\ r.has \subseteq alone
          /\ \A h \in r.has : h.num < r.num
          /\ \A h \in r.has : \A k \in Node : h.members = {k} => h.num < cur[k].num
          /\ \A h \in alone : h.num < r.num => h \in r.has
      BY <2>1 DEF ClusterInv, SafeSound, SafeRecord
    <3>2. r.num \in Nat /\ r.by \in Node
      BY <2>1, <1>T DEF Typed
    <3>3. r.num <= loi'[r.by]
      BY SMTT(30), <3>1, <3>2, <1>U, <1>N
    <3>4. \A h \in r.has : \A k \in Node : h.members = {k} => h.num < cur'[k].num
      BY SMTT(30), <3>1, <1>A, <1>U, <1>N
    <3> QED BY <3>1, <3>3, <3>4, <1>0 DEF SafeRecord
  <2>2. CASE r = ParallelSafe(g.num, i)
    <3>1. r.num = g.num /\ r.by = i /\ r.has = has[i]
      BY <2>2 DEF ParallelSafe
    <3>2. \A h \in has[i] : h.num < g.num
      BY SMTT(30), <1>E, <1>A, <1>N
    <3>3. \A h \in has[i] : \A k \in Node : h.members = {k} => h.num < cur'[k].num
      <4> SUFFICES ASSUME NEW h \in has[i], NEW k \in Node, h.members = {k}
                   PROVE  h.num < cur'[k].num
        OBVIOUS
      <4>1. CASE k = i
        BY <4>1, <3>2, <1>R
      <4>2. CASE k # i
        <5>1. k = Other(i)
          BY <4>2, TwoNodes
        <5> QED BY <5>1, <4>2, <1>R DEF ClusterInv, HasSound, HasSoundAt
      <4> QED BY <4>1, <4>2
    <3>4. \A h \in alone : h.num < g.num => h \in has[i]
      BY SMTT(30), <1>D, <1>A
    <3>5. g.num <= loi'[i]
      BY SMTT(30), <1>R, <1>A
    <3> QED BY <3>1, <3>2, <3>3, <3>4, <3>5, <1>0, <1>A DEF SafeRecord
  <2> QED BY <1>E, <2>1, <2>2
<1>12. GrantHeld'
  BY <1>0 DEF ClusterInv, GrantHeld
<1>13. GrantFresh'
  <2> SUFFICES ASSUME NEW k \in Node, Waits(k, "ask")', (call[k].state = "done")',
                      (cur[k].num < call[k].gen.num)'
               PROVE  (grant # None /\ grant.node = k /\ grant.num = call[k].gen.num)'
    BY DEF GrantFresh, FreshFor
  <2>1. Waits(k, "ask") /\ call'[k] = call[k] /\ call[k].gen.num \in Nat
    BY <1>7, <1>G
  <2>2. cur[k].num < call[k].gen.num
    BY SMTT(30), <2>1, <1>U, <1>N
  <2> QED BY <2>1, <2>2, <1>0 DEF ClusterInv, GrantFresh, FreshFor
<1> QED BY <1>2, <1>3, <1>4, <1>5, <1>6, <1>8, <1>9, <1>10, <1>11, <1>12, <1>13 DEF ClusterInv

\* i goes on alone: it is granted g, and all that was ever done alone is known
\* to it.
LEMMA AloneHasAll ==
    ASSUME NEW i \in Node, ClusterInv,
           Waits(i, "ask"), call[i].state = "done",
           cur[i].num < call[i].gen.num, vote[i].num <= call[i].gen.num
    PROVE  LET g == call[i].gen IN
           /\ g \in Gen /\ g.members = {i} /\ vote[i] = g
           /\ grant # None /\ grant.node = i /\ grant.num = g.num
           /\ \A b \in ballots : b.gen.num = g.num => b.node # i
           /\ \A b \in ballots : b.node = i => b.gen.num < g.num
           /\ \A h \in alone : h \in has[i] /\ h.num < g.num
           /\ \A k \in Node : loi[k] < g.num
<1> DEFINE g == call[i].gen
<1>1. g \in Gen
  BY DEF ClusterInv, Typed, Waits, Call
<1>2. g.members = {i} /\ g.num <= vote[i].num /\ (g.num = vote[i].num => vote[i] = g)
  BY DEF ClusterInv, CallsSound, CallSound
<1>3. g.num \in Nat /\ \A k \in Node : vote[k].num \in Nat /\ cur[k].num \in Nat /\ loi[k] \in Nat
  BY <1>1 DEF ClusterInv, Typed, Gen
<1>4. vote[i] = g
  BY SMTT(30), <1>2, <1>3
<1>5. grant # None /\ grant.node = i /\ grant.num = g.num
  BY DEF ClusterInv, GrantFresh, FreshFor
<1>6. ASSUME NEW b \in ballots, b.node = i
      PROVE  b.gen.num < g.num
  <2>1. /\ b.gen.members = Node /\ b.gen.num <= vote[i].num
        /\ b.gen.num = vote[i].num => vote[i] = b.gen
    BY <1>6 DEF ClusterInv, BallotsBind, Binds
  <2>2. b.gen # g
    BY <2>1, <1>2, NotBoth
  <2>3. b.gen.num \in Nat
    BY DEF ClusterInv, Typed, Gen
  <2> QED BY SMTT(30), <2>1, <2>2, <2>3, <1>3, <1>4
<1>7. loi[i] < g.num
  BY SMTT(30), <1>3 DEF ClusterInv, NumbersOrdered, OrderedAt
<1>8. ASSUME NEW h \in alone
      PROVE  h \in has[i] /\ h.num < g.num
  <2>1. h \in has[i]
    <3>1. CASE h.members = {i}
      <4>1. PICK k \in Node : h.members = {k} /\ h \in has[k]
        BY DEF ClusterInv, AloneOwned
      <4> QED BY <4>1, <3>1
    <3>2. CASE h.members # {i}
      <4>1. h.members = {Other(i)} /\ Other(i) \in Node /\ Other(Other(i)) = i /\ Other(i) # i
        BY <3>2, TwoNodes DEF ClusterInv, AloneOwned
      <4>2. h \notin has[i] => grant.node = Other(i)
        BY <4>1 DEF ClusterInv, GrantHeld
      <4> QED BY <4>1, <4>2, <1>5
    <3> QED BY <3>1, <3>2
  <2>2. h.num \in Nat /\ h.num <= loi[i]
    BY <2>1 DEF ClusterInv, HasSound, HasSoundAt, Typed, Gen
  <2> QED BY SMTT(30), <2>1, <2>2, <1>3, <1>7
<1>9. loi[Other(i)] < g.num
  <2>1. Other(i) \in Node /\ Other(Other(i)) = i /\ loi[i] \in Nat \ {0}
    BY TwoNodes DEF ClusterInv, Typed
  <2>2. LastOnlineAt(Other(i))
    BY <2>1 DEF ClusterInv, LastOnline
  <2>3. CASE loi[Other(i)] = 1
    BY SMTT(30), <2>1, <2>3, <1>3, <1>7
  <2>4. CASE \E b \in ballots : b.node = i /\ b.gen.num = loi[Other(i)]
    BY <2>4, <1>6
  <2>5. CASE \E h \in alone : h.members = {Other(i)} /\ h.num = loi[Other(i)]
    BY <2>5, <1>8
  <2> QED BY <2>1, <2>2, <2>3, <2>4, <2>5 DEF LastOnlineAt
<1>10. \A k \in Node : loi[k] < g.num
  BY <1>7, <1>9, TwoNodes
<1>11. \A b \in ballots : b.gen.num = g.num => b.node # i
  BY SMTT(30), <1>3, <1>6
<1> QED BY <1>1, <1>2, <1>4, <1>5, <1>6, <1>8, <1>10, <1>11

\* The answer i waits for is the grant of g, and i has voted for nothing newer.
Granting(i, g) ==
    /\ Waits(i, "ask") /\ call[i].state = "done" /\ g = call[i].gen
    /\ vote[i].num <= g.num

\* With the grant a node goes on alone: it has all that its peer did alone,
\* since else the peer would hold the grant.
LEMMA SwitchAlone ==
    ASSUME NEW i \in Node, NEW g, ClusterInv, Calmly,
           Granting(i, g), GoesOnline(i, g, {i}),
           alone' = alone \cup {g}, has' = [has EXCEPT ![i] = @ \cup {g}],
           call'[i] = None
    PROVE  ClusterInv'
<1>0. UNCHANGED <<ballots, grant>>
  BY DEF Calmly
<1>E. /\ cur[i].num < g.num
      /\ donors' = [donors EXCEPT ![i] = {i}] /\ ps' = ps \cup {ParallelSafe(g.num, i)}
  BY DEF GoesOnline
<1>T. Typed
  BY DEF ClusterInv
<1>H. /\ g \in Gen /\ g.members = {i}
      /\ grant # None /\ grant.node = i /\ grant.num = g.num
      /\ \A b \in ballots : b.node = i => b.gen.num < g.num
      /\ \A h \in alone : h \in has[i] /\ h.num < g.num
      /\ \A k \in Node : loi[k] < g.num
  BY <1>E, AloneHasAll DEF Granting
<1>R. /\ cur' \in [Node -> Gen] /\ vote' \in [Node -> Gen] /\ loi' \in [Node -> Nat \ {0}]
      /\ cur'[i] = g /\ loi'[i] = g.num
      /\ \A k \in Node \ {i} : cur'[k] = cur[k] /\ loi'[k] = loi[k] /\ vote'[k] = vote[k]
  BY NumbersRise, <1>H
<1>N. \A k \in Node : /\ cur[k].num \in Nat /\ cur'[k].num \in Nat
                      /\ vote[k].num \in Nat /\ vote'[k].num \in Nat
                      /\ loi[k] \in Nat /\ loi'[k] \in Nat
  BY NumbersRise, <1>H
<1>U. /\ \A k \in Node : cur[k].num <= cur'[k].num /\ loi[k] <= loi'[k]
      /\ \A k \in Node : vote'[k] = vote[k] \/ vote[k].num < vote'[k].num
      /\ \A k \in Node : loi'[k] <= cur'[k].num /\ cur'[k].num <= vote'[k].num
  BY NumbersRise, <1>H
<1>A. /\ \A h \in alone : h.num \in Nat
      /\ \A k \in Node : has[k] \subseteq alone /\ \A h \in has[k] : h.num <= loi[k]
      /\ g.num \in Nat
      /\ g \notin alone
  BY SMTT(30), <1>T, <1>H DEF ClusterInv, HasSound, HasSoundAt, Typed, Gen
<1>S. /\ has'[i] = has[i] \cup {g}
      /\ \A k \in Node \ {i} : has'[k] = has[k]
      /\ has' \in [Node -> SUBSET Gen]
  BY <1>T, <1>H DEF Typed
<1>2. Typed'
  <2>1. ParallelSafe(g.num, i) \in [num : Nat, by : Node, has : SUBSET Gen, wal : SUBSET Rec]
    BY <1>A, <1>T DEF ParallelSafe, Typed
  <2>2. /\ donors' \in [Node -> SUBSET Node]
        /\ ps' \subseteq [num : Nat, by : Node, has : SUBSET Gen, wal : SUBSET Rec]
        /\ alone' \subseteq Gen
    BY <1>E, <2>1, <1>T, <1>H DEF Typed
  <2> QED BY <2>2, <1>0, <1>T, <1>R, <1>S DEF Typed, Calmly
<1>3. NumbersOrdered'
  BY <1>U DEF NumbersOrdered, OrderedAt, Calmly
<1>4. BallotsBind'
  <2> SUFFICES ASSUME NEW b \in ballots' PROVE Binds(b)'
    BY DEF BallotsBind
  <2>1. b \in ballots /\ b.node \in Node /\ b.gen.num \in Nat /\ b.loi \in Nat
    BY <1>0, <1>T DEF Typed, Gen
  <2>2. /\ b.gen.members = Node
        /\ b.gen.num <= vote[b.node].num
        /\ b.gen.num = vote[b.node].num => vote[b.node] = b.gen
        /\ b.loi <= loi[b.node] /\ b.loi < b.gen.num
        /\ \A h \in alone : h.members = {b.node} /\ h.num <= b.gen.num => h.num <= b.loi
    BY <2>1 DEF ClusterInv, BallotsBind, Binds
  <2>3. /\ b.gen.num <= vote'[b.node].num
        /\ b.gen.num = vote'[b.node].num => vote'[b.node] = b.gen
    BY SMTT(30), <2>1, <2>2, <1>U, <1>N
  <2>4. b.loi <= loi'[b.node]
    BY SMTT(30), <2>1, <2>2, <1>U, <1>N
  <2>5. g.members = {b.node} => ~(g.num <= b.gen.num)
    <3>1. g.members = {b.node} => b.node = i
      BY <1>H
    <3>2. b.node = i => b.gen.num < g.num
      BY <2>1, <1>H
    <3> QED BY SMTT(30), <2>1, <3>1, <3>2, <1>A
  <2> QED BY <2>2, <2>3, <2>4, <2>5 DEF Binds
<1>5. CurrentElected'
  <2> SUFFICES ASSUME NEW k \in Node PROVE ElectedAt(k)'
    BY DEF CurrentElected
  <2>1. \A n, h : Advanced(n, h)' = Advanced(n, h)
    BY <1>0 DEF Advanced
  <2>2. CASE k = i
    BY <2>2, <1>R, <1>H DEF ElectedAt
  <2>3. CASE k # i
    <3>1. cur'[k] = cur[k] /\ donors'[k] = donors[k] /\ Online(k)' = Online(k)
      BY <1>E, <2>3, <1>R, <1>T DEF Typed, Online
    <3>2. Other(k) = i /\ cur[i].num <= cur'[i].num
      BY <2>3, TwoNodes, <1>U
    <3>3. cur[k].num <= cur[Other(k)].num => cur'[k].num <= cur'[Other(k)].num
      BY SMTT(30), <3>1, <3>2, <1>N
    <3>4. ElectedAt(k) /\ alone \subseteq alone'
      BY DEF ClusterInv, CurrentElected
    <3> QED BY <3>1, <3>3, <3>4, <2>1 DEF ElectedAt
  <2> QED BY <2>2, <2>3
<1>6. LastOnline'
  <2> SUFFICES ASSUME NEW k \in Node PROVE LastOnlineAt(k)'
    BY DEF LastOnline
  <2>1. CASE k = i
    BY <2>1, <1>H, <1>R DEF LastOnlineAt
  <2>2. CASE k # i
    <3>1. LastOnlineAt(k) /\ loi'[k] = loi[k]
      BY <2>2, <1>R DEF ClusterInv, LastOnline
    <3> QED BY <3>1, <1>0 DEF LastOnlineAt
  <2> QED BY <2>1, <2>2
<1>7. \A k \in Node : \A op : Waits(k, op)' => k # i /\ Waits(k, op) /\ call'[k] = call[k]
  BY DEF Waits, Calmly
<1>G. \A k \in Node : \A op : Waits(k, op) => call[k].gen.num \in Nat
  BY <1>T DEF Typed, Waits, Call, Gen
<1>8. CallsSound'
  <2> SUFFICES ASSUME NEW k \in Node PROVE CallSound(k)'
    BY DEF CallsSound
  <2>1. Waits(k, "ask")' =>
            /\ call'[k].gen.members = {k}
            /\ call'[k].gen.num <= vote'[k].num
            /\ call'[k].gen.num = vote'[k].num => vote'[k] = call'[k].gen
    BY <1>7, <1>R DEF ClusterInv, CallsSound, CallSound
  <2>2. Waits(k, "clear")' =>
            /\ call'[k].gen.num <= loi'[k] /\ call'[k].gen.num <= loi'[Other(k)]
            /\ \A h \in alone' : h.members = {k} => h.num <= call'[k].gen.num
    <3> HAVE Waits(k, "clear")'
    <3>1. /\ call[k].gen.num <= loi[k] /\ call[k].gen.num <= loi[Other(k)]
          /\ \A h \in alone : h.members = {k} => h.num <= call[k].gen.num
          /\ call'[k] = call[k]
      BY <1>7 DEF ClusterInv, CallsSound, CallSound
    <3>2. call[k].gen.num \in Nat /\ Other(k) \in Node
      BY <1>7, <1>G, TwoNodes
    <3>3. g.members # {k}
      BY <1>7, <1>H
    <3> QED BY SMTT(30), <3>1, <3>2, <3>3, <1>U, <1>N
  <2>3. Waits(k, "tour")' => call'[k].gen.members = Node
    BY <1>7 DEF ClusterInv, CallsSound, CallSound
  <2> QED BY <2>1, <2>2, <2>3 DEF CallSound
<1>9. HasSound'
  <2> SUFFICES ASSUME NEW k \in Node PROVE HasSoundAt(k)'
    BY DEF HasSound
  <2>1. has'[k] \subseteq alone'
    BY <1>A, <1>S
  <2>2. \A h \in has'[k] : h.num <= loi'[k]
    BY SMTT(30), <1>A, <1>S, <1>U, <1>N, <1>R
  <2>3. \A h \in has'[k] : h.members = {Other(k)} => h.num < cur'[Other(k)].num
    <3> SUFFICES ASSUME NEW h \in has'[k], h.members = {Other(k)}
                 PROVE  h.num < cur'[Other(k)].num
      OBVIOUS
    <3>1. h \in has[k]
      BY <1>S, <1>H, TwoNodes
    <3>2. h.num < cur[Other(k)].num
      BY <3>1 DEF ClusterInv, HasSound, HasSoundAt
    <3>3. h.num \in Nat /\ Other(k) \in Node
      BY <3>1, <1>A, TwoNodes
    <3> QED BY SMTT(30), <3>2, <3>3, <1>U, <1>N
  <2> QED BY <2>1, <2>2, <2>3 DEF HasSoundAt
<1>10. AloneOwned'
  <2> SUFFICES ASSUME NEW h \in alone'
               PROVE  1 < h.num /\ \E k \in Node : h.members = {k} /\ h \in has'[k]
    BY DEF AloneOwned
  <2>1. CASE h = g
    <3>1. 1 < g.num
      <4>1. loi[i] \in Nat \ {0} /\ loi[i] < g.num
        BY <1>H, <1>T DEF Typed
      <4> QED BY SMTT(30), <4>1, <1>A
    <3> QED BY <2>1, <3>1, <1>H, <1>S
  <2>2. CASE h \in alone
    <3>1. PICK k \in Node : h.members = {k} /\ h \in has[k]
      BY <2>2 DEF ClusterInv, AloneOwned
    <3>2. h \in has'[k] /\ 1 < h.num
      BY <2>2, <3>1, <1>S DEF ClusterInv, AloneOwned
    <3> QED BY <3>1, <3>2
  <2> QED BY <2>1, <2>2
<1>11. HasAll'
  <2> SUFFICES ASSUME NEW k \in Node, NEW h \in alone', h.num <= loi'[k]
               PROVE  h \in has'[k]
    BY DEF HasAll
  <2>1. CASE k = i
    BY <2>1, <1>H, <1>S
  <2>2. CASE k # i
    <3>1. loi'[k] = loi[k] /\ has'[k] = has[k] /\ loi[k] < g.num
      BY <2>2, <1>R, <1>S, <1>H
    <3>2. h # g
      BY SMTT(30), <3>1, <1>N, <1>A
    <3> QED BY <3>1, <3>2 DEF ClusterInv, HasAll
  <2> QED BY <2>1, <2>2
<1>12. SafeSound'
  <2> SUFFICES ASSUME NEW r \in ps' PROVE SafeRecord(r)'
    BY DEF SafeSound
  <2>1. CASE r \in ps
    <3>1. /\ r.num <= loi[r.by] /\ r.has \subseteq alone
          /\ \A h \in r.has : h.num < r.num
          /\ \A h \in r.has : \A k \in Node : h.members = {k} => h.num < cur[k].num
          /\ \A h \in alone : h.num < r.num => h \in r.has
      BY <2>1 DEF ClusterInv, SafeSound, SafeRecord
    <3>2. r.num \in Nat /\ r.by \in Node
      BY <2>1, <1>T DEF Typed
    <3>3. r.num <= loi'[r.by]
      BY SMTT(30), <3>1, <3>2, <1>U, <1>N
    <3>4. \A h \in r.has : \A k \in Node : h.members = {k} => h.num < cur'[k].num
      BY SMTT(30), <3>1, <1>A, <1>U, <1>N
    <3>5. ~(g.num < r.num)
      BY SMTT(30), <3>1, <3>2, <1>H, <1>A, <1>N
    <3> QED BY <3>1, <3>3, <3>4, <3>5 DEF SafeRecord
  <2>2. CASE r = ParallelSafe(g.num, i)
    <3>1. r.num = g.num /\ r.by = i /\ r.has = has[i]
      BY <2>2 DEF ParallelSafe
    <3>2. \A h \in has[i] : h.num < g.num
      BY <1>A, <1>H
    <3>3. \A h \in has[i] : \A k \in Node : h.members = {k} => h.num < cur'[k].num
      <4> SUFFICES ASSUME NEW h \in has[i], NEW k \in Node, h.members = {k}
                   PROVE  h.num < cur'[k].num
        OBVIOUS
      <4>1. CASE k = i
        BY <4>1, <3>2, <1>R
      <4>2. CASE k # i
        <5>1. k = Other(i)
          BY <4>2, TwoNodes
        <5> QED BY <5>1, <4>2, <1>R DEF ClusterInv, HasSound, HasSoundAt
      <4> QED BY <4>1, <4>2
    <3>4. \A h \in alone' : h.num < g.num => h \in has[i]
      BY SMTT(30), <1>H, <1>A
    <3>5. g.num <= loi'[i]
      BY SMTT(30), <1>R, <1>A
    <3>6. has[i] \subseteq alone'
      BY <1>A
    <3> QED BY <3>1, <3>2, <3>3, <3>4, <3>5, <3>6 DEF SafeRecord
  <2> QED BY <1>E, <2>1, <2>2
<1>13. GrantHeld'
  <2> SUFFICES ASSUME NEW k \in Node, NEW h \in alone', h.members = {k}, h \notin has'[Other(k)]
               PROVE  grant # None /\ grant.node = k /\ h.num <= grant.num
    BY <1>0 DEF GrantHeld
  <2>1. CASE h = g
    <3>1. k = i
      BY <2>1, <1>H
    <3> QED BY SMTT(30), <2>1, <3>1, <1>H, <1>A
  <2>2. CASE h \in alone
    <3>1. Other(k) # i
      BY <2>2, <1>H, <1>S
    <3>2. k = i
      BY <3>1, TwoNodes
    <3>3. h.num < g.num
      BY <2>2, <1>H
    <3> QED BY SMTT(30), <2>2, <3>2, <3>3, <1>H, <1>A
  <2> QED BY <2>1, <2>2
<1>14. GrantFresh'
  <2> SUFFICES ASSUME NEW k \in Node, Waits(k, "ask")', (call[k].state = "done")',
                      (cur[k].num < call[k].gen.num)'
               PROVE  (grant # None /\ grant.node = k /\ grant.num = call[k].gen.num)'
    BY DEF GrantFresh, FreshFor
  <2>1. Waits(k, "ask") /\ call'[k] = call[k] /\ call[k].gen.num \in Nat
    BY <1>7, <1>G
  <2>2. cur[k].num < call[k].gen.num
    BY SMTT(30), <2>1, <1>U, <1>N
  <2> QED BY <2>1, <2>2, <1>0 DEF ClusterInv, GrantFresh, FreshFor
<1> QED BY <1>2, <1>3, <1>4, <1>5, <1>6, <1>8, <1>9, <1>10, <1>11, <1>12, <1>13, <1>14
        DEF ClusterInv

\* Every way to switch generation keeps the invariant of the cluster.
LEMMA SwitchKeeps ==
    ASSUME NEW i \in Node, NEW g \in Gen, NEW D \in SUBSET Node,
           ClusterInv, Calmly, Offered(i, g, D),
           g.members = {i} => /\ Waits(i, "ask") /\ call[i].state = "done" /\ g = call[i].gen
                              /\ call'[i] = None,
           MtmConsiderGenSwitch(i, g, D),
           vote' = [vote EXCEPT ![i] = Vote(i, g)]
    PROVE  ClusterInv'
<1>T. Typed
  BY DEF ClusterInv
<1>N. cur[i].num \in Nat /\ vote[i].num \in Nat /\ g.num \in Nat /\ cur[i].num <= vote[i].num
  BY DEF ClusterInv, Typed, Gen, NumbersOrdered, OrderedAt
<1>1. CASE ~(cur[i].num < g.num)
  <2>1. vote' = vote
    BY SMTT(30), <1>1, <1>N, <1>T DEF Vote, Typed
  <2>2. UNCHANGED <<elect, data>>
    BY <2>1, <1>1 DEF MtmConsiderGenSwitch, elect, data, Calmly
  <2> QED BY <2>2, CalmKeeps
<1>2. CASE cur[i].num < g.num
  <2>1. Switch(i, g, D)
    BY <1>2 DEF MtmConsiderGenSwitch
  <2>2. cur' = [cur EXCEPT ![i] = g] /\ donors' = [donors EXCEPT ![i] = D]
    BY <2>1 DEF Switch
  <2>3. CASE ~(i \in g.members /\ vote[i].num <= g.num /\ i \in D)
    <3>1. UNCHANGED <<loi, data>>
      BY <2>1, <2>3 DEF Switch
    <3> QED BY <3>1, <2>2, <1>2, SwitchOffline DEF StaysOffline
  <2>4. CASE i \in g.members /\ vote[i].num <= g.num /\ i \in D
    <3>1. /\ loi' = [loi EXCEPT ![i] = g.num]
          /\ ps' = ps \cup {ParallelSafe(g.num, i)}
          /\ alone' = alone \cup (IF IsRefereeGen(g) THEN {g} ELSE {})
          /\ has' = [has EXCEPT ![i] = @ \cup (IF IsRefereeGen(g) THEN {g} ELSE {})]
      BY <2>1, <2>4 DEF Switch
    <3>2. CASE g.members = Node
      <4>1. ~IsRefereeGen(g)
        BY <3>2, RefereeGens
      <4>2. UNCHANGED <<alone, has>>
        BY <4>1, <3>1, <1>T DEF Typed
      <4>3. \A k \in D : Advanced(k, g)
        BY <3>2, NotBoth DEF Offered
      <4>4. GoesOnline(i, g, D)
        BY <3>1, <2>2, <1>2 DEF GoesOnline
      <4> QED BY <4>2, <4>3, <4>4, <3>2, <2>4, SwitchDonor
    <3>3. CASE g.members = {i} /\ D = {i}
      <4>1. IsRefereeGen(g)
        BY <3>3, RefereeGens
      <4>2. alone' = alone \cup {g} /\ has' = [has EXCEPT ![i] = @ \cup {g}]
        BY <4>1, <3>1
      <4>3. GoesOnline(i, g, {i}) /\ Granting(i, g) /\ call'[i] = None
        BY <3>1, <3>3, <2>2, <2>4, <1>2 DEF GoesOnline, Granting
      <4> QED BY <4>2, <4>3, SwitchAlone
    <3>4. g.members # {Other(i)}
      BY <2>4, TwoNodes
    <3> QED BY <3>2, <3>3, <3>4 DEF Offered
  <2> QED BY <2>3, <2>4
<1> QED BY <1>1, <1>2

----------------------------------------------------------------------------
(* The actions that switch.                                                *)

\* A node hears of its peer's generation.
LEMMA HeartbeatStep ==
    ASSUME NEW i \in Node, ClusterInv, Heartbeat(i)
    PROVE  ClusterInv'
<1> DEFINE j == Other(i)
<1>T. Typed
  BY DEF ClusterInv
<1>J. j \in Node /\ j # i /\ Other(j) = i /\ Node = {i, j}
  BY TwoNodes
<1>0. /\ MtmConsiderGenSwitch(i, cur[j], donors[j])
      /\ vote' = [vote EXCEPT ![i] = Vote(i, cur[j])]
      /\ seen' = [seen EXCEPT ![i] = loi[j]]
      /\ UNCHANGED <<ballots, call, grant, wal, busy>>
  BY DEF Heartbeat, xact
<1>N. \A k \in Node : loi[k] \in Nat /\ cur[k].num \in Nat /\ loi[k] <= cur[k].num
  BY DEF ClusterInv, Typed, Gen, NumbersOrdered, OrderedAt
<1>1. cur[j] \in Gen /\ donors[j] \in SUBSET Node
  BY <1>J, <1>T DEF Typed
<1>2. \A k \in Node : loi'[k] \in Nat /\ loi[k] <= loi'[k]
  <2>1. loi' = loi \/ (loi' = [loi EXCEPT ![i] = cur[j].num] /\ cur[i].num < cur[j].num)
    BY <1>0 DEF MtmConsiderGenSwitch, Switch
  <2>2. loi \in [Node -> Nat]
    BY <1>T DEF Typed
  <2> QED BY SMTT(30), <2>1, <2>2, <1>J, <1>N
<1>3. Calmly
  <2>1. seen' \in [Node -> Nat] /\ seen'[i] = loi[j] /\ seen'[j] = seen[j]
    BY <1>0, <1>T, <1>J, <1>N DEF Typed
  <2>2. seen[j] <= loi[i] /\ seen[j] \in Nat
    BY <1>J, <1>T DEF ClusterInv, NumbersOrdered, OrderedAt, Typed
  <2>3. seen'[i] <= loi'[j] /\ seen'[j] <= loi'[i]
    BY SMTT(30), <2>1, <2>2, <1>2, <1>J, <1>N
  <2>4. \A k \in Node : seen'[k] <= loi'[Other(k)]
    BY <2>3, <1>J
  <2> QED BY <2>1, <2>4, <1>0, <1>T DEF Calmly, Typed
<1>4. CASE cur[i].num < cur[j].num
  <2>1. ElectedAt(j)
    BY <1>J DEF ClusterInv, CurrentElected
  <2>2. cur[j].members # {i}
    BY SMTT(30), <2>1, <1>4, <1>N, <1>J, NotBoth DEF ElectedAt
  <2>3. cur[j].num # 1
    <3>1. cur[i].num # 0
      BY <1>T DEF Typed, Gen
    <3> QED BY SMTT(30), <3>1, <1>4, <1>N, <1>J
  <2>4. Offered(i, cur[j], donors[j])
    BY SMTT(30), <2>1, <2>2, <2>3, <1>J, <1>N DEF ElectedAt, Offered
  <2> QED BY <2>2, <2>4, <1>0, <1>1, <1>3, SwitchKeeps
<1>5. CASE ~(cur[i].num < cur[j].num)
  <2>1. ~(vote[i].num < cur[j].num)
    BY SMTT(30), <1>5, <1>N, <1>J DEF ClusterInv, NumbersOrdered, OrderedAt, Typed, Gen
  <2>2. vote' = vote
    BY <2>1, <1>0, <1>T DEF Vote, Typed
  <2>3. UNCHANGED <<elect, data>>
    BY <2>2, <1>0, <1>5 DEF MtmConsiderGenSwitch, elect, data
  <2> QED BY <2>3, <1>3, CalmKeeps
<1> QED BY <1>4, <1>5

\* Who wins a tour has the votes of both.
LEMMA ElectedDonors ==
    ASSUME NEW g, Typed, {b.node : b \in BallotsFor(g)} = Node
    PROVE  /\ MostAdvanced(BallotsFor(g)) \in SUBSET Node
           /\ \A k \in MostAdvanced(BallotsFor(g)) : Advanced(k, g)
<1> DEFINE Q == BallotsFor(g)
<1>1. Q \subseteq ballots /\ \A b \in Q : b.gen = g
  BY DEF BallotsFor
<1>2. ASSUME NEW k \in MostAdvanced(Q)
      PROVE  k \in Node /\ Advanced(k, g)
  <2>1. PICK b \in Q : b.node = k /\ \A d \in Q : d.loi <= b.loi
    BY <1>2 DEF MostAdvanced
  <2>2. k \in Node
    BY <2>1
  <2>3. PICK c \in Q : c.node = Other(k)
    BY <2>2, TwoNodes
  <2> QED BY <2>1, <2>2, <2>3, <1>1 DEF Advanced
<1> QED BY <1>2

\* A call of i returns.
LEMMA CallReturns ==
    ASSUME NEW i \in Node, ClusterInv, Returns(i),
           \A k \in Node : loi'[k] \in Nat /\ loi[k] <= loi'[k],
           UNCHANGED <<ballots, seen, grant, wal, busy>>
    PROVE  Calmly /\ call'[i] = None
<1>1. call' \in [Node -> Call \cup {None}] /\ call'[i] = None
      /\ \A k \in Node : call'[k] = call[k] \/ call'[k] = None
  BY DEF Returns, ClusterInv, Typed
<1>2. ASSUME NEW k \in Node
      PROVE  seen'[k] <= loi'[Other(k)]
  <2>1. seen[k] <= loi[Other(k)] /\ Other(k) \in Node
    BY TwoNodes DEF ClusterInv, NumbersOrdered, OrderedAt
  <2>2. seen[k] \in Nat /\ loi[Other(k)] \in Nat
    BY <2>1 DEF ClusterInv, Typed
  <2> QED BY SMTT(30), <2>1, <2>2
<1> QED BY <1>1, <1>2 DEF Calmly, ClusterInv, Typed

\* last_online_in never falls.
LEMMA SwitchRaises ==
    ASSUME NEW i \in Node, NEW g \in Gen, NEW D, ClusterInv, MtmConsiderGenSwitch(i, g, D)
    PROVE  \A k \in Node : loi'[k] \in Nat /\ loi[k] <= loi'[k]
<1>1. loi' = loi \/ (loi' = [loi EXCEPT ![i] = g.num] /\ cur[i].num < g.num)
  BY DEF MtmConsiderGenSwitch, Switch
<1>2. loi \in [Node -> Nat] /\ loi[i] <= cur[i].num /\ cur[i].num \in Nat /\ g.num \in Nat
  BY DEF ClusterInv, Typed, NumbersOrdered, OrderedAt, Gen
<1> QED BY SMTT(30), <1>1, <1>2

\* A tour that both voted in.
LEMMA TourWonStep ==
    ASSUME NEW i \in Node, ClusterInv, TourWon(i)
    PROVE  ClusterInv'
<1> DEFINE g == call[i].gen
           D == MostAdvanced(BallotsFor(g))
<1>0. /\ Waits(i, "tour") /\ {b.node : b \in BallotsFor(g)} = Node
      /\ MtmConsiderGenSwitch(i, g, D)
      /\ vote' = [vote EXCEPT ![i] = Vote(i, g)]
      /\ Returns(i)
      /\ UNCHANGED <<ballots, seen, grant, wal, busy>>
  BY DEF TourWon, xact
<1>1. g \in Gen /\ g.members = Node
  BY <1>0 DEF ClusterInv, Typed, Waits, Call, CallsSound, CallSound
<1>2. D \in SUBSET Node /\ \A k \in D : Advanced(k, g)
  BY <1>0, ElectedDonors DEF ClusterInv
<1>3. Calmly
  BY <1>0, <1>1, SwitchRaises, CallReturns
<1>4. g.members # {i} /\ Offered(i, g, D)
  BY <1>1, <1>2, NotBoth DEF Offered
<1> HIDE DEF g, D
<1> QED BY <1>0, <1>1, <1>2, <1>3, <1>4, SwitchKeeps

\* A campaigner has got the grant.
LEMMA GrantedStep ==
    ASSUME NEW i \in Node, ClusterInv, Granted(i)
    PROVE  ClusterInv'
<1>0. /\ Waits(i, "ask") /\ call[i].state = "done"
      /\ MtmConsiderGenSwitch(i, call[i].gen, {i})
      /\ vote' = [vote EXCEPT ![i] = Vote(i, call[i].gen)]
      /\ Returns(i)
      /\ UNCHANGED <<ballots, seen, grant, wal, busy>>
  BY DEF Granted, xact
<1>1. call[i].gen \in Gen /\ call[i].gen.members = {i}
  BY <1>0 DEF ClusterInv, Typed, Waits, Call, CallsSound, CallSound
<1>2. Calmly /\ call'[i] = None
  BY <1>0, <1>1, SwitchRaises, CallReturns
<1>3. Offered(i, call[i].gen, {i})
  BY <1>1 DEF Offered
<1> QED BY <1>0, <1>1, <1>2, <1>3, SwitchKeeps

----------------------------------------------------------------------------
(* Votes.                                                                  *)

\* i votes for g, which is new or what it has voted for.
Promised(i, g) ==
    /\ vote[i] = g \/ vote[i].num < g.num
    /\ vote' = [vote EXCEPT ![i] = g]
    /\ \/ UNCHANGED ballots
       \/ /\ ballots' = ballots \cup {[node |-> i, gen |-> g, loi |-> loi[i]]}
          /\ g.members = Node /\ loi[i] < g.num

\* It may ask for g with it.
CallBegins(i, g) ==
    /\ call' \in [Node -> Call \cup {None}]
    /\ \A k \in Node \ {i} : call'[k] = call[k]
    /\ \/ call'[i] = call[i]
       \/ call'[i] = [op |-> "ask", gen |-> g, state |-> "sent"] /\ g.members = {i}
       \/ call'[i] = [op |-> "tour", gen |-> g, state |-> "sent"] /\ g.members = Node

\* i votes for g: anew, or again, with a ballot when g is of both.
LEMMA VoteKeeps ==
    ASSUME NEW i \in Node, NEW g \in Gen, ClusterInv,
           Promised(i, g), CallBegins(i, g),
           UNCHANGED <<cur, donors, loi, seen, grant, data, xact>>
    PROVE  ClusterInv'
<1>0. UNCHANGED <<cur, donors, loi, seen, grant, alone, has, ps, wal, busy>>
  BY DEF data, xact
<1>E. /\ call' \in [Node -> Call \cup {None}]
      /\ \A k \in Node \ {i} : call'[k] = call[k]
      /\ \/ call'[i] = call[i]
         \/ call'[i] = [op |-> "ask", gen |-> g, state |-> "sent"] /\ g.members = {i}
         \/ call'[i] = [op |-> "tour", gen |-> g, state |-> "sent"] /\ g.members = Node
  BY DEF CallBegins
<1>T. Typed
  BY DEF ClusterInv
<1>V. /\ vote' \in [Node -> Gen] /\ vote'[i] = g
      /\ \A k \in Node : vote'[k] = vote[k] \/ vote[k].num < vote'[k].num
      /\ \A k \in Node : vote[k].num \in Nat /\ vote'[k].num \in Nat
      /\ \A k \in Node : cur[k].num \in Nat /\ loi[k] \in Nat
  BY <1>T DEF Typed, Gen, Promised
<1>B. /\ ballots \subseteq ballots'
      /\ \A b \in ballots' : \/ b \in ballots
                             \/ /\ b = [node |-> i, gen |-> g, loi |-> loi[i]]
                                /\ g.members = Node /\ loi[i] < g.num
  BY DEF Promised
<1>2. Typed'
  <2>1. [node |-> i, gen |-> g, loi |-> loi[i]] \in [node : Node, gen : Gen, loi : Nat]
    BY <1>V
  <2>2. ballots' \subseteq [node : Node, gen : Gen, loi : Nat]
    BY <2>1, <1>B, <1>T DEF Typed
  <2> QED BY <1>E, <2>2, <1>0, <1>T, <1>V DEF Typed
<1>3. NumbersOrdered'
  <2> SUFFICES ASSUME NEW k \in Node PROVE OrderedAt(k)'
    BY DEF NumbersOrdered
  <2>1. OrderedAt(k)
    BY DEF ClusterInv, NumbersOrdered
  <2>2. cur[k].num <= vote'[k].num
    BY SMTT(30), <2>1, <1>V DEF OrderedAt
  <2> QED BY <2>1, <2>2, <1>0 DEF OrderedAt
<1>4. BallotsBind'
  <2> SUFFICES ASSUME NEW b \in ballots' PROVE Binds(b)'
    BY DEF BallotsBind
  <2>1. CASE b \in ballots
    <3>1. Binds(b) /\ b.node \in Node /\ b.gen.num \in Nat
      BY <2>1, <1>T DEF ClusterInv, BallotsBind, Typed, Gen
    <3>2. /\ b.gen.num <= vote'[b.node].num
          /\ b.gen.num = vote'[b.node].num => vote'[b.node] = b.gen
      BY SMTT(30), <3>1, <1>V DEF Binds
    <3> QED BY <3>1, <3>2, <1>0 DEF Binds
  <2>2. CASE b \notin ballots
    <3>1. b.node = i /\ b.gen = g /\ b.loi = loi[i] /\ g.members = Node /\ loi[i] < g.num
      BY SMTT(30), <2>2, <1>B
    <3>2. ASSUME NEW h \in alone, h.members = {i}
          PROVE  h.num <= loi[i]
      <4>1. PICK k \in Node : h.members = {k} /\ h \in has[k]
        BY DEF ClusterInv, AloneOwned
      <4>2. k = i
        BY <3>2, <4>1
      <4> QED BY <4>1, <4>2 DEF ClusterInv, HasSound, HasSoundAt
    <3>3. g.num <= vote'[i].num /\ loi[i] <= loi[i]
      BY SMTT(30), <1>V
    <3> QED BY <3>1, <3>2, <3>3, <1>0, <1>V DEF Binds
  <2> QED BY <2>1, <2>2
<1>5. CurrentElected'
  <2> SUFFICES ASSUME NEW k \in Node PROVE ElectedAt(k)'
    BY DEF CurrentElected
  <2>1. \A n, h : Advanced(n, h) => Advanced(n, h)'
    BY <1>B DEF Advanced
  <2>2. ElectedAt(k) /\ Online(k)' = Online(k)
    BY <1>0 DEF ClusterInv, CurrentElected, Online
  <2> QED BY <2>1, <2>2, <1>0 DEF ElectedAt
<1>6. LastOnline'
  <2> SUFFICES ASSUME NEW k \in Node PROVE LastOnlineAt(k)'
    BY DEF LastOnline
  <2>1. LastOnlineAt(k)
    BY DEF ClusterInv, LastOnline
  <2> QED BY <2>1, <1>0, <1>B DEF LastOnlineAt
<1>7. CallsSound'
  <2> SUFFICES ASSUME NEW k \in Node PROVE CallSound(k)'
    BY DEF CallsSound
  <2>0. CallSound(k)
    BY DEF ClusterInv, CallsSound
  <2>1. CASE call'[k] = call[k]
    <3>0. \A op : Waits(k, op)' = Waits(k, op)
      BY <2>1 DEF Waits
    <3>1. Waits(k, "ask") => call[k].gen.num \in Nat
      BY <1>T DEF Typed, Waits, Call, Gen
    <3>2. Waits(k, "ask") => /\ call[k].gen.num <= vote'[k].num
                             /\ call[k].gen.num = vote'[k].num => vote'[k] = call[k].gen
      BY SMTT(30), <2>0, <3>1, <1>V DEF CallSound
    <3> QED BY <2>0, <2>1, <3>0, <3>2, <1>0 DEF CallSound
  <2>2. CASE k = i /\ call'[i] = [op |-> "ask", gen |-> g, state |-> "sent"] /\ g.members = {i}
    <3>1. ~Waits(k, "tour")' /\ ~Waits(k, "clear")' /\ call'[k].gen = g
      BY SMTT(30), <2>2 DEF Waits
    <3> QED BY SMTT(30), <2>2, <3>1, <1>V DEF CallSound
  <2>3. CASE k = i /\ call'[i] = [op |-> "tour", gen |-> g, state |-> "sent"] /\ g.members = Node
    <3>1. ~Waits(k, "ask")' /\ ~Waits(k, "clear")' /\ call'[k].gen = g
      BY SMTT(30), <2>3 DEF Waits
    <3> QED BY <2>3, <3>1 DEF CallSound
  <2> QED BY <1>E, <2>1, <2>2, <2>3
<1>8. AloneOwned' /\ HasSound' /\ HasAll' /\ SafeSound'
  <2>1. AloneOwned' /\ HasAll'
    BY <1>0 DEF ClusterInv, AloneOwned, HasAll
  <2>2. HasSound'
    BY <1>0 DEF ClusterInv, HasSound, HasSoundAt
  <2>3. SafeSound'
    BY <1>0 DEF ClusterInv, SafeSound, SafeRecord
  <2> QED BY <2>1, <2>2, <2>3
<1>9. GrantHeld'
  BY <1>0 DEF ClusterInv, GrantHeld
<1>10. GrantFresh'
  <2> SUFFICES ASSUME NEW k \in Node PROVE FreshFor(k)'
    BY DEF GrantFresh
  <2>1. CASE call'[k] = call[k]
    <3>1. FreshFor(k) /\ (Waits(k, "ask")' = Waits(k, "ask"))
      BY <2>1 DEF ClusterInv, GrantFresh, Waits
    <3> QED BY <2>1, <3>1, <1>0 DEF FreshFor
  <2>2. CASE k = i /\ call'[i] = [op |-> "ask", gen |-> g, state |-> "sent"]
    BY SMTT(30), <2>2 DEF FreshFor
  <2>3. CASE k = i /\ call'[i] = [op |-> "tour", gen |-> g, state |-> "sent"]
    BY SMTT(30), <2>3 DEF FreshFor
  <2> QED BY <1>E, <2>1, <2>2, <2>3
<1> QED BY <1>2, <1>3, <1>4, <1>5, <1>6, <1>7, <1>8, <1>9, <1>10 DEF ClusterInv

\* A campaign begins, with the peer or with the referee.
LEMMA CampaignStep ==
    ASSUME NEW i \in Node, NEW C \in {{i}, Node}, ClusterInv, CampaignMyself(i, C)
    PROVE  ClusterInv'
<1> DEFINE M == Candidates(i, C)
           g == Candidate(i, M)
<1>0. /\ MayCampaign(i, C)
      /\ vote' = [vote EXCEPT ![i] = g]
      /\ IF IsRefereeGen(g)
           THEN /\ call' = [call EXCEPT ![i] = [op |-> "ask", gen |-> g, state |-> "sent"]]
                /\ UNCHANGED ballots
           ELSE /\ call' = [call EXCEPT ![i] = [op |-> "tour", gen |-> g, state |-> "sent"]]
                /\ ballots' = ballots \cup {[node |-> i, gen |-> g, loi |-> loi[i]]}
      /\ UNCHANGED <<cur, donors, loi, seen, grant, data, xact>>
  BY DEF CampaignMyself
<1>T. Typed
  BY DEF ClusterInv
<1>N. /\ vote[i] \in Gen /\ vote[i].num \in Nat /\ cur[i].num \in Nat /\ loi[i] \in Nat
      /\ loi[i] <= cur[i].num /\ cur[i].num <= vote[i].num
  BY <1>T DEF ClusterInv, NumbersOrdered, OrderedAt, Typed, Gen
<1>1. M = {i} \/ M = Node
  <2>1. cur[i].members \in SUBSET Node
    BY <1>T DEF Typed, Gen
  <2>2. i \in M /\ M \subseteq {i, Other(i)}
    BY <2>1, TwoNodes DEF Candidates
  <2> QED BY SMTT(30), <2>2, TwoNodes
<1>2. /\ g \in Gen /\ g.members = M
      /\ g = vote[i] \/ vote[i].num < g.num
      /\ loi[i] <= g.num
  <2>1. CASE vote[i].members = M
    <3>1. g = vote[i]
      BY <2>1 DEF Candidate
    <3> QED BY SMTT(30), <3>1, <2>1, <1>N
  <2>2. CASE vote[i].members # M
    <3>1. g = [num |-> vote[i].num + 1, members |-> M]
      BY <2>2 DEF Candidate, Generation
    <3>2. M \in SUBSET Node
      BY <1>1
    <3>3. g.num = vote[i].num + 1 /\ g.members = M /\ g \in Gen
      BY SMTT(30), <3>1, <3>2, <1>N DEF Gen
    <3> HIDE DEF g
    <3> QED BY SMTT(30), <3>3, <1>N
  <2> QED BY <2>1, <2>2
<1>3. CASE M = {i}
  <2>1. IsRefereeGen(g)
    BY <1>2, <1>3, RefereeGens
  <2> HIDE DEF g, M
  <2>2. /\ call' = [call EXCEPT ![i] = [op |-> "ask", gen |-> g, state |-> "sent"]]
        /\ UNCHANGED ballots
    BY <2>1, <1>0
  <2>3. [op |-> "ask", gen |-> g, state |-> "sent"] \in Call
    BY <1>2 DEF Call, State
  <2>4. /\ call' \in [Node -> Call \cup {None}] /\ \A k \in Node \ {i} : call'[k] = call[k]
        /\ call'[i] = [op |-> "ask", gen |-> g, state |-> "sent"]
    BY <2>2, <2>3, <1>T DEF Typed
  <2> QED BY <2>2, <2>4, <1>0, <1>2, <1>3, VoteKeeps DEF Promised, CallBegins
<1>4. CASE M = Node
  <2>1. ~IsRefereeGen(g)
    BY <1>2, <1>4, RefereeGens
  <2>2. loi[i] < g.num
    <3>1. CASE cur[i].members = Node
      <4>1. ~Online(i) /\ vote[i].num # cur[i].num
        BY <1>0, <1>4, <3>1 DEF MayCampaign, Dead
      <4>2. loi[i] < vote[i].num
        BY SMTT(30), <4>1, <1>N
      <4> HIDE DEF g
      <4>3. g.num \in Nat
        BY <1>2 DEF Gen
      <4> QED BY SMTT(30), <4>2, <4>3, <1>2, <1>N
    <3>2. CASE cur[i].members = {Other(i)}
      <4>1. ElectedAt(i)
        BY DEF ClusterInv, CurrentElected
      <4>2. loi[i] # cur[i].num
        BY <4>1, <3>2, NotBoth DEF ElectedAt, Online
      <4> HIDE DEF g
      <4>3. g.num \in Nat
        BY <1>2 DEF Gen
      <4> QED BY SMTT(30), <4>2, <4>3, <1>2, <1>N
    <3>3. CASE cur[i].members = {i}
      <4>1. M = {i}
        BY <3>3 DEF Candidates
      <4> QED BY <4>1, <1>4, NotBoth
    <3> QED BY <3>1, <3>2, <3>3 DEF ClusterInv, CurrentElected, ElectedAt
  <2> HIDE DEF g, M
  <2>3. /\ call' = [call EXCEPT ![i] = [op |-> "tour", gen |-> g, state |-> "sent"]]
        /\ ballots' = ballots \cup {[node |-> i, gen |-> g, loi |-> loi[i]]}
    BY <2>1, <1>0
  <2>4. [op |-> "tour", gen |-> g, state |-> "sent"] \in Call
    BY <1>2 DEF Call, State
  <2>5. /\ call' \in [Node -> Call \cup {None}] /\ \A k \in Node \ {i} : call'[k] = call[k]
        /\ call'[i] = [op |-> "tour", gen |-> g, state |-> "sent"]
    BY <2>3, <2>4, <1>T DEF Typed
  <2> QED BY <2>2, <2>3, <2>5, <1>0, <1>2, <1>4, VoteKeeps DEF Promised, CallBegins
<1> QED BY <1>1, <1>3, <1>4

\* The peer's vote.
LEMMA VoteForStep ==
    ASSUME NEW i \in Node, NEW b \in ballots, ClusterInv, VoteFor(i, b.gen)
    PROVE  ClusterInv'
<1>1. b.gen \in Gen /\ b.gen.members = Node
  BY DEF ClusterInv, Typed, BallotsBind, Binds
<1>2. /\ cur[i].num < b.gen.num /\ vote[i].num < b.gen.num
      /\ vote' = [vote EXCEPT ![i] = b.gen]
      /\ ballots' = ballots \cup {[node |-> i, gen |-> b.gen, loi |-> loi[i]]}
      /\ UNCHANGED <<cur, donors, loi, seen, call, grant, data, xact>>
  BY DEF VoteFor
<1>3. loi[i] < b.gen.num
  BY SMTT(30), <1>1, <1>2 DEF ClusterInv, NumbersOrdered, OrderedAt, Typed, Gen
<1>4. call' \in [Node -> Call \cup {None}] /\ \A k \in Node : call'[k] = call[k]
  BY <1>2 DEF ClusterInv, Typed
<1> QED BY <1>1, <1>2, <1>3, <1>4, VoteKeeps DEF Promised, CallBegins

----------------------------------------------------------------------------
(* The referee.                                                            *)

\* What does not depend on calls and on the grant.
LEMMA SameElections ==
    ASSUME ClusterInv, UNCHANGED <<cur, donors, loi, vote, ballots, seen, alone, has, ps>>
    PROVE  /\ NumbersOrdered' /\ BallotsBind' /\ CurrentElected' /\ LastOnline'
           /\ AloneOwned' /\ HasSound' /\ HasAll' /\ SafeSound'
<1>1. NumbersOrdered'
  BY DEF ClusterInv, NumbersOrdered, OrderedAt
<1>2. BallotsBind'
  BY DEF ClusterInv, BallotsBind, Binds
<1>3. CurrentElected'
  BY DEF ClusterInv, CurrentElected, ElectedAt, Advanced, Online
<1>4. LastOnline'
  BY DEF ClusterInv, LastOnline, LastOnlineAt
<1>5. AloneOwned' /\ HasAll'
  BY DEF ClusterInv, AloneOwned, HasAll
<1>6. HasSound'
  BY DEF ClusterInv, HasSound, HasSoundAt
<1>7. SafeSound'
  BY DEF ClusterInv, SafeSound, SafeRecord
<1> QED BY <1>1, <1>2, <1>3, <1>4, <1>5, <1>6, <1>7

\* The state of a call changes, and nothing else of it.
LEMMA AnsweredCall ==
    ASSUME NEW i \in Node, NEW s \in State, ClusterInv, call[i] # None,
           call' = [call EXCEPT ![i].state = s],
           UNCHANGED <<loi, vote, alone>>
    PROVE  /\ call' \in [Node -> Call \cup {None}]
           /\ call'[i] # None => call'[i].gen = call[i].gen /\ call'[i].op = call[i].op
           /\ call'[i].state = s
           /\ \A k \in Node \ {i} : call'[k] = call[k]
           /\ CallsSound'
<1>1. call[i] \in Call
  BY DEF ClusterInv, Typed
<1>2. /\ [call[i] EXCEPT !.state = s] \in Call
      /\ [call[i] EXCEPT !.state = s].gen = call[i].gen
      /\ [call[i] EXCEPT !.state = s].op = call[i].op
      /\ [call[i] EXCEPT !.state = s].state = s
  BY <1>1 DEF Call
<1>3. /\ call'[i] = [call[i] EXCEPT !.state = s]
      /\ \A k \in Node \ {i} : call'[k] = call[k]
  BY DEF ClusterInv, Typed
<1>4. call' \in [Node -> Call \cup {None}]
  BY <1>2, <1>3 DEF ClusterInv, Typed
<1>5. \A k \in Node : \A op : Waits(k, op)' => Waits(k, op) /\ call'[k].gen = call[k].gen
  BY <1>2, <1>3 DEF Waits
<1>6. CallsSound'
  <2> SUFFICES ASSUME NEW k \in Node PROVE CallSound(k)'
    BY DEF CallsSound
  <2>1. CallSound(k)
    BY DEF ClusterInv, CallsSound
  <2> QED BY <2>1, <1>5 DEF CallSound
<1> QED BY <1>2, <1>3, <1>4, <1>6

\* The referee executes a query whose sender still waits.
LEMMA RefereeStep ==
    ASSUME NEW i \in Node, ClusterInv, RefereeExecutes(i)
    PROVE  ClusterInv'
<1>0. /\ UNCHANGED <<cur, donors, loi, vote, ballots, seen, alone, has, ps, wal, busy>>
      /\ call[i] # None /\ call[i].state = "sent"
  BY DEF RefereeExecutes, elect, data, xact
<1>T. Typed
  BY DEF ClusterInv
<1>E. /\ NumbersOrdered' /\ BallotsBind' /\ CurrentElected' /\ LastOnline'
      /\ AloneOwned' /\ HasSound' /\ HasAll' /\ SafeSound'
  BY <1>0, SameElections
<1>C. call[i] \in Call /\ call[i].gen \in Gen /\ call[i].gen.num \in Nat
  BY <1>0, <1>T DEF Typed, Call, Gen
<1>G. grant # None => grant \in [node : Node, num : Nat]
  BY <1>T DEF Typed
<1>1. CASE call[i].op = "ask" /\ RequestGrant(i, call[i].gen.num)
  <2> DEFINE n == call[i].gen.num
  <2>1. CASE grant = None \/ (grant.node = i /\ grant.num < n)
    <3>1. grant' = [node |-> i, num |-> n] /\ call' = [call EXCEPT ![i].state = "done"]
      BY <1>1, <2>1 DEF RequestGrant
    <3>2. grant' # None /\ grant'.node = i /\ grant'.num = n
          /\ grant' \in [node : Node, num : Nat]
      BY SMTT(30), <3>1, <1>C, RefereeAssumption
    <3>3. /\ call' \in [Node -> Call \cup {None}] /\ CallsSound'
          /\ call'[i] # None => call'[i].gen = call[i].gen
          /\ \A k \in Node \ {i} : call'[k] = call[k]
      BY <3>1, <1>0, AnsweredCall DEF State
    <3>4. Typed'
      BY <3>2, <3>3, <1>0, <1>T DEF Typed
    <3>5. GrantHeld'
      <4> SUFFICES ASSUME NEW k \in Node, NEW h \in alone, h.members = {k}, h \notin has[Other(k)]
                   PROVE  grant' # None /\ grant'.node = k /\ h.num <= grant'.num
        BY <1>0 DEF GrantHeld
      <4>1. grant # None /\ grant.node = k /\ h.num <= grant.num /\ h.num \in Nat
        BY <1>T DEF ClusterInv, GrantHeld, Typed, Gen
      <4> QED BY SMTT(30), <4>1, <2>1, <3>2, <1>C, <1>G
    <3>6. GrantFresh'
      <4> SUFFICES ASSUME NEW k \in Node PROVE FreshFor(k)'
        BY DEF GrantFresh
      <4>1. CASE k = i
        BY <4>1, <3>2, <3>3 DEF FreshFor, Waits
      <4>2. CASE k # i
        <5>1. FreshFor(k) /\ call'[k] = call[k] /\ Waits(k, "ask")' = Waits(k, "ask")
          BY <4>2, <3>3 DEF ClusterInv, GrantFresh, Waits
        <5> QED BY <5>1, <4>2, <2>1, <1>0 DEF FreshFor
      <4> QED BY <4>1, <4>2
    <3> QED BY <3>3, <3>4, <3>5, <3>6, <1>E DEF ClusterInv
  <2>2. CASE ~(grant = None \/ (grant.node = i /\ grant.num < n))
    <3>1. grant' = grant /\ call' = [call EXCEPT ![i].state = "failed"]
      BY <1>1, <2>2 DEF RequestGrant
    <3>2. /\ call' \in [Node -> Call \cup {None}] /\ CallsSound'
          /\ call'[i].state = "failed"
          /\ \A k \in Node \ {i} : call'[k] = call[k]
      BY <3>1, <1>0, AnsweredCall DEF State
    <3>3. Typed' /\ GrantHeld'
      <4>1. Typed'
        BY <3>1, <3>2, <1>0, <1>T DEF Typed
      <4> QED BY <4>1, <3>1, <1>0 DEF ClusterInv, GrantHeld
    <3>4. GrantFresh'
      <4> SUFFICES ASSUME NEW k \in Node PROVE FreshFor(k)'
        BY DEF GrantFresh
      <4>1. CASE k = i
        BY <4>1, <3>2 DEF FreshFor
      <4>2. CASE k # i
        <5>1. FreshFor(k) /\ call'[k] = call[k] /\ Waits(k, "ask")' = Waits(k, "ask")
          BY <4>2, <3>2 DEF ClusterInv, GrantFresh, Waits
        <5> QED BY <5>1, <3>1, <1>0 DEF FreshFor
      <4> QED BY <4>1, <4>2
    <3> QED BY <3>2, <3>3, <3>4, <1>E DEF ClusterInv
  <2> QED BY <2>1, <2>2
<1>2. CASE call[i].op = "clear" /\ DeleteGrant(i)
  <2> DEFINE G == call[i].gen
  <2>1. /\ grant' = IF grant # None /\ ClearedBy(i, call[i]) THEN None ELSE grant
        /\ call' = [call EXCEPT ![i].state = "done"]
    BY <1>2 DEF DeleteGrant
  <2>2. /\ call' \in [Node -> Call \cup {None}] /\ CallsSound'
        /\ call'[i] # None => call'[i].gen = call[i].gen /\ call'[i].op = call[i].op
        /\ \A k \in Node \ {i} : call'[k] = call[k]
    BY <2>1, <1>0, AnsweredCall DEF State
  <2>3. Typed'
    <3>1. grant' \in [node : Node, num : Nat] \cup {None}
      BY <2>1, <1>T DEF Typed
    <3> QED BY <3>1, <2>2, <1>0, <1>T DEF Typed
  <2>4. Waits(i, "clear")
    BY <1>0, <1>2 DEF Waits
  <2>5. /\ G.num <= loi[i] /\ G.num <= loi[Other(i)] /\ \A k \in Node : G.num <= loi[k]
        /\ \A h \in alone : h.members = {i} => h.num <= G.num
    BY <2>4, TwoNodes DEF ClusterInv, CallsSound, CallSound
  <2>6. \A k \in Node : loi[k] \in Nat /\ cur[k].num \in Nat /\ loi[k] <= cur[k].num
    BY <1>T DEF ClusterInv, NumbersOrdered, OrderedAt, Typed, Gen
  <2>7. GrantHeld'
    <3> SUFFICES ASSUME NEW k \in Node, NEW h \in alone, h.members = {k}, h \notin has[Other(k)]
                 PROVE  grant' # None /\ grant'.node = k /\ h.num <= grant'.num
      BY <1>0 DEF GrantHeld
    <3>1. grant # None /\ grant.node = k /\ h.num <= grant.num /\ h.num \in Nat
      BY <1>T DEF ClusterInv, GrantHeld, Typed, Gen
    <3>2. Other(k) \in Node /\ ~(h.num <= loi[Other(k)])
      BY TwoNodes DEF ClusterInv, HasAll
    <3>3. G.num < h.num
      BY SMTT(30), <3>1, <3>2, <2>5, <2>6, <1>C
    <3>4. grant.num \in Nat
      BY <3>1, <1>G
    <3>5. ~(grant.num < G.num)
      BY SMTT(30), <3>1, <3>3, <3>4, <1>C
    <3>6. k # i
      BY SMTT(30), <2>5, <3>1, <3>3, <1>C
    <3>7. ~ClearedBy(i, call[i])
      BY <3>1, <3>5, <3>6 DEF ClearedBy
    <3> QED BY <3>1, <3>7, <2>1
  <2>8. GrantFresh'
    <3> SUFFICES ASSUME NEW k \in Node, Waits(k, "ask")', (call[k].state = "done")',
                        (cur[k].num < call[k].gen.num)'
                 PROVE  (grant # None /\ grant.node = k /\ grant.num = call[k].gen.num)'
      BY DEF GrantFresh, FreshFor
    <3>1. k # i
      BY <2>2, <1>2 DEF Waits
    <3>2. call'[k] = call[k] /\ Waits(k, "ask")
      BY <3>1, <2>2 DEF Waits
    <3>3. /\ grant # None /\ grant.node = k /\ grant.num = call[k].gen.num
          /\ cur[k].num < grant.num
      BY <3>2, <1>0 DEF ClusterInv, GrantFresh, FreshFor
    <3>4. grant.num \in Nat
      BY <3>3, <1>G
    <3>5. ~(grant.num < G.num)
      BY SMTT(30), <3>3, <3>4, <2>5, <2>6, <1>C
    <3>6. ~ClearedBy(i, call[i])
      BY <3>1, <3>3, <3>5 DEF ClearedBy
    <3> QED BY <3>2, <3>3, <3>6, <2>1
  <2> QED BY <2>2, <2>3, <2>7, <2>8, <1>E DEF ClusterInv
<1> QED BY <1>1, <1>2 DEF RefereeExecutes

\* A node asks to turn in a grant that both have outlived.
LEMMA ClearStep ==
    ASSUME NEW i \in Node, ClusterInv, RefereeClearGrant(i)
    PROVE  ClusterInv'
<1>0. UNCHANGED <<cur, donors, loi, vote, ballots, seen, grant, alone, has, ps, wal, busy>>
  BY DEF RefereeClearGrant, elect, data, xact
<1>T. Typed
  BY DEF ClusterInv
<1>1. CASE cur[i].members = Node /\ Online(i)
  <2> DEFINE c == [op |-> "clear", gen |-> cur[i], mine |-> vote[i].num, state |-> "sent"]
  <2>1. seen[i] >= loi[i] /\ call' = [call EXCEPT ![i] = c]
    BY <1>1 DEF RefereeClearGrant
  <2>2. c \in Call
    BY <1>T DEF Call, State, Typed, Gen
  <2>3. call' \in [Node -> Call \cup {None}] /\ call'[i] = c
        /\ \A k \in Node \ {i} : call'[k] = call[k]
    BY <2>1, <2>2, <1>T DEF Typed
  <2>4. Typed'
    BY <2>3, <1>0, <1>T DEF Typed
  <2>5. /\ NumbersOrdered' /\ BallotsBind' /\ CurrentElected' /\ LastOnline'
        /\ AloneOwned' /\ HasSound' /\ HasAll' /\ SafeSound'
    BY <1>0, SameElections
  <2>6. CallsSound'
    <3> SUFFICES ASSUME NEW k \in Node PROVE CallSound(k)'
      BY DEF CallsSound
    <3>1. CASE k # i
      <4>1. CallSound(k) /\ call'[k] = call[k] /\ \A op : Waits(k, op)' = Waits(k, op)
        BY <3>1, <2>3 DEF ClusterInv, CallsSound, Waits
      <4> QED BY <4>1, <1>0 DEF CallSound
    <3>2. CASE k = i
      <4>1. ~Waits(k, "ask")' /\ ~Waits(k, "tour")' /\ call'[k].gen = cur[i]
        BY SMTT(30), <3>2, <2>3 DEF Waits
      <4>2. cur[i].num = loi[i]
        BY <1>1 DEF Online
      <4>3. loi[i] <= loi[Other(i)]
        <5>1. seen[i] <= loi[Other(i)]
          BY DEF ClusterInv, NumbersOrdered, OrderedAt
        <5>2. seen[i] \in Nat /\ loi[i] \in Nat /\ loi[Other(i)] \in Nat
          BY <1>T, TwoNodes DEF Typed
        <5> QED BY SMTT(30), <5>1, <5>2, <2>1
      <4>4. ASSUME NEW h \in alone, h.members = {i}
            PROVE  h.num <= loi[i]
        <5>1. PICK n \in Node : h.members = {n} /\ h \in has[n]
          BY DEF ClusterInv, AloneOwned
        <5>2. n = i
          BY <4>4, <5>1
        <5> QED BY <5>1, <5>2 DEF ClusterInv, HasSound, HasSoundAt
      <4>5. loi[i] <= loi[i]
        BY SMTT(30), <1>T DEF Typed
      <4> QED BY <3>2, <4>1, <4>2, <4>3, <4>4, <4>5, <1>0 DEF CallSound
    <3> QED BY <3>1, <3>2
  <2>7. GrantHeld'
    BY <1>0 DEF ClusterInv, GrantHeld
  <2>8. GrantFresh'
    <3> SUFFICES ASSUME NEW k \in Node PROVE FreshFor(k)'
      BY DEF GrantFresh
    <3>1. CASE k # i
      <4>1. FreshFor(k) /\ call'[k] = call[k] /\ Waits(k, "ask")' = Waits(k, "ask")
        BY <3>1, <2>3 DEF ClusterInv, GrantFresh, Waits
      <4> QED BY <4>1, <1>0 DEF FreshFor
    <3>2. CASE k = i
      BY SMTT(30), <3>2, <2>3 DEF FreshFor
    <3> QED BY <3>1, <3>2
  <2> QED BY <2>4, <2>5, <2>6, <2>7, <2>8 DEF ClusterInv
<1>2. CASE ~(cur[i].members = Node /\ Online(i))
  <2>1. call' = call
    BY <1>2 DEF RefereeClearGrant
  <2>2. Calmly
    BY <2>1, <1>0, <1>T DEF Calmly, Typed, ClusterInv, NumbersOrdered, OrderedAt
  <2>3. UNCHANGED <<elect, data>>
    BY <1>0 DEF elect, data
  <2> QED BY <2>2, <2>3, CalmKeeps
<1> QED BY <1>1, <1>2

----------------------------------------------------------------------------
(* Recovery.                                                               *)

\* A node has recovered from its donor up to ParallelSafe, with all the donor
\* had before it.
LEMMA GetOnlineStep ==
    ASSUME NEW i \in Node, ClusterInv, GetOnline(i)
    PROVE  ClusterInv'
<1>0. /\ UNCHANGED <<cur, donors, vote, ballots, seen, call, grant, alone, ps, busy>>
      /\ loi' = [loi EXCEPT ![i] = cur[i].num]
      /\ cur[i].members = Node /\ ~Online(i)
  BY DEF GetOnline, InRecovery
<1>1. PICK r \in ps : /\ r.num = cur[i].num /\ r.by \in donors[i]
                      /\ has' = [has EXCEPT ![i] = @ \cup r.has]
                      /\ wal' = [wal EXCEPT ![i] = Applied(i, r.wal)]
  BY DEF GetOnline
<1>T. Typed
  BY DEF ClusterInv
<1>N. \A k \in Node : /\ loi[k] \in Nat \ {0} /\ cur[k].num \in Nat /\ loi[k] <= cur[k].num
                      /\ vote[k].num \in Nat
  BY <1>T DEF ClusterInv, NumbersOrdered, OrderedAt, Typed, Gen
<1>L. /\ loi' \in [Node -> Nat \ {0}] /\ loi'[i] = cur[i].num
      /\ \A k \in Node \ {i} : loi'[k] = loi[k]
      /\ \A k \in Node : loi[k] <= loi'[k] /\ loi'[k] \in Nat
  BY SMTT(30), <1>0, <1>N, <1>T DEF Typed
<1>R. /\ r.by \in Node /\ r.has \subseteq alone /\ r.has \subseteq Gen /\ r.wal \subseteq Rec
      /\ r.num \in Nat
      /\ \A h \in r.has : h.num < r.num
      /\ \A h \in r.has : \A k \in Node : h.members = {k} => h.num < cur[k].num
      /\ \A h \in alone : h.num < r.num => h \in r.has
  BY <1>1, <1>T DEF ClusterInv, SafeSound, SafeRecord, Typed
<1>S. /\ has' \in [Node -> SUBSET Gen] /\ has'[i] = has[i] \cup r.has
      /\ \A k \in Node \ {i} : has'[k] = has[k]
      /\ \A k \in Node : has[k] \subseteq has'[k]
  BY <1>1, <1>R, <1>T DEF Typed
<1>A. /\ \A h \in alone : h.num \in Nat
      /\ \A k \in Node : has[k] \subseteq alone /\ \A h \in has[k] : h.num <= loi[k]
  BY <1>T DEF ClusterInv, HasSound, HasSoundAt, Typed, Gen
<1>2. Advanced(r.by, cur[i])
  <2>1. ElectedAt(i)
    BY DEF ClusterInv, CurrentElected
  <2>2. cur[i].num # 1
    BY SMTT(30), <1>0, <1>N DEF Online
  <2> QED BY <2>1, <2>2, <1>0, <1>1, NotBoth DEF ElectedAt
<1>3. \A h \in alone : h.num <= cur[i].num => h.num < cur[i].num
  BY <1>2, <1>R, DonorHasAll
<1>4. \E b \in ballots : b.node = Other(i) /\ b.gen = cur[i]
  <2>1. PICK b, c \in ballots : /\ b.gen = cur[i] /\ c.gen = cur[i]
                                /\ b.node = r.by /\ c.node = Other(r.by)
    BY <1>2 DEF Advanced
  <2>2. Other(i) = r.by \/ Other(i) = Other(r.by)
    BY <1>R, TwoNodes
  <2> QED BY <2>1, <2>2
<1>5. Typed'
  <2>1. wal' \in [Node -> SUBSET Rec]
    BY <1>1, <1>R, <1>T DEF Applied, Typed
  <2> QED BY <2>1, <1>0, <1>L, <1>S, <1>T DEF Typed
<1>6. NumbersOrdered'
  <2> SUFFICES ASSUME NEW k \in Node PROVE OrderedAt(k)'
    BY DEF NumbersOrdered
  <2>1. OrderedAt(k) /\ Other(k) \in Node /\ seen[k] \in Nat
    BY <1>T, TwoNodes DEF ClusterInv, NumbersOrdered, Typed
  <2>2. seen[k] <= loi'[Other(k)]
    BY SMTT(30), <2>1, <1>L, <1>N DEF OrderedAt
  <2>3. loi'[k] <= cur[k].num
    BY SMTT(30), <2>1, <1>L, <1>N DEF OrderedAt
  <2> QED BY <2>1, <2>2, <2>3, <1>0 DEF OrderedAt
<1>7. BallotsBind'
  <2> SUFFICES ASSUME NEW b \in ballots PROVE Binds(b)'
    BY <1>0 DEF BallotsBind
  <2>1. Binds(b) /\ b.node \in Node /\ b.loi \in Nat
    BY <1>T DEF ClusterInv, BallotsBind, Typed
  <2>2. b.loi <= loi'[b.node]
    BY SMTT(30), <2>1, <1>L, <1>N DEF Binds
  <2> QED BY <2>1, <2>2, <1>0 DEF Binds
<1>8. CurrentElected'
  <2> SUFFICES ASSUME NEW k \in Node PROVE ElectedAt(k)'
    BY DEF CurrentElected
  <2>1. \A n, h : Advanced(n, h)' = Advanced(n, h)
    BY <1>0 DEF Advanced
  <2>2. ElectedAt(k)
    BY DEF ClusterInv, CurrentElected
  <2>3. CASE k = i
    BY <2>1, <2>2, <2>3, <1>0, NotBoth DEF ElectedAt
  <2>4. CASE k # i
    <3>1. Online(k)' = Online(k)
      BY <2>4, <1>0, <1>L DEF Online
    <3> QED BY <2>1, <2>2, <3>1, <1>0 DEF ElectedAt
  <2> QED BY <2>3, <2>4
<1>9. LastOnline'
  <2> SUFFICES ASSUME NEW k \in Node PROVE LastOnlineAt(k)'
    BY DEF LastOnline
  <2>1. CASE k = i
    BY <2>1, <1>0, <1>4, <1>L DEF LastOnlineAt
  <2>2. CASE k # i
    <3>1. LastOnlineAt(k) /\ loi'[k] = loi[k]
      BY <2>2, <1>L DEF ClusterInv, LastOnline
    <3> QED BY <3>1, <1>0 DEF LastOnlineAt
  <2> QED BY <2>1, <2>2
<1>10. CallsSound'
  <2> SUFFICES ASSUME NEW k \in Node PROVE CallSound(k)'
    BY DEF CallsSound
  <2>1. CallSound(k) /\ \A op : Waits(k, op)' = Waits(k, op)
    BY <1>0 DEF ClusterInv, CallsSound, Waits
  <2>2. Waits(k, "clear") => call[k].gen.num <= loi'[k] /\ call[k].gen.num <= loi'[Other(k)]
    <3> HAVE Waits(k, "clear")
    <3>1. call[k].gen.num \in Nat /\ Other(k) \in Node
      BY <1>T, TwoNodes DEF Typed, Waits, Call, Gen
    <3> QED BY SMTT(30), <2>1, <3>1, <1>L, <1>N DEF CallSound
  <2> QED BY <2>1, <2>2, <1>0 DEF CallSound
<1>11. AloneOwned'
  <2> SUFFICES ASSUME NEW h \in alone
               PROVE  1 < h.num /\ \E k \in Node : h.members = {k} /\ h \in has'[k]
    BY <1>0 DEF AloneOwned
  <2> QED BY <1>S DEF ClusterInv, AloneOwned
<1>12. HasSound'
  <2> SUFFICES ASSUME NEW k \in Node PROVE HasSoundAt(k)'
    BY DEF HasSound
  <2>0. HasSoundAt(k) /\ Other(k) \in Node
    BY TwoNodes DEF ClusterInv, HasSound
  <2>1. CASE k # i
    BY <2>0, <2>1, <1>0, <1>L, <1>S DEF HasSoundAt
  <2>2. CASE k = i
    <3>1. has'[k] \subseteq alone
      BY <2>2, <1>A, <1>R, <1>S
    <3>2. \A h \in has'[k] : h.num <= loi'[k]
      BY SMTT(30), <2>2, <1>A, <1>R, <1>S, <1>L, <1>N, <1>1
    <3>3. \A h \in has'[k] : h.members = {Other(k)} => h.num < cur[Other(k)].num
      BY <2>0, <2>2, <1>R, <1>S DEF HasSoundAt
    <3> QED BY <3>1, <3>2, <3>3, <1>0 DEF HasSoundAt
  <2> QED BY <2>1, <2>2
<1>13. HasAll'
  <2> SUFFICES ASSUME NEW k \in Node, NEW h \in alone, h.num <= loi'[k]
               PROVE  h \in has'[k]
    BY <1>0 DEF HasAll
  <2>1. CASE k = i
    BY <2>1, <1>1, <1>3, <1>L, <1>R, <1>S
  <2>2. CASE k # i
    BY <2>2, <1>L, <1>S DEF ClusterInv, HasAll
  <2> QED BY <2>1, <2>2
<1>14. SafeSound'
  <2> SUFFICES ASSUME NEW q \in ps PROVE SafeRecord(q)'
    BY <1>0 DEF SafeSound
  <2>1. SafeRecord(q) /\ q.num \in Nat /\ q.by \in Node
    BY <1>T DEF ClusterInv, SafeSound, Typed
  <2>2. q.num <= loi'[q.by]
    BY SMTT(30), <2>1, <1>L, <1>N DEF SafeRecord
  <2> QED BY <2>1, <2>2, <1>0 DEF SafeRecord
<1>15. GrantHeld'
  <2> SUFFICES ASSUME NEW k \in Node, NEW h \in alone, h.members = {k}, h \notin has'[Other(k)]
               PROVE  grant # None /\ grant.node = k /\ h.num <= grant.num
    BY <1>0 DEF GrantHeld
  <2>1. h \notin has[Other(k)]
    BY <1>S, TwoNodes
  <2> QED BY <2>1 DEF ClusterInv, GrantHeld
<1>16. GrantFresh'
  BY <1>0 DEF ClusterInv, GrantFresh, FreshFor, Waits
<1> QED BY <1>5, <1>6, <1>7, <1>8, <1>9, <1>10, <1>11, <1>12, <1>13, <1>14, <1>15, <1>16
        DEF ClusterInv

----------------------------------------------------------------------------
(* The other actions, and all of them.                                     *)

\* Steps that leave the elections, the grant and the data alone, and of calls
\* at most end some.
LEMMA QuietStep ==
    ASSUME ClusterInv,
           call' \in [Node -> Call \cup {None}],
           \A k \in Node : call'[k] = call[k] \/ call'[k] = None,
           seen' \in [Node -> Nat], \A k \in Node : seen'[k] <= loi[Other(k)],
           wal' \in [Node -> SUBSET Rec], busy' \in BOOLEAN,
           UNCHANGED <<elect, grant, data>>
    PROVE  ClusterInv'
<1>1. UNCHANGED <<loi, ballots, grant>>
  BY DEF elect
<1>2. Calmly
  BY <1>1 DEF Calmly
<1> QED BY <1>2, CalmKeeps

\* Calls that fail, end or are forgotten.
LEMMA CallEnds ==
    ASSUME NEW i \in Node, ClusterInv,
           \/ TourFails(i) \/ AskFails(i) \/ Cleared(i) \/ ClearFails(i) \/ NoReferee(i)
           \/ CampaignerRestarts(i) \/ NodeRestarts(i)
    PROVE  ClusterInv'
<1>1. /\ call' = [call EXCEPT ![i] = None]
      /\ UNCHANGED <<elect, grant, data, wal>>
      /\ seen' = seen \/ seen' = [seen EXCEPT ![i] = 0]
      /\ busy' = busy \/ busy' = FALSE
  <2>1. CASE TourFails(i) \/ AskFails(i) \/ Cleared(i) \/ ClearFails(i) \/ NoReferee(i)
    <3>1. call' = [call EXCEPT ![i] = None] /\ UNCHANGED <<elect, seen, grant, data, xact>>
      BY <2>1 DEF TourFails, AskFails, Cleared, ClearFails, NoReferee, Returns
    <3> QED BY <3>1 DEF xact
  <2>2. CASE CampaignerRestarts(i)
    BY <2>2 DEF CampaignerRestarts, CampaignerStarts
  <2>3. CASE NodeRestarts(i)
    <3>1. CampaignerStarts(i) /\ seen' = [seen EXCEPT ![i] = 0]
          /\ busy' = IF i = Coordinator THEN FALSE ELSE busy
      BY <2>3 DEF NodeRestarts
    <3>2. busy' = busy \/ busy' = FALSE
      BY <3>1
    <3> QED BY <3>1, <3>2 DEF CampaignerStarts
  <2> QED BY <2>1, <2>2, <2>3
<1>2. /\ call' \in [Node -> Call \cup {None}]
      /\ \A k \in Node : call'[k] = call[k] \/ call'[k] = None
      /\ wal' \in [Node -> SUBSET Rec] /\ busy' \in BOOLEAN
      /\ seen' \in [Node -> Nat]
  <2>1. Typed
    BY DEF ClusterInv
  <2>2. busy' \in BOOLEAN
    BY <1>1, <2>1 DEF Typed
  <2>3. wal' \in [Node -> SUBSET Rec]
    BY <1>1, <2>1 DEF Typed
  <2>4. /\ call' \in [Node -> Call \cup {None}]
        /\ \A k \in Node : call'[k] = call[k] \/ call'[k] = None
    BY <1>1, <2>1 DEF Typed
  <2>5. seen' \in [Node -> Nat]
    BY SMTT(30), <1>1, <2>1 DEF Typed
  <2> QED BY <2>2, <2>3, <2>4, <2>5
<1>3. ASSUME NEW k \in Node
      PROVE  seen'[k] <= loi[Other(k)]
  <2>1. seen[k] <= loi[Other(k)] /\ loi[Other(k)] \in Nat
    BY TwoNodes DEF ClusterInv, NumbersOrdered, OrderedAt, Typed
  <2>2. seen'[k] = seen[k] \/ seen'[k] = 0
    BY <1>1 DEF ClusterInv, Typed
  <2> QED BY SMTT(30), <2>1, <2>2
<1> QED BY <1>1, <1>2, <1>3, QuietStep

\* A step of the transaction.
LEMMA XactStep ==
    ASSUME ClusterInv, UNCHANGED cluster, wal' \in [Node -> SUBSET Rec], busy' \in BOOLEAN
    PROVE  ClusterInv'
<1>1. UNCHANGED <<elect, call, seen, grant, data>>
  BY DEF cluster
<1>2. /\ call' \in [Node -> Call \cup {None}] /\ seen' \in [Node -> Nat]
      /\ \A k \in Node : seen'[k] <= loi[Other(k)]
  BY <1>1 DEF ClusterInv, Typed, NumbersOrdered, OrderedAt
<1> QED BY <1>1, <1>2, QuietStep

----------------------------------------------------------------------------
(* The transaction.                                                        *)

\* What has not been finished twice.
XactInv == RecordsSound /\ OutcomesSettled /\ Agreement

\* A node that has commits of which its peer lacks some has left no one else
\* alone: two nodes are never online alone, and what i did alone is out of
\* reach of i's peer until i has left the generation.
LEMMA AloneIsFinal ==
    ASSUME NEW i \in Node, ClusterInv, Online(i), IsRefereeGen(cur[i])
    PROVE  /\ cur[i] \in alone /\ cur[i].members = {i}
           /\ cur[i] \notin has[Other(i)]
           /\ \A r \in ps : cur[i] \notin r.has
           /\ \A h \in alone : h \in has[i]
<1>1. cur[i].members = {i} /\ cur[i] \in alone
  <2>1. ElectedAt(i) /\ cur[i].members # Node
    BY RefereeGens DEF ClusterInv, CurrentElected
  <2> QED BY <2>1 DEF ElectedAt
<1>2. cur[i].num \in Nat /\ loi[i] = cur[i].num
  BY DEF ClusterInv, Typed, Gen, Online
<1>J. Other(i) \in Node /\ Other(Other(i)) = i /\ Other(i) # i
  BY TwoNodes
<1>3. cur[i] \notin has[Other(i)]
  BY SMTT(30), <1>1, <1>2, <1>J DEF ClusterInv, HasSound, HasSoundAt
<1>4. \A r \in ps : cur[i] \notin r.has
  BY SMTT(30), <1>1, <1>2 DEF ClusterInv, SafeSound, SafeRecord
<1>5. ASSUME NEW h \in alone
      PROVE  h \in has[i]
  <2>1. PICK k \in Node : h.members = {k} /\ h \in has[k]
    BY DEF ClusterInv, AloneOwned
  <2>2. CASE k = i
    BY <2>1, <2>2
  <2>3. CASE k # i
    <3>1. k = Other(i)
      BY <2>3, TwoNodes
    <3>2. h.num <= loi[k] /\ h.num \in Nat /\ loi[k] \in Nat
      BY <2>1 DEF ClusterInv, HasSound, HasSoundAt, Typed, Gen
    <3>3. ~(cur[i].num <= loi[k])
      BY <1>1, <1>3, <3>1 DEF ClusterInv, HasAll
    <3>4. h.num <= loi[i]
      BY SMTT(30), <3>2, <3>3, <1>2
    <3> QED BY <3>4 DEF ClusterInv, HasAll
  <2> QED BY <2>2, <2>3
<1> QED BY <1>1, <1>3, <1>4, <1>5

\* The transaction is untouched, and the data only gain a ParallelSafe record,
\* or a generation in which a node worked alone.
LEMMA DataKeeps ==
    ASSUME NEW i \in Node, NEW n, ClusterInv, XactInv, UNCHANGED <<wal, acks>>,
           busy' = busy \/ busy' = FALSE,
           ps' = ps \/ ps' = ps \cup {ParallelSafe(n, i)},
           alone \subseteq alone',
           \A k \in Node : has'[k] \cap alone = has[k]
    PROVE  XactInv'
<1>1. \A r \in ps' : r \in ps \/ (r.by = i /\ r.has = has[i] /\ r.wal = wal[i])
  BY SMTT(30) DEF ParallelSafe
<1>2. RecordsSound'
  <2>1. busy' => ~Finished(Coordinator)
    BY DEF XactInv, RecordsSound
  <2>2. Finished(Coordinator)' = Finished(Coordinator)
    BY DEF Finished
  <2>3. \A r \in ps' : r.wal \subseteq wal[r.by]
    BY <1>1 DEF XactInv, RecordsSound
  <2> QED BY <2>1, <2>2, <2>3 DEF XactInv, RecordsSound
<1>3. Agreement'
  BY DEF XactInv, Agreement
<1>4. OutcomesSettled'
  <2> SUFFICES ASSUME NEW k \in Node, NEW o \in {"CP", "AP"}, o \in wal[k]
               PROVE  Settled(k, o)'
    BY DEF OutcomesSettled
  <2>1. Settled(k, o)
    BY DEF XactInv, OutcomesSettled
  <2>2. CASE \E g \in alone : Resolved(k, o, g)
    <3>1. PICK g \in alone : Resolved(k, o, g)
      BY <2>2
    <3>2. Other(k) \in Node /\ Node = {k, Other(k)}
      BY TwoNodes
    <3>3. g \in has'[Other(k)] => o \in wal[Other(k)]
      BY <3>1, <3>2 DEF Resolved
    <3>4. ASSUME NEW r \in ps', g \in r.has
          PROVE  o \in r.wal
      <4>1. CASE r \in ps
        BY <3>1, <3>4, <4>1 DEF Resolved
      <4>2. CASE r.by = i /\ r.has = has[i] /\ r.wal = wal[i]
        <5>1. CASE i = k
          BY <4>2, <5>1
        <5>2. CASE i = Other(k)
          BY <3>1, <3>4, <4>2, <5>2 DEF Resolved
        <5> QED BY <5>1, <5>2, <3>2
      <4> QED BY <4>1, <4>2, <1>1
    <3>5. Resolved(k, o, g)'
      BY <3>1, <3>3, <3>4 DEF Resolved
    <3> QED BY <3>5 DEF Settled
  <2>3. CASE ~\E g \in alone : Resolved(k, o, g)
    BY <2>1, <2>3 DEF Settled
  <2> QED BY <2>2, <2>3
<1> QED BY <1>2, <1>3, <1>4 DEF XactInv

\* A switch of generations leaves the transaction as it is.
LEMMA SwitchXact ==
    ASSUME NEW i \in Node, NEW g \in Gen, NEW D, ClusterInv, XactInv,
           MtmConsiderGenSwitch(i, g, D), UNCHANGED <<wal, busy, acks>>
    PROVE  XactInv'
<1> DEFINE G == IF IsRefereeGen(g) THEN {g} ELSE {}
<1>1. CASE UNCHANGED data
  <2>1. UNCHANGED <<ps, alone, has>>
    BY <1>1 DEF data
  <2>2. \A k \in Node : has[k] \cap alone = has[k]
    BY DEF ClusterInv, HasSound, HasSoundAt
  <2> QED BY <2>1, <2>2, DataKeeps
<1>2. CASE /\ cur[i].num < g.num /\ i \in g.members
           /\ ps' = ps \cup {ParallelSafe(g.num, i)}
           /\ alone' = alone \cup G
           /\ has' = [has EXCEPT ![i] = @ \cup G]
  <2>1. g \notin alone
    <3> SUFFICES ASSUME g \in alone PROVE FALSE
      OBVIOUS
    <3>1. g \in has[i]
      BY <1>2 DEF ClusterInv, AloneOwned
    <3>2. g.num <= loi[i] /\ loi[i] <= cur[i].num
      BY <3>1 DEF ClusterInv, HasSound, HasSoundAt, NumbersOrdered, OrderedAt
    <3>3. g.num \in Nat /\ loi[i] \in Nat /\ cur[i].num \in Nat
      BY DEF ClusterInv, Typed, Gen
    <3> QED BY SMTT(30), <1>2, <3>2, <3>3
  <2>2. ASSUME NEW k \in Node
        PROVE  has'[k] \cap alone = has[k]
    <3>1. has[k] \subseteq alone
      BY DEF ClusterInv, HasSound, HasSoundAt
    <3>2. has'[k] = has[k] \/ has'[k] = has[k] \cup G
      BY <1>2 DEF ClusterInv, Typed
    <3> QED BY <3>1, <3>2, <2>1
  <2>3. alone \subseteq alone' /\ (busy' = busy \/ busy' = FALSE)
    BY <1>2
  <2> HIDE DEF G
  <2> QED BY <1>2, <2>2, <2>3, DataKeeps
<1>3. UNCHANGED data
      \/ /\ cur[i].num < g.num /\ i \in g.members
         /\ ps' = ps \cup {ParallelSafe(g.num, i)}
         /\ alone' = alone \cup G
         /\ has' = [has EXCEPT ![i] = @ \cup G]
  BY DEF MtmConsiderGenSwitch, Switch
<1> QED BY <1>1, <1>2, <1>3

\* A node gets the transaction prepared, or precommitted.
LEMMA LogsMore ==
    ASSUME NEW i \in Node, NEW r \in {"P", "PC"}, ClusterInv, XactInv,
           Log(i, r), ~Finished(i),
           r = "PC" /\ i = Participant => "PC" \in wal[Coordinator],
           busy' => busy \/ i = Coordinator,
           "PC" \in acks' => "PC" \in acks \/ (r = "PC" /\ i = Participant),
           UNCHANGED data
    PROVE  XactInv'
<1>1. UNCHANGED <<alone, has, ps>>
  BY DEF data
<1>2. /\ wal'[i] = wal[i] \cup {r}
      /\ \A k \in Node \ {i} : wal'[k] = wal[k]
  BY DEF Log, ClusterInv, Typed
<1>3. /\ \A k \in Node : wal[k] \subseteq wal'[k]
      /\ \A k \in Node : \A o \in {"CP", "AP"} : o \in wal'[k] => o \in wal[k] /\ k # i
  BY <1>2 DEF Finished
<1>P. /\ Coordinator \in Node /\ Participant \in Node /\ Participant # Coordinator
      /\ Node = {Coordinator, Participant}
  BY ParticipantIs
<1>4. RecordsSound'
  <2>1. busy' => ~Finished(Coordinator)'
    BY <1>2, <1>3, <1>P DEF XactInv, RecordsSound, Finished
  <2>2. "PC" \in acks' => "PC" \in wal'[Participant]
    BY <1>2, <1>3, <1>P DEF XactInv, RecordsSound
  <2>3. "PC" \in wal'[Participant] => "PC" \in wal'[Coordinator]
    BY <1>2, <1>3, <1>P DEF XactInv, RecordsSound
  <2>4. \A k \in Node : "CP" \in wal'[k] => "PC" \in wal'[Coordinator]
    BY <1>3, <1>P DEF XactInv, RecordsSound
  <2>5. \A s \in ps' : s.wal \subseteq wal'[s.by]
    BY <1>1, <1>3 DEF XactInv, RecordsSound, ClusterInv, Typed
  <2> QED BY <2>1, <2>2, <2>3, <2>4, <2>5 DEF RecordsSound
<1>5. Agreement'
  BY <1>3 DEF XactInv, Agreement
<1>6. OutcomesSettled'
  <2> SUFFICES ASSUME NEW k \in Node, NEW o \in {"CP", "AP"}, o \in wal'[k]
               PROVE  Settled(k, o)'
    BY DEF OutcomesSettled
  <2>1. o \in wal[k] /\ k # i /\ Settled(k, o)
    BY <1>3 DEF XactInv, OutcomesSettled
  <2>2. Other(k) \in Node /\ wal'[k] = wal[k]
    BY <2>1, <1>2, TwoNodes
  <2>3. CASE o \in wal[Other(k)]
    BY <2>2, <2>3, <1>3 DEF Settled
  <2>4. CASE o = "CP" /\ \A n \in Node : "PC" \in wal[n]
    BY <2>4, <1>3 DEF Settled
  <2>5. CASE o = "AP" /\ "AP" \in wal[Coordinator] /\ "PC" \notin wal[Coordinator]
    <3>1. Coordinator # i
      BY <2>5 DEF Finished
    <3> QED BY <2>5, <3>1, <1>2, <1>P DEF Settled
  <2>6. CASE \E g \in alone : Resolved(k, o, g)
    <3>1. PICK g \in alone : Resolved(k, o, g)
      BY <2>6
    <3>2. Resolved(k, o, g)'
      BY <3>1, <2>2, <1>1, <1>3 DEF Resolved
    <3> QED BY <3>2, <1>1 DEF Settled
  <2> QED BY <2>1, <2>3, <2>4, <2>5, <2>6 DEF Settled
<1> QED BY <1>4, <1>5, <1>6 DEF XactInv

\* A node finishes the transaction, where no node has finished it otherwise.
LEMMA Finishes ==
    ASSUME NEW i \in Node, NEW o \in {"CP", "AP"}, ClusterInv, XactInv, Log(i, o),
           ~Finished(i),
           \A k \in Node : \A p \in {"CP", "AP"} : p # o => p \notin wal[k],
           o = "CP" => "PC" \in wal[Coordinator],
           busy' => busy /\ i # Coordinator,
           UNCHANGED acks, UNCHANGED data,
           Settled(i, o)'
    PROVE  XactInv'
<1>1. UNCHANGED <<alone, has, ps>>
  BY DEF data
<1>2. /\ wal'[i] = wal[i] \cup {o}
      /\ \A k \in Node \ {i} : wal'[k] = wal[k]
  BY DEF Log, ClusterInv, Typed
<1>3. /\ \A k \in Node : wal[k] \subseteq wal'[k]
      /\ \A k \in Node : \A p \in {"CP", "AP"} : p \in wal'[k] => p = o
      /\ \A k \in Node : "PC" \in wal'[k] => "PC" \in wal[k]
  BY SMTT(30), <1>2
<1>P. /\ Coordinator \in Node /\ Participant \in Node /\ Participant # Coordinator
      /\ Node = {Coordinator, Participant}
  BY ParticipantIs
<1>4. RecordsSound'
  <2>1. busy' => ~Finished(Coordinator)'
    BY <1>2, <1>P DEF XactInv, RecordsSound, Finished
  <2>2. "PC" \in acks' => "PC" \in wal'[Participant]
    BY <1>3, <1>P DEF XactInv, RecordsSound
  <2>3. "PC" \in wal'[Participant] => "PC" \in wal'[Coordinator]
    BY <1>3, <1>P DEF XactInv, RecordsSound
  <2>4. \A k \in Node : "CP" \in wal'[k] => "PC" \in wal'[Coordinator]
    BY <1>3, <1>P
  <2>5. \A s \in ps' : s.wal \subseteq wal'[s.by]
    BY <1>1, <1>3 DEF XactInv, RecordsSound, ClusterInv, Typed
  <2> QED BY <2>1, <2>2, <2>3, <2>4, <2>5 DEF RecordsSound
<1>5. Agreement'
  BY <1>3 DEF Agreement
<1>6. OutcomesSettled'
  <2> SUFFICES ASSUME NEW k \in Node, NEW p \in {"CP", "AP"}, p \in wal'[k]
               PROVE  Settled(k, p)'
    BY DEF OutcomesSettled
  <2>1. p = o
    BY <1>3
  <2>2. CASE k = i
    BY <2>1, <2>2
  <2>3. CASE k # i
    <3>1. Other(k) = i
      BY <2>3, TwoNodes
    <3> QED BY <3>1, <2>1, <1>2 DEF Settled
  <2> QED BY <2>2, <2>3
<1> QED BY <1>4, <1>5, <1>6 DEF XactInv

\* The coordinator commits what both have precommitted.
LEMMA CommitStep ==
    ASSUME ClusterInv, XactInv, Commit
    PROVE  XactInv'
<1> DEFINE c == Coordinator
<1>P. /\ c \in Node /\ Participant \in Node /\ Node = {c, Participant}
      /\ Other(Participant) = c
  BY ParticipantIs
<1>1. /\ busy /\ "PC" \in acks /\ Log(c, "CP") /\ ~busy'
      /\ UNCHANGED acks /\ UNCHANGED data
  BY DEF Commit, cluster
<1>2. /\ ~Finished(c)
      /\ \A k \in Node : "PC" \in wal[k]
  BY <1>1, <1>P DEF XactInv, RecordsSound
<1>3. "AP" \notin wal[c]
  BY <1>2 DEF Finished
<1>4. "AP" \notin wal[Participant]
  <2> SUFFICES ASSUME "AP" \in wal[Participant] PROVE FALSE
    OBVIOUS
  <2>1. Settled(Participant, "AP")
    BY <1>P DEF XactInv, OutcomesSettled
  <2> QED BY <2>1, <1>2, <1>3, <1>P DEF Settled, Resolved
<1>5. \A k \in Node : "PC" \in wal'[k]
  BY <1>1, <1>2 DEF Log, ClusterInv, Typed
<1>6. Settled(c, "CP")'
  BY <1>5 DEF Settled
<1>7. \A k \in Node : \A p \in {"CP", "AP"} : p # "CP" => p \notin wal[k]
  BY <1>3, <1>4, <1>P
<1> QED BY <1>1, <1>2, <1>6, <1>7, <1>P, Finishes

\* The coordinator aborts what it has not precommitted.
LEMMA AbortStep ==
    ASSUME ClusterInv, XactInv, Log(Coordinator, "AP"), ~Finished(Coordinator),
           "PC" \notin wal[Coordinator], ~busy', UNCHANGED acks, UNCHANGED data
    PROVE  XactInv'
<1>P. Coordinator \in Node
  BY ParticipantIs
<1>1. \A k \in Node : \A p \in {"CP", "AP"} : p # "AP" => p \notin wal[k]
  BY DEF XactInv, RecordsSound
<1>2. "AP" \in wal'[Coordinator] /\ "PC" \notin wal'[Coordinator]
  BY <1>P DEF Log, ClusterInv, Typed
<1>3. Settled(Coordinator, "AP")'
  BY <1>2 DEF Settled
<1> QED BY <1>1, <1>3, <1>P, Finishes

\* A node finishes the transaction as its peer has.
LEMMA ApplyFinishStep ==
    ASSUME NEW i \in Node, ClusterInv, XactInv, ApplyFinish(i)
    PROVE  XactInv'
<1>1. /\ ~Finished(i) /\ Released(i)
      /\ UNCHANGED acks /\ UNCHANGED data /\ UNCHANGED busy
  BY DEF ApplyFinish, Prepared, cluster
<1>2. PICK o \in wal[Other(i)] \cap {"CP", "AP"} : Log(i, o)
  BY DEF ApplyFinish
<1>3. Other(i) \in Node /\ Other(i) # i /\ Node = {i, Other(i)}
  BY TwoNodes
<1>4. \A k \in Node : \A p \in {"CP", "AP"} : p # o => p \notin wal[k]
  BY <1>1, <1>2, <1>3 DEF Finished, XactInv, Agreement
<1>5. o = "CP" => "PC" \in wal[Coordinator]
  BY <1>2, <1>3 DEF XactInv, RecordsSound
<1>6. Settled(i, o)'
  <2>1. o \in wal'[Other(i)]
    BY <1>2, <1>3 DEF Log, ClusterInv, Typed
  <2> QED BY <2>1 DEF Settled
<1>7. busy' => busy /\ i # Coordinator
  BY <1>1 DEF Released
<1> QED BY <1>1, <1>2, <1>4, <1>5, <1>6, <1>7, Finishes

\* The winner of the grant finishes the transaction by itself.
LEMMA ResolveStep ==
    ASSUME NEW i \in Node, ClusterInv, XactInv, ResolveForRefereeWinner(i)
    PROVE  XactInv'
<1> DEFINE j == Other(i)
<1>1. /\ ~Finished(i) /\ Released(i) /\ Online(i) /\ IsRefereeGen(cur[i])
      /\ UNCHANGED acks /\ UNCHANGED data /\ UNCHANGED busy
  BY DEF ResolveForRefereeWinner, Prepared, cluster
<1>2. j \in Node /\ j # i /\ Node = {i, j} /\ Other(j) = i
  BY TwoNodes
<1>3. PICK g \in alone : /\ g.members = {i} /\ g \notin has[j]
                         /\ \A r \in ps : g \notin r.has
                         /\ \A h \in alone : h \in has[i]
  BY <1>1, AloneIsFinal
<1>P. /\ Coordinator \in Node /\ Participant \in Node /\ Node = {Coordinator, Participant}
  BY ParticipantIs
<1>4. PICK o \in {"CP", "AP"} : /\ Log(i, o)
                                /\ o = "CP" => "PC" \in wal[i]
                                /\ o = "AP" => "PC" \notin wal[i]
  BY DEF ResolveForRefereeWinner
<1> HIDE DEF j
<1>5. o = "CP" => "PC" \in wal[Coordinator]
  BY <1>4, <1>P DEF XactInv, RecordsSound
<1>6. ASSUME NEW p \in {"CP", "AP"}, p # o, p \in wal[j]
      PROVE  FALSE
  <2>1. Settled(j, p) /\ p \notin wal[i]
    BY <1>1, <1>2, <1>6 DEF XactInv, OutcomesSettled, Finished
  <2>2. ~(p = "CP" /\ \A k \in Node : "PC" \in wal[k])
    BY <1>4, <1>6
  <2>3. ~(p = "AP" /\ "AP" \in wal[Coordinator] /\ "PC" \notin wal[Coordinator])
    BY <1>4, <1>5, <1>6
  <2>4. PICK h \in alone : Resolved(j, p, h)
    BY <2>1, <2>2, <2>3, <1>2 DEF Settled
  <2> QED BY <2>1, <2>4, <1>2, <1>3 DEF Resolved
<1>7. \A k \in Node : \A p \in {"CP", "AP"} : p # o => p \notin wal[k]
  BY <1>1, <1>2, <1>6 DEF Finished
<1>8. Settled(i, o)'
  <2>1. UNCHANGED <<alone, has, ps>>
    BY <1>1 DEF data
  <2>2. o = "AP" => "PC" \notin wal'[i]
    BY <1>1, <1>4 DEF Log, ClusterInv, Typed
  <2>3. Resolved(i, o, g)'
    BY <2>1, <2>2, <1>3 DEF Resolved, j
  <2> QED BY <2>1, <2>3, <1>3 DEF Settled
<1>9. busy' => busy /\ i # Coordinator
  BY <1>1 DEF Released
<1> QED BY <1>1, <1>4, <1>5, <1>7, <1>8, <1>9, Finishes

\* A node in recovery gets the log of its donor, up to the ParallelSafe.
LEMMA GetOnlineXact ==
    ASSUME NEW i \in Node, ClusterInv, XactInv, GetOnline(i)
    PROVE  XactInv'
<1> DEFINE j == Other(i)
<1>1. PICK r \in ps : /\ has' = [has EXCEPT ![i] = @ \cup r.has]
                      /\ wal' = [wal EXCEPT ![i] = Applied(i, r.wal)]
  BY DEF GetOnline
<1>2. Released(i) /\ UNCHANGED <<alone, ps, busy, acks>>
  BY DEF GetOnline
<1>3. j \in Node /\ j # i /\ Node = {i, j} /\ Other(j) = i
  BY TwoNodes
<1>P. /\ Coordinator \in Node /\ Participant \in Node /\ Participant # Coordinator
      /\ Node = {Coordinator, Participant}
  BY ParticipantIs
<1>4. r.wal \subseteq wal[i] \/ r.wal \subseteq wal[j]
  BY <1>3 DEF XactInv, RecordsSound, ClusterInv, Typed
<1>5. /\ wal'[j] = wal[j] /\ has'[j] = has[j] /\ has'[i] = has[i] \cup r.has
      /\ Finished(i) => wal'[i] = wal[i]
      /\ ~Finished(i) => wal'[i] = wal[i] \cup r.wal
  BY <1>1, <1>3 DEF Applied, ClusterInv, Typed
<1>6. /\ \A k \in Node : wal[k] \subseteq wal'[k]
      /\ \A k \in Node : \A q \in wal'[k] : q \in wal[k] \/ (k = i /\ q \in wal[j])
  BY <1>3, <1>4, <1>5
<1> HIDE DEF j
<1>7. RecordsSound'
  <2>1. busy' => ~Finished(Coordinator)'
    <3>1. CASE i = Coordinator
      BY <1>2, <3>1 DEF Released
    <3>2. CASE j = Coordinator
      BY <1>2, <1>5, <3>2 DEF XactInv, RecordsSound, Finished
    <3> QED BY <3>1, <3>2, <1>3, <1>P
  <2>2. "PC" \in acks' => "PC" \in wal'[Participant]
    BY <1>2, <1>6, <1>P DEF XactInv, RecordsSound
  <2>3. "PC" \in wal'[Participant] => "PC" \in wal'[Coordinator]
    BY <1>3, <1>6, <1>P DEF XactInv, RecordsSound
  <2>4. \A k \in Node : "CP" \in wal'[k] => "PC" \in wal'[Coordinator]
    BY <1>3, <1>6, <1>P DEF XactInv, RecordsSound
  <2>5. \A s \in ps' : s.wal \subseteq wal'[s.by]
    BY <1>2, <1>6 DEF XactInv, RecordsSound, ClusterInv, Typed
  <2> QED BY <2>1, <2>2, <2>3, <2>4, <2>5 DEF RecordsSound
<1>8. Agreement'
  BY <1>3, <1>6 DEF XactInv, Agreement
<1>9. OutcomesSettled'
  <2> SUFFICES ASSUME NEW k \in Node, NEW o \in {"CP", "AP"}, o \in wal'[k]
               PROVE  Settled(k, o)'
    BY DEF OutcomesSettled
  <2>1. CASE o \notin wal[k]
    BY <2>1, <1>6, <1>3 DEF Settled, j
  <2>2. CASE o \in wal[k]
    <3>1. Settled(k, o) /\ Other(k) \in Node /\ k # Other(k)
      BY <2>2, TwoNodes DEF XactInv, OutcomesSettled
    <3>2. CASE o \in wal[Other(k)]
      BY <3>1, <3>2, <1>6 DEF Settled
    <3>3. CASE o = "CP" /\ \A n \in Node : "PC" \in wal[n]
      BY <3>3, <1>6 DEF Settled
    <3>4. CASE o = "AP" /\ "AP" \in wal[Coordinator] /\ "PC" \notin wal[Coordinator]
      <4>1. wal'[Coordinator] = wal[Coordinator]
        BY <3>4, <1>3, <1>5, <1>P DEF Finished
      <4> QED BY <4>1, <3>4 DEF Settled
    <3>5. CASE \E g \in alone : Resolved(k, o, g)
      <4>1. PICK g \in alone : Resolved(k, o, g)
        BY <3>5
      <4>2. wal'[k] = wal[k]
        BY <2>2, <1>3, <1>5 DEF Finished
      <4>3. ASSUME g \in has'[Other(k)]
            PROVE  o \in wal'[Other(k)]
        <5>1. CASE g \in has[Other(k)]
          BY <4>1, <5>1, <3>1, <1>6 DEF Resolved
        <5>2. CASE g \notin has[Other(k)]
          <6>1. Other(k) = i /\ g \in r.has /\ o \in r.wal
            BY <4>1, <4>3, <5>2, <3>1, <1>3, <1>5 DEF Resolved
          <6>2. Finished(i) => o \in wal[i]
            BY <2>2 DEF Finished, XactInv, Agreement
          <6> QED BY <6>1, <6>2, <1>5
        <5> QED BY <5>1, <5>2
      <4>4. Resolved(k, o, g)'
        BY <4>1, <4>2, <4>3, <1>2 DEF Resolved
      <4> QED BY <4>4, <1>2 DEF Settled
    <3> QED BY <3>1, <3>2, <3>3, <3>4, <3>5 DEF Settled
  <2> QED BY <2>1, <2>2
<1> QED BY <1>7, <1>8, <1>9 DEF XactInv

----------------------------------------------------------------------------
(* All steps, and the theorems.                                            *)

\* The invariant holds when both nodes are online in the first generation.
LEMMA InitIInv == Init => IInv
<1> SUFFICES ASSUME Init PROVE IInv
  OBVIOUS
<1>1. Typed
  <2>1. Generation(1, Node) \in Gen /\ Generation(1, {}) \in Gen
    BY SMTT(30) DEF Gen, Generation
  <2>2. /\ cur \in [Node -> Gen] /\ vote \in [Node -> Gen]
        /\ donors \in [Node -> SUBSET Node]
        /\ loi \in [Node -> Nat \ {0}] /\ seen \in [Node -> Nat]
        /\ call \in [Node -> Call \cup {None}]
        /\ has \in [Node -> SUBSET Gen] /\ wal \in [Node -> SUBSET Rec]
    BY SMTT(30), <2>1 DEF Init
  <2> QED BY <2>2 DEF Init, Typed
<1>2. NumbersOrdered
  <2> SUFFICES ASSUME NEW i \in Node PROVE OrderedAt(i)
    BY DEF NumbersOrdered
  <2> QED BY SMTT(30), TwoNodes DEF Init, OrderedAt, Generation
<1>3. CurrentElected
  BY DEF Init, CurrentElected, ElectedAt, Generation
<1>4. LastOnline
  BY DEF Init, LastOnline, LastOnlineAt
<1>5. CallsSound /\ GrantFresh
  BY DEF Init, CallsSound, CallSound, GrantFresh, FreshFor, Waits
<1>6. BallotsBind /\ AloneOwned /\ HasSound /\ HasAll /\ SafeSound /\ GrantHeld
  BY DEF Init, BallotsBind, AloneOwned, HasSound, HasSoundAt, HasAll, SafeSound, GrantHeld
<1>7. RecordsSound /\ OutcomesSettled /\ Agreement
  BY ParticipantIs DEF Init, RecordsSound, OutcomesSettled, Agreement, Finished
<1> QED BY <1>1, <1>2, <1>3, <1>4, <1>5, <1>6, <1>7 DEF IInv, ClusterInv

\* The transaction's own steps keep the types, and touch nothing else.
LEMMA TransactionTyped ==
    ASSUME ClusterInv,
           \/ \E i \in Node : ApplyFinish(i) \/ ResolveForRefereeWinner(i)
           \/ Prepare \/ ApplyPrepare \/ Precommit \/ ApplyPrecommit \/ Commit
           \/ CommitFails \/ AbortOwn
    PROVE  ClusterInv'
<1>T. wal \in [Node -> SUBSET Rec] /\ busy \in BOOLEAN /\ Coordinator \in Node /\ Participant \in Node
  BY ParticipantIs DEF ClusterInv, Typed
<1>1. /\ UNCHANGED cluster
      /\ wal' = wal \/ \E i \in Node : \E r \in Rec : Log(i, r)
      /\ busy' \in BOOLEAN
  <2>1. CASE \E i \in Node : ApplyFinish(i)
    <3>1. PICK i \in Node : ApplyFinish(i)
      BY <2>1
    <3>2. \E r \in Rec : Log(i, r)
      BY <3>1 DEF ApplyFinish, Rec
    <3> QED BY <3>1, <3>2, <1>T DEF ApplyFinish
  <2>2. CASE \E i \in Node : ResolveForRefereeWinner(i)
    <3>1. PICK i \in Node : ResolveForRefereeWinner(i)
      BY <2>2
    <3>2. \E r \in Rec : Log(i, r)
      BY <3>1 DEF ResolveForRefereeWinner, Rec
    <3> QED BY <3>1, <3>2, <1>T DEF ResolveForRefereeWinner
  <2>3. CASE Prepare \/ Commit
    <3>1. /\ UNCHANGED cluster /\ (busy' = TRUE \/ busy' = FALSE)
          /\ Log(Coordinator, "P") \/ Log(Coordinator, "CP")
      BY <2>3 DEF Prepare, Commit
    <3> QED BY <3>1, <1>T DEF Rec
  <2>4. CASE ApplyPrepare \/ ApplyPrecommit
    <3>1. /\ UNCHANGED cluster /\ UNCHANGED busy
          /\ Log(Participant, "P") \/ Log(Participant, "PC")
      BY <2>4 DEF ApplyPrepare, ApplyPrecommit
    <3>2. \E r \in Rec : Log(Participant, r)
      BY <3>1 DEF Rec
    <3> QED BY <3>1, <3>2, <1>T
  <2>5. CASE Precommit \/ AbortOwn
    <3>1. /\ UNCHANGED cluster /\ UNCHANGED busy
          /\ Log(Coordinator, "PC") \/ Log(Coordinator, "AP")
      BY <2>5 DEF Precommit, AbortOwn
    <3>2. \E r \in Rec : Log(Coordinator, r)
      BY <3>1 DEF Rec
    <3> QED BY <3>1, <3>2, <1>T
  <2>6. CASE CommitFails
    <3>1. /\ UNCHANGED cluster /\ busy' = FALSE
          /\ wal' = wal \/ Log(Coordinator, "AP")
      BY <2>6 DEF CommitFails
    <3> QED BY <3>1, <1>T DEF Rec
  <2> QED BY <2>1, <2>2, <2>3, <2>4, <2>5, <2>6
<1>2. wal' \in [Node -> SUBSET Rec]
  BY <1>1, <1>T DEF Log
<1> QED BY <1>1, <1>2, XactStep

\* Every step keeps what concerns generations and the grant.
LEMMA NextCluster ==
    ASSUME ClusterInv, [Next]_vars
    PROVE  ClusterInv'
<1>1. CASE UNCHANGED vars
  <2>1. UNCHANGED cluster /\ UNCHANGED <<wal, busy>>
    BY <1>1 DEF vars, cluster, xact
  <2>2. wal' \in [Node -> SUBSET Rec] /\ busy' \in BOOLEAN
    BY <2>1 DEF ClusterInv, Typed
  <2> QED BY <2>1, <2>2, XactStep
<1>2. ASSUME NEW i \in Node, Heartbeat(i) \/ GetOnline(i) \/ TourWon(i) \/ Granted(i)
      PROVE  ClusterInv'
  BY <1>2, HeartbeatStep, GetOnlineStep, TourWonStep, GrantedStep
<1>3. ASSUME NEW i \in Node, NEW C \in {{i}, Node}, CampaignMyself(i, C)
      PROVE  ClusterInv'
  BY <1>3, CampaignStep
<1>4. ASSUME NEW i \in Node, NEW b \in ballots, VoteFor(i, b.gen)
      PROVE  ClusterInv'
  BY <1>4, VoteForStep
<1>5. ASSUME NEW i \in Node, RefereeExecutes(i) \/ RefereeClearGrant(i)
      PROVE  ClusterInv'
  BY <1>5, RefereeStep, ClearStep
<1>6. ASSUME NEW i \in Node,
             \/ TourFails(i) \/ AskFails(i) \/ Cleared(i) \/ ClearFails(i) \/ NoReferee(i)
             \/ CampaignerRestarts(i) \/ NodeRestarts(i)
      PROVE  ClusterInv'
  BY <1>6, CallEnds
<1>7. CASE \/ \E i \in Node : ApplyFinish(i) \/ ResolveForRefereeWinner(i)
           \/ Prepare \/ ApplyPrepare \/ Precommit \/ ApplyPrecommit \/ Commit
           \/ CommitFails \/ AbortOwn
  BY <1>7, TransactionTyped
<1> QED BY <1>1, <1>2, <1>3, <1>4, <1>5, <1>6, <1>7 DEF Next

\* Every step keeps what concerns the transaction.
LEMMA NextXact ==
    ASSUME ClusterInv, XactInv, [Next]_vars
    PROVE  XactInv'
<1>P. /\ Coordinator \in Node /\ Participant \in Node /\ Participant # Coordinator
  BY ParticipantIs
<1>0. \A k \in Node : has[k] \cap alone = has[k]
  BY DEF ClusterInv, HasSound, HasSoundAt
<1>S. ASSUME UNCHANGED <<wal, acks, data>>, busy' = busy \/ busy' = FALSE
      PROVE  XactInv'
  <2>1. UNCHANGED <<wal, acks, ps, alone, has>>
    BY <1>S DEF data
  <2> QED BY <2>1, <1>S, <1>0, <1>P, DataKeeps
<1>1. CASE UNCHANGED vars
  BY <1>1, <1>S DEF vars, xact
<1>2. ASSUME NEW i \in Node, Heartbeat(i) \/ TourWon(i) \/ Granted(i)
      PROVE  XactInv'
  <2>1. UNCHANGED <<wal, busy, acks>>
    BY <1>2 DEF Heartbeat, TourWon, Granted, xact
  <2>2. \E g \in Gen : \E D : MtmConsiderGenSwitch(i, g, D)
    <3>1. CASE Heartbeat(i)
      <4>1. cur[Other(i)] \in Gen
        BY TwoNodes DEF ClusterInv, Typed
      <4> QED BY <3>1, <4>1 DEF Heartbeat
    <3>2. CASE TourWon(i) \/ Granted(i)
      <4>1. call[i] # None
        BY <3>2 DEF TourWon, Granted, Waits
      <4>2. call[i].gen \in Gen
        BY <4>1 DEF ClusterInv, Typed, Call
      <4> QED BY <3>2, <4>2 DEF TourWon, Granted
    <3> QED BY <1>2, <3>1, <3>2
  <2> QED BY <2>1, <2>2, SwitchXact
<1>3. ASSUME NEW i \in Node, GetOnline(i)
      PROVE  XactInv'
  BY <1>3, GetOnlineXact
<1>4. ASSUME NEW i \in Node, NEW C, CampaignMyself(i, C)
      PROVE  XactInv'
  BY <1>4, <1>S DEF CampaignMyself, xact
<1>5. ASSUME NEW i \in Node, NEW g, VoteFor(i, g)
      PROVE  XactInv'
  BY <1>5, <1>S DEF VoteFor, xact
<1>6. ASSUME NEW i \in Node,
             \/ RefereeExecutes(i) \/ RefereeClearGrant(i)
             \/ TourFails(i) \/ AskFails(i) \/ Cleared(i) \/ ClearFails(i) \/ NoReferee(i)
      PROVE  XactInv'
  <2>1. UNCHANGED <<data, xact>>
    BY <1>6 DEF RefereeExecutes, RefereeClearGrant, TourFails, AskFails, Cleared, ClearFails,
                NoReferee
  <2> QED BY <2>1, <1>S DEF xact
<1>7. ASSUME NEW i \in Node, CampaignerRestarts(i) \/ NodeRestarts(i)
      PROVE  XactInv'
  <2>1. CampaignerStarts(i) /\ (busy' = busy \/ busy' = FALSE)
    BY <1>7 DEF CampaignerRestarts, NodeRestarts
  <2>2. UNCHANGED <<wal, acks, data>>
    BY <2>1 DEF CampaignerStarts
  <2> QED BY <2>1, <2>2, <1>S
<1>8. ASSUME NEW i \in Node, ApplyFinish(i) \/ ResolveForRefereeWinner(i)
      PROVE  XactInv'
  BY <1>8, ApplyFinishStep, ResolveStep
<1>9. CASE Prepare
  <2>1. /\ wal[Coordinator] = {} /\ Log(Coordinator, "P")
        /\ UNCHANGED acks /\ UNCHANGED data
    BY <1>9 DEF Prepare, cluster
  <2>2. ~Finished(Coordinator)
    BY <2>1 DEF Finished
  <2> QED BY <2>1, <2>2, <1>P, LogsMore
<1>10. CASE ApplyPrepare
  <2>1. /\ wal[Participant] = {} /\ Log(Participant, "P")
        /\ acks' = acks \cup {"P"} /\ UNCHANGED busy /\ UNCHANGED data
    BY <1>10 DEF ApplyPrepare, cluster
  <2>2. ~Finished(Participant) /\ ("PC" \in acks' => "PC" \in acks)
    BY <2>1 DEF Finished
  <2>3. busy' => busy \/ Participant = Coordinator
    BY <2>1
  <2> QED BY <2>1, <2>2, <2>3, <1>P, LogsMore
<1>11. CASE Precommit
  <2>1. /\ wal[Coordinator] = {"P"} /\ Log(Coordinator, "PC")
        /\ UNCHANGED acks /\ UNCHANGED data
    BY <1>11 DEF Precommit, cluster
  <2>2. ~Finished(Coordinator)
    BY <2>1 DEF Finished
  <2> QED BY <2>1, <2>2, <1>P, LogsMore
<1>12. CASE ApplyPrecommit
  <2>1. /\ ~Finished(Participant) /\ Log(Participant, "PC") /\ "PC" \in wal[Coordinator]
        /\ UNCHANGED busy /\ UNCHANGED data
    BY <1>12 DEF ApplyPrecommit, Prepared, cluster
  <2>2. busy' => busy \/ Participant = Coordinator
    BY <2>1
  <2> QED BY <2>1, <2>2, <1>P, LogsMore
<1>13. CASE CommitFails
  <2>1. /\ ~busy' /\ busy' = FALSE /\ busy /\ UNCHANGED acks /\ UNCHANGED data
        /\ wal' = wal \/ ("PC" \notin wal[Coordinator] /\ Log(Coordinator, "AP"))
    BY <1>13 DEF CommitFails, cluster
  <2>2. ~Finished(Coordinator)
    BY <2>1 DEF XactInv, RecordsSound
  <2> QED BY <2>1, <2>2, <1>S, AbortStep
<1>14. CASE AbortOwn
  <2>1. /\ ~busy' /\ wal[Coordinator] = {"P"} /\ Log(Coordinator, "AP")
        /\ UNCHANGED acks /\ UNCHANGED data
    BY <1>14 DEF AbortOwn, cluster
  <2>2. ~Finished(Coordinator) /\ "PC" \notin wal[Coordinator]
    BY <2>1 DEF Finished
  <2> QED BY <2>1, <2>2, AbortStep
<1> QED BY <1>1, <1>2, <1>3, <1>4, <1>5, <1>6, <1>7, <1>8, <1>9, <1>10, <1>11, <1>12, <1>13,
           <1>14, CommitStep DEF Next

\* The invariant of all steps.
THEOREM RefereeInvariant == Spec => []IInv
<1>1. IInv /\ [Next]_vars => IInv'
  <2> SUFFICES ASSUME IInv, [Next]_vars PROVE IInv'
    OBVIOUS
  <2>1. ClusterInv /\ XactInv
    BY DEF IInv, XactInv
  <2>2. ClusterInv' /\ XactInv'
    BY <2>1, NextCluster, NextXact
  <2> QED BY <2>2 DEF IInv, XactInv
<1> QED BY InitIInv, <1>1, PTL DEF Spec

\* No split brain: a node that is online has the commits of every generation
\* below its own in which a node worked alone, on a grant of the referee
\* (CampaignReferee, RefereeClearGrant), in a cluster of two nodes, however
\* many elections, lost requests and restarts there are.
THEOREM RefereeHoldsAll == Spec => []HoldsAll
<1>1. IInv => HoldsAll
  <2> SUFFICES ASSUME ClusterInv, NEW i \in Node, Online(i), NEW g \in alone, g.num <= cur[i].num
               PROVE  g \in has[i]
    BY DEF IInv, HoldsAll
  <2>1. g.num <= loi[i]
    BY DEF Online
  <2> QED BY <2>1 DEF ClusterInv, HasAll
<1> QED BY RefereeInvariant, <1>1, PTL

\* A transaction two nodes had under way ends the same way at both, also where
\* the winner of the grant finished it by itself (ResolveForRefereeWinner).
THEOREM RefereeAgrees == Spec => []Agreement
<1>1. IInv => Agreement
  BY DEF IInv
<1> QED BY RefereeInvariant, <1>1, PTL

----------------------------------------------------------------------------
(* Phases: how the two take turns, and who remembers the grant.            *)

\* k has not voted beyond the generation both are in, but for going on alone.
KeepsUp(k) ==
    \/ vote[k].num = cur[k].num /\ vote[k].members # {k}
    \/ Online(k) /\ vote[k] = Generation(cur[k].num + 1, {k})

\* What k may wait for while both are in the generation number n.
TogetherCall(k, n) ==
    /\ ~Waits(k, "tour")
    /\ Waits(k, "ask") => call[k].gen = vote[k] /\ vote[k].num = n + 1
    /\ Waits(k, "clear") =>
        /\ call[k].gen.num = n /\ call[k].mine = vote[k].num
        /\ call[k].state = "done" => grant = None \/ (grant.node # k /\ grant.num = n + 1)

\* Somebody means to turn in the grant while both are in the generation number
\* n: the last of them to get online, or who asked for it, if that was since.
Remembered(n) ==
    grant # None =>
        \/ /\ grant.num < n
           /\ (\A k \in Node : Online(k)) => \E k \in Node : pending[k] # 0
        \/ /\ grant.num = n + 1
           /\ \/ pending[grant.node] # 0
              \/ Waits(grant.node, "ask") /\ call[grant.node].state # "sent"

\* Both nodes are in one generation, of both.
Together(n) ==
    /\ \A k \in Node : cur[k] = Generation(n, Node) /\ KeepsUp(k) /\ TogetherCall(k, n)
    /\ Remembered(n)

\* A peer of the node that works alone in the generation number n: still in the
\* last generation of both, or told of this one and maybe in want of the next,
\* or elected to that.
Behind(i, n) ==
    cur[i].members = Node /\ cur[i].num + 1 = n /\ KeepsUp(i)

Aware(i, n) ==
    /\ cur[i] = cur[Other(i)] /\ ~Online(i)
    /\ \/ vote[i].num = n /\ vote[i].members # Node
       \/ vote[i] = Generation(n + 1, Node)

Elected(i, n) ==
    cur[i] = Generation(n + 1, Node) /\ vote[i] = cur[i] /\ ~Online(i) /\ call[i] = None

Peer(i, j, n) ==
    \/ Behind(i, n) /\ vote[j] = cur[j]
    \/ Aware(i, n) /\ vote[j] \in {cur[j], Generation(n + 1, Node)}
    \/ Elected(i, n) /\ vote[j] = cur[i]

TourCall(i, n) ==
    Waits(i, "tour") => Aware(i, n) /\ vote[i] = Generation(n + 1, Node) /\ call[i].gen = vote[i]

\* j works alone in the generation number n, and does not campaign there.
Ahead(j, n) ==
    /\ cur[j] = Generation(n, {j}) /\ Online(j) /\ call[j] = None
    /\ grant # None => grant.num <= n
    /\ Peer(Other(j), j, n) /\ TourCall(Other(j), n)

Phases == \E n \in Nat : Together(n) \/ \E j \in Node : Ahead(j, n)

\* The numbers that are kept for the grant.
GrantNumbers ==
    /\ pending \in [Node -> Nat]
    /\ \A i \in Node : pending[i] <= cur[i].num
    /\ grant # None => grant.num <= vote[grant.node].num

----------------------------------------------------------------------------
(* How the phases follow each other.                                       *)

\* The numbers of a node: online in its generation at most, voted for it at
\* least.
LEMMA Numbers ==
    ASSUME ClusterInv, NEW k \in Node
    PROVE  /\ cur[k] \in Gen /\ vote[k] \in Gen
           /\ cur[k].num \in Nat \ {0} /\ vote[k].num \in Nat /\ loi[k] \in Nat
           /\ loi[k] <= cur[k].num /\ cur[k].num <= vote[k].num
BY DEF ClusterInv, Typed, Gen, NumbersOrdered, OrderedAt

\* The fields of a generation.
LEMMA Fields ==
    ASSUME NEW n, NEW M
    PROVE  /\ Generation(n, M).num = n /\ Generation(n, M).members = M
BY DEF Generation

\* What a node has while both are in one generation.
LEMMA TogetherIs ==
    ASSUME NEW n, Together(n), NEW k \in Node
    PROVE  cur[k].num = n /\ cur[k].members = Node /\ KeepsUp(k) /\ TogetherCall(k, n)
<1>1. cur[k] = Generation(n, Node) /\ KeepsUp(k) /\ TogetherCall(k, n)
  BY DEF Together
<1> QED BY SMTT(30), <1>1 DEF Generation

\* A step that no generation and no vote is changed by.
SameElection == UNCHANGED <<cur, loi, vote>>

\* What depends on generations and votes only.
LEMMA SameElectionKeeps ==
    ASSUME SameElection, NEW k, NEW n
    PROVE  /\ Online(k)' = Online(k) /\ KeepsUp(k)' = KeepsUp(k) /\ Behind(k, n)' = Behind(k, n)
           /\ Aware(k, n)' = Aware(k, n)
BY DEF SameElection, Online, KeepsUp, Behind, Aware

\* A call is about a generation.
LEMMA CallGen ==
    ASSUME ClusterInv, NEW k \in Node, call[k] # None
    PROVE  call[k] \in Call /\ call[k].gen \in Gen /\ call[k].gen.num \in Nat /\ call[k].gen.num # 0
BY DEF ClusterInv, Typed, Call, Gen

\* Together, nobody votes for a generation of both.
LEMMA TogetherBallots ==
    ASSUME ClusterInv, NEW n \in Nat, Together(n), NEW k \in Node, NEW b \in ballots
    PROVE  ~(vote[k].num < b.gen.num)
<1> SUFFICES ASSUME vote[k].num < b.gen.num PROVE FALSE
  OBVIOUS
<1> DEFINE m == b.node
<1>1. m \in Node /\ b.gen.num \in Nat
  BY DEF ClusterInv, Typed, Gen
<1>2. /\ b.gen.members = Node /\ b.gen.num <= vote[m].num
      /\ b.gen.num = vote[m].num => vote[m] = b.gen
  BY DEF ClusterInv, BallotsBind, Binds
<1>3. cur[k].num = n /\ cur[m].num = n
  BY <1>1, TogetherIs
<1>4. n <= vote[k].num /\ vote[k].num \in Nat /\ vote[m].num \in Nat
  BY <1>1, <1>3, Numbers
<1>5. KeepsUp(m)
  BY <1>1 DEF Together
<1>6. vote[m].num # n
  BY SMTT(30), <1>1, <1>2, <1>4
<1>7. vote[m] = Generation(n + 1, {m})
  BY <1>3, <1>5, <1>6 DEF KeepsUp
<1>8. vote[m].num = n + 1 /\ vote[m].members = {m}
  BY SMTT(30), <1>7, Fields
<1>9. b.gen.num = n + 1
  BY SMTT(30), <1>1, <1>2, <1>4, <1>8
<1> QED BY <1>1, <1>2, <1>8, <1>9, NotBoth

----------------------------------------------------------------------------
(* Steps while both are in a generation of both.                           *)

\* Where no generation and no vote changes, the calls and the grant are left.
LEMMA TogetherKeeps ==
    ASSUME NEW n, Together(n), SameElection, \A k \in Node : TogetherCall(k, n)', Remembered(n)'
    PROVE  Together(n)'
BY SameElectionKeeps DEF Together, SameElection

\* The call of a node the step is not about.
LEMMA OthersCall ==
    ASSUME NEW n, Together(n), NEW k \in Node, call'[k] = call[k], vote'[k] = vote[k],
           grant' = grant \/ grant' = None \/ (grant'.node # k /\ grant'.num = n + 1)
    PROVE  TogetherCall(k, n)'
BY DEF Together, TogetherCall, Waits

\* A call ends, and the grant is not forgotten over it.
EndsCall(i) ==
    /\ Returns(i) /\ UNCHANGED grant
    /\ \/ UNCHANGED pending /\ (Waits(i, "ask") => call[i].state = "sent")
       \/ pending' = [pending EXCEPT ![i] = cur[i].num]

\* A call of the referee returns while both are in one generation.
LEMMA TogetherEnds ==
    ASSUME ClusterInv, GrantNumbers, NEW n \in Nat, Together(n), SameElection, NEW i \in Node, EndsCall(i)
    PROVE  Together(n)'
<1>1. /\ call'[i] = None /\ \A k \in Node \ {i} : call'[k] = call[k]
      /\ UNCHANGED grant /\ UNCHANGED vote /\ SameElection
  BY DEF EndsCall, Returns, ClusterInv, Typed, SameElection
<1>2. \A k \in Node : TogetherCall(k, n)'
  <2>1. TogetherCall(i, n)'
    BY <1>1 DEF TogetherCall, Waits
  <2> QED BY <2>1, <1>1, OthersCall
<1>3. \A k \in Node : pending[k] # 0 => pending'[k] # 0
  BY Numbers DEF EndsCall, GrantNumbers
<1>4. Waits(i, "ask") /\ call[i].state # "sent" => pending'[i] # 0
  BY Numbers DEF EndsCall, GrantNumbers
<1>5. \A k \in Node : Online(k)' = Online(k)
  BY SameElectionKeeps
<1>6. ASSUME grant # None PROVE grant.node \in Node
  BY <1>6 DEF ClusterInv, Typed
<1>7. Remembered(n)'
  BY <1>1, <1>3, <1>4, <1>5, <1>6 DEF Together, Remembered, Waits
<1> QED BY <1>1, <1>2, <1>7, TogetherKeeps

\* The grant is turned in.
LEMMA TogetherCleared ==
    ASSUME ClusterInv, GrantNumbers, NEW n \in Nat, Together(n), NEW i \in Node, Cleared(i)
    PROVE  Together(n)'
<1>1. /\ call'[i] = None /\ \A k \in Node \ {i} : call'[k] = call[k] /\ pending'[k] = pending[k]
      /\ UNCHANGED grant /\ UNCHANGED vote /\ SameElection
  BY DEF Cleared, Returns, ClusterInv, Typed, GrantNumbers, elect, SameElection
<1>2. \A k \in Node : TogetherCall(k, n)'
  <2>1. TogetherCall(i, n)'
    BY <1>1 DEF TogetherCall, Waits
  <2> QED BY <2>1, <1>1, OthersCall
<1>3. grant = None \/ (grant.node # i /\ grant.num = n + 1)
  BY DEF Cleared, Together, TogetherCall
<1>4. grant # None => grant.num \in Nat /\ grant.node \in Node
  BY DEF ClusterInv, Typed
<1>5. n + 1 # n /\ ~(n + 1 < n)
  BY SMTT(30)
<1>6. Remembered(n)'
  BY <1>1, <1>3, <1>4, <1>5 DEF Together, Remembered, Waits
<1> QED BY <1>1, <1>2, <1>6, TogetherKeeps

\* The node that means to turn in the grant asks for it, or learns that it is.
LEMMA TogetherClears ==
    ASSUME ClusterInv, GrantNumbers, NEW n \in Nat, Together(n), NEW i \in Node, RefereeClearGrant(i)
    PROVE  Together(n)'
<1>1. /\ call[i] = None /\ UNCHANGED <<grant, vote>> /\ SameElection
      /\ cur[i].num = n /\ cur[i].members = Node
  <2>2. cur[i].num = n /\ cur[i].members = Node
    BY TogetherIs
  <2>3. call[i] = None /\ UNCHANGED <<elect, grant>>
    BY DEF RefereeClearGrant
  <2> QED BY <2>2, <2>3 DEF elect, SameElection
<1>2. grant # None => grant.node \in Node /\ grant.num \in Nat
  BY DEF ClusterInv, Typed
<1>3. \A k \in Node : Online(k)' = Online(k)
  BY <1>1, SameElectionKeeps
<1>4. CASE Online(i)
  <2>1. /\ call' = [call EXCEPT ![i] = [op |-> "clear", gen |-> cur[i], mine |-> vote[i].num,
                                        state |-> "sent"]]
        /\ UNCHANGED pending
    BY <1>1, <1>4 DEF RefereeClearGrant
  <2>2. /\ \A k \in Node \ {i} : call'[k] = call[k]
        /\ call'[i].op = "clear" /\ call'[i].gen = cur[i] /\ call'[i].mine = vote[i].num
        /\ call'[i].state = "sent"
    BY <2>1 DEF ClusterInv, Typed
  <2>3. TogetherCall(i, n)'
    BY <2>2, <1>1 DEF TogetherCall, Waits
  <2>4. \A k \in Node : TogetherCall(k, n)'
    BY <2>2, <2>3, <1>1, OthersCall
  <2>5. Remembered(n)'
    BY <2>1, <2>2, <1>1, <1>2, <1>3 DEF Together, Remembered, Waits
  <2> QED BY <2>4, <2>5, <1>1, TogetherKeeps
<1>5. CASE ~Online(i)
  <2>1. UNCHANGED call /\ pending' = [pending EXCEPT ![i] = 0]
    BY <1>1, <1>5 DEF RefereeClearGrant
  <2>2. \A k \in Node : TogetherCall(k, n)'
    BY <2>1, <1>1 DEF Together, TogetherCall, Waits
  <2>3. ASSUME grant # None, grant.num = n + 1
        PROVE  grant.node # i
    <3>1. vote[i].num = n
      BY <1>1, <1>5, Fields DEF Together, KeepsUp
    <3> QED BY SMTT(30), <3>1, <2>3 DEF GrantNumbers
  <2>4. Remembered(n)'
    BY <2>1, <2>3, <1>1, <1>2, <1>3, <1>5 DEF Together, Remembered, Waits, GrantNumbers
  <2> QED BY <2>2, <2>4, <1>1, TogetherKeeps
<1> QED BY <1>4, <1>5

\* The referee executes a request: an older grant is gone by then, or replaced
\* by one that is remembered.
LEMMA TogetherExecutes ==
    ASSUME ClusterInv, GrantNumbers, NEW n \in Nat, Together(n), NEW i \in Node, RefereeExecutes(i)
    PROVE  Together(n)'
<1>1. /\ call[i] # None /\ call[i].state = "sent" /\ UNCHANGED <<vote, pending>> /\ SameElection
  BY DEF RefereeExecutes, elect, SameElection
<1>2. grant # None => grant.node \in Node /\ grant.num \in Nat
  BY DEF ClusterInv, Typed
<1>3. \A k \in Node : Online(k)' = Online(k)
  BY <1>1, SameElectionKeeps
<1>4. call[i] \in Call
  BY <1>1, CallGen
<1>5. CASE call[i].op = "ask" /\ RequestGrant(i, call[i].gen.num)
  <2>1. Waits(i, "ask") /\ call[i].gen = vote[i] /\ vote[i].num = n + 1
    BY <1>1, <1>5 DEF Waits, Together, TogetherCall
  <2>2. /\ \A k \in Node \ {i} : call'[k] = call[k]
        /\ call'[i].op = "ask" /\ call'[i].gen = call[i].gen /\ call'[i].state # "sent"
        /\ call'[i] # None
    <3>1. \E s \in {"done", "failed"} : call' = [call EXCEPT ![i].state = s]
      BY <1>5 DEF RequestGrant
    <3>2. PICK s \in {"done", "failed"} : call' = [call EXCEPT ![i].state = s]
      BY <3>1
    <3>3. /\ \A k \in Node \ {i} : call'[k] = call[k]
          /\ call'[i] = [call[i] EXCEPT !.state = s]
      BY <3>2 DEF ClusterInv, Typed
    <3>4. call'[i].op = "ask" /\ call'[i].gen = call[i].gen /\ call'[i].state = s
      BY <3>3, <1>4, <1>5 DEF Call
    <3>5. call'[i] # None
      <4>1. call'[i] \in [op : {"ask"}, gen : [num : Nat, members : SUBSET Node],
                          state : {"done", "failed"}]
        BY SMTT(30), <3>2, <3>3, <1>4, <1>5 DEF Call, Gen
      <4> QED BY <4>1, RefereeAssumption
    <3> QED BY <3>3, <3>4, <3>5
  <2>3. TogetherCall(i, n)' /\ Waits(i, "ask")'
    BY <2>1, <2>2, <1>1 DEF TogetherCall, Waits
  <2>4. CASE grant' = [node |-> i, num |-> n + 1]
    <3>1. grant'.node = i /\ grant'.num = n + 1
      BY <2>4
    <3>2. \A k \in Node : TogetherCall(k, n)'
      BY <3>1, <2>2, <2>3, <1>1, OthersCall
    <3>3. Remembered(n)'
      BY <3>1, <2>2, <2>3 DEF Remembered
    <3> QED BY <3>2, <3>3, <1>1, TogetherKeeps
  <2>5. CASE UNCHANGED grant
    <3>1. \A k \in Node : TogetherCall(k, n)'
      BY <2>5, <2>2, <2>3, <1>1, OthersCall
    <3>2. Remembered(n)'
      BY <2>5, <2>2, <2>3, <1>1, <1>2, <1>3 DEF Together, Remembered, Waits
    <3> QED BY <3>1, <3>2, <1>1, TogetherKeeps
  <2> QED BY <2>1, <2>4, <2>5, <1>5 DEF RequestGrant
<1>6. CASE call[i].op = "clear" /\ DeleteGrant(i)
  <2>1. Waits(i, "clear") /\ call[i].gen.num = n /\ call[i].mine = vote[i].num
    BY <1>1, <1>6 DEF Waits, Together, TogetherCall
  <2>2. /\ \A k \in Node \ {i} : call'[k] = call[k]
        /\ call'[i].op = "clear" /\ call'[i].gen = call[i].gen /\ call'[i].mine = call[i].mine
    <3>1. /\ \A k \in Node \ {i} : call'[k] = call[k]
          /\ call'[i] = [call[i] EXCEPT !.state = "done"]
      BY <1>6 DEF DeleteGrant, ClusterInv, Typed
    <3> QED BY <3>1, <1>4, <1>6 DEF Call
  <2>3. grant' = None \/ (grant' = grant /\ grant # None /\ grant.node # i /\ grant.num = n + 1)
    <3> SUFFICES ASSUME grant # None, ~ClearedBy(i, call[i]), grant' = grant
                 PROVE  grant.node # i /\ grant.num = n + 1
      BY <1>6 DEF DeleteGrant
    <3>1. ~(grant.num < n) /\ ~(grant.node = i /\ grant.num <= vote[i].num)
      BY <2>1 DEF ClearedBy
    <3> QED BY <3>1 DEF Together, Remembered, GrantNumbers
  <2>4. \A k \in Node \ {i} : TogetherCall(k, n)'
    BY <2>2, <2>3, <1>1, OthersCall
  <2>5. TogetherCall(i, n)'
    BY <2>1, <2>2, <2>3, <1>1 DEF TogetherCall, Waits
  <2>6. Remembered(n)'
    <3> SUFFICES ASSUME grant' # None PROVE Remembered(n)'
      BY DEF Remembered
    <3>1. grant' = grant /\ grant # None /\ grant.node # i /\ grant.num = n + 1
      BY <2>3
    <3>2. n + 1 # n /\ ~(n + 1 < n)
      BY SMTT(30)
    <3> QED BY <3>1, <3>2, <2>2, <1>1, <1>2 DEF Together, Remembered, Waits
  <2> QED BY <2>4, <2>5, <2>6, <1>1, TogetherKeeps
<1> QED BY <1>5, <1>6 DEF RefereeExecutes

\* Who campaigns where both are wants to go on alone.
LEMMA LoneCampaign ==
    ASSUME ClusterInv, NEW i \in Node, NEW C \in {{i}, Node}, MayCampaign(i, C),
           cur[i].members = Node, KeepsUp(i)
    PROVE  /\ Online(i) /\ Candidates(i, C) = {i}
           /\ Candidate(i, {i}) = Generation(cur[i].num + 1, {i})
<1>1. ASSUME ~Online(i) PROVE FALSE
  <2>1. C = Node /\ Candidates(i, C) = cur[i].members
    BY <1>1 DEF MayCampaign, Candidates
  <2>2. vote[i].num # cur[i].num
    BY <2>1 DEF MayCampaign
  <2> QED BY <1>1, <2>2 DEF KeepsUp
<1>2. C = {i} /\ Candidates(i, C) = {i}
  <2>1. C # Node
    BY <1>1 DEF MayCampaign
  <2> QED BY <2>1 DEF Candidates
<1>3. Candidate(i, {i}) = Generation(cur[i].num + 1, {i})
  <2>1. CASE vote[i].members = {i}
    BY <2>1 DEF KeepsUp, Candidate
  <2>2. CASE vote[i].members # {i}
    <3>1. vote[i].num = cur[i].num
      BY SMTT(30), <2>2 DEF KeepsUp, Generation
    <3> QED BY <2>2, <3>1 DEF Candidate
  <2> QED BY <2>1, <2>2
<1> QED BY <1>1, <1>2, <1>3

\* A campaign in a generation of both ends in a vote for going on alone.
LEMMA TogetherCampaigns ==
    ASSUME ClusterInv, GrantNumbers, NEW n \in Nat, Together(n),
           NEW i \in Node, NEW C \in {{i}, Node}, CampaignMyself(i, C)
    PROVE  Together(n)'
<1>1. /\ cur[i].num = n /\ cur[i].members = Node /\ KeepsUp(i)
  BY TogetherIs
<1> DEFINE g == Generation(n + 1, {i})
<1>2. Online(i) /\ Candidate(i, Candidates(i, C)) = g
  BY <1>1, LoneCampaign DEF CampaignMyself
<1>3. IsRefereeGen(g) /\ g.num = n + 1
  <2>1. g.num = n + 1 /\ g.members = {i}
    BY DEF Generation
  <2> QED BY <2>1, RefereeGens
<1>4. /\ vote' = [vote EXCEPT ![i] = g] /\ UNCHANGED <<cur, loi, grant, pending>>
      /\ call' = [call EXCEPT ![i] = [op |-> "ask", gen |-> g, state |-> "sent"]]
      /\ call[i] = None
  BY <1>2, <1>3 DEF CampaignMyself, MayCampaign
<1>5. /\ vote'[i] = g /\ \A k \in Node \ {i} : vote'[k] = vote[k] /\ call'[k] = call[k]
      /\ call'[i] = [op |-> "ask", gen |-> g, state |-> "sent"]
  BY <1>4 DEF ClusterInv, Typed
<1>6. \A k \in Node : Online(k)' = Online(k)
  BY <1>4 DEF Online
<1>7. \A k \in Node : KeepsUp(k)'
  BY <1>1, <1>2, <1>4, <1>5, <1>6 DEF KeepsUp, Together
<1> HIDE DEF g
<1>8. call'[i].op = "ask" /\ call'[i].gen = g
  BY SMTT(30), <1>5
<1>9. TogetherCall(i, n)'
  BY <1>3, <1>5, <1>8 DEF TogetherCall, Waits
<1>10. \A k \in Node : TogetherCall(k, n)'
  BY <1>4, <1>5, <1>9, OthersCall
<1>11. grant # None => grant.node \in Node
  BY DEF ClusterInv, Typed
<1>12. Remembered(n)'
  BY <1>4, <1>5, <1>6, <1>11 DEF Together, Remembered, Waits
<1> QED BY <1>4, <1>7, <1>10, <1>12 DEF Together

\* With the grant, a node goes on alone in the next generation.
LEMMA TogetherGranted ==
    ASSUME ClusterInv, NEW n \in Nat, Together(n), NEW i \in Node, Granted(i)
    PROVE  Ahead(i, n + 1)'
<1> DEFINE j == Other(i)
           g == call[i].gen
<1>1. j \in Node /\ j # i /\ Node = {i, j} /\ Other(j) = i
  BY TwoNodes
<1>2. /\ \A k \in Node : cur[k].num = n /\ cur[k].members = Node /\ KeepsUp(k)
      /\ g = vote[i] /\ g.num = n + 1
  <2>1. \A k \in Node : cur[k].num = n /\ cur[k].members = Node /\ KeepsUp(k)
    BY TogetherIs
  <2>2. Waits(i, "ask") /\ TogetherCall(i, n)
    BY TogetherIs DEF Granted
  <2> QED BY <2>1, <2>2 DEF TogetherCall
<1>3. vote[i] = Generation(n + 1, {i})
  <2>1. vote[i].num # cur[i].num
    BY SMTT(30), <1>2
  <2> QED BY <2>1, <1>2 DEF KeepsUp
<1>4. g.members = {i}
  BY SMTT(30), <1>2, <1>3 DEF Generation
<1>5. Vote(i, g) = vote[i] /\ cur[i].num < g.num /\ vote[i].num <= g.num
  BY SMTT(30), <1>2 DEF Vote
<1>6. /\ cur' = [cur EXCEPT ![i] = g] /\ loi' = [loi EXCEPT ![i] = g.num]
      /\ vote' = [vote EXCEPT ![i] = vote[i]] /\ UNCHANGED grant
      /\ call' = [call EXCEPT ![i] = None]
  BY <1>4, <1>5 DEF Granted, Returns, MtmConsiderGenSwitch, Switch
<1>7. /\ cur'[i] = g /\ loi'[i] = n + 1 /\ cur'[j] = cur[j] /\ loi'[j] = loi[j]
      /\ vote' = vote /\ call'[i] = None /\ call'[j] = call[j]
  BY <1>1, <1>2, <1>6 DEF ClusterInv, Typed
<1> HIDE DEF j, g
<1>8. Online(i)'
  BY <1>2, <1>7 DEF Online
<1>9. grant' # None => grant'.num <= n + 1
  <2> SUFFICES ASSUME grant # None PROVE grant.num <= n + 1
    BY <1>6
  <2>1. grant.num < n \/ grant.num = n + 1
    BY DEF Together, Remembered
  <2>2. grant.num \in Nat
    BY DEF ClusterInv, Typed
  <2> QED BY SMTT(30), <2>1, <2>2
<1>10. ~Waits(j, "tour")'
  BY <1>1, <1>7 DEF Together, TogetherCall, Waits
<1>11. Behind(j, n + 1)'
  BY <1>1, <1>2, <1>7 DEF Behind, KeepsUp, Online
<1>12. vote'[i] = cur'[i] /\ cur'[i] = Generation(n + 1, {i})
  BY <1>2, <1>3, <1>7
<1> QED BY <1>7, <1>8, <1>9, <1>10, <1>11, <1>12 DEF Ahead, Peer, TourCall, j

\* A heartbeat of the same generation changes nothing.
LEMMA TogetherBeats ==
    ASSUME ClusterInv, NEW n \in Nat, Together(n), NEW i \in Node, Heartbeat(i)
    PROVE  Together(n)'
<1>1. Other(i) \in Node
  BY TwoNodes
<1>2. /\ cur[Other(i)] = cur[i] /\ cur[i].num \in Nat /\ vote[i].num \in Nat
      /\ cur[i].num <= vote[i].num
  BY <1>1, Numbers DEF Together
<1>3. ~(cur[i].num < cur[i].num) /\ ~(vote[i].num < cur[i].num)
  BY SMTT(30), <1>2
<1>4. Vote(i, cur[Other(i)]) = vote[i]
  BY <1>2, <1>3 DEF Vote
<1>5. SameElection /\ UNCHANGED <<call, grant, pending>>
  <2>1. vote' = [vote EXCEPT ![i] = vote[i]]
    BY <1>4 DEF Heartbeat
  <2>2. vote' = vote
    BY <2>1 DEF ClusterInv, Typed
  <2> QED BY <1>2, <1>3, <2>2 DEF Heartbeat, MtmConsiderGenSwitch, SameElection
<1>6. \A k \in Node : TogetherCall(k, n)'
  BY <1>5, OthersCall DEF SameElection
<1>7. Remembered(n)'
  BY <1>5, SameElectionKeeps DEF Together, Remembered, Waits
<1> QED BY <1>5, <1>6, <1>7, TogetherKeeps

\* Who gets online last remembers the grant.
LEMMA TogetherGetsOnline ==
    ASSUME ClusterInv, GrantNumbers, NEW n \in Nat, Together(n), NEW i \in Node, GetOnline(i)
    PROVE  Together(n)'
<1>1. /\ UNCHANGED <<cur, vote, call, grant>>
      /\ loi' = [loi EXCEPT ![i] = cur[i].num]
      /\ pending' = [pending EXCEPT ![i] = cur[i].num]
  BY DEF GetOnline
<1>2. /\ loi'[i] = cur[i].num /\ \A k \in Node \ {i} : loi'[k] = loi[k]
      /\ pending'[i] # 0 /\ \A k \in Node \ {i} : pending'[k] = pending[k]
  BY <1>1, Numbers DEF ClusterInv, Typed, GrantNumbers
<1>3. \A k \in Node : Online(k) => Online(k)'
  BY <1>1, <1>2 DEF Online
<1>4. \A k \in Node : KeepsUp(k)'
  BY <1>1, <1>3 DEF Together, KeepsUp
<1>5. \A k \in Node : TogetherCall(k, n)'
  BY <1>1, OthersCall
<1>6. grant # None => grant.node \in Node
  BY DEF ClusterInv, Typed
<1>7. Remembered(n)'
  BY <1>1, <1>2, <1>6 DEF Together, Remembered, Waits
<1> QED BY <1>1, <1>4, <1>5, <1>7 DEF Together

----------------------------------------------------------------------------
(* Steps while one node works alone.                                       *)

\* What the node that works alone has.
LEMMA AheadIs ==
    ASSUME ClusterInv, NEW n \in Nat, NEW j \in Node, Ahead(j, n)
    PROVE  /\ cur[j].num = n /\ cur[j].members = {j} /\ loi[j] = n /\ Online(j) /\ call[j] = None
           /\ cur[j] \in alone
<1>1. cur[j].num = n /\ cur[j].members = {j}
  BY SMTT(30) DEF Ahead, Generation
<1>2. Online(j) /\ call[j] = None
  BY DEF Ahead
<1>3. {j} # Node /\ {j} # {Other(j)}
  BY NotBoth
<1>4. cur[j] \in alone
  BY <1>1, <1>2, <1>3 DEF ClusterInv, CurrentElected, ElectedAt
<1> QED BY <1>1, <1>2, <1>4 DEF Online

\* How far the peer is, and has voted.
LEMMA BehindIs ==
    ASSUME ClusterInv, NEW n \in Nat, NEW i \in Node, Behind(i, n)
    PROVE  /\ cur[i].num < n /\ cur[i].num # n
           /\ vote[i].num = n - 1 \/ (vote[i].num = n /\ vote[i].members # Node)
<1>1. cur[i].num + 1 = n /\ KeepsUp(i)
  BY DEF Behind
<1>2. {i} # Node /\ cur[i].num \in Nat
  BY NotBoth, Numbers
<1> QED BY SMTT(30), <1>1, <1>2 DEF KeepsUp, Generation

\* A peer that was told of the generation is in it, and not online.
LEMMA AwareIs ==
    ASSUME ClusterInv, NEW n \in Nat, NEW j \in Node, Ahead(j, n), NEW i \in Node, i # j, Aware(i, n)
    PROVE  cur[i] = cur[j] /\ cur[i].num = n /\ loi[i] < n
<1>1. cur[i] = cur[j] /\ loi[i] # cur[i].num
  BY TwoNodes DEF Aware, Online
<1>2. cur[j].num = n
  BY AheadIs
<1>3. loi[i] \in Nat /\ cur[i].num \in Nat /\ loi[i] <= cur[i].num
  BY Numbers
<1>4. cur[i].num = n
  BY <1>1, <1>2
<1>5. loi[i] < n
  BY SMTT(30), <1>1, <1>3, <1>4
<1> QED BY <1>1, <1>4, <1>5

\* A peer that was elected has voted for the generation it is in.
LEMMA ElectedIs ==
    ASSUME ClusterInv, NEW n \in Nat, NEW i \in Node, Elected(i, n)
    PROVE  cur[i].num = n + 1 /\ vote[i].num = n + 1 /\ loi[i] < n + 1
<1>1. cur[i].num = n + 1 /\ vote[i] = cur[i] /\ loi[i] # cur[i].num
  BY SMTT(30) DEF Elected, Generation, Online
<1>2. loi[i] \in Nat /\ loi[i] <= cur[i].num
  BY Numbers
<1> QED BY SMTT(30), <1>1, <1>2

\* A peer can only ask for a grant of a generation that is over.
LEMMA AskLimit ==
    ASSUME ClusterInv, NEW n \in Nat, NEW j \in Node, Ahead(j, n), Waits(Other(j), "ask")
    PROVE  call[Other(j)].gen.num <= n /\ ~Elected(Other(j), n)
<1> DEFINE i == Other(j)
<1>1. i \in Node /\ i # j /\ {i} # Node
  BY TwoNodes
<1>2. /\ call[i].gen.members = {i} /\ call[i].gen.num <= vote[i].num
      /\ call[i].gen.num = vote[i].num => vote[i] = call[i].gen
  BY <1>1 DEF ClusterInv, CallsSound, CallSound
<1>3. call[i].gen.num \in Nat /\ vote[i].num \in Nat
  BY <1>1, CallGen, Numbers DEF Waits
<1>4. ~Elected(i, n)
  BY DEF Elected, Waits
<1>5. CASE Behind(i, n)
  <2> HIDE DEF i
  <2>1. vote[i].num = n - 1 \/ vote[i].num = n
    BY <1>1, <1>5, BehindIs
  <2> USE DEF i
  <2>2. call[i].gen.num <= n
    BY SMTT(30), <1>2, <1>3, <2>1
  <2> QED BY <1>4, <2>2
<1>6. CASE Aware(i, n)
  <2>1. vote[i].num = n \/ (vote[i].num = n + 1 /\ vote[i].members = Node)
    BY SMTT(30), <1>6 DEF Aware, Generation
  <2>2. CASE vote[i].num = n
    BY <1>2, <1>4, <2>2
  <2>3. CASE vote[i].num = n + 1 /\ vote[i].members = Node
    <3>1. call[i].gen.num # vote[i].num
      BY <1>1, <1>2, <2>3
    <3> HIDE DEF i
    <3>2. call[i].gen.num <= n
      BY SMTT(30), <1>2, <1>3, <2>3, <3>1
    <3> QED BY <1>4, <3>2 DEF i
  <2> QED BY <2>1, <2>2, <2>3
<1> QED BY <1>4, <1>5, <1>6 DEF Ahead, Peer

\* Nothing of elections changes.
LEMMA AheadKeeps ==
    ASSUME ClusterInv, NEW n \in Nat, NEW j \in Node, Ahead(j, n), SameElection, call'[j] = None,
           Waits(Other(j), "tour")' =>
               Waits(Other(j), "tour") /\ call'[Other(j)].gen = call[Other(j)].gen,
           Elected(Other(j), n) => call'[Other(j)] = None,
           grant' # None => grant'.num <= n
    PROVE  Ahead(j, n)'
<1>1. UNCHANGED <<cur, loi, vote>>
  BY DEF SameElection
<1>2. /\ \A k : Online(k)' = Online(k) /\ Aware(k, n)' = Aware(k, n) /\ Behind(k, n)' = Behind(k, n)
  BY SameElectionKeeps
<1>3. Peer(Other(j), j, n)'
  BY <1>1, <1>2 DEF Ahead, Peer, Elected
<1>4. TourCall(Other(j), n)'
  BY <1>1, <1>2 DEF Ahead, TourCall
<1> QED BY <1>1, <1>2, <1>3, <1>4 DEF Ahead

\* A call of the peer returns.
LEMMA AheadEnds ==
    ASSUME ClusterInv, NEW n \in Nat, NEW j \in Node, Ahead(j, n), SameElection,
           NEW i \in Node, Returns(i), UNCHANGED grant
    PROVE  Ahead(j, n)'
<1>1. call'[i] = None /\ \A k \in Node \ {i} : call'[k] = call[k]
  BY DEF Returns, ClusterInv, Typed
<1>2. Other(j) \in Node
  BY TwoNodes
<1>3. call[j] = None
  BY DEF Ahead
<1>4. Elected(Other(j), n) => call'[Other(j)] = None
  BY <1>1, <1>2 DEF Elected
<1>5. grant' # None => grant'.num <= n
  BY DEF Ahead
<1> QED BY <1>1, <1>2, <1>3, <1>4, <1>5, AheadKeeps DEF Waits

\* There is nobody who turns in the grant.
LEMMA AheadClears ==
    ASSUME ClusterInv, NEW n \in Nat, NEW j \in Node, Ahead(j, n), NEW i \in Node, RefereeClearGrant(i)
    PROVE  Ahead(j, n)'
<1>1. call[i] = None /\ SameElection /\ UNCHANGED grant
  BY DEF RefereeClearGrant, elect, SameElection
<1>2. \/ UNCHANGED call
      \/ /\ cur[i].members = Node /\ Online(i)
         /\ call' = [call EXCEPT ![i] = [op |-> "clear", gen |-> cur[i], mine |-> vote[i].num,
                                         state |-> "sent"]]
  BY DEF RefereeClearGrant
<1>3. Other(j) \in Node /\ call[j] = None /\ {j} # Node
  BY TwoNodes, AheadIs
<1>4. grant' # None => grant'.num <= n
  BY <1>1 DEF Ahead
<1>5. CASE UNCHANGED call
  BY <1>1, <1>3, <1>4, <1>5, AheadKeeps DEF Waits, Elected
<1>6. CASE /\ cur[i].members = Node /\ Online(i)
           /\ call' = [call EXCEPT ![i] = [op |-> "clear", gen |-> cur[i], mine |-> vote[i].num,
                                           state |-> "sent"]]
  <2>1. i # j /\ ~Elected(i, n)
    BY <1>3, <1>6, AheadIs DEF Elected
  <2>2. /\ \A k \in Node \ {i} : call'[k] = call[k]
        /\ call'[i].op = "clear"
    BY <1>6 DEF ClusterInv, Typed
  <2>3. i = Other(j)
    BY <2>1, TwoNodes
  <2> QED BY <1>1, <1>3, <1>4, <2>1, <2>2, <2>3, AheadKeeps DEF Waits
<1> QED BY <1>2, <1>5, <1>6

\* The referee executes what the peer asked: the grant is of this generation or
\* of an older one.
LEMMA AheadExecutes ==
    ASSUME ClusterInv, NEW n \in Nat, NEW j \in Node, Ahead(j, n), NEW i \in Node, RefereeExecutes(i)
    PROVE  Ahead(j, n)'
<1>1. call[i] # None /\ SameElection
  BY DEF RefereeExecutes, elect, SameElection
<1>2. i # j /\ i = Other(j) /\ call[j] = None /\ ~Elected(i, n)
  <2>1. call[j] = None
    BY AheadIs
  <2>2. i # j
    BY <1>1, <2>1
  <2> QED BY <1>1, <2>1, <2>2, TwoNodes DEF Elected
<1>3. \E s \in {"done", "failed"} : call' = [call EXCEPT ![i].state = s]
  BY DEF RefereeExecutes, RequestGrant, DeleteGrant
<1>4. PICK s \in {"done", "failed"} : call' = [call EXCEPT ![i].state = s]
  BY <1>3
<1>5. /\ \A k \in Node \ {i} : call'[k] = call[k]
      /\ call'[i] = [call[i] EXCEPT !.state = s]
  BY <1>4 DEF ClusterInv, Typed
<1>6. call'[i].op = call[i].op /\ call'[i].gen = call[i].gen
  BY <1>1, <1>5, CallGen DEF Call
<1>7. grant' # None => grant'.num <= n
  <2>1. CASE call[i].op = "ask" /\ RequestGrant(i, call[i].gen.num)
    <3>1. call[i].gen.num <= n
      BY <1>1, <1>2, <2>1, AskLimit DEF Waits
    <3>2. grant' = grant \/ grant'.num = call[i].gen.num
      BY SMTT(30), <2>1 DEF RequestGrant
    <3> QED BY <3>1, <3>2 DEF Ahead
  <2>2. CASE DeleteGrant(i)
    BY <2>2 DEF DeleteGrant, Ahead
  <2> QED BY <2>1, <2>2 DEF RefereeExecutes
<1> QED BY <1>1, <1>2, <1>5, <1>6, <1>7, AheadKeeps DEF Waits

\* The peer campaigns; the node that works alone is content with its own.
LEMMA AheadCampaigns ==
    ASSUME ClusterInv, NEW n \in Nat, NEW j \in Node, Ahead(j, n),
           NEW i \in Node, NEW C \in {{i}, Node}, CampaignMyself(i, C)
    PROVE  Ahead(j, n)'
<1>1. MayCampaign(i, C) /\ call[i] = None /\ UNCHANGED <<cur, loi, grant>>
  BY DEF CampaignMyself, MayCampaign
<1>2. i # j
  <2> SUFFICES ASSUME i = j PROVE FALSE
    OBVIOUS
  <2>0. Online(j) /\ cur[j].members = {j}
    BY AheadIs
  <2>1. Online(j) /\ cur[j].members \subseteq C
    BY <2>0
  <2> QED BY <1>1, <2>1 DEF MayCampaign
<1>3. i = Other(j) /\ Other(i) = j /\ Node = {i, j}
  BY <1>2, TwoNodes
<1>4. vote' = [vote EXCEPT ![i] = Candidate(i, Candidates(i, C))]
  BY DEF CampaignMyself
<1>5. \A k : Online(k)' = Online(k)
  BY <1>1 DEF Online
<1>6. vote'[j] = vote[j] /\ vote'[i] = Candidate(i, Candidates(i, C)) /\ call'[j] = call[j]
  BY <1>2, <1>4 DEF CampaignMyself, ClusterInv, Typed
<1>7. CASE Behind(i, n) /\ vote[j] = cur[j]
  <2>1. cur[i].members = Node /\ KeepsUp(i) /\ cur[i].num + 1 = n
    BY <1>7 DEF Behind
  <2> DEFINE g == Generation(cur[i].num + 1, {i})
  <2>2. Online(i) /\ Candidate(i, Candidates(i, C)) = g
    BY <1>1, <2>1, LoneCampaign
  <2>3. IsRefereeGen(g)
    <3>1. g.members = {i}
      BY DEF Generation
    <3> QED BY <3>1, RefereeGens
  <2> HIDE DEF g
  <2>4. call' = [call EXCEPT ![i] = [op |-> "ask", gen |-> g, state |-> "sent"]]
    BY <2>2, <2>3 DEF CampaignMyself
  <2>5. call'[i].op = "ask"
    BY <2>4 DEF ClusterInv, Typed
  <2>6. Behind(i, n)'
    BY <1>1, <1>5, <1>6, <2>1, <2>2 DEF Behind, KeepsUp, g
  <2>7. TourCall(i, n)'
    BY <2>5 DEF TourCall, Waits
  <2> QED BY <1>1, <1>3, <1>5, <1>6, <1>7, <2>6, <2>7 DEF Ahead, Peer
<1>8. CASE Aware(i, n) /\ vote[j] \in {cur[j], Generation(n + 1, Node)}
  <2>1. ~Online(i) /\ cur[i] = cur[j]
    BY <1>3, <1>8 DEF Aware
  <2>2. cur[i].members = {j}
    BY <2>1, AheadIs
  <2>3. Candidates(i, C) = Node
    BY <1>1, <1>3, <2>1, <2>2 DEF MayCampaign, Candidates
  <2> DEFINE g == Generation(n + 1, Node)
  <2>4. Candidate(i, Node) = g
    <3>1. CASE vote[i].members = Node
      BY <1>8, <3>1 DEF Aware, Candidate
    <3>2. CASE vote[i].members # Node
      <4>1. vote[i].num = n
        BY SMTT(30), <1>8, <3>2 DEF Aware, Generation
      <4> QED BY <4>1, <3>2 DEF Candidate
    <3> QED BY <3>1, <3>2
  <2>5. ~IsRefereeGen(g)
    <3>1. g.members = Node
      BY DEF Generation
    <3> QED BY <3>1, RefereeGens
  <2> HIDE DEF g
  <2>6. call' = [call EXCEPT ![i] = [op |-> "tour", gen |-> g, state |-> "sent"]]
    BY <2>3, <2>4, <2>5 DEF CampaignMyself
  <2>7. call'[i].gen = g
    BY <2>6 DEF ClusterInv, Typed
  <2>8. Aware(i, n)' /\ vote'[i] = g
    BY <1>1, <1>3, <1>5, <1>6, <2>1, <2>3, <2>4 DEF Aware, g
  <2>9. TourCall(i, n)'
    BY <2>7, <2>8 DEF TourCall, g
  <2> QED BY <1>1, <1>3, <1>5, <1>6, <1>8, <2>8, <2>9 DEF Ahead, Peer
<1>9. CASE Elected(i, n)
  <2>1. ~Online(i) /\ cur[i].members = Node /\ vote[i] = cur[i]
    BY SMTT(30), <1>9 DEF Elected, Generation
  <2>2. Candidates(i, C) = cur[i].members
    BY <1>1, <2>1 DEF MayCampaign, Candidates
  <2> QED BY <1>1, <2>1, <2>2 DEF MayCampaign
<1> QED BY <1>3, <1>7, <1>8, <1>9 DEF Ahead, Peer

\* Either votes for the next generation of both.
LEMMA AheadVotes ==
    ASSUME ClusterInv, NEW n \in Nat, NEW j \in Node, Ahead(j, n),
           NEW k \in Node, NEW b \in ballots, VoteFor(k, b.gen)
    PROVE  Ahead(j, n)'
<1> DEFINE i == Other(j)
           m == b.node
<1>1. i \in Node /\ i # j /\ Node = {i, j} /\ Other(i) = j
  BY TwoNodes
<1>2. /\ vote[k].num < b.gen.num /\ vote' = [vote EXCEPT ![k] = b.gen]
      /\ UNCHANGED <<cur, loi, call, grant>>
  BY DEF VoteFor
<1>3. m \in Node /\ b.gen \in Gen /\ b.gen.num \in Nat
  BY DEF ClusterInv, Typed, Gen
<1>4. /\ b.gen.members = Node /\ b.gen.num <= vote[m].num
      /\ b.gen.num = vote[m].num => vote[m] = b.gen
  BY DEF ClusterInv, BallotsBind, Binds
<1>5. vote[i].num \in Nat /\ vote[j].num \in Nat /\ cur[j].num = n /\ cur[j].members = {j}
  BY <1>1, Numbers, AheadIs
<1>6. {j} # Node
  BY NotBoth
<1> HIDE DEF i, m
<1>7. CASE Behind(i, n) /\ vote[j] = cur[j]
  <2>1. vote[i].num = n - 1 \/ (vote[i].num = n /\ vote[i].members # Node)
    BY <1>1, <1>7, BehindIs
  <2>2. vote[j].num = n /\ vote[j].members # Node
    BY <1>5, <1>6, <1>7
  <2>3. (m = i \/ m = j) /\ (k = i \/ k = j)
    BY <1>1, <1>3
  <2>4. CASE m = i
    BY SMTT(30), <1>2, <1>3, <1>4, <1>5, <2>1, <2>2, <2>3, <2>4
  <2>5. CASE m = j
    BY SMTT(30), <1>2, <1>3, <1>4, <1>5, <2>1, <2>2, <2>3, <2>5
  <2> QED BY <2>3, <2>4, <2>5
<1>8. CASE Aware(i, n) /\ vote[j] \in {cur[j], Generation(n + 1, Node)}
  <2>1. vote[i].num = n \/ vote[i] = Generation(n + 1, Node)
    BY <1>8 DEF Aware
  <2>2. vote[j].num = n \/ vote[j] = Generation(n + 1, Node)
    BY <1>5, <1>8
  <2>3. (m = i \/ m = j) /\ (k = i \/ k = j)
    BY <1>1, <1>3
  <2>4. \A x \in {i, j} : vote[x].num = n \/ (vote[x].num = n + 1 /\ vote[x] = Generation(n + 1, Node))
    BY SMTT(30), <2>1, <2>2 DEF Generation
  <2>5. b.gen = Generation(n + 1, Node)
    <3>1. b.gen.num = vote[m].num /\ vote[m].num = n + 1
      BY SMTT(30), <1>2, <1>3, <1>4, <2>3, <2>4
    <3>2. n + 1 # n
      BY SMTT(30)
    <3> QED BY <1>4, <2>3, <2>4, <3>1, <3>2
  <2>6. vote'[k] = Generation(n + 1, Node) /\ \A x \in Node \ {k} : vote'[x] = vote[x]
    BY <1>2, <2>5 DEF ClusterInv, Typed
  <2>7. \A x : Online(x)' = Online(x)
    BY <1>2 DEF Online
  <2>8. Aware(i, n)'
    BY <1>1, <1>2, <1>8, <2>6, <2>7 DEF Aware
  <2>9. vote'[j] \in {cur'[j], Generation(n + 1, Node)}
    BY <1>2, <1>8, <2>6
  <2>10. TourCall(i, n)'
    BY <1>1, <1>2, <2>6, <2>8 DEF Ahead, TourCall, Waits, i
  <2> QED BY <1>2, <2>7, <2>8, <2>9, <2>10 DEF Ahead, Peer, i
<1>9. CASE Elected(i, n) /\ vote[j] = cur[i]
  <2>0. cur[i].num = n + 1 /\ vote[i].num = n + 1
    BY <1>1, <1>9, ElectedIs
  <2>1. vote[i].num = n + 1 /\ vote[j].num = n + 1
    BY <1>9, <2>0
  <2>2. m \in {i, j} /\ k \in {i, j}
    BY <1>1, <1>3
  <2> QED BY SMTT(30), <1>2, <1>3, <1>4, <2>1, <2>2
<1> QED BY <1>7, <1>8, <1>9 DEF Ahead, Peer, i

\* The peer wins the next generation of both.
LEMMA AheadTour ==
    ASSUME ClusterInv, NEW n \in Nat, NEW j \in Node, Ahead(j, n), NEW i \in Node, TourWon(i)
    PROVE  Ahead(j, n)'
<1>1. i # j
  <2>1. call[j] = None /\ call[i] # None
    BY AheadIs DEF TourWon, Waits
  <2> QED BY <2>1
<1>2. i = Other(j) /\ Other(i) = j /\ Node = {i, j}
  BY <1>1, TwoNodes
<1> DEFINE g == call[i].gen
           Q == BallotsFor(g)
<1>3. Aware(i, n) /\ vote[i] = Generation(n + 1, Node) /\ g = vote[i]
  BY <1>2 DEF Ahead, TourCall, TourWon
<1>4. g.num = n + 1 /\ g.members = Node /\ cur[i] = cur[j] /\ cur[i].num = n /\ loi[i] < n
  <2>1. g.num = n + 1 /\ g.members = Node
    BY SMTT(30), <1>3 DEF Generation
  <2>2. cur[i] = cur[j] /\ cur[i].num = n /\ loi[i] < n
    BY <1>1, <1>3, AwareIs
  <2> QED BY <2>1, <2>2
<1>5. \E b \in ballots : b.gen = g /\ b.node = j
  BY DEF TourWon, BallotsFor
<1>6. PICK b \in ballots : b.gen = g /\ b.node = j
  BY <1>5
<1>7. loi[i] \in Nat /\ vote[i].num \in Nat /\ vote[j].num \in Nat /\ b.loi \in Nat
  BY Numbers DEF ClusterInv, Typed
<1>8. vote[j] = g
  <2>1. /\ g.num <= vote[j].num
        /\ g.num = vote[j].num => vote[j] = g
    BY <1>6 DEF ClusterInv, BallotsBind, Binds
  <2>2. vote[j].num <= n + 1
    <3>1. vote[j] = cur[j] \/ vote[j] = Generation(n + 1, Node) \/ vote[j] = cur[i]
      BY <1>2, <1>4 DEF Ahead, Peer, Behind
    <3>2. cur[j].num = n
      BY AheadIs
    <3> QED BY SMTT(30), <1>4, <3>1, <3>2 DEF Generation
  <2>3. g.num = vote[j].num
    BY SMTT(30), <2>1, <2>2, <1>4, <1>7
  <2> QED BY <2>1, <2>3
<1>9. i \notin MostAdvanced(Q)
  <2> SUFFICES ASSUME i \in MostAdvanced(Q) PROVE FALSE
    OBVIOUS
  <2>1. PICK c \in Q : c.node = i /\ \A d \in Q : d.loi <= c.loi
    BY DEF MostAdvanced
  <2>2. c \in ballots /\ b.loi <= c.loi
    BY <2>1, <1>6 DEF BallotsFor
  <2>3. c.loi <= loi[i] /\ c.loi \in Nat
    BY <2>1, <2>2 DEF ClusterInv, BallotsBind, Binds, Typed
  <2>4. cur[j] \in alone /\ cur[j].members = {j} /\ cur[j].num = n
    BY AheadIs
  <2>5. n <= g.num
    BY SMTT(30), <1>4
  <2>6. n <= b.loi
    BY <2>4, <2>5, <1>6 DEF ClusterInv, BallotsBind, Binds
  <2> QED BY SMTT(30), <2>2, <2>3, <2>6, <1>4, <1>7
<1>10. Vote(i, g) = vote[i] /\ cur[i].num < g.num
  BY SMTT(30), <1>3, <1>4 DEF Vote
<1>11. /\ cur' = [cur EXCEPT ![i] = g] /\ UNCHANGED loi /\ UNCHANGED grant
       /\ vote' = [vote EXCEPT ![i] = vote[i]] /\ call' = [call EXCEPT ![i] = None]
  BY <1>9, <1>10 DEF TourWon, Returns, MtmConsiderGenSwitch, Switch
<1> HIDE DEF g, Q
<1>12. /\ cur'[i] = g /\ cur'[j] = cur[j] /\ vote' = vote /\ call'[i] = None /\ call'[j] = call[j]
  BY <1>1, <1>11 DEF ClusterInv, Typed
<1>13. ~Online(i)' /\ Online(j)'
  <2>1. Online(j)
    BY AheadIs
  <2>2. loi[i] # n + 1
    BY SMTT(30), <1>4, <1>7
  <2> QED BY <2>1, <2>2, <1>4, <1>11, <1>12 DEF Online
<1>14. Elected(i, n)' /\ vote'[j] = cur'[i]
  BY <1>3, <1>8, <1>12, <1>13 DEF Elected
<1>15. TourCall(i, n)'
  BY <1>12 DEF TourCall, Waits
<1> QED BY <1>2, <1>11, <1>12, <1>13, <1>14, <1>15 DEF Ahead, Peer

\* The peer of a node that works alone is not granted that, too.
LEMMA AheadGranted ==
    ASSUME ClusterInv, NEW n \in Nat, NEW j \in Node, Ahead(j, n), NEW i \in Node, Granted(i)
    PROVE  Ahead(j, n)'
<1>1. i # j
  <2>1. call[j] = None /\ call[i] # None
    BY AheadIs DEF Granted, Waits
  <2> QED BY <2>1
<1>2. i = Other(j) /\ Other(i) = j /\ Node = {i, j}
  BY <1>1, TwoNodes
<1> DEFINE g == call[i].gen
<1>3. g.num <= n /\ ~Elected(i, n)
  BY <1>2, AskLimit DEF Granted
<1>4. /\ g.num \in Nat /\ cur[i].num \in Nat /\ vote[i].num \in Nat /\ loi[i] \in Nat
      /\ loi[i] <= cur[i].num /\ cur[i].num <= vote[i].num
  BY CallGen, Numbers DEF Granted, Waits
<1>5. ~(cur[i].num < g.num)
  <2> SUFFICES ASSUME cur[i].num < g.num PROVE FALSE
    OBVIOUS
  <2>1. grant # None /\ grant.node = i
    BY DEF Granted, ClusterInv, GrantFresh, FreshFor
  <2>2. cur[j] \in alone /\ cur[j].members = {j} /\ cur[j].num = n
    BY AheadIs
  <2>3. cur[j] \notin has[i]
    <3>1. ~(n <= loi[i])
      BY SMTT(30), <1>3, <1>4
    <3> QED BY <3>1, <2>2 DEF ClusterInv, HasSound, HasSoundAt
  <2>4. grant.node = j
    BY <2>2, <2>3, <1>2 DEF ClusterInv, GrantHeld
  <2> QED BY <1>1, <2>1, <2>4
<1>6. Vote(i, g) = vote[i]
  BY SMTT(30), <1>4, <1>5 DEF Vote
<1>7. UNCHANGED <<cur, loi>> /\ vote' = [vote EXCEPT ![i] = vote[i]] /\ Returns(i) /\ UNCHANGED grant
  BY <1>5, <1>6 DEF Granted, MtmConsiderGenSwitch
<1>8. SameElection
  BY <1>7 DEF SameElection, ClusterInv, Typed
<1> QED BY <1>7, <1>8, AheadEnds

\* The peer hears of the generation of the node that works alone.
LEMMA AheadBeats ==
    ASSUME ClusterInv, NEW n \in Nat, NEW j \in Node, Ahead(j, n), NEW i \in Node, i # j, Heartbeat(i)
    PROVE  Ahead(j, n)'
<1>1. i = Other(j) /\ Other(i) = j /\ Node = {i, j}
  BY TwoNodes
<1>2. cur[j].num = n /\ cur[j].members = {j} /\ Online(j) /\ call[j] = None
  BY AheadIs
<1>3. /\ vote[i].num \in Nat /\ cur[i].num \in Nat /\ loi[i] \in Nat
      /\ loi[i] <= cur[i].num /\ cur[i].num <= vote[i].num
  BY Numbers
<1>4. /\ MtmConsiderGenSwitch(i, cur[j], donors[j]) /\ vote' = [vote EXCEPT ![i] = Vote(i, cur[j])]
      /\ UNCHANGED <<call, grant>>
  BY <1>1 DEF Heartbeat
<1>5. vote'[i] = Vote(i, cur[j]) /\ vote'[j] = vote[j]
  BY <1>4 DEF ClusterInv, Typed
<1>6. CASE Behind(i, n) /\ vote[j] = cur[j]
  <2>1. cur[i].num < n /\ ~Aware(i, n)
    <3>1. cur[i].num < n /\ cur[i].num # n
      BY <1>6, BehindIs
    <3> QED BY <3>1, AwareIs
  <2>2. cur' = [cur EXCEPT ![i] = cur[j]] /\ UNCHANGED loi
    BY <1>2, <1>4, <2>1 DEF MtmConsiderGenSwitch, Switch
  <2>3. cur'[i] = cur[j] /\ cur'[j] = cur[j]
    BY <2>2 DEF ClusterInv, Typed
  <2>4. ~Online(i)' /\ Online(j)'
    <3>1. loi[i] # n
      BY SMTT(30), <1>3, <2>1
    <3> QED BY <1>2, <2>2, <2>3, <3>1 DEF Online
  <2>5. vote'[i].num = n /\ vote'[i].members # Node
    <3>1. vote[i].num = n - 1 \/ (vote[i].num = n /\ vote[i].members # Node)
      BY <1>6, BehindIs
    <3>2. CASE vote[i].num < n
      BY <3>2, <1>2, <1>5, NotBoth DEF Vote
    <3>3. CASE vote[i].num = n /\ vote[i].members # Node /\ ~(vote[i].num < n)
      BY <3>3, <1>2, <1>5 DEF Vote
    <3>4. vote[i].num < n \/ (vote[i].num = n /\ vote[i].members # Node /\ ~(vote[i].num < n))
      BY SMTT(30), <3>1, <1>3
    <3> QED BY <3>2, <3>3, <3>4
  <2>6. Aware(i, n)'
    BY <1>1, <2>3, <2>4, <2>5 DEF Aware
  <2>7. TourCall(i, n)'
    BY <1>1, <1>4, <2>1 DEF Ahead, TourCall, Waits
  <2>8. vote'[j] \in {cur'[j], Generation(n + 1, Node)}
    BY <1>5, <1>6, <2>3
  <2> QED BY <1>1, <1>4, <2>3, <2>4, <2>6, <2>7, <2>8 DEF Ahead, Peer
<1>7. CASE Aware(i, n) \/ Elected(i, n)
  <2>1. n <= cur[i].num
    <3>1. cur[i].num = n \/ cur[i].num = n + 1
      BY <1>7, AwareIs, ElectedIs
    <3> QED BY SMTT(30), <3>1
  <2>2. ~(cur[i].num < n) /\ ~(vote[i].num < n)
    BY SMTT(30), <1>3, <2>1
  <2>3. SameElection
    <3>1. Vote(i, cur[j]) = vote[i]
      BY <1>2, <2>2 DEF Vote
    <3>2. vote' = vote
      BY <3>1, <1>4 DEF ClusterInv, Typed
    <3> QED BY <3>2, <1>2, <1>4, <2>2 DEF MtmConsiderGenSwitch, SameElection
  <2> QED BY <1>2, <1>4, <2>3, AheadKeeps DEF Waits, Elected, Ahead
<1> QED BY <1>1, <1>6, <1>7 DEF Ahead, Peer

\* The node that works alone learns of the generation of both, and of nothing
\* else.
LEMMA AheadLearns ==
    ASSUME ClusterInv, NEW n \in Nat, NEW j \in Node, Ahead(j, n), Heartbeat(j)
    PROVE  Ahead(j, n)' \/ Together(n + 1)'
<1> DEFINE i == Other(j)
<1>1. i \in Node /\ i # j /\ Node = {i, j}
  BY TwoNodes
<1>2. cur[j].num = n /\ Online(j) /\ call[j] = None
  BY AheadIs
<1>3. vote[j].num \in Nat /\ cur[j].num <= vote[j].num /\ cur[i].num \in Nat
  BY <1>1, Numbers
<1>4. /\ MtmConsiderGenSwitch(j, cur[i], donors[i]) /\ vote' = [vote EXCEPT ![j] = Vote(j, cur[i])]
      /\ UNCHANGED <<call, grant>>
  BY DEF Heartbeat
<1> HIDE DEF i
<1>5. CASE Behind(i, n) \/ Aware(i, n)
  <2>1. cur[i].num < n \/ cur[i].num = n
    BY <1>1, <1>5, BehindIs, AwareIs
  <2>2. ~(n < cur[i].num) /\ ~(vote[j].num < cur[i].num)
    BY SMTT(30), <1>2, <1>3, <2>1
  <2>3. SameElection
    <3>1. Vote(j, cur[i]) = vote[j]
      BY <2>2 DEF Vote
    <3>2. vote' = vote
      BY <3>1, <1>4 DEF ClusterInv, Typed
    <3> QED BY <3>2, <1>2, <1>4, <2>2 DEF MtmConsiderGenSwitch, SameElection
  <2> QED BY <1>2, <1>4, <2>3, AheadKeeps DEF Waits, Elected, Ahead
<1>6. CASE Elected(i, n) /\ vote[j] = cur[i]
  <2>1. cur[i].num = n + 1 /\ cur[i] = Generation(n + 1, Node) /\ vote[i] = cur[i] /\ call[i] = None
    BY <1>1, <1>6, ElectedIs DEF Elected
  <2>2. cur[j].num < cur[i].num /\ ~(vote[j].num < cur[i].num)
    BY SMTT(30), <1>2, <1>3, <1>6, <2>1
  <2>3. vote' = vote
    <3>1. Vote(j, cur[i]) = vote[j]
      BY <2>2 DEF Vote
    <3> QED BY <3>1, <1>4 DEF ClusterInv, Typed
  <2>4. /\ cur' = [cur EXCEPT ![j] = cur[i]]
        /\ UNCHANGED loi \/ loi' = [loi EXCEPT ![j] = cur[i].num]
    BY <1>4, <2>2 DEF MtmConsiderGenSwitch, Switch
  <2>5. /\ cur'[i] = cur[i] /\ cur'[j] = cur[i] /\ loi'[i] = loi[i]
    BY <1>1, <2>4 DEF ClusterInv, Typed
  <2>6. ~Online(i)'
    BY <1>6, <2>5 DEF Elected, Online
  <2>7. \A k \in Node : cur'[k] = Generation(n + 1, Node) /\ vote'[k] = cur'[k] /\ call'[k] = None
    BY <1>1, <1>2, <1>4, <1>6, <2>1, <2>3, <2>5
  <2>8. \A k \in Node : KeepsUp(k)'
    <3> SUFFICES ASSUME NEW k \in Node PROVE KeepsUp(k)'
      OBVIOUS
    <3>1. vote'[k].num = cur'[k].num /\ vote'[k].members = Node
      BY SMTT(30), <2>7 DEF Generation
    <3> QED BY <3>1, NotBoth DEF KeepsUp
  <2>9. \A k \in Node : TogetherCall(k, n + 1)'
    BY <2>7 DEF TogetherCall, Waits
  <2>10. Remembered(n + 1)'
    <3> SUFFICES ASSUME grant' # None PROVE Remembered(n + 1)'
      BY DEF Remembered
    <3>1. grant' = grant /\ grant.num <= n /\ grant.num \in Nat
      BY <1>4 DEF Ahead, ClusterInv, Typed
    <3>2. grant'.num < n + 1
      BY SMTT(30), <3>1
    <3> QED BY <3>2, <2>6, <1>1 DEF Remembered
  <2> QED BY <2>7, <2>8, <2>9, <2>10 DEF Together
<1> QED BY <1>5, <1>6 DEF Ahead, Peer, i

\* No node gets online by recovery before the other has left.
LEMMA AheadGetsOnline ==
    ASSUME ClusterInv, NEW n \in Nat, NEW j \in Node, Ahead(j, n), NEW i \in Node, GetOnline(i)
    PROVE  Ahead(j, n)'
<1>1. /\ InRecovery(i) /\ UNCHANGED <<cur, vote, call, grant>>
      /\ loi' = [loi EXCEPT ![i] = cur[i].num]
  BY DEF GetOnline
<1>2. /\ cur[j].num = n /\ cur[j].members = {j} /\ loi[j] = n /\ Online(j)
  BY AheadIs
<1>3. i # j
  BY <1>1, <1>2 DEF InRecovery
<1>4. i = Other(j) /\ Other(i) = j /\ Node = {i, j} /\ {j} # Node
  BY <1>3, TwoNodes
<1>5. Behind(i, n) /\ vote[j] = cur[j]
  <2>1. ~Aware(i, n)
    BY <1>1, <1>2, <1>4 DEF InRecovery, Aware
  <2>2. ASSUME Elected(i, n) PROVE FALSE
    <3>1. PICK r \in ps : r.num = cur[i].num /\ r.by \in donors[i]
      BY DEF GetOnline
    <3>2. r.by = i \/ r.by = j
      BY <3>1, <1>4 DEF ClusterInv, Typed
    <3>3. n + 1 <= loi[r.by]
      <4>1. r.num = n + 1
        BY <2>2, <3>1, ElectedIs
      <4> QED BY <4>1 DEF ClusterInv, SafeSound, SafeRecord
    <3>4. loi[i] < n + 1 /\ loi[i] \in Nat
      BY <2>2, ElectedIs, Numbers
    <3> QED BY SMTT(30), <1>2, <3>2, <3>3, <3>4
  <2> QED BY <1>4, <2>1, <2>2 DEF Ahead, Peer
<1>6. loi'[i] = cur[i].num /\ loi'[j] = loi[j]
  BY <1>1, <1>3 DEF ClusterInv, Typed
<1>7. Online(i)' /\ Online(j)'
  BY <1>1, <1>2, <1>6 DEF Online
<1>8. Behind(i, n)'
  BY <1>1, <1>5, <1>7 DEF Behind, KeepsUp
<1>9. TourCall(i, n)'
  <2>1. ~Waits(i, "tour")
    <3>1. ~Aware(i, n)
      BY <1>1, <1>2, <1>4 DEF InRecovery, Aware
    <3> QED BY <3>1, <1>4 DEF Ahead, TourCall
  <2> QED BY <2>1, <1>1 DEF TourCall, Waits
<1> QED BY <1>1, <1>4, <1>5, <1>7, <1>8, <1>9 DEF Ahead, Peer

----------------------------------------------------------------------------
(* All steps.                                                              *)

\* The step of i to g, whether it switches or not.
Considers(i, g, D) ==
    MtmConsiderGenSwitch(i, g, D) /\ vote' = [vote EXCEPT ![i] = Vote(i, g)]

\* Generations and votes rise when one is considered.
LEMMA ConsidersRaises ==
    ASSUME ClusterInv, NEW i \in Node, NEW g \in Gen, NEW D, Considers(i, g, D)
    PROVE  \A k \in Node : cur[k].num <= cur'[k].num /\ vote[k].num <= vote'[k].num
<1>1. cur' = cur \/ (cur' = [cur EXCEPT ![i] = g] /\ cur[i].num < g.num)
  BY DEF Considers, MtmConsiderGenSwitch, Switch
<1>2. \A k \in Node : vote[k].num <= vote'[k].num
  BY VoteRises DEF Considers, ClusterInv
<1>3. \A k \in Node : cur[k].num <= cur'[k].num
  <2> SUFFICES ASSUME NEW k \in Node PROVE cur[k].num <= cur'[k].num
    OBVIOUS
  <2>1. cur'[k] = cur[k] \/ (cur'[k] = g /\ cur[k].num < g.num)
    BY <1>1 DEF ClusterInv, Typed
  <2>2. cur[k].num \in Nat /\ g.num \in Nat
    BY Numbers DEF Gen
  <2> QED BY SMTT(30), <2>1, <2>2
<1> QED BY <1>2, <1>3

\* Votes rise.
LEMMA VoteRaises ==
    ASSUME ClusterInv, NEW i \in Node, NEW g \in Gen, vote[i].num <= g.num,
           vote' = [vote EXCEPT ![i] = g]
    PROVE  \A k \in Node : vote[k].num <= vote'[k].num
<1> SUFFICES ASSUME NEW k \in Node PROVE vote[k].num <= vote'[k].num
  OBVIOUS
<1>1. vote'[k] = vote[k] \/ (k = i /\ vote'[k] = g)
  BY DEF ClusterInv, Typed
<1>2. vote[k].num \in Nat
  BY Numbers
<1> QED BY SMTT(30), <1>1, <1>2

\* No number a node keeps falls.
LEMMA NumbersRaise ==
    ASSUME ClusterInv, [Next]_vars
    PROVE  \A k \in Node : cur[k].num <= cur'[k].num /\ vote[k].num <= vote'[k].num
<1>S. ASSUME UNCHANGED <<cur, vote>>
      PROVE  \A k \in Node : cur[k].num <= cur'[k].num /\ vote[k].num <= vote'[k].num
  <2> SUFFICES ASSUME NEW k \in Node PROVE cur[k].num <= cur[k].num /\ vote[k].num <= vote[k].num
    BY <1>S
  <2>1. cur[k].num \in Nat /\ vote[k].num \in Nat
    BY Numbers
  <2> QED BY SMTT(30), <2>1
<1>1. CASE UNCHANGED vars
  BY <1>1, <1>S DEF vars, elect
<1>2. ASSUME NEW i \in Node, Heartbeat(i)
      PROVE  \A k \in Node : cur[k].num <= cur'[k].num /\ vote[k].num <= vote'[k].num
  <2>1. Considers(i, cur[Other(i)], donors[Other(i)])
    BY <1>2 DEF Heartbeat, Considers
  <2>2. cur[Other(i)] \in Gen
    BY TwoNodes, Numbers
  <2> QED BY <2>1, <2>2, ConsidersRaises
<1>3. ASSUME NEW i \in Node, TourWon(i) \/ Granted(i)
      PROVE  \A k \in Node : cur[k].num <= cur'[k].num /\ vote[k].num <= vote'[k].num
  <2>1. \E D : Considers(i, call[i].gen, D)
    BY <1>3 DEF TourWon, Granted, Considers
  <2>2. call[i].gen \in Gen
    BY <1>3, CallGen DEF TourWon, Granted, Waits
  <2> QED BY <2>1, <2>2, ConsidersRaises
<1>4. ASSUME NEW i \in Node, NEW C \in {{i}, Node}, CampaignMyself(i, C)
      PROVE  \A k \in Node : cur[k].num <= cur'[k].num /\ vote[k].num <= vote'[k].num
  <2> DEFINE g == Candidate(i, Candidates(i, C))
  <2>1. vote' = [vote EXCEPT ![i] = g] /\ UNCHANGED cur
    BY <1>4 DEF CampaignMyself
  <2>2. g \in Gen /\ vote[i].num <= g.num
    <3>1. Candidates(i, C) \in SUBSET Node /\ vote[i] \in Gen
      BY Numbers DEF Candidates, ClusterInv, Typed, Gen
    <3> QED BY SMTT(30), <3>1 DEF Candidate, Generation, Gen
  <2> HIDE DEF g
  <2>3. \A k \in Node : vote[k].num <= vote'[k].num
    BY <2>1, <2>2, VoteRaises
  <2>4. \A k \in Node : cur[k].num <= cur[k].num
    BY SMTT(30), Numbers
  <2> QED BY <2>1, <2>3, <2>4
<1>5. ASSUME NEW i \in Node, NEW b \in ballots, VoteFor(i, b.gen)
      PROVE  \A k \in Node : cur[k].num <= cur'[k].num /\ vote[k].num <= vote'[k].num
  <2>1. vote' = [vote EXCEPT ![i] = b.gen] /\ UNCHANGED cur /\ vote[i].num < b.gen.num
    BY <1>5 DEF VoteFor
  <2>2. b.gen \in Gen /\ b.gen.num \in Nat /\ vote[i].num \in Nat
    BY Numbers DEF ClusterInv, Typed, Gen
  <2>3. vote[i].num <= b.gen.num
    BY SMTT(30), <2>1, <2>2
  <2>4. \A k \in Node : cur[k].num <= cur[k].num
    BY SMTT(30), Numbers
  <2> QED BY <2>1, <2>2, <2>3, <2>4, VoteRaises
<1>6. ASSUME NEW i \in Node, GetOnline(i)
      PROVE  \A k \in Node : cur[k].num <= cur'[k].num /\ vote[k].num <= vote'[k].num
  BY <1>6, <1>S DEF GetOnline
<1>7. ASSUME NEW i \in Node,
             \/ TourFails(i) \/ RefereeExecutes(i) \/ AskFails(i)
             \/ RefereeClearGrant(i) \/ Cleared(i) \/ ClearFails(i) \/ NoReferee(i)
             \/ CampaignerRestarts(i) \/ NodeRestarts(i)
      PROVE  UNCHANGED <<cur, vote>>
  BY <1>7 DEF TourFails, RefereeExecutes, AskFails, RefereeClearGrant, Cleared, ClearFails, NoReferee,
              CampaignerRestarts, NodeRestarts, CampaignerStarts, elect
<1>8. CASE \/ \E i \in Node : ApplyFinish(i) \/ ResolveForRefereeWinner(i)
           \/ Prepare \/ ApplyPrepare \/ Precommit \/ ApplyPrecommit \/ Commit
           \/ CommitFails \/ AbortOwn
  <2>1. UNCHANGED cluster
    BY <1>8 DEF ApplyFinish, ResolveForRefereeWinner, Prepare, ApplyPrepare, Precommit,
                ApplyPrecommit, Commit, CommitFails, AbortOwn
  <2> QED BY <2>1, <1>S DEF cluster, elect
<1> QED BY <1>S, <1>1, <1>2, <1>3, <1>4, <1>5, <1>6, <1>7, <1>8 DEF Next

\* What becomes of the numbers of the grant in a step.
PendingStep ==
    \/ UNCHANGED pending
    \/ \E i \in Node : \E v \in {0, pending[i], cur[i].num} : pending' = [pending EXCEPT ![i] = v]

GrantStep ==
    \/ grant' \in {None, grant}
    \/ \E i \in Node : Waits(i, "ask") /\ grant' = [node |-> i, num |-> call[i].gen.num]

\* What a step does to the grant and to who remembers it.
LEMMA NextGrant ==
    ASSUME ClusterInv, [Next]_vars
    PROVE  PendingStep /\ GrantStep
<1>1. CASE UNCHANGED vars
  BY <1>1 DEF vars, PendingStep, GrantStep
<1>2. ASSUME NEW i \in Node,
             \/ Heartbeat(i) \/ TourWon(i) \/ TourFails(i) \/ Granted(i) \/ ClearFails(i) \/ NoReferee(i)
      PROVE  PendingStep /\ GrantStep
  BY <1>2 DEF Heartbeat, TourWon, TourFails, Granted, ClearFails, NoReferee, PendingStep, GrantStep
<1>3. ASSUME NEW i \in Node,
             \/ GetOnline(i) \/ AskFails(i) \/ CampaignerRestarts(i) \/ NodeRestarts(i)
      PROVE  PendingStep /\ GrantStep
  <2>1. UNCHANGED grant /\ pending' = [pending EXCEPT ![i] = cur[i].num]
    BY <1>3 DEF GetOnline, AskFails, CampaignerRestarts, NodeRestarts, CampaignerStarts
  <2> QED BY <2>1 DEF PendingStep, GrantStep
<1>4. ASSUME NEW i \in Node, RefereeClearGrant(i) \/ Cleared(i)
      PROVE  PendingStep /\ GrantStep
  <2>1. UNCHANGED grant
    BY <1>4 DEF RefereeClearGrant, Cleared
  <2>2. \/ UNCHANGED pending \/ pending' = [pending EXCEPT ![i] = 0]
        \/ pending' = [pending EXCEPT ![i] = pending[i]]
    BY <1>4 DEF RefereeClearGrant, Cleared
  <2> QED BY <2>1, <2>2 DEF PendingStep, GrantStep
<1>5. ASSUME NEW i \in Node, RefereeExecutes(i)
      PROVE  PendingStep /\ GrantStep
  <2>1. UNCHANGED pending /\ call[i] # None
    BY <1>5 DEF RefereeExecutes
  <2>2. GrantStep
    BY <1>5 DEF RefereeExecutes, RequestGrant, DeleteGrant, GrantStep, Waits
  <2> QED BY <2>1, <2>2 DEF PendingStep
<1>6. ASSUME NEW i \in Node, NEW C, CampaignMyself(i, C)
      PROVE  PendingStep /\ GrantStep
  BY <1>6 DEF CampaignMyself, PendingStep, GrantStep
<1>7. ASSUME NEW i \in Node, NEW g, VoteFor(i, g)
      PROVE  PendingStep /\ GrantStep
  BY <1>7 DEF VoteFor, PendingStep, GrantStep
<1>8. CASE \/ \E i \in Node : ApplyFinish(i) \/ ResolveForRefereeWinner(i)
           \/ Prepare \/ ApplyPrepare \/ Precommit \/ ApplyPrecommit \/ Commit
           \/ CommitFails \/ AbortOwn
  <2>1. UNCHANGED cluster
    BY <1>8 DEF ApplyFinish, ResolveForRefereeWinner, Prepare, ApplyPrepare, Precommit,
                ApplyPrecommit, Commit, CommitFails, AbortOwn
  <2> QED BY <2>1 DEF cluster, PendingStep, GrantStep
<1> QED BY <1>1, <1>2, <1>3, <1>4, <1>5, <1>6, <1>7, <1>8 DEF Next

\* Every step keeps the numbers of the grant.
LEMMA NextNumbers ==
    ASSUME ClusterInv, ClusterInv', GrantNumbers, [Next]_vars
    PROVE  GrantNumbers'
<1>1. \A k \in Node : cur[k].num <= cur'[k].num /\ vote[k].num <= vote'[k].num
  BY NumbersRaise
<1>2. \A k \in Node : /\ cur[k].num \in Nat /\ cur'[k].num \in Nat
                      /\ vote[k].num \in Nat /\ vote'[k].num \in Nat
  BY DEF ClusterInv, Typed, Gen
<1>3. pending \in [Node -> Nat] /\ \A k \in Node : pending[k] <= cur[k].num
  BY DEF GrantNumbers
<1>4. pending' \in [Node -> Nat] /\ \A k \in Node : pending'[k] <= cur'[k].num
  <2>1. CASE UNCHANGED pending
    BY SMTT(30), <1>1, <1>2, <1>3, <2>1
  <2>2. ASSUME NEW i \in Node, NEW v \in {0, pending[i], cur[i].num}, pending' = [pending EXCEPT ![i] = v]
        PROVE  pending' \in [Node -> Nat] /\ \A k \in Node : pending'[k] <= cur'[k].num
    <3>1. v \in Nat /\ v <= cur'[i].num
      BY SMTT(30), <1>1, <1>2, <1>3
    <3> QED BY SMTT(30), <1>1, <1>2, <1>3, <2>2, <3>1
  <2> QED BY <2>1, <2>2, NextGrant DEF PendingStep
<1>5. ASSUME grant' # None
      PROVE  grant'.num <= vote'[grant'.node].num
  <2>1. CASE grant' = grant
    <3>1. grant.num <= vote[grant.node].num /\ grant.node \in Node /\ grant.num \in Nat
      BY <1>5, <2>1 DEF GrantNumbers, ClusterInv, Typed
    <3> QED BY SMTT(30), <1>1, <1>2, <2>1, <3>1
  <2>2. ASSUME NEW i \in Node, Waits(i, "ask"), grant' = [node |-> i, num |-> call[i].gen.num]
        PROVE  grant'.num <= vote'[grant'.node].num
    <3>1. call[i].gen.num <= vote[i].num /\ call[i].gen.num \in Nat
      BY <2>2, CallGen DEF ClusterInv, CallsSound, CallSound, Waits
    <3>2. grant'.node = i /\ grant'.num = call[i].gen.num
      BY <2>2
    <3> QED BY SMTT(30), <1>1, <1>2, <3>1, <3>2
  <2> QED BY <1>5, <2>1, <2>2, NextGrant DEF GrantStep
<1> QED BY <1>4, <1>5 DEF GrantNumbers

\* From one generation of both the step leads to the same, or one goes ahead.
LEMMA NextTogether ==
    ASSUME ClusterInv, GrantNumbers, NEW n \in Nat, Together(n), [Next]_vars
    PROVE  Together(n)' \/ \E j \in Node : Ahead(j, n + 1)'
<1>S. ASSUME UNCHANGED <<cur, loi, vote, call, grant, pending>>
      PROVE  Together(n)'
  BY <1>S DEF Together, KeepsUp, TogetherCall, Remembered, Online, Waits
<1>1. CASE UNCHANGED vars
  BY <1>1, <1>S DEF vars, elect
<1>2. ASSUME NEW i \in Node, TourWon(i) \/ TourFails(i)
      PROVE  FALSE
  BY <1>2 DEF TourWon, TourFails, Together, TogetherCall
<1>3. ASSUME NEW i \in Node, AskFails(i) \/ ClearFails(i) \/ NoReferee(i)
                             \/ CampaignerRestarts(i) \/ NodeRestarts(i)
      PROVE  Together(n)'
  <2>1. SameElection
    BY <1>3 DEF AskFails, ClearFails, NoReferee, CampaignerRestarts, NodeRestarts, CampaignerStarts,
                elect, SameElection
  <2>2. EndsCall(i)
    BY <1>3 DEF AskFails, ClearFails, NoReferee, CampaignerRestarts, NodeRestarts, CampaignerStarts,
                EndsCall, Returns, Waits
  <2> QED BY <2>1, <2>2, TogetherEnds
<1>4. ASSUME NEW i \in Node, \/ Heartbeat(i) \/ GetOnline(i) \/ RefereeExecutes(i) \/ Cleared(i)
                             \/ RefereeClearGrant(i)
      PROVE  Together(n)'
  BY <1>4, TogetherBeats, TogetherGetsOnline, TogetherExecutes, TogetherCleared, TogetherClears
<1>5. ASSUME NEW i \in Node, NEW C \in {{i}, Node}, CampaignMyself(i, C)
      PROVE  Together(n)'
  BY <1>5, TogetherCampaigns
<1>6. ASSUME NEW i \in Node, NEW b \in ballots, VoteFor(i, b.gen)
      PROVE  FALSE
  BY <1>6, TogetherBallots DEF VoteFor
<1>7. ASSUME NEW i \in Node, Granted(i)
      PROVE  \E j \in Node : Ahead(j, n + 1)'
  BY <1>7, TogetherGranted
<1>8. CASE \/ \E i \in Node : ApplyFinish(i) \/ ResolveForRefereeWinner(i)
           \/ Prepare \/ ApplyPrepare \/ Precommit \/ ApplyPrecommit \/ Commit
           \/ CommitFails \/ AbortOwn
  <2>1. UNCHANGED cluster
    BY <1>8 DEF ApplyFinish, ResolveForRefereeWinner, Prepare, ApplyPrepare, Precommit,
                ApplyPrecommit, Commit, CommitFails, AbortOwn
  <2> QED BY <2>1, <1>S DEF cluster, elect
<1> QED BY <1>1, <1>2, <1>3, <1>4, <1>5, <1>6, <1>7, <1>8 DEF Next

\* While one is ahead it stays so, until both are in the next generation.
LEMMA NextAhead ==
    ASSUME ClusterInv, NEW n \in Nat, NEW j \in Node, Ahead(j, n), [Next]_vars
    PROVE  Ahead(j, n)' \/ Together(n + 1)'
<1>S. ASSUME UNCHANGED <<cur, loi, vote, call, grant>>
      PROVE  Ahead(j, n)'
  BY <1>S DEF Ahead, Peer, TourCall, Behind, Aware, Elected, KeepsUp, Online, Waits
<1>1. CASE UNCHANGED vars
  BY <1>1, <1>S DEF vars, elect
<1>2. ASSUME NEW i \in Node, TourFails(i) \/ AskFails(i) \/ Cleared(i) \/ ClearFails(i) \/ NoReferee(i)
                             \/ CampaignerRestarts(i) \/ NodeRestarts(i)
      PROVE  Ahead(j, n)'
  <2>1. SameElection /\ Returns(i) /\ UNCHANGED grant
    BY <1>2 DEF TourFails, AskFails, Cleared, ClearFails, NoReferee, CampaignerRestarts, NodeRestarts,
                CampaignerStarts, elect, SameElection, Returns
  <2> QED BY <2>1, AheadEnds
<1>3. ASSUME NEW i \in Node, \/ GetOnline(i) \/ TourWon(i) \/ Granted(i)
                             \/ RefereeExecutes(i) \/ RefereeClearGrant(i)
      PROVE  Ahead(j, n)'
  BY <1>3, AheadGetsOnline, AheadTour, AheadGranted, AheadExecutes, AheadClears
<1>4. ASSUME NEW i \in Node, Heartbeat(i)
      PROVE  Ahead(j, n)' \/ Together(n + 1)'
  BY <1>4, AheadBeats, AheadLearns
<1>5. ASSUME NEW i \in Node, NEW C \in {{i}, Node}, CampaignMyself(i, C)
      PROVE  Ahead(j, n)'
  BY <1>5, AheadCampaigns
<1>6. ASSUME NEW i \in Node, NEW b \in ballots, VoteFor(i, b.gen)
      PROVE  Ahead(j, n)'
  BY <1>6, AheadVotes
<1>7. CASE \/ \E i \in Node : ApplyFinish(i) \/ ResolveForRefereeWinner(i)
           \/ Prepare \/ ApplyPrepare \/ Precommit \/ ApplyPrecommit \/ Commit
           \/ CommitFails \/ AbortOwn
  <2>1. UNCHANGED cluster
    BY <1>7 DEF ApplyFinish, ResolveForRefereeWinner, Prepare, ApplyPrepare, Precommit,
                ApplyPrecommit, Commit, CommitFails, AbortOwn
  <2> QED BY <2>1, <1>S DEF cluster, elect
<1> QED BY <1>1, <1>2, <1>3, <1>4, <1>5, <1>6, <1>7 DEF Next

\* At the start both are in one generation.
LEMMA InitPhases == Init => GrantNumbers /\ Phases
<1> SUFFICES ASSUME Init PROVE GrantNumbers /\ Phases
  OBVIOUS
<1>1. GrantNumbers
  <2>1. pending \in [Node -> Nat] /\ \A i \in Node : pending[i] <= cur[i].num
    BY SMTT(30) DEF Init, Generation
  <2> QED BY <2>1 DEF Init, GrantNumbers
<1>2. Together(1)
  <2>1. \A k \in Node : KeepsUp(k)
    <3> SUFFICES ASSUME NEW k \in Node PROVE KeepsUp(k)
      OBVIOUS
    <3>1. cur[k] = Generation(1, Node) /\ vote[k] = Generation(1, {})
      BY DEF Init
    <3>2. cur[k].num = 1 /\ vote[k].num = 1 /\ vote[k].members = {}
      BY SMTT(30), <3>1 DEF Generation
    <3> QED BY <3>2 DEF KeepsUp
  <2>2. \A k \in Node : TogetherCall(k, 1)
    BY DEF Init, TogetherCall, Waits
  <2> QED BY <2>1, <2>2 DEF Init, Together, Remembered
<1>3. 1 \in Nat
  BY SMTT(30)
<1> QED BY <1>1, <1>2, <1>3 DEF Phases

\* How two nodes with a referee take turns: they are in one generation of both,
\* or one works alone while the other is on its way to the next one of both.
THEOREM RefereePhases == Spec => [](GrantNumbers /\ Phases)
<1>1. IInv /\ IInv' /\ GrantNumbers /\ Phases /\ [Next]_vars => (GrantNumbers /\ Phases)'
  <2> SUFFICES ASSUME ClusterInv, ClusterInv', GrantNumbers, Phases, [Next]_vars
               PROVE  GrantNumbers' /\ Phases'
    BY DEF IInv
  <2>1. GrantNumbers'
    BY NextNumbers
  <2>2. PICK n \in Nat : Together(n) \/ \E j \in Node : Ahead(j, n)
    BY DEF Phases
  <2>3. \/ Together(n)' \/ \E j \in Node : Ahead(j, n)'
        \/ Together(n + 1)' \/ \E j \in Node : Ahead(j, n + 1)'
    BY <2>2, NextTogether, NextAhead
  <2>4. n + 1 \in Nat
    BY SMTT(30)
  <2> QED BY <2>1, <2>3, <2>4 DEF Phases
<1> QED BY RefereeInvariant, InitPhases, <1>1, PTL DEF Spec

\* The numbers of generations, votes and grants keep their order at a node: it
\* is not online beyond its generation (MtmConsiderGenSwitch), nor in it beyond
\* its vote, and the referee's row is for a generation its node voted for.
THEOREM RefereeTypes == Spec => []TypeOK
<1>1. IInv /\ GrantNumbers => TypeOK
  BY DEF IInv, ClusterInv, NumbersOrdered, OrderedAt, HasSound, HasSoundAt, GrantNumbers, TypeOK
<1> QED BY RefereeInvariant, RefereePhases, <1>1, PTL

\* While a node proposes a generation of both (CampaignTour), its peer is bound
\* by no other vote and in no later generation: the two never outvote each
\* other, so that TourFails is the loss of a message and nothing else.
THEOREM RefereeNeverOutvoted == Spec => []NeverOutvoted
<1>1. IInv /\ Phases => NeverOutvoted
  <2> SUFFICES ASSUME ClusterInv, Phases, NEW i \in Node, Waits(i, "tour")
               PROVE  /\ cur[Other(i)].num < call[i].gen.num
                      /\ vote[Other(i)].num < call[i].gen.num \/ vote[Other(i)] = call[i].gen
    BY DEF IInv, NeverOutvoted
  <2>1. PICK n \in Nat, j \in Node : Ahead(j, n)
    BY DEF Phases, Together, TogetherCall
  <2>2. cur[j].num = n /\ call[j] = None
    BY <2>1, AheadIs
  <2>3. i # j
    BY <2>2 DEF Waits
  <2>4. i = Other(j) /\ Other(i) = j
    BY <2>3, TwoNodes
  <2>5. Aware(i, n) /\ call[i].gen = Generation(n + 1, Node)
    BY <2>1, <2>4 DEF Ahead, TourCall
  <2>6. cur[i] = cur[j] /\ cur[i].num = n
    BY <2>1, <2>3, <2>5, AwareIs
  <2>7. vote[j] = cur[j] \/ vote[j] = Generation(n + 1, Node) \/ vote[j] = cur[i]
    BY <2>1, <2>4 DEF Ahead, Peer
  <2>8. vote[j].num = n \/ vote[j] = call[i].gen
    BY <2>2, <2>5, <2>6, <2>7
  <2>9. call[i].gen.num = n + 1
    BY SMTT(30), <2>5 DEF Generation
  <2>10. n < n + 1
    BY SMTT(30)
  <2> QED BY <2>2, <2>4, <2>8, <2>9, <2>10
<1> QED BY RefereeInvariant, RefereePhases, <1>1, PTL

\* A grant is never forgotten: once both are online in a generation of both and
\* no query is under way, referee_grant_turn_in_pending is set at one of them.
THEOREM RefereeRemembers == Spec => []GrantRemembered
<1>1. IInv /\ Phases => GrantRemembered
  <2> SUFFICES ASSUME ClusterInv, Phases, grant # None,
                      \A i \in Node : cur[i].members = Node /\ Online(i) /\ call[i] = None
               PROVE  \E i \in Node : pending[i] # 0
    BY DEF IInv, GrantRemembered
  <2>1. PICK n \in Nat : Together(n) \/ \E j \in Node : Ahead(j, n)
    BY DEF Phases
  <2>2. ASSUME NEW j \in Node, Ahead(j, n) PROVE FALSE
    <3>1. cur[j].members = {j} /\ {j} # Node
      BY <2>2, AheadIs, NotBoth
    <3> QED BY <3>1
  <2>3. Remembered(n)
    BY <2>1, <2>2 DEF Together
  <2>4. grant.node \in Node
    BY DEF ClusterInv, Typed
  <2> QED BY <2>3, <2>4 DEF Remembered, Waits
<1> QED BY RefereeInvariant, RefereePhases, <1>1, PTL
=============================================================================
