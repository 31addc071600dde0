--------------------------- MODULE RecoveryProofs ---------------------------
(***************************************************************************)
(* The safety of recovery, for any number of nodes, transactions and       *)
(* elections and any interleaving of receivers: whoever goes online in a   *)
(* generation has logged, before its ParallelSafe record, everything that  *)
(* may still be committed of the generations before; prepares that may be  *)
(* committed are in the order of their generations in every WAL; and no    *)
(* worker in normal mode meets a PREPARE it must die of.                   *)
(***************************************************************************)
EXTENDS Recovery, GenElectionProofs

Record == [kind : {"prepare"}, xact : Xact] \cup [kind : {"ps"}, gen : Gen, donors : SUBSET Node]

RShapes ==
    /\ mode \in [Node -> {Disabled, Normal} \cup {RecoverFrom(d) : d \in Node}]
    /\ wal \in [Node -> Seq(Record)]
    /\ xact \in [Xact -> {NoXact} \cup [origin : Node, gen : Nat \ {0}]]
    /\ acks \in [Xact -> SUBSET Node]
    /\ session \in [Node -> SUBSET Node]
    /\ inflight \in [Node -> SUBSET Xact]

Started(x) == xact[x] # NoXact

\* The generations that exist, and those that can serve at all.
Chosen == {g \in {FirstGen} \cup {b.gen : b \in ballots} : g = FirstGen \/ Victories(g) # {}}
Serving == {g \in Chosen : Majority(g.members)}

\* j may still acknowledge a prepare of generation n: it is online in it, or
\* may become so.  A vote for a later generation, or a switch, ends it.
CanAck(j, n) == (Online(j) /\ cur[j].num = n) \/ vote[j].num <= n

\* x is, or may still become, committable.
CouldCommit(x) ==
    /\ Started(x)
    /\ \E g \in Serving :
        /\ g.num = xact[x].gen
        /\ \A j \in g.members : j \in acks[x] \/ CanAck(j, g.num)

\* A record of a generation above n.
Later(r, n) ==
    \/ r.kind = "ps" /\ r.gen.num > n
    \/ r.kind = "prepare" /\ xact[r.xact].gen > n

\* ParallelSafe records are those of elected generations, and nobody logs one
\* ahead of its last_online_in.
SafeRecords ==
    \A i \in Node : \A k \in DOMAIN wal[i] : wal[i][k].kind = "ps" =>
        /\ wal[i][k].gen = FirstGen \/ Elected(wal[i][k].gen, wal[i][k].donors)
        /\ wal[i][k].gen.num <= loi[i]

\* Only prepares of transactions that have started are logged, each once.
PreparedOnce ==
    \A i \in Node : \A k \in DOMAIN wal[i] : wal[i][k].kind = "prepare" =>
        /\ Started(wal[i][k].xact)
        /\ \A m \in DOMAIN wal[i] : wal[i][m] = wal[i][k] => m = k

\* Whoever was online in a generation was a member of it, and logged
\* ParallelSafe.
OnlineIsLogged ==
    \A o \in onlineIn :
        /\ \E k \in DOMAIN wal[o[1]] : wal[o[1]][k].kind = "ps" /\ wal[o[1]][k].gen.num = o[2]
        /\ \E g \in Serving : g.num = o[2] /\ o[1] \in g.members

\* A transaction starts on a node that is online in its generation, behind the
\* ParallelSafe record of it, and is prepared there first.
OriginOnline ==
    \A x \in Xact : Started(x) =>
        /\ xact[x].origin \in acks[x]
        /\ \A k \in DOMAIN wal[xact[x].origin] : wal[xact[x].origin][k] = PrepareRec(x) =>
               \E m \in 1 .. (k - 1) : /\ wal[xact[x].origin][m].kind = "ps"
                                       /\ wal[xact[x].origin][m].gen.num = xact[x].gen

\* An acknowledgement is for a prepare that was logged online.
AcksHeld ==
    \A x \in Xact : \A j \in acks[x] :
        Started(x) /\ HasPrepare(j, x) /\ <<j, xact[x].gen>> \in onlineIn

\* As long as every member of a generation may acknowledge, nobody has been
\* online in a later one.
NoneAbove ==
    \A g \in Serving : (\A j \in g.members : CanAck(j, g.num)) =>
        \A o \in onlineIn : o[2] <= g.num

\* What may still be committed is held before every record of a later
\* generation.
Held ==
    \A x \in Xact : CouldCommit(x) =>
        \A i \in Node : \A k \in DOMAIN wal[i] : Later(wal[i][k], xact[x].gen) =>
            \E m \in 1 .. (k - 1) : wal[i][m] = PrepareRec(x)

\* Workers of normal receivers hold what is new to the node, of a generation
\* it has been told of; and these receivers run in online nodes, without one
\* in recovery.
NormalOk ==
    \A i \in Node :
        /\ mode[i] = Normal => Online(i)
        /\ \A x \in inflight[i] :
               Started(x) /\ ~HasPrepare(i, x) /\ ~Misplaced(i, x) /\ session[i] = {}

DataOk ==
    /\ SafeRecords
    /\ PreparedOnce
    /\ OnlineIsLogged
    /\ OriginOnline
    /\ AcksHeld
    /\ NoneAbove
    /\ Held

RInv == IInv /\ RShapes /\ DataOk /\ NormalOk

\* Leaves are for Zenon, unless they cite SMT.
USE ZenonT(60)

----------------------------------------------------------------------------
(* Generations.                                                            *)

\* An elected generation has a voter, and donors among the voters.
LEMMA ChosenGen ==
    ASSUME TypeOK, BallotsRemembered, NEW g \in Chosen
    PROVE  /\ g \in Gen
           /\ g.num >= 1
           /\ g # FirstGen => g.num > 1 /\ \E D : Elected(g, D)
<1>1. CASE g = FirstGen
  BY SMTT(30), <1>1 DEF FirstGen, Gen
<1>2. CASE g # FirstGen
  <2>1. PICK b \in ballots : b.gen = g
    BY <1>2 DEF Chosen
  <2>2. PICK Q : Q \in Victories(g)
    BY <1>2 DEF Chosen
  <2>3. Elected(g, MostAdvanced(Q))
    BY <2>2 DEF Elected
  <2> QED
    BY SMTT(30), <1>2, <2>1, <2>3 DEF BallotsRemembered, TypeOK, Ballot, Gen
<1> QED
  BY <1>1, <1>2

\* One number, one chosen generation.
LEMMA ChosenUnique ==
    ASSUME TypeOK, BallotsRemembered, OneVotePerNumber,
           NEW g \in Chosen, NEW h \in Chosen, g.num = h.num
    PROVE  g = h
<1>1. CASE g = FirstGen \/ h = FirstGen
  BY SMTT(30), <1>1, ChosenGen DEF FirstGen
<1>2. CASE g # FirstGen /\ h # FirstGen
  BY <1>2, ChosenGen, ElectedUnique
<1> QED
  BY <1>1, <1>2

\* Both facts, in a form that also holds of the state after a step.
GenFacts ==
    /\ \A g \in Chosen : /\ g \in Gen /\ g.num >= 1
                         /\ g # FirstGen => g.num > 1 /\ \E Q \in Victories(g) : TRUE
    /\ \A g, h \in Chosen : g.num = h.num => g = h

\* What the proofs below use of the elections.
LEMMA GenFactsHold == IInv => GenFacts
<1> SUFFICES ASSUME IInv PROVE GenFacts
  OBVIOUS
<1>1. ASSUME NEW g \in Chosen
      PROVE  /\ g \in Gen /\ g.num >= 1
             /\ g # FirstGen => g.num > 1 /\ \E Q \in Victories(g) : TRUE
  BY <1>1, ChosenGen DEF IInv, Elected
<1>2. ASSUME NEW g \in Chosen, NEW h \in Chosen, g.num = h.num PROVE g = h
  BY <1>2, ChosenUnique DEF IInv
<1> QED
  BY <1>1, <1>2 DEF GenFacts

\* The same after a step.
LEMMA GenFactsNext == IInv' => GenFacts'
BY GenFactsHold, PTL

\* Elected with some donors, a generation is chosen, and its donors are nodes.
LEMMA ElectedChosen ==
    ASSUME TypeOK, NEW g, NEW D, Elected(g, D)
    PROVE  g \in Chosen /\ g \in Gen /\ D \in SUBSET Node
<1>1. PICK Q \in Victories(g) : D = MostAdvanced(Q)
  BY DEF Elected
<1>2. Majority({b.node : b \in Q}) /\ Q \subseteq ballots /\ \A b \in Q : b.gen = g
  BY DEF Victories
<1>3. ~Majority({})
  BY SMTT(30), NodeAssumption, FS_EmptySet, FS_CardinalityType DEF Majority
<1>4. Q # {}
  BY <1>2, <1>3
<1>5. PICK b \in ballots : b.gen = g
  BY <1>2, <1>4
<1>6. D \in SUBSET Node
  BY SMTT(30), <1>1, <1>2 DEF MostAdvanced, TypeOK, Ballot
<1> QED
  BY <1>1, <1>5, <1>6 DEF Chosen, TypeOK, Ballot

\* Steps of the election keep what was given out, and take from nodes the right
\* to acknowledge, never give it.
LEMMA ChosenStays ==
    ASSUME ballots \subseteq ballots'
    PROVE  Chosen \subseteq Chosen' /\ Serving \subseteq Serving'
<1>1. ASSUME NEW g, Victories(g) # {} PROVE Victories(g)' # {}
  <2>1. PICK Q : Q \in Victories(g)
    BY <1>1
  <2>2. Q \in Victories(g)'
    BY <2>1 DEF Victories, Majority
  <2> QED
    BY <2>2
<1>2. Chosen \subseteq Chosen'
  BY <1>1 DEF Chosen, FirstGen
<1> QED
  BY <1>2 DEF Serving, Majority

\* An election step takes nothing back, and never lets a node acknowledge again
\* what it could not acknowledge before.
LEMMA ElectionStep ==
    ASSUME IInv, [Next]_vars
    PROVE  /\ ballots \subseteq ballots' /\ onlineIn \subseteq onlineIn'
           /\ \A j \in Node : loi[j] <= loi'[j] /\ cur[j].num <= cur'[j].num
           /\ \A j \in Node, n \in Nat : CanAck(j, n)' => CanAck(j, n)
<1> USE DEF IInv, NumbersOrdered, TypeOK, Gen, CanAck, Online
<1>1. ASSUME NEW i \in Node, NEW g \in Proposable, Vote(i, g)
      PROVE  /\ ballots \subseteq ballots' /\ onlineIn \subseteq onlineIn'
             /\ \A j \in Node : loi[j] <= loi'[j] /\ cur[j].num <= cur'[j].num
             /\ \A j \in Node, n \in Nat : CanAck(j, n)' => CanAck(j, n)
  BY SMTT(30), <1>1, ProposableAssumption DEF Vote
<1>2. ASSUME NEW i \in Node, NEW j \in Node, NEW n \in 1 .. vote[j].num, GiveUp(i, n)
      PROVE  /\ ballots \subseteq ballots' /\ onlineIn \subseteq onlineIn'
             /\ \A k \in Node : loi[k] <= loi'[k] /\ cur[k].num <= cur'[k].num
             /\ \A k \in Node, m \in Nat : CanAck(k, m)' => CanAck(k, m)
  BY SMTT(30), <1>2 DEF GiveUp
<1>3. ASSUME NEW i \in Node, NEW g, NEW D, Elected(g, D), Switch(i, g, D)
      PROVE  /\ ballots \subseteq ballots' /\ onlineIn \subseteq onlineIn'
             /\ \A j \in Node : loi[j] <= loi'[j] /\ cur[j].num <= cur'[j].num
             /\ \A j \in Node, n \in Nat : CanAck(j, n)' => CanAck(j, n)
  <2>1. g \in Gen
    BY <1>3, ElectedChosen
  <2> QED
    BY SMTT(30), <1>3, <2>1 DEF Switch, MayServe
<1>4. ASSUME NEW i \in Node, GetOnline(i)
      PROVE  /\ ballots \subseteq ballots' /\ onlineIn \subseteq onlineIn'
             /\ \A j \in Node : loi[j] <= loi'[j] /\ cur[j].num <= cur'[j].num
             /\ \A j \in Node, n \in Nat : CanAck(j, n)' => CanAck(j, n)
  BY SMTT(30), <1>4 DEF GetOnline, InRecovery
<1>5. CASE UNCHANGED vars
  BY SMTT(30), <1>5 DEF vars
<1> QED
  BY <1>1, <1>2, <1>3, <1>4, <1>5 DEF Next, Elected

\* The members of h still may acknowledge, or have done so.  Then a voter for
\* the later g was online in h, and so every donor of g was online in h or
\* after it.
LEMMA DonorsKnow ==
    ASSUME IInv, NEW g, NEW D, Elected(g, D), NEW i \in D,
           NEW h \in Serving, h.num < g.num,
           \A j \in h.members : <<j, h.num>> \in onlineIn \/ vote[j].num <= h.num
    PROVE  \E l \in Nat : h.num <= l /\ l < g.num /\ <<i, l>> \in onlineIn
<1> USE DEF IInv
<1>1. PICK Q \in Victories(g) : D = MostAdvanced(Q)
  BY DEF Elected
<1>2. Q \subseteq ballots /\ \A b \in Q : b \in Ballot /\ b.gen = g
  BY DEF Victories, TypeOK
<1>3. g \in Gen /\ h \in Gen
  BY ElectedChosen, ChosenGen DEF Serving
<1>4. PICK c \in Q : c.node = i /\ \A b \in Q : b.loi <= c.loi
  BY <1>1 DEF MostAdvanced
<1>5. PICK b \in Q : b.node \in h.members
  <2> DEFINE S == {b.node : b \in Q}
  <2>1. S \in SUBSET Node /\ Majority(S)
    BY <1>2 DEF Victories, Ballot
  <2>2. S \cap h.members # {}
    <3> HIDE DEF S
    <3> QED BY <2>1, <1>3, MajoritiesMeet DEF Serving, Gen
  <2> QED
    BY <2>2
<1>6. <<b.node, h.num>> \in onlineIn
  BY SMTT(30), <1>2, <1>3, <1>5 DEF BallotsRemembered, TypeOK, Ballot, Gen
<1>7. h.num <= b.loi
  BY SMTT(30), <1>2, <1>3, <1>6 DEF PromiseKept, Ballot, Gen
<1>8. h.num <= c.loi /\ c.loi < g.num /\ <<i, c.loi>> \in onlineIn /\ c.loi \in Nat
  BY SMTT(30), <1>2, <1>3, <1>4, <1>7 DEF BallotsRemembered, OnlineHistory, Ballot, Gen
<1> QED
  BY <1>8

----------------------------------------------------------------------------
(* Steps of WAL.                                                           *)

\* What going online is based on: somebody who was online that far before, or
\* being a donor.
GoesOnlineSoundly ==
    \A o \in onlineIn' \ onlineIn :
        \/ \E p \in onlineIn : p[2] >= o[2]
        \/ \E g, D : Elected(g, D) /\ o[1] \in D /\ o[2] = g.num /\ cur'[o[1]] = g

\* Once somebody is online in a later generation, somebody in an earlier one
\* cannot acknowledge any more.
LEMMA NoneAboveKept ==
    ASSUME IInv, IInv', [Next]_vars, OnlineIsLogged, NoneAbove, GoesOnlineSoundly,
           ballots' = ballots \/ onlineIn' = onlineIn
    PROVE  NoneAbove'
<1> SUFFICES ASSUME NEW g \in Serving', \A j \in g.members : CanAck(j, g.num)',
                    NEW o \in onlineIn', ~(o[2] <= g.num)
             PROVE  FALSE
  BY DEF NoneAbove
<1> USE DEF IInv
<1>1. /\ ballots \subseteq ballots' /\ onlineIn \subseteq onlineIn'
      /\ \A j \in Node, n \in Nat : CanAck(j, n)' => CanAck(j, n)
  BY ElectionStep
<1>0. GenFacts'
  BY GenFactsNext
<1>2. g \in Gen /\ g.num >= 1 /\ g.num \in Nat /\ g.members \subseteq Node
  BY <1>0 DEF GenFacts, Serving, Gen
<1>3. o[1] \in Node /\ o[2] \in Nat /\ g.num < o[2]
  BY SMTT(30), <1>2 DEF TypeOK
<1>4. CASE g \in Serving
  <2>1. \A j \in g.members : CanAck(j, g.num)
    BY <1>1, <1>2
  <2>2. \A p \in onlineIn : p[2] <= g.num
    BY <1>4, <2>1 DEF NoneAbove
  <2>3. ~ \E p \in onlineIn : p[2] >= o[2]
    BY SMTT(30), <2>2, <1>2, <1>3 DEF TypeOK
  <2>4. o \notin onlineIn
    BY SMTT(30), <2>3, <1>3
  <2>5. PICK h, D : Elected(h, D) /\ o[1] \in D /\ o[2] = h.num /\ cur'[o[1]] = h
    BY <2>3, <2>4 DEF GoesOnlineSoundly
  <2>6. \A j \in g.members : <<j, g.num>> \in onlineIn \/ vote[j].num <= g.num
    BY <2>1, <1>2 DEF CanAck, Online, OnlineHistory
  <2>7. PICK l \in Nat : g.num <= l /\ l < h.num /\ <<o[1], l>> \in onlineIn
    BY <1>3, <1>4, <2>5, <2>6, DonorsKnow
  <2>8. l = g.num
    BY SMTT(30), <2>2, <2>7, <1>2
  <2>9. PICK e \in Serving : e.num = g.num /\ o[1] \in e.members
    BY <2>7, <2>8 DEF OnlineIsLogged
  <2>10. e = g
    BY <1>4, <2>9, ChosenUnique DEF Serving
  <2>11. CanAck(o[1], g.num)'
    BY <2>9, <2>10
  <2>12. cur'[o[1]].num > g.num /\ vote'[o[1]].num > g.num
    BY SMTT(30), <1>2, <1>3, <2>5 DEF NumbersOrdered, TypeOK, Gen
  <2> QED
    BY SMTT(30), <2>11, <2>12, <1>2, <1>3 DEF CanAck, TypeOK, Gen
<1>5. CASE g \notin Serving
  <2>1. ballots' # ballots
    BY <1>5 DEF Serving, Chosen, Victories, Majority, FirstGen
  <2>2. onlineIn' = onlineIn
    BY <2>1
  <2>3. PICK h \in Serving : h.num = o[2]
    BY <2>2 DEF OnlineIsLogged
  <2>4. h \in Serving' /\ h # FirstGen
    BY SMTT(30), <1>1, <1>2, <1>3, <2>3, ChosenStays DEF FirstGen
  <2>5. PICK Q \in Victories(h)' : TRUE
    BY <1>0, <2>4 DEF GenFacts, Serving, FirstGen
  <2>6. PICK b \in ballots' : b.gen = h /\ b.node \in g.members
    <3>2. Q \subseteq ballots' /\ \A b \in Q : b \in Ballot /\ b.gen = h
      BY <2>5 DEF Victories, TypeOK
    <3> DEFINE S == {b.node : b \in Q}
    <3>3. S \in SUBSET Node /\ Majority(S) /\ Majority(g.members)
      BY <2>5, <3>2 DEF Victories, Ballot, Serving, Majority
    <3>4. S \cap g.members # {}
      <4> HIDE DEF S
      <4> QED BY <3>3, <1>2, MajoritiesMeet
    <3> QED
      BY <3>2, <3>4
  <2>7. b.node \in Node /\ vote'[b.node].num > g.num
    BY SMTT(30), <2>3, <2>6, <1>2, <1>3 DEF BallotsRemembered, TypeOK, Ballot, Gen
  <2>8. <<b.node, g.num>> \in onlineIn'
    <3>1. vote'[b.node].num \in Nat
      BY <2>7 DEF TypeOK, Gen
    <3>2. ~(vote'[b.node].num <= g.num)
      BY SMTT(30), <2>7, <3>1, <1>2
    <3>3. loi'[b.node] = g.num
      BY SMTT(30), <2>6, <3>2 DEF CanAck, Online
    <3> QED
      BY <2>7, <3>3 DEF OnlineHistory
  <2>9. PICK e \in Serving : e.num = g.num
    BY <2>2, <2>8 DEF OnlineIsLogged
  <2>10. e = g
    <3>1. e \in Chosen' /\ g \in Chosen'
      BY <1>1, <2>9, ChosenStays DEF Serving
    <3> QED
      BY <1>0, <3>1, <2>9 DEF GenFacts
  <2> QED
    BY <1>5, <2>9, <2>10
<1> QED
  BY <1>4, <1>5

\* A transaction that has started never becomes a candidate for commit again:
\* only those who could acknowledge do.
LEMMA CouldCommitShrinks ==
    ASSUME IInv, IInv', [Next]_vars, RShapes, OnlineIsLogged, AcksHeld, OriginOnline,
           NEW x \in Xact, Started(x), xact'[x] = xact[x],
           \A j \in acks'[x] : j \in acks[x] \/ CanAck(j, xact[x].gen),
           CouldCommit(x)'
    PROVE  CouldCommit(x)
<1>1. /\ ballots \subseteq ballots'
      /\ \A j \in Node, n \in Nat : CanAck(j, n)' => CanAck(j, n)
  BY ElectionStep
<1>2. GenFacts'
  BY GenFactsNext
<1>3. PICK g \in Serving' : /\ g.num = xact[x].gen
                            /\ \A j \in g.members : j \in acks'[x] \/ CanAck(j, g.num)'
  BY DEF CouldCommit
<1>4. PICK h \in Serving : h.num = xact[x].gen
  BY DEF OriginOnline, AcksHeld, OnlineIsLogged
<1>5. g = h
  BY <1>1, <1>2, <1>3, <1>4, ChosenStays DEF Serving, GenFacts
<1>6. g.members \subseteq Node /\ g.num \in Nat
  BY <1>2, <1>3 DEF Serving, GenFacts, Gen
<1>7. \A j \in g.members : j \in acks[x] \/ CanAck(j, g.num)
  BY <1>1, <1>3, <1>6
<1> QED
  BY <1>3, <1>4, <1>5, <1>7 DEF CouldCommit

\* WAL of i has grown by record r, and nothing else has changed.
Grown(i, r) ==
    /\ \A j \in Node : \A k \in DOMAIN wal[j] : k \in DOMAIN wal'[j] /\ wal'[j][k] = wal[j][k]
    /\ \A j \in Node : \A k \in DOMAIN wal'[j] :
           k \in DOMAIN wal[j] \/ (j = i /\ k = Len(wal[i]) + 1)
    /\ Len(wal[i]) + 1 \in DOMAIN wal'[i]
    /\ wal'[i][Len(wal[i]) + 1] = r

\* Positions in WAL are the numbers up to its length.
Positions ==
    \A j \in Node :
        /\ Len(wal[j]) \in Nat /\ DOMAIN wal[j] = 1 .. Len(wal[j])
        /\ \A k \in DOMAIN wal[j] : k \in Nat /\ 1 .. (k - 1) \subseteq DOMAIN wal[j]
        /\ \A k \in DOMAIN wal[j] : wal[j][k] \in Record

\* Positions in a WAL are natural numbers.
LEMMA PositionsHold == ASSUME wal \in [Node -> Seq(Record)] PROVE Positions
<1> SUFFICES ASSUME NEW j \in Node
             PROVE  /\ Len(wal[j]) \in Nat /\ DOMAIN wal[j] = 1 .. Len(wal[j])
                    /\ \A k \in DOMAIN wal[j] : k \in Nat /\ 1 .. (k - 1) \subseteq DOMAIN wal[j]
                    /\ \A k \in DOMAIN wal[j] : wal[j][k] \in Record
  BY DEF Positions
<1> HIDE DEF Record
<1>1. wal[j] \in Seq(Record)
  OBVIOUS
<1>2. Len(wal[j]) \in Nat /\ DOMAIN wal[j] = 1 .. Len(wal[j])
  BY SMTT(30), <1>1
<1>3. \A k \in DOMAIN wal[j] : wal[j][k] \in Record
  BY SMTT(30), <1>1
<1> QED
  BY SMTT(30), <1>2, <1>3

\* A record is added at the end of one WAL.
LEMMA LogGrows ==
    ASSUME wal \in [Node -> Seq(Record)], NEW i \in Node, NEW r \in Record, Log(i, r)
    PROVE  wal' \in [Node -> Seq(Record)] /\ Grown(i, r)
<1> HIDE DEF Record
<1>1. /\ \A j \in Node : wal[j] \in Seq(Record)
      /\ \A j \in Node \ {i} : wal'[j] = wal[j]
      /\ wal'[i] = Append(wal[i], r)
  BY DEF Log
<1>2. wal' \in [Node -> Seq(Record)]
  BY SMTT(30), <1>1 DEF Log
<1>3. /\ Len(wal[i]) \in Nat /\ DOMAIN wal[i] = 1 .. Len(wal[i])
      /\ DOMAIN wal'[i] = 1 .. (Len(wal[i]) + 1)
      /\ \A k \in 1 .. Len(wal[i]) : wal'[i][k] = wal[i][k]
      /\ wal'[i][Len(wal[i]) + 1] = r
  BY SMTT(30), <1>1
<1>4. \A j \in Node : \A k \in DOMAIN wal[j] : k \in DOMAIN wal'[j] /\ wal'[j][k] = wal[j][k]
  BY SMTT(30), <1>1, <1>3
<1>5. \A j \in Node : \A k \in DOMAIN wal'[j] :
          k \in DOMAIN wal[j] \/ (j = i /\ k = Len(wal[i]) + 1)
  BY SMTT(30), <1>1, <1>3
<1>6. Len(wal[i]) + 1 \in DOMAIN wal'[i]
  BY SMTT(30), <1>3
<1> QED
  BY <1>2, <1>3, <1>4, <1>5, <1>6 DEF Grown

\* A step that logs nothing and brings nobody online.
LEMMA SameWal ==
    ASSUME RInv, IInv', [Next]_vars, UNCHANGED <<wal, xact, acks, onlineIn>>
    PROVE  DataOk'
<1>1. /\ ballots \subseteq ballots'
      /\ \A j \in Node : loi[j] <= loi'[j]
  BY ElectionStep DEF RInv
<1>2. SafeRecords'
  <2> SUFFICES ASSUME NEW i \in Node, NEW k \in DOMAIN wal[i], wal[i][k].kind = "ps"
               PROVE  /\ wal[i][k].gen = FirstGen \/ Elected(wal[i][k].gen, wal[i][k].donors)'
                      /\ wal[i][k].gen.num <= loi'[i]
    BY DEF SafeRecords, FirstGen
  <2>1. /\ wal[i][k].gen = FirstGen \/ Elected(wal[i][k].gen, wal[i][k].donors)
        /\ wal[i][k].gen.num <= loi[i]
    BY DEF DataOk, RInv, SafeRecords
  <2>2. wal[i][k].gen = FirstGen \/ Elected(wal[i][k].gen, wal[i][k].donors)'
    BY <2>1, <1>1, ElectedStable
  <2>3. wal[i][k].gen.num \in Nat
    BY PositionsHold DEF RInv, Positions, RShapes, Record, Gen
  <2> QED
    BY SMTT(30), <1>1, <2>1, <2>2, <2>3 DEF RInv, IInv, TypeOK
<1>3. PreparedOnce' /\ OriginOnline' /\ AcksHeld'
  BY SMTT(30) DEF DataOk, RInv, PreparedOnce, OriginOnline, AcksHeld, Started, HasPrepare
<1>4. OnlineIsLogged'
  BY <1>1, ChosenStays DEF DataOk, RInv, OnlineIsLogged
<1>5. NoneAbove'
  BY NoneAboveKept DEF DataOk, RInv, GoesOnlineSoundly
<1>6. Held'
  <2> SUFFICES ASSUME NEW x \in Xact, CouldCommit(x)',
                      NEW i \in Node, NEW k \in DOMAIN wal[i], Later(wal[i][k], xact[x].gen)
               PROVE  \E m \in 1 .. (k - 1) : wal[i][m] = PrepareRec(x)
    BY SMTT(30) DEF RInv, Held, Later, PrepareRec
  <2>1. Started(x)
    BY DEF CouldCommit, Started, NoXact
  <2>2. CouldCommit(x)
    BY <2>1, CouldCommitShrinks DEF DataOk, RInv
  <2> QED
    BY <2>2 DEF DataOk, RInv, Held
<1> QED
  BY <1>2, <1>3, <1>4, <1>5, <1>6 DEF DataOk, RInv

\* A step that logs ParallelSafe and goes online.
LEMMA PsLogged ==
    ASSUME RInv, IInv', [Next]_vars, NEW i \in Node, NEW g \in Serving, NEW D \in SUBSET Node,
           Grown(i, ParallelSafe(g, D)), UNCHANGED <<xact, acks, ballots>>,
           i \in g.members, g = FirstGen \/ Elected(g, D),
           loi'[i] = g.num, onlineIn' = onlineIn \cup {<<i, g.num>>}, GoesOnlineSoundly,
           \A x \in Xact : CouldCommit(x) /\ CouldCommit(x)' /\ xact[x].gen < g.num =>
               HasPrepare(i, x)
    PROVE  DataOk'
<1>1. \A j \in Node : loi[j] <= loi'[j]
  BY ElectionStep DEF RInv
<1>2. g \in Gen /\ g.num \in Nat
  BY GenFactsHold DEF RInv, GenFacts, Serving, Gen
<1>3. /\ ParallelSafe(g, D).kind = "ps" /\ ParallelSafe(g, D).gen = g
      /\ ParallelSafe(g, D).donors = D
  BY DEF ParallelSafe
<1>4. Positions
  BY PositionsHold DEF RInv, RShapes
<1>5. \A h, E : Elected(h, E) => Elected(h, E)'
  BY ElectedStable
<1>6. SafeRecords'
  <2> SUFFICES ASSUME NEW j \in Node, NEW k \in DOMAIN wal'[j], wal'[j][k].kind = "ps"
               PROVE  (/\ wal[j][k].gen = FirstGen \/ Elected(wal[j][k].gen, wal[j][k].donors)
                       /\ wal[j][k].gen.num <= loi[j])'
    BY DEF SafeRecords, FirstGen
  <2>1. CASE k \in DOMAIN wal[j]
    <3>1. wal'[j][k] = wal[j][k]
      BY <2>1 DEF Grown
    <3>2. wal[j][k].gen.num \in Nat
      BY <1>4, <2>1, <3>1 DEF Positions, Record, Gen
    <3>3. /\ wal[j][k].gen = FirstGen \/ Elected(wal[j][k].gen, wal[j][k].donors)
          /\ wal[j][k].gen.num <= loi[j]
      BY <2>1, <3>1 DEF DataOk, RInv, SafeRecords
    <3> QED
      BY SMTT(30), <1>1, <1>5, <3>1, <3>2, <3>3 DEF RInv, IInv, TypeOK
  <2>2. CASE j = i /\ wal'[j][k] = ParallelSafe(g, D)
    BY SMTT(30), <1>2, <1>3, <1>5, <2>2
  <2> QED
    BY <2>1, <2>2 DEF Grown
<1>7. PreparedOnce'
  <2> SUFFICES ASSUME NEW j \in Node, NEW k \in DOMAIN wal'[j], wal'[j][k].kind = "prepare"
               PROVE  /\ Started(wal'[j][k].xact)
                      /\ \A m \in DOMAIN wal'[j] : wal'[j][m] = wal'[j][k] => m = k
    BY DEF PreparedOnce, Started, NoXact
  <2>1. \A m \in DOMAIN wal'[j] : wal'[j][m].kind = "prepare" =>
            m \in DOMAIN wal[j] /\ wal'[j][m] = wal[j][m]
    BY <1>3 DEF Grown
  <2> QED
    BY SMTT(30), <2>1 DEF DataOk, RInv, PreparedOnce
<1>8. OnlineIsLogged'
  <2> SUFFICES ASSUME NEW o \in onlineIn'
               PROVE  /\ \E k \in DOMAIN wal'[o[1]] : /\ wal'[o[1]][k].kind = "ps"
                                                      /\ wal'[o[1]][k].gen.num = o[2]
                      /\ \E h \in Serving' : h.num = o[2] /\ o[1] \in h.members
    BY DEF OnlineIsLogged
  <2>1. Serving \subseteq Serving'
    BY ChosenStays
  <2>2. CASE o \in onlineIn
    <3>1. PICK k \in DOMAIN wal[o[1]] : wal[o[1]][k].kind = "ps" /\ wal[o[1]][k].gen.num = o[2]
      BY <2>2 DEF DataOk, RInv, OnlineIsLogged
    <3>2. o[1] \in Node
      BY <2>2 DEF IInv, TypeOK
    <3> QED
      BY <2>1, <2>2, <3>1, <3>2 DEF DataOk, RInv, OnlineIsLogged, Grown
  <2>3. CASE o = <<i, g.num>>
    BY <1>3, <2>1, <2>3 DEF Grown
  <2> QED
    BY <2>2, <2>3
<1>9. OriginOnline'
  <2> SUFFICES ASSUME NEW x \in Xact, Started(x)
               PROVE  /\ xact[x].origin \in acks[x]
                      /\ \A k \in DOMAIN wal'[xact[x].origin] :
                            wal'[xact[x].origin][k] = PrepareRec(x) =>
                               \E m \in 1 .. (k - 1) :
                                   /\ wal'[xact[x].origin][m].kind = "ps"
                                   /\ wal'[xact[x].origin][m].gen.num = xact[x].gen
    BY DEF OriginOnline, Started, NoXact, PrepareRec
  <2> DEFINE p == xact[x].origin
  <2>1. p \in acks[x] /\ p \in Node
    BY DEF DataOk, RInv, OriginOnline, RShapes
  <2>2. ASSUME NEW k \in DOMAIN wal'[p], wal'[p][k] = PrepareRec(x)
        PROVE  k \in DOMAIN wal[p] /\ wal[p][k] = PrepareRec(x)
    BY SMTT(30), <1>3, <2>1, <2>2 DEF RInv, Grown, PrepareRec
  <2>3. ASSUME NEW k \in DOMAIN wal'[p], wal'[p][k] = PrepareRec(x)
        PROVE  \E m \in 1 .. (k - 1) : wal'[p][m].kind = "ps" /\ wal'[p][m].gen.num = xact[x].gen
    <3>1. PICK m \in 1 .. (k - 1) : wal[p][m].kind = "ps" /\ wal[p][m].gen.num = xact[x].gen
      BY <2>2, <2>3 DEF DataOk, RInv, OriginOnline
    <3>2. wal'[p][m] = wal[p][m]
      BY <1>4, <2>1, <2>2, <2>3 DEF Positions, Grown
    <3> QED
      BY <3>1, <3>2
  <2> QED
    BY <2>1, <2>3
<1>10. AcksHeld'
  <2> SUFFICES ASSUME NEW x \in Xact, NEW j \in acks[x]
               PROVE  /\ Started(x) /\ <<j, xact[x].gen>> \in onlineIn'
                      /\ \E k \in DOMAIN wal'[j] : wal'[j][k] = PrepareRec(x)
    BY DEF AcksHeld, Started, HasPrepare, NoXact, PrepareRec
  <2>1. j \in Node
    BY DEF RInv, RShapes
  <2> QED
    BY SMTT(30), <2>1 DEF DataOk, RInv, AcksHeld, HasPrepare, Grown
<1>11. NoneAbove'
  BY NoneAboveKept DEF DataOk, RInv
<1>12. Held'
  <2> SUFFICES ASSUME NEW x \in Xact, CouldCommit(x)',
                      NEW j \in Node, NEW k \in DOMAIN wal'[j], Later(wal'[j][k], xact[x].gen)
               PROVE  \E m \in 1 .. (k - 1) : wal'[j][m] = PrepareRec(x)
    BY SMTT(30) DEF Held, Later, PrepareRec
  <2>1. Started(x)
    BY DEF CouldCommit, Started, NoXact
  <2>2. CouldCommit(x)
    BY <2>1, CouldCommitShrinks DEF DataOk, RInv
  <2>3. CASE k \in DOMAIN wal[j]
    <3>1. wal'[j][k] = wal[j][k]
      BY <2>3 DEF Grown
    <3>2. PICK m \in 1 .. (k - 1) : wal[j][m] = PrepareRec(x)
      BY <2>2, <2>3, <3>1 DEF DataOk, RInv, Held
    <3>3. wal'[j][m] = wal[j][m]
      BY <1>4, <2>3 DEF Positions, Grown
    <3> QED
      BY <3>2, <3>3
  <2>4. CASE j = i /\ k = Len(wal[i]) + 1
    <3>1. xact[x].gen < g.num
      <4>1. wal'[j][k] = ParallelSafe(g, D)
        BY <2>4 DEF Grown
      <4>2. xact[x].gen \in Nat
        BY <2>1 DEF RInv, RShapes, Started
      <4> QED
        BY <1>2, <1>3, <4>1, <4>2 DEF Later
    <3>2. PICK m \in DOMAIN wal[i] : wal[i][m] = PrepareRec(x)
      BY <2>2, <3>1 DEF HasPrepare
    <3>3. m \in 1 .. (k - 1) /\ wal'[i][m] = wal[i][m]
      BY SMTT(30), <1>4, <2>4 DEF RInv, Positions, Grown
    <3> QED
      BY <2>4, <3>2, <3>3
  <2> QED
    BY <2>3, <2>4 DEF Grown
<1> QED
  BY <1>6, <1>7, <1>8, <1>9, <1>10, <1>11, <1>12 DEF DataOk, RInv

\* A step that logs PREPARE: at the origin when the transaction starts, or on
\* another node, with or without an acknowledgement.
LEMMA PrepareLogged ==
    ASSUME RInv, IInv', UNCHANGED vars, RShapes', NEW i \in Node, NEW x \in Xact,
           Grown(i, PrepareRec(x)), ~HasPrepare(i, x),
           \A y \in Xact \ {x} : xact'[y] = xact[y] /\ acks'[y] = acks[y],
           xact'[x] # NoXact, acks[x] \subseteq acks'[x],
           \A j \in acks'[x] : j \in acks[x] \/ (j = i /\ Online(i) /\ cur[i].num = xact'[x].gen),
           \A y \in Xact \ {x} : CouldCommit(y) /\ xact[y].gen < xact'[x].gen => HasPrepare(i, y),
           \/ Started(x) /\ xact'[x] = xact[x]
           \/ /\ ~Started(x) /\ Online(i) /\ i \in acks'[x]
              /\ xact'[x].origin = i /\ xact'[x].gen = cur[i].num
    PROVE  DataOk'
<1>1. /\ Positions
      /\ \A j \in Node : <<j, loi[j]>> \in onlineIn
      /\ \A j \in Node : loi[j] \in Nat /\ cur[j].num \in Nat
  BY PositionsHold DEF RInv, RShapes, IInv, OnlineHistory, TypeOK, Gen
<1>2. PrepareRec(x).kind = "prepare" /\ PrepareRec(x).xact = x
  BY DEF PrepareRec
<1>3. \A y \in Xact : PrepareRec(y) = PrepareRec(x) => y = x
  BY DEF PrepareRec
<1>4. \A j \in Node : \A k \in DOMAIN wal'[j] : wal'[j][k] # PrepareRec(x) =>
          k \in DOMAIN wal[j] /\ wal'[j][k] = wal[j][k]
  BY DEF Grown
<1>5. Serving' = Serving /\ onlineIn' = onlineIn /\ loi' = loi
  BY DEF vars, Serving, Chosen, Victories, Majority, FirstGen
<1>6. \A h, E : Elected(h, E) => Elected(h, E)'
  BY ElectedStable DEF vars
<1>7. \A j \in Node : \A k \in DOMAIN wal[j] : wal[j][k].kind = "prepare" =>
          wal[j][k].xact \in Xact /\ wal[j][k] = PrepareRec(wal[j][k].xact)
  BY <1>1 DEF Positions, Record, PrepareRec
<1>8. ~Started(x) => \A j \in Node : ~HasPrepare(j, x)
  BY SMTT(30), <1>2 DEF DataOk, RInv, PreparedOnce, HasPrepare
<1>9. ~Started(x) => acks[x] = {}
  BY DEF DataOk, RInv, AcksHeld
<1>10. SafeRecords'
  <2> SUFFICES ASSUME NEW j \in Node, NEW k \in DOMAIN wal'[j], wal'[j][k].kind = "ps"
               PROVE  (/\ wal[j][k].gen = FirstGen \/ Elected(wal[j][k].gen, wal[j][k].donors)
                       /\ wal[j][k].gen.num <= loi[j])'
    BY DEF SafeRecords, FirstGen
  <2>1. k \in DOMAIN wal[j] /\ wal'[j][k] = wal[j][k]
    BY <1>2, <1>4
  <2> QED
    BY <1>5, <1>6, <2>1 DEF DataOk, RInv, SafeRecords
<1>11. PreparedOnce'
  <2> SUFFICES ASSUME NEW j \in Node, NEW k \in DOMAIN wal'[j], wal'[j][k].kind = "prepare"
               PROVE  /\ xact'[wal'[j][k].xact] # NoXact
                      /\ \A m \in DOMAIN wal'[j] : wal'[j][m] = wal'[j][k] => m = k
    BY DEF PreparedOnce, Started, NoXact
  <2>1. CASE wal'[j][k] = PrepareRec(x) /\ j # i
    <3>1. \A m \in DOMAIN wal'[j] : m \in DOMAIN wal[j] /\ wal'[j][m] = wal[j][m]
      BY <2>1 DEF Grown
    <3> QED
      BY SMTT(30), <1>2, <2>1, <3>1 DEF DataOk, RInv, PreparedOnce
  <2>2. CASE wal'[j][k] = PrepareRec(x) /\ j = i
    <3>1. \A m \in DOMAIN wal'[i] : wal'[i][m] = PrepareRec(x) => m = Len(wal[i]) + 1
      BY DEF Grown, HasPrepare
    <3> QED
      BY <1>2, <2>2, <3>1
  <2>3. CASE wal'[j][k] # PrepareRec(x)
    <3>1. k \in DOMAIN wal[j] /\ wal'[j][k] = wal[j][k]
      BY <1>4, <2>3
    <3>2. wal[j][k].xact \in Xact \ {x}
      BY <1>7, <2>3, <3>1
    <3>3. \A m \in DOMAIN wal'[j] : wal'[j][m] = wal'[j][k] =>
              m \in DOMAIN wal[j] /\ wal[j][m] = wal[j][k]
      BY <1>4, <2>3, <3>1
    <3> QED
      BY SMTT(30), <3>1, <3>2, <3>3 DEF DataOk, RInv, PreparedOnce, Started
  <2> QED
    BY <2>1, <2>2, <2>3
<1>12. OnlineIsLogged'
  <2> SUFFICES ASSUME NEW o \in onlineIn
               PROVE  /\ \E k \in DOMAIN wal'[o[1]] : /\ wal'[o[1]][k].kind = "ps"
                                                      /\ wal'[o[1]][k].gen.num = o[2]
                      /\ \E h \in Serving' : h.num = o[2] /\ o[1] \in h.members
    BY <1>5 DEF OnlineIsLogged
  <2>1. o[1] \in Node
    BY DEF RInv, IInv, TypeOK
  <2> QED
    BY SMTT(30), <1>5, <2>1 DEF DataOk, RInv, OnlineIsLogged, Grown
<1>13. OriginOnline'
  <2> SUFFICES ASSUME NEW y \in Xact, xact'[y] # NoXact
               PROVE  /\ xact'[y].origin \in acks'[y]
                      /\ \A k \in DOMAIN wal'[xact'[y].origin] :
                            wal'[xact'[y].origin][k] = PrepareRec(y) =>
                               \E m \in 1 .. (k - 1) :
                                   /\ wal'[xact'[y].origin][m].kind = "ps"
                                   /\ wal'[xact'[y].origin][m].gen.num = xact'[y].gen
    BY DEF OriginOnline, Started, NoXact, PrepareRec
  <2> DEFINE p == xact'[y].origin
  <2>1. CASE Started(y) /\ xact'[y] = xact[y] /\ acks[y] \subseteq acks'[y]
    <3>1. p \in acks[y] /\ p \in Node /\ HasPrepare(p, y)
      BY <2>1 DEF DataOk, RInv, OriginOnline, AcksHeld, RShapes
    <3>2. ASSUME NEW k \in DOMAIN wal'[p], wal'[p][k] = PrepareRec(y)
          PROVE  k \in DOMAIN wal[p] /\ wal[p][k] = PrepareRec(y)
      <4>1. CASE y = x
        BY <3>1, <3>2, <4>1 DEF Grown
      <4>2. CASE y # x
        BY SMTT(30), <1>3, <1>4, <3>1, <3>2, <4>2 DEF RInv
      <4> QED
        BY <4>1, <4>2
    <3>3. ASSUME NEW k \in DOMAIN wal'[p], wal'[p][k] = PrepareRec(y)
          PROVE  \E m \in 1 .. (k - 1) : /\ wal'[p][m].kind = "ps"
                                         /\ wal'[p][m].gen.num = xact'[y].gen
      <4>1. PICK m \in 1 .. (k - 1) : wal[p][m].kind = "ps" /\ wal[p][m].gen.num = xact[y].gen
        BY SMTT(30), <2>1, <3>2, <3>3 DEF DataOk, RInv, OriginOnline
      <4>2. wal'[p][m] = wal[p][m]
        BY <1>1, <3>1, <3>2, <3>3 DEF Positions, Grown
      <4> QED
        BY <2>1, <4>1, <4>2
    <3> QED
      BY <2>1, <3>1, <3>3
  <2>2. CASE y = x /\ ~Started(x)
    <3>1. p = i /\ i \in acks'[x] /\ xact'[x].gen = cur[i].num /\ loi[i] = cur[i].num
      BY <2>2 DEF Online
    <3>2. PICK m \in DOMAIN wal[i] : wal[i][m].kind = "ps" /\ wal[i][m].gen.num = cur[i].num
      <4>1. <<i, cur[i].num>> \in onlineIn
        BY <1>1, <3>1 DEF DataOk, RInv
      <4>2. \E m \in DOMAIN wal[<<i, cur[i].num>>[1]] :
                /\ wal[<<i, cur[i].num>>[1]][m].kind = "ps"
                /\ wal[<<i, cur[i].num>>[1]][m].gen.num = <<i, cur[i].num>>[2]
        BY <4>1 DEF RInv, DataOk, OnlineIsLogged
      <4> QED
        BY <4>2
    <3>3. wal'[i][m] = wal[i][m] /\ m \in 1 .. Len(wal[i]) /\ Len(wal[i]) \in Nat
      BY <1>1, <3>2 DEF Grown, Positions
    <3>4. \A k \in DOMAIN wal'[i] : wal'[i][k] = PrepareRec(x) => k = Len(wal[i]) + 1
      BY DEF Grown, HasPrepare
    <3>5. \A k \in DOMAIN wal'[i] : wal'[i][k] = PrepareRec(x) => m \in 1 .. (k - 1)
      BY SMTT(30), <3>3, <3>4 DEF RInv
    <3> QED
      BY <2>2, <3>1, <3>2, <3>3, <3>5 DEF RInv
  <2> QED
    BY <2>1, <2>2 DEF Started
<1>14. AcksHeld'
  <2> SUFFICES ASSUME NEW y \in Xact, NEW j \in acks'[y]
               PROVE  /\ xact'[y] # NoXact /\ <<j, xact'[y].gen>> \in onlineIn
                      /\ \E k \in DOMAIN wal'[j] : wal'[j][k] = PrepareRec(y)
    BY <1>5 DEF AcksHeld, Started, HasPrepare, NoXact, PrepareRec
  <2>1. j \in Node
    BY DEF RShapes
  <2>2. CASE j \in acks[y]
    <3>1. Started(y) /\ HasPrepare(j, y) /\ <<j, xact[y].gen>> \in onlineIn
      BY <2>2 DEF DataOk, RInv, AcksHeld
    <3>2. xact'[y] = xact[y]
      BY <3>1
    <3> QED
      BY <2>1, <3>1, <3>2 DEF Started, HasPrepare, Grown
  <2>3. CASE y = x /\ j = i /\ Online(i) /\ cur[i].num = xact'[x].gen
    BY <1>1, <2>3 DEF Online, Grown
  <2> QED
    BY <2>2, <2>3
<1>15. NoneAbove'
  BY <1>5, NoneAboveKept DEF DataOk, RInv, GoesOnlineSoundly
<1>16. Held'
  <2> SUFFICES ASSUME NEW y \in Xact, CouldCommit(y)',
                      NEW j \in Node, NEW k \in DOMAIN wal'[j], Later(wal[j][k], xact[y].gen)'
               PROVE  \E m \in 1 .. (k - 1) : wal'[j][m] = PrepareRec(y)
    BY DEF Held, PrepareRec
  <2>1. xact'[y] # NoXact /\ xact'[y].gen \in Nat
    BY DEF CouldCommit, Started, NoXact, RShapes
  <2>2. CASE Started(y) /\ xact'[y] = xact[y]
    <3>1. CouldCommit(y)
      <4>1. \A l \in acks'[y] : l \in acks[y] \/ CanAck(l, xact[y].gen)
        BY <2>2 DEF CanAck
      <4> QED
        BY <2>2, <4>1, CouldCommitShrinks DEF DataOk, RInv
    <3>2. CASE k \in DOMAIN wal[j]
      <4>1. wal'[j][k] = wal[j][k]
        BY <3>2 DEF Grown
      <4>2. wal[j][k].kind = "prepare" => xact'[wal[j][k].xact] = xact[wal[j][k].xact]
        BY SMTT(30), <1>7, <1>8, <3>2 DEF RInv, HasPrepare
      <4>3. Later(wal[j][k], xact[y].gen)
        BY <2>2, <4>1, <4>2 DEF Later
      <4>4. PICK m \in 1 .. (k - 1) : wal[j][m] = PrepareRec(y)
        BY <3>1, <3>2, <4>3 DEF DataOk, RInv, Held
      <4>5. wal'[j][m] = wal[j][m]
        BY <1>1, <3>2 DEF Positions, Grown
      <4> QED
        BY <4>4, <4>5
    <3>3. CASE j = i /\ k = Len(wal[i]) + 1
      <4>1. wal'[j][k] = PrepareRec(x)
        BY <3>3 DEF Grown
      <4>2. xact'[x].gen > xact[y].gen
        BY <1>2, <2>2, <4>1 DEF Later
      <4>3. xact[y].gen < xact'[x].gen /\ y # x
        <5>1. xact'[x].gen \in Nat /\ xact[y].gen \in Nat
          BY <2>1, <2>2 DEF RShapes
        <5> QED
          BY SMTT(30), <2>2, <4>2, <5>1 DEF RInv
      <4>4. PICK m \in DOMAIN wal[i] : wal[i][m] = PrepareRec(y)
        BY <3>1, <4>3 DEF HasPrepare
      <4>5. m \in 1 .. (k - 1) /\ wal'[i][m] = wal[i][m]
        BY SMTT(30), <1>1, <3>3 DEF RInv, Positions, Grown
      <4> QED
        BY <3>3, <4>4, <4>5
    <3> QED
      BY <3>2, <3>3 DEF Grown
  <2>3. CASE y = x /\ ~Started(x)
    <3>1. PICK g \in Serving : /\ g.num = cur[i].num
                               /\ \A l \in g.members : l \in acks'[x] \/ CanAck(l, g.num)'
      BY <1>5, <2>3 DEF CouldCommit
    <3>2. \A l \in g.members : CanAck(l, g.num)
      BY <1>9, <2>3, <3>1 DEF CanAck, Online, vars
    <3>3. \A o \in onlineIn : o[2] <= cur[i].num
      BY <3>1, <3>2 DEF DataOk, RInv, NoneAbove
    <3>4. CASE wal'[j][k] = PrepareRec(x)
      BY SMTT(30), <1>1, <1>2, <2>1, <2>3, <3>4 DEF RInv, Later
    <3>5. CASE wal'[j][k] # PrepareRec(x)
      <4>1. k \in DOMAIN wal[j] /\ wal'[j][k] = wal[j][k]
        BY <1>4, <3>5
      <4>2. xact'[y].gen = cur[i].num
        BY <2>3
      <4>3. CASE wal[j][k].kind = "ps" /\ wal[j][k].gen.num > cur[i].num
        <5>1. wal[j][k].gen.num <= loi[j] /\ loi[j] <= cur[i].num
          BY <1>1, <3>3, <4>1, <4>3 DEF DataOk, RInv, SafeRecords
        <5>2. wal[j][k].gen.num \in Nat
          BY <1>1, <4>1, <4>3 DEF Positions, Record, Gen
        <5> QED
          BY SMTT(30), <1>1, <4>3, <5>1, <5>2 DEF RInv
      <4>4. CASE wal[j][k].kind = "prepare" /\ xact'[wal[j][k].xact].gen > cur[i].num
        <5> DEFINE z == wal[j][k].xact
        <5>1. z \in Xact \ {x} /\ Started(z)
          BY SMTT(30), <1>7, <3>5, <4>1, <4>4 DEF DataOk, RInv, PreparedOnce
        <5>2. <<xact[z].origin, xact[z].gen>> \in onlineIn
          BY <5>1 DEF DataOk, RInv, OriginOnline, AcksHeld
        <5>3. xact[z].gen <= cur[i].num /\ xact[z].gen \in Nat
          BY <3>3, <5>1, <5>2 DEF RShapes, Started
        <5> QED
          BY SMTT(30), <1>1, <4>4, <5>1, <5>3 DEF RInv
      <4> QED
        BY <4>1, <4>2, <4>3, <4>4 DEF Later
    <3> QED
      BY <3>4, <3>5
  <2> QED
    BY <2>1, <2>2, <2>3 DEF Started
<1> QED
  BY <1>10, <1>11, <1>12, <1>13, <1>14, <1>15, <1>16 DEF DataOk, RInv

----------------------------------------------------------------------------
(* The actions.                                                            *)

\* A nonempty set of naturals has a least element.
LEMMA LeastNat ==
    ASSUME NEW S, S \subseteq Nat, S # {}
    PROVE  \E d \in S : \A e \in S : d <= e
<1> DEFINE R == {p \in Nat \X Nat : p[1] < p[2]}
<1>1. PICK d \in S : \A e \in S : <<e, d>> \notin R
  <2> HIDE DEF R
  <2>1. IsWellFoundedOn(R, Nat)
    BY NatLessThanWellFounded DEF R, OpToRel
  <2> QED
    BY <2>1, WFMin
<1>2. ASSUME NEW e \in S PROVE d <= e
  <2>1. e \in Nat /\ d \in Nat
    OBVIOUS
  <2>2. e < d => <<e, d>> \in R
    BY <2>1
  <2> HIDE DEF R
  <2> QED
    BY SMTT(30), <1>1, <2>1, <2>2
<1> QED
  BY <1>2

\* The donor that recovery picks is a node.
LEMMA FirstSetBitIsNode ==
    ASSUME NEW S \in SUBSET Node, S # {}
    PROVE  FirstSetBit(S) \in Node
<1>1. S \subseteq Nat
  BY NodeIdAssumption
<1>2. \E d \in S : \A e \in S : d <= e
  BY <1>1, LeastNat
<1> QED
  BY <1>2 DEF FirstSetBit

\* Somebody was online last among the voters.
LEMMA ElectedHasDonor ==
    ASSUME IInv, NEW g, NEW D, Elected(g, D)
    PROVE  D # {}
<1>1. PICK Q \in Victories(g) : D = MostAdvanced(Q)
  BY DEF Elected
<1>2. Q \subseteq ballots /\ Majority({b.node : b \in Q}) /\ \A b \in Q : b.gen = g
  BY DEF Victories
<1>3. ~Majority({})
  BY SMTT(30), NodeAssumption, FS_EmptySet, FS_CardinalityType DEF RInv, Majority
<1>4. Q # {}
  BY <1>2, <1>3
<1>5. \A b \in Q : b.loi \in Nat /\ g.num \in Nat /\ g.num - b.loi \in Nat
  BY SMTT(30), <1>2 DEF RInv, IInv, TypeOK, Ballot, Gen, BallotsRemembered
<1> DEFINE L == {g.num - b.loi : b \in Q}
<1>6. L # {} /\ L \subseteq Nat
  BY <1>4, <1>5
<1>7. PICK l \in L : \A k \in L : l <= k
  <2> HIDE DEF L
  <2> QED BY <1>6, LeastNat
<1>8. PICK c \in Q : l = g.num - c.loi
  BY <1>7
<1>9. \A b \in Q : b.loi <= c.loi
  BY SMTT(30), <1>5, <1>7, <1>8 DEF RInv
<1> QED
  BY <1>1, <1>9 DEF MostAdvanced

\* So has a node that recovers somebody to recover from.
LEMMA DonorsNonempty ==
    ASSUME IInv, NEW i \in Node, InRecovery(i)
    PROVE  donors[i] # {}
<1>1. cur[i] # FirstGen
  BY SMTT(30) DEF RInv, IInv, NumbersOrdered, TypeOK, Gen, InRecovery, Online, FirstGen
<1> QED
  BY <1>1, ElectedHasDonor DEF IInv, CurIsElected

\* A PREPARE that was not misplaced does not become so by elections.
LEMMA NotMisplaced ==
    ASSUME IInv, IInv', [Next]_vars, NEW i \in Node, NEW x \in Xact, xact[x].gen \in Nat,
           xact'[x] = xact[x], ~Misplaced(i, x)
    PROVE  ~Misplaced(i, x)'
<1>1. loi[i] <= loi'[i] /\ cur[i].num <= cur'[i].num
  BY ElectionStep
<1>2. /\ loi[i] \in Nat /\ loi'[i] \in Nat /\ cur[i].num \in Nat /\ cur'[i].num \in Nat
      /\ loi'[i] <= cur'[i].num
  BY DEF IInv, TypeOK, Gen, NumbersOrdered
<1> QED
  BY SMTT(30), <1>1, <1>2 DEF RInv, Misplaced, Online

\* Workers keep what they hold, whatever else changes.
LEMMA WorkersKeep ==
    ASSUME RInv, IInv', [Next]_vars, NEW i \in Node, NEW x \in inflight[i],
           xact'[x] = xact[x], wal'[i] = wal[i]
    PROVE  (Started(x) /\ ~HasPrepare(i, x) /\ ~Misplaced(i, x))'
<1>1. x \in Xact /\ Started(x) /\ ~HasPrepare(i, x) /\ ~Misplaced(i, x)
  BY DEF RInv, NormalOk, RShapes
<1>2. xact[x].gen \in Nat
  BY <1>1 DEF RInv, RShapes, Started
<1>3. ~Misplaced(i, x)'
  BY <1>1, <1>2, NotMisplaced DEF RInv
<1> QED
  BY <1>1, <1>3 DEF Started, NoXact, HasPrepare, PrepareRec

\* A vote: whatever could not be acknowledged after it, could not be committed
\* any more.
LEMMA VoteKeeps ==
    ASSUME RInv, NEW i \in Node, NEW g \in Proposable, VoteFor(i, g)
    PROVE  RInv'
<1> USE DEF VoteFor, dataVars, recvVars
<1>1. [Next]_vars
  BY DEF Next
<1>2. IInv'
  BY <1>1, NextIInv DEF RInv
<1>3. RShapes'
  BY DEF RInv, RShapes, NoXact, Record
<1>4. DataOk'
  BY <1>1, <1>2, SameWal DEF Vote
<1>5. NormalOk'
  <2> SUFFICES ASSUME NEW j \in Node
               PROVE  /\ mode'[j] = Normal => Online(j)'
                      /\ \A x \in inflight'[j] :
                            (Started(x) /\ ~HasPrepare(j, x) /\ ~Misplaced(j, x))' /\ session'[j] = {}
    BY DEF NormalOk, Normal
  <2>1. mode'[j] = Normal => Online(j)'
    BY DEF RInv, RShapes, NormalOk, Vote, Online, Normal, Disabled
  <2>2. \A x \in inflight[j] : (Started(x) /\ ~HasPrepare(j, x) /\ ~Misplaced(j, x))'
    BY <1>1, <1>2, WorkersKeep
  <2> QED
    BY <2>1, <2>2 DEF RInv, NormalOk
<1> QED
  BY <1>2, <1>3, <1>4, <1>5 DEF RInv

\* Steps that touch modes and receivers only.
LEMMA ReceiversKeep ==
    ASSUME RInv, UNCHANGED <<vars, dataVars>>,
           mode' \in [Node -> {Disabled, Normal} \cup {RecoverFrom(d) : d \in Node}],
           session' \in [Node -> SUBSET Node], inflight' \in [Node -> SUBSET Xact],
           \A j \in Node : mode'[j] = Normal => mode[j] = Normal \/ Online(j),
           \A j \in Node : \A x \in inflight'[j] : x \in inflight[j] /\ session'[j] = {}
    PROVE  RInv'
<1> USE DEF dataVars
<1>1. [Next]_vars
  OBVIOUS
<1>2. IInv'
  BY <1>1, NextIInv DEF RInv
<1>3. RShapes'
  BY DEF RInv, RShapes, NoXact, Record
<1>4. DataOk'
  BY <1>1, <1>2, SameWal DEF vars
<1>5. NormalOk'
  <2> SUFFICES ASSUME NEW j \in Node
               PROVE  /\ mode'[j] = Normal => Online(j)'
                      /\ \A x \in inflight'[j] :
                            (Started(x) /\ ~HasPrepare(j, x) /\ ~Misplaced(j, x))' /\ session'[j] = {}
    BY DEF NormalOk, Normal
  <2>1. mode'[j] = Normal => Online(j)'
    BY DEF RInv, NormalOk, Online, vars
  <2>2. \A x \in inflight[j] : (Started(x) /\ ~HasPrepare(j, x) /\ ~Misplaced(j, x))'
    BY <1>1, <1>2, WorkersKeep
  <2> QED
    BY <2>1, <2>2
<1> QED
  BY <1>2, <1>3, <1>4, <1>5 DEF RInv

\* A donor is picked.
LEMMA SetCatchupDonorKeeps ==
    ASSUME RInv, NEW i \in Node, NEW d \in Node, SetCatchupDonor(i, d)
    PROVE  RInv'
<1>1. \A j \in Node : mode'[j] = Normal => mode[j] = Normal
  BY DEF SetCatchupDonor, RInv, RShapes, Normal, RecoverFrom
<1>2. mode' \in [Node -> {Disabled, Normal} \cup {RecoverFrom(e) : e \in Node}]
  BY DEF SetCatchupDonor, RInv, RShapes
<1> QED
  BY <1>1, <1>2, ReceiversKeep DEF SetCatchupDonor, recvVars, RInv, RShapes, NormalOk

\* Recovery begins.
LEMMA StartRecoveryKeeps ==
    ASSUME RInv, NEW i \in Node, StartRecovery(i)
    PROVE  RInv'
<1>0. mode[i].from \in Node
  <2>0. mode[i] # Disabled /\ mode[i] # Normal
    BY SMTT(30) DEF RInv, StartRecovery, Disabled, Normal
  <2>1. PICK d \in Node : mode[i] = RecoverFrom(d)
    <3> HIDE DEF Disabled, Normal
    <3> QED BY <2>0 DEF RInv, RShapes
  <2> QED
    BY SMTT(30), <2>1 DEF RInv, RecoverFrom
<1>1. session' \in [Node -> SUBSET Node] /\ inflight' \in [Node -> SUBSET Xact]
  BY <1>0 DEF StartRecovery, RInv, RShapes
<1>2. \A j \in Node : \A x \in inflight'[j] : x \in inflight[j] /\ session'[j] = {}
  BY DEF StartRecovery, RInv, RShapes, NormalOk
<1> QED
  BY <1>1, <1>2, ReceiversKeep DEF StartRecovery, RInv, RShapes

\* Recovery ends.
LEMMA ExitRecoveryKeeps ==
    ASSUME RInv, NEW i \in Node, ExitRecovery(i)
    PROVE  RInv'
<1>1. session' \in [Node -> SUBSET Node]
  BY DEF ExitRecovery, RInv, RShapes
<1>2. \A j \in Node : \A x \in inflight'[j] : x \in inflight[j] /\ session'[j] = {}
  BY DEF ExitRecovery, RInv, RShapes, NormalOk
<1> QED
  BY <1>1, <1>2, ReceiversKeep DEF ExitRecovery, RInv, RShapes

\* A restart: the WAL stays.
LEMMA RestartKeeps ==
    ASSUME RInv, NEW i \in Node, Restart(i)
    PROVE  RInv'
<1>1. session' \in [Node -> SUBSET Node] /\ inflight' \in [Node -> SUBSET Xact]
  BY DEF Restart, RInv, RShapes
<1>2. \A j \in Node : \A x \in inflight'[j] : x \in inflight[j] /\ session'[j] = {}
  BY DEF Restart, RInv, RShapes, NormalOk
<1>3. \A j \in Node : mode'[j] = Normal => mode[j] = Normal \/ Online(j)
  BY DEF Restart, RInv, RShapes, Normal, Disabled, RecoverFrom
<1>4. InRecovery(i) => FirstSetBit(donors[i]) \in Node
  BY DonorsNonempty, FirstSetBitIsNode DEF RInv, IInv, TypeOK
<1>5. mode' \in [Node -> {Disabled, Normal} \cup {RecoverFrom(d) : d \in Node}]
  BY <1>4 DEF Restart, RInv, RShapes
<1> QED
  BY <1>1, <1>2, <1>3, <1>5, ReceiversKeep DEF Restart

\* A switch: a donor has been online in every generation that could commit,
\* or after it, and has what it could commit.
LEMMA SwitchKeeps ==
    ASSUME RInv, NEW i \in Node, NEW g, NEW D, Elected(g, D), ConsiderGenSwitch(i, g, D),
           UNCHANGED recvVars
    PROVE  RInv'
<1> USE DEF recvVars
<1>1. Switch(i, g, D) /\ UNCHANGED <<xact, acks, ballots>>
  BY DEF ConsiderGenSwitch, Switch
<1>2. IInv /\ TypeOK /\ g \in Chosen /\ g \in Gen /\ D \in SUBSET Node /\ D # {}
  BY ElectedChosen, ElectedHasDonor DEF RInv, IInv
<1>3. [Next]_vars
  <2>1. PICK Q \in Victories(g) : D = MostAdvanced(Q)
    BY DEF Elected
  <2>2. g \in {b.gen : b \in ballots}
    <3>1. g # FirstGen
      BY SMTT(30), <1>1, <1>2 DEF RInv, Switch, IInv, NumbersOrdered, TypeOK, Gen, FirstGen
    <3> QED
      BY <1>2, <3>1 DEF Chosen
  <2> QED
    BY <1>1, <2>1, <2>2 DEF Next
<1>4. IInv'
  BY <1>3, NextIInv DEF RInv
<1>5. cur'[i] = g /\ g.num \in Nat /\ vote'[i].num \in Nat /\ g.num <= vote'[i].num
  BY <1>1, <1>2, <1>4 DEF Switch, IInv, TypeOK, NumbersOrdered, Gen
<1>6. CASE MayServe(i, g) /\ i \in D
  <2>1. Log(i, ParallelSafe(g, D)) /\ mode' = [mode EXCEPT ![i] = Normal]
    BY <1>6 DEF ConsiderGenSwitch
  <2>2. loi'[i] = g.num /\ onlineIn' = onlineIn \cup {<<i, g.num>>}
    BY <1>1, <1>2, <1>6 DEF Switch, TypeOK
  <2>3. ParallelSafe(g, D) \in Record
    BY <1>2 DEF ParallelSafe, Record
  <2>4. wal' \in [Node -> Seq(Record)] /\ Grown(i, ParallelSafe(g, D))
    BY <2>1, <2>3, LogGrows DEF RInv, RShapes
  <2>5. RShapes'
    BY <1>1, <2>1, <2>4 DEF RInv, RShapes, NoXact, Record, Gen, Disabled, Normal, RecoverFrom
  <2>6. g \in Serving /\ i \in g.members
    BY <1>2, <1>6 DEF Serving, MayServe
  <2>7. GoesOnlineSoundly
    BY SMTT(30), <1>5, <1>6, <2>2 DEF RInv, GoesOnlineSoundly
  <2>8. ASSUME NEW x \in Xact, CouldCommit(x), CouldCommit(x)', xact[x].gen < g.num
        PROVE  HasPrepare(i, x)
    <3>1. PICK h \in Serving : /\ h.num = xact[x].gen
                               /\ \A j \in h.members : j \in acks[x] \/ CanAck(j, h.num)
      BY <2>8 DEF CouldCommit
    <3>2. h \in Gen
      BY GenFactsHold DEF RInv, GenFacts, Serving
    <3>3. \A j \in h.members : <<j, h.num>> \in onlineIn \/ vote[j].num <= h.num
      BY <3>1, <3>2 DEF CanAck, Online, RInv, DataOk, AcksHeld, IInv, OnlineHistory, Gen
    <3>4. PICK l \in Nat : h.num <= l /\ l < g.num /\ <<i, l>> \in onlineIn
      BY <1>2, <1>6, <2>8, <3>1, <3>3, DonorsKnow
    <3>5. CASE l = h.num
      <4>1. PICK e \in Serving : e.num = h.num /\ i \in e.members
        BY <3>4, <3>5 DEF RInv, DataOk, OnlineIsLogged
      <4>2. e = h
        BY <4>1, GenFactsHold DEF RInv, GenFacts, Serving
      <4>3. PICK f \in Serving' : /\ f.num = xact'[x].gen
                                  /\ \A j \in f.members : j \in acks'[x] \/ CanAck(j, f.num)'
        BY <2>8 DEF CouldCommit
      <4>4. f = h
        BY <1>1, <1>4, <3>1, <4>3, GenFactsNext, ChosenStays DEF GenFacts, Serving
      <4>5. ~CanAck(i, h.num)'
        BY SMTT(30), <1>5, <2>8, <3>1, <3>2 DEF CanAck, Gen
      <4>6. i \in acks[x]
        BY <1>1, <4>1, <4>2, <4>3, <4>4, <4>5
      <4> QED
        BY <4>6 DEF RInv, DataOk, AcksHeld
    <3>6. CASE h.num < l
      <4>1. PICK k \in DOMAIN wal[i] : wal[i][k].kind = "ps" /\ wal[i][k].gen.num = l
        BY <3>4 DEF RInv, DataOk, OnlineIsLogged
      <4>2. Later(wal[i][k], xact[x].gen)
        BY <3>1, <3>2, <3>6, <4>1 DEF Later, Gen
      <4>3. PICK m \in 1 .. (k - 1) : wal[i][m] = PrepareRec(x)
        BY <2>8, <4>2 DEF RInv, DataOk, Held
      <4>4. m \in DOMAIN wal[i]
        BY PositionsHold DEF RInv, RShapes, Positions
      <4> QED
        BY <4>3, <4>4 DEF HasPrepare
    <3> QED
      BY SMTT(30), <3>2, <3>4, <3>5, <3>6 DEF RInv, Gen
  <2>9. DataOk'
    BY <1>1, <1>3, <1>4, <1>2, <2>2, <2>4, <2>6, <2>7, <2>8, PsLogged
  <2>10. NormalOk'
    <3> SUFFICES ASSUME NEW j \in Node
                 PROVE  /\ mode'[j] = Normal => Online(j)'
                        /\ \A x \in inflight'[j] :
                              (Started(x) /\ ~HasPrepare(j, x) /\ ~Misplaced(j, x))' /\ session'[j] = {}
      BY DEF NormalOk, Normal
    <3>1. mode'[j] = Normal => Online(j)'
      BY <1>1, <1>2, <1>5, <2>1, <2>2 DEF RInv, RShapes, NormalOk, Online, Switch, TypeOK
    <3>2. ASSUME NEW x \in inflight[j] PROVE (Started(x) /\ ~HasPrepare(j, x) /\ ~Misplaced(j, x))'
      <4>1. x \in Xact /\ Started(x) /\ ~HasPrepare(j, x) /\ ~Misplaced(j, x)
        BY DEF RInv, NormalOk, RShapes
      <4>2. ~Misplaced(j, x)'
        BY <1>1, <1>3, <1>4, <4>1, NotMisplaced DEF RInv, RShapes, Started
      <4>3. \A k \in DOMAIN wal'[j] : wal'[j][k] # PrepareRec(x)
        BY SMTT(30), <2>4, <4>1 DEF Grown, HasPrepare, ParallelSafe, PrepareRec
      <4> QED
        BY <1>1, <4>1, <4>2, <4>3 DEF Started, NoXact, HasPrepare, PrepareRec
    <3> QED
      BY <3>1, <3>2 DEF RInv, NormalOk
  <2> QED
    BY <1>4, <2>5, <2>9, <2>10 DEF RInv
<1>7. CASE ~(MayServe(i, g) /\ i \in D)
  <2>1. /\ UNCHANGED <<wal, loi, onlineIn>>
        /\ mode' = [mode EXCEPT ![i] =
               IF MayServe(i, g) THEN RecoverFrom(FirstSetBit(D)) ELSE Disabled]
    BY <1>1, <1>7 DEF ConsiderGenSwitch, Switch
  <2>2. FirstSetBit(D) \in Node
    BY <1>2, FirstSetBitIsNode
  <2>3. mode' \in [Node -> {Disabled, Normal} \cup {RecoverFrom(d) : d \in Node}]
    BY <2>1, <2>2 DEF RInv, RShapes
  <2>4. RShapes'
    BY <1>1, <2>1, <2>3 DEF RInv, RShapes, NoXact, Record, Disabled, Normal, RecoverFrom
  <2>5. DataOk'
    BY <1>1, <1>3, <1>4, <2>1, SameWal
  <2>6. NormalOk'
    <3> SUFFICES ASSUME NEW j \in Node
                 PROVE  /\ mode'[j] = Normal => Online(j)'
                        /\ \A x \in inflight'[j] :
                              (Started(x) /\ ~HasPrepare(j, x) /\ ~Misplaced(j, x))' /\ session'[j] = {}
      BY DEF NormalOk, Normal
    <3>1. CASE j = i
      <4>1. mode'[i] # Normal
        BY <2>1 DEF RInv, RShapes, Normal, Disabled, RecoverFrom
      <4> QED
        BY <1>1, <1>3, <1>4, <2>1, <3>1, <4>1, WorkersKeep DEF RInv, NormalOk
    <3>2. CASE j # i
      <4>1. mode'[j] = mode[j] /\ cur'[j] = cur[j] /\ loi'[j] = loi[j]
        BY <1>1, <1>2, <2>1, <3>2 DEF RInv, RShapes, Switch, TypeOK
      <4> QED
        BY <1>1, <1>3, <1>4, <2>1, <4>1, WorkersKeep DEF RInv, NormalOk, Online
    <3> QED
      BY <3>1, <3>2
  <2> QED
    BY <1>4, <2>4, <2>5, <2>6 DEF RInv
<1> QED
  BY <1>6, <1>7

\* What i is to apply next from d, it applies with everything before it: so it
\* holds what d held before that record.
LEMMA DonorHeld ==
    ASSUME RInv, NEW i \in Node, NEW d \in Node, NEW k \in DOMAIN wal[d], IsNextRecord(i, d, k),
           NEW x \in Xact, CouldCommit(x), Later(wal[d][k], xact[x].gen)
    PROVE  HasPrepare(i, x)
<1>1. PICK m \in 1 .. (k - 1) : wal[d][m] = PrepareRec(x)
  BY DEF RInv, DataOk, Held
<1>2. ~Relevant(i, PrepareRec(x))
  BY <1>1 DEF IsNextRecord
<1> QED
  BY <1>2 DEF Relevant, PrepareRec

\* A node that is online in generation n holds what may be committed of the
\* generations before.
LEMMA OnlineHolds ==
    ASSUME RInv, NEW i \in Node, Online(i), NEW x \in Xact, CouldCommit(x),
           xact[x].gen < cur[i].num
    PROVE  HasPrepare(i, x)
<1>1. <<i, cur[i].num>> \in onlineIn
  BY DEF RInv, IInv, OnlineHistory, Online
<1>2. PICK k \in DOMAIN wal[i] : wal[i][k].kind = "ps" /\ wal[i][k].gen.num = cur[i].num
  BY <1>1 DEF RInv, DataOk, OnlineIsLogged
<1>3. xact[x].gen \in Nat /\ cur[i].num \in Nat
  BY DEF RInv, RShapes, CouldCommit, Started, IInv, TypeOK, Gen
<1>4. Later(wal[i][k], xact[x].gen)
  BY <1>2, <1>3 DEF Later
<1>5. PICK m \in 1 .. (k - 1) : wal[i][m] = PrepareRec(x)
  BY <1>4 DEF RInv, DataOk, Held
<1>6. m \in DOMAIN wal[i]
  BY PositionsHold DEF RInv, RShapes, Positions
<1> QED
  BY <1>5, <1>6 DEF HasPrepare

\* The end of recovery.
LEMMA GetOnlineKeeps ==
    ASSUME RInv, NEW i \in Node, NEW d \in Node, NEW k \in DOMAIN wal[d], IsNextRecord(i, d, k),
           ParallelSafeEndsRecovery(i, wal[d][k]), UNCHANGED recvVars
    PROVE  RInv'
<1> DEFINE r == wal[d][k]
           g == r.gen
           D == r.donors
<1> USE DEF recvVars
<1>1. /\ GetOnline(i) /\ Log(i, r) /\ mode' = [mode EXCEPT ![i] = Normal]
      /\ UNCHANGED <<xact, acks, ballots>> /\ r.kind = "ps" /\ g.num = cur[i].num
  BY DEF ParallelSafeEndsRecovery, GetOnline
<1>2. Positions /\ IInv /\ TypeOK
  BY PositionsHold DEF RInv, RShapes, IInv
<1>3. r \in Record /\ r = ParallelSafe(g, D) /\ g \in Gen /\ D \in SUBSET Node
  BY <1>1, <1>2 DEF Positions, Record, ParallelSafe
<1>4. g = FirstGen \/ Elected(g, D)
  BY <1>1 DEF RInv, DataOk, SafeRecords
<1>5. g \in Chosen /\ cur[i] \in Chosen
  BY <1>2, <1>4, ElectedChosen DEF Chosen, IInv, CurIsElected
<1>6. g = cur[i]
  BY <1>1, <1>2, <1>5, GenFactsHold DEF GenFacts
<1>7. g \in Serving /\ i \in g.members
  BY <1>1, <1>5, <1>6 DEF Serving, GetOnline, InRecovery
<1>8. [Next]_vars
  BY <1>1 DEF Next
<1>9. IInv'
  BY <1>8, NextIInv DEF RInv
<1>10. wal' \in [Node -> Seq(Record)] /\ Grown(i, r)
  BY <1>1, <1>3, LogGrows DEF RInv, RShapes
<1>11. loi'[i] = g.num /\ onlineIn' = onlineIn \cup {<<i, g.num>>} /\ cur' = cur
  BY <1>1, <1>2 DEF GetOnline, TypeOK
<1>12. RShapes'
  BY <1>1, <1>10 DEF RInv, RShapes, NoXact, Record, Gen, Disabled, Normal, RecoverFrom
<1>13. GoesOnlineSoundly
  <2>1. <<d, loi[d]>> \in onlineIn /\ g.num <= loi[d]
    BY <1>1 DEF RInv, DataOk, SafeRecords, IInv, OnlineHistory
  <2>2. loi[d] \in Nat /\ g.num \in Nat
    BY <1>2, <1>3 DEF TypeOK, Gen
  <2>3. loi[d] >= g.num
    BY <2>1, <2>2
  <2> QED
    BY SMTT(30), <1>11, <2>1, <2>3 DEF DataOk, RInv, GoesOnlineSoundly
<1>14. ASSUME NEW x \in Xact, CouldCommit(x), xact[x].gen < g.num PROVE HasPrepare(i, x)
  <2>1. xact[x].gen \in Nat /\ g.num \in Nat
    BY <1>3, <1>14 DEF RInv, RShapes, CouldCommit, Started, Gen
  <2>2. Later(r, xact[x].gen)
    BY <1>1, <1>14, <2>1 DEF Later
  <2> QED
    BY <1>14, <2>2, DonorHeld
<1>15. DataOk'
  <2> HIDE DEF r, g, D
  <2> QED
    BY <1>1, <1>3, <1>4, <1>7, <1>8, <1>9, <1>10, <1>11, <1>13, <1>14, PsLogged
<1>16. NormalOk'
  <2> SUFFICES ASSUME NEW j \in Node
               PROVE  /\ mode'[j] = Normal => Online(j)'
                      /\ \A x \in inflight'[j] :
                            (Started(x) /\ ~HasPrepare(j, x) /\ ~Misplaced(j, x))' /\ session'[j] = {}
    BY DEF NormalOk, Normal
  <2>1. mode'[j] = Normal => Online(j)'
    BY <1>1, <1>2, <1>11 DEF RInv, RShapes, NormalOk, Online, GetOnline, TypeOK
  <2>2. ASSUME NEW x \in inflight[j] PROVE (Started(x) /\ ~HasPrepare(j, x) /\ ~Misplaced(j, x))'
    <3>1. x \in Xact /\ Started(x) /\ ~HasPrepare(j, x) /\ ~Misplaced(j, x)
      BY DEF RInv, NormalOk, RShapes
    <3>2. ~Misplaced(j, x)'
      BY <1>1, <1>8, <1>9, <3>1, NotMisplaced DEF RInv, RShapes, Started
    <3>3. r # PrepareRec(x)
      BY SMTT(30), <1>1 DEF PrepareRec
    <3>4. \A m \in DOMAIN wal'[j] : wal'[j][m] # PrepareRec(x)
      BY <1>10, <3>1, <3>3 DEF Grown, HasPrepare
    <3> QED
      BY <1>1, <3>1, <3>2, <3>4 DEF Started, NoXact, HasPrepare, PrepareRec
  <2> QED
    BY <2>1, <2>2 DEF RInv, NormalOk
<1> QED
  BY <1>9, <1>12, <1>15, <1>16 DEF RInv

\* The workers of a node that has logged PREPARE do not hold it any more.
LEMMA WorkersAfterPrepare ==
    ASSUME RInv, IInv', UNCHANGED <<vars, mode, session>>, NEW i \in Node, NEW x \in Xact,
           Grown(i, PrepareRec(x)), x \notin inflight'[i],
           \A j \in Node : inflight'[j] \subseteq inflight[j],
           \A y \in Xact : Started(y) => xact'[y] = xact[y]
    PROVE  NormalOk'
<1> SUFFICES ASSUME NEW j \in Node
             PROVE  /\ mode'[j] = Normal => Online(j)'
                    /\ \A y \in inflight'[j] :
                          (Started(y) /\ ~HasPrepare(j, y) /\ ~Misplaced(j, y))' /\ session'[j] = {}
  BY DEF NormalOk, Normal
<1>1. mode'[j] = Normal => Online(j)'
  BY DEF RInv, NormalOk, Online, vars
<1>2. ASSUME NEW y \in inflight'[j] PROVE (Started(y) /\ ~HasPrepare(j, y) /\ ~Misplaced(j, y))'
  <2>1. y \in Xact /\ Started(y) /\ ~HasPrepare(j, y) /\ ~Misplaced(j, y)
    BY DEF RInv, NormalOk, RShapes
  <2>2. xact'[y] = xact[y]
    BY <2>1
  <2>3. ~Misplaced(j, y)'
    BY <2>1, <2>2 DEF Misplaced, Online, vars
  <2>4. \A m \in DOMAIN wal'[j] : wal'[j][m] # PrepareRec(y)
    BY SMTT(30), <2>1 DEF Grown, HasPrepare, PrepareRec
  <2> QED
    BY <2>1, <2>2, <2>3, <2>4 DEF Started, NoXact, HasPrepare, PrepareRec
<1> QED
  BY <1>1, <1>2 DEF RInv, NormalOk

\* PREPARE is copied from the donor, in the donor's order.
LEMMA RecoverPrepareKeeps ==
    ASSUME RInv, NEW i \in Node, session[i] # {}, NEW d \in Node, NEW k \in DOMAIN wal[d],
           IsNextRecord(i, d, k), ApplyPrepareInRecovery(i, wal[d][k]), UNCHANGED recvVars
    PROVE  RInv'
<1> DEFINE r == wal[d][k]
           x == r.xact
<1> USE DEF recvVars
<1>1. r.kind = "prepare" /\ Log(i, r) /\ UNCHANGED <<vars, mode, xact, acks>>
  BY DEF ApplyPrepareInRecovery
<1>2. Positions
  BY PositionsHold DEF RInv, RShapes
<1>3. r \in Record /\ x \in Xact /\ r = PrepareRec(x)
  BY <1>1, <1>2 DEF Positions, Record, PrepareRec
<1>4. wal' \in [Node -> Seq(Record)] /\ Grown(i, r)
  BY <1>1, <1>3, LogGrows DEF RInv, RShapes
<1>5. IInv'
  BY <1>1, NextIInv DEF RInv
<1>6. RShapes'
  BY <1>1, <1>4 DEF RInv, RShapes, NoXact, Record, Gen, Disabled, Normal, RecoverFrom
<1>7. Started(x) /\ ~HasPrepare(i, x)
  BY <1>1 DEF RInv, DataOk, PreparedOnce, IsNextRecord, Relevant
<1>8. ASSUME NEW y \in Xact, CouldCommit(y), xact[y].gen < xact[x].gen PROVE HasPrepare(i, y)
  <2>1. xact[y].gen \in Nat /\ xact[x].gen \in Nat
    BY <1>3, <1>7, <1>8 DEF RInv, RShapes, CouldCommit, Started
  <2>2. Later(r, xact[y].gen)
    BY <1>1, <1>8, <2>1 DEF Later
  <2> QED
    BY <1>8, <2>2, DonorHeld
<1>9. inflight[i] = {}
  BY DEF RInv, NormalOk, RShapes
<1> HIDE DEF r, x
<1>10. DataOk'
  BY <1>1, <1>3, <1>4, <1>5, <1>6, <1>7, <1>8, PrepareLogged DEF Started
<1>11. NormalOk'
  BY <1>1, <1>3, <1>4, <1>5, <1>9, WorkersAfterPrepare
<1> QED
  BY <1>5, <1>6, <1>10, <1>11 DEF RInv

\* Any record of the donor.
LEMMA ApplyInRecoveryKeeps ==
    ASSUME RInv, NEW i \in Node, ApplyInRecovery(i)
    PROVE  RInv'
<1>1. PICK d \in session[i] : \E k \in DOMAIN wal[d] :
          /\ IsNextRecord(i, d, k)
          /\ \/ ApplyPrepareInRecovery(i, wal[d][k])
             \/ ParallelSafeSwitches(i, wal[d][k])
             \/ ParallelSafeEndsRecovery(i, wal[d][k])
  BY DEF ApplyInRecovery
<1>2. d \in Node /\ session[i] # {} /\ UNCHANGED recvVars
  BY DEF RInv, RShapes, ApplyInRecovery
<1>3. PICK k \in DOMAIN wal[d] :
          /\ IsNextRecord(i, d, k)
          /\ \/ ApplyPrepareInRecovery(i, wal[d][k])
             \/ ParallelSafeSwitches(i, wal[d][k])
             \/ ParallelSafeEndsRecovery(i, wal[d][k])
  BY <1>1
<1>4. CASE ApplyPrepareInRecovery(i, wal[d][k])
  BY <1>2, <1>3, <1>4, RecoverPrepareKeeps
<1>5. CASE ParallelSafeSwitches(i, wal[d][k])
  <2> DEFINE g == wal[d][k].gen
  <2>1. wal[d][k].kind = "ps" /\ g.num > cur[i].num /\ ConsiderGenSwitch(i, g, wal[d][k].donors)
    BY <1>5 DEF ParallelSafeSwitches
  <2>2. g # FirstGen
    BY SMTT(30), <2>1 DEF RInv, IInv, NumbersOrdered, TypeOK, Gen, FirstGen
  <2>3. Elected(g, wal[d][k].donors)
    BY <1>2, <2>1, <2>2 DEF RInv, DataOk, SafeRecords
  <2> HIDE DEF g
  <2> QED
    BY <1>2, <2>1, <2>3, SwitchKeeps
<1>6. CASE ParallelSafeEndsRecovery(i, wal[d][k])
  BY <1>2, <1>3, <1>6, GetOnlineKeeps
<1> QED
  BY <1>3, <1>4, <1>5, <1>6

\* PREPARE of a backend, under the barrier.
LEMMA PrepareKeeps ==
    ASSUME RInv, NEW i \in Node, NEW x \in Xact, Prepare(i, x)
    PROVE  RInv'
<1> USE DEF recvVars
<1>1. /\ ~Started(x) /\ Online(i) /\ Log(i, PrepareRec(x)) /\ UNCHANGED <<vars, mode, session, inflight>>
      /\ xact' = [xact EXCEPT ![x] = [origin |-> i, gen |-> cur[i].num]]
      /\ acks' = [acks EXCEPT ![x] = {i}]
  BY DEF Prepare, Started
<1>2. PrepareRec(x) \in Record /\ cur[i].num \in Nat \ {0}
  BY SMTT(30) DEF PrepareRec, Record, RInv, IInv, TypeOK, Gen, NumbersOrdered
<1>3. wal' \in [Node -> Seq(Record)] /\ Grown(i, PrepareRec(x))
  BY <1>1, <1>2, LogGrows DEF RInv, RShapes
<1>4. IInv'
  BY <1>1, NextIInv DEF RInv
<1>5. RShapes'
  <2>1. xact' \in [Xact -> {NoXact} \cup [origin : Node, gen : Nat \ {0}]]
    BY <1>1, <1>2 DEF RInv, RShapes
  <2> QED
    BY <1>1, <1>3, <2>1 DEF RInv, RShapes, NoXact, Record, Gen, Disabled, Normal, RecoverFrom
<1>6. /\ xact'[x].origin = i /\ xact'[x].gen = cur[i].num /\ acks'[x] = {i}
      /\ \A y \in Xact \ {x} : xact'[y] = xact[y] /\ acks'[y] = acks[y]
  BY <1>1 DEF RInv, RShapes
<1>7. xact'[x] # NoXact
  BY SMTT(30), <1>2, <1>6 DEF NoXact
<1>8. ~HasPrepare(i, x) /\ acks[x] = {} /\ x \notin inflight[i]
  <2>1. ~HasPrepare(i, x)
    BY SMTT(30), <1>1 DEF HasPrepare, PrepareRec, RInv, DataOk, PreparedOnce
  <2> QED
    BY <1>1, <2>1 DEF RInv, DataOk, AcksHeld, NormalOk
<1>9. \A y \in Xact \ {x} : CouldCommit(y) /\ xact[y].gen < xact'[x].gen => HasPrepare(i, y)
  BY <1>1, <1>6, OnlineHolds
<1>10. DataOk'
  BY <1>1, <1>3, <1>4, <1>5, <1>6, <1>7, <1>8, <1>9, PrepareLogged
<1>11. \A y \in Xact : Started(y) => xact'[y] = xact[y]
  BY <1>1, <1>6
<1>12. NormalOk'
  BY <1>1, <1>3, <1>4, <1>8, <1>11, WorkersAfterPrepare
<1> QED
  BY <1>4, <1>5, <1>10, <1>12 DEF RInv

\* PREPARE applied by a worker of a normal receiver.
LEMMA ApplyInNormalKeeps ==
    ASSUME RInv, NEW i \in Node, NEW x \in Xact, ApplyInNormal(i, x)
    PROVE  RInv'
<1>1. /\ x \in inflight[i] /\ ~Misplaced(i, x) /\ UNCHANGED <<vars, mode, xact, session>>
      /\ inflight' = [inflight EXCEPT ![i] = @ \ {x}]
  BY DEF ApplyInNormal
<1>2. Started(x) /\ ~HasPrepare(i, x)
  BY <1>1 DEF RInv, NormalOk
<1>3. /\ inflight' \in [Node -> SUBSET Xact] /\ x \notin inflight'[i]
      /\ \A j \in Node : inflight'[j] \subseteq inflight[j]
  BY <1>1 DEF RInv, RShapes
<1>4. CASE xact[x].gen < cur[i].num
  <2>1. UNCHANGED dataVars
    BY <1>1, <1>4 DEF ApplyInNormal, dataVars
  <2> QED
    BY <1>1, <1>3, <2>1, ReceiversKeep DEF RInv, RShapes, NormalOk
<1>5. CASE ~(xact[x].gen < cur[i].num)
  <2>1. Log(i, PrepareRec(x)) /\ acks' = [acks EXCEPT ![x] = @ \cup {i}]
    BY <1>5 DEF ApplyInNormal
  <2>2. xact[x].gen \in Nat /\ cur[i].num \in Nat
    BY <1>2 DEF RInv, RShapes, Started, IInv, TypeOK, Gen
  <2>3. xact[x].gen = cur[i].num /\ Online(i)
    BY SMTT(30), <1>1, <1>5, <2>2 DEF Misplaced
  <2>4. PrepareRec(x) \in Record
    BY DEF PrepareRec, Record
  <2>5. wal' \in [Node -> Seq(Record)] /\ Grown(i, PrepareRec(x))
    BY <2>1, <2>4, LogGrows DEF RInv, RShapes
  <2>6. IInv'
    BY <1>1, NextIInv DEF RInv
  <2>7. RShapes'
    BY <1>1, <1>3, <2>1, <2>5 DEF RInv, RShapes, NoXact, Record, Gen, Disabled, Normal, RecoverFrom
  <2>8. /\ acks'[x] = acks[x] \cup {i}
        /\ \A y \in Xact \ {x} : acks'[y] = acks[y]
    BY <2>1 DEF RInv, RShapes
  <2>9. \A y \in Xact \ {x} : CouldCommit(y) /\ xact[y].gen < xact[x].gen => HasPrepare(i, y)
    BY <2>3, OnlineHolds
  <2>10. DataOk'
    BY <1>1, <1>2, <2>3, <2>5, <2>6, <2>7, <2>8, <2>9, PrepareLogged DEF Started
  <2>11. NormalOk'
    BY <1>1, <1>3, <2>5, <2>6, WorkersAfterPrepare
  <2> QED
    BY <2>6, <2>7, <2>10, <2>11 DEF RInv
<1> QED
  BY <1>4, <1>5

\* The receiver has applied every ParallelSafe record before PREPARE, the one
\* of its generation too.
LEMMA FetchKeeps ==
    ASSUME RInv, NEW i \in Node, NEW x \in Xact, FetchInNormal(i, x)
    PROVE  RInv'
<1>1. /\ session[i] = {} /\ mode[i] = Normal /\ Started(x) /\ ~HasPrepare(i, x)
      /\ PassedParallelSafe(i, xact[x].origin, x)
      /\ inflight' = [inflight EXCEPT ![i] = @ \cup {x}]
      /\ UNCHANGED <<vars, mode, dataVars, session>>
  BY DEF FetchInNormal, Started
<1> DEFINE p == xact[x].origin
<1>2. xact[x].gen \in Nat /\ p \in Node /\ cur[i].num \in Nat
  BY <1>1 DEF RInv, RShapes, Started, IInv, TypeOK, Gen
<1>3. ~Misplaced(i, x)
  <2>1. PICK k \in DOMAIN wal[p] :
            /\ wal[p][k] = PrepareRec(x)
            /\ \A m \in 1 .. (k - 1) : wal[p][m].kind = "ps" =>
                   \/ wal[p][m].gen.num < cur[i].num
                   \/ wal[p][m].gen.num = cur[i].num /\ ~InRecovery(i)
    BY <1>1 DEF PassedParallelSafe
  <2>2. PICK m \in 1 .. (k - 1) : wal[p][m].kind = "ps" /\ wal[p][m].gen.num = xact[x].gen
    BY <1>1, <2>1 DEF RInv, DataOk, OriginOnline
  <2>3. Online(i)
    BY <1>1 DEF RInv, NormalOk
  <2> QED
    BY SMTT(30), <1>2, <2>1, <2>2, <2>3 DEF DataOk, RInv, Misplaced
<1>4. IInv'
  BY <1>1, NextIInv DEF RInv
<1>5. RShapes'
  BY <1>1 DEF RInv, RShapes, NoXact, Record, Gen, Disabled, Normal, RecoverFrom, dataVars
<1>6. DataOk'
  BY <1>1, <1>4, SameWal DEF vars, dataVars
<1>7. NormalOk'
  <2> SUFFICES ASSUME NEW j \in Node
               PROVE  /\ mode[j] = Normal => Online(j)
                      /\ \A y \in inflight'[j] :
                            Started(y) /\ ~HasPrepare(j, y) /\ ~Misplaced(j, y) /\ session[j] = {}
    BY <1>1 DEF NormalOk, Normal, vars, dataVars, Online, Started, NoXact, HasPrepare, PrepareRec, Misplaced
  <2> QED
    BY <1>1, <1>3 DEF RInv, RShapes, NormalOk
<1> QED
  BY <1>4, <1>5, <1>6, <1>7 DEF RInv

----------------------------------------------------------------------------
(* The theorems.                                                           *)

\* The invariant holds at the start.
LEMMA InitRInv == RInit => RInv
<1> SUFFICES ASSUME RInit PROVE RInv
  OBVIOUS
<1> USE DEF RInit
<1>1. IInv
  BY InitIInv
<1>2. FirstGen \in Gen /\ FirstGen.num = 1 /\ FirstGen.members = Node
  BY DEF FirstGen, Gen
<1>3. ParallelSafe(FirstGen, Node) \in Record
  BY <1>2 DEF ParallelSafe, Record
<1>4. RShapes
  <2>1. wal \in [Node -> Seq(Record)]
    <3> HIDE DEF Record
    <3> QED BY SMTT(30), <1>3
  <2> QED
    BY <2>1 DEF RShapes
<1>5. /\ \A i \in Node : DOMAIN wal[i] = {1} /\ wal[i][1] = ParallelSafe(FirstGen, Node)
      /\ \A i \in Node : loi[i] = 1
      /\ \A x \in Xact : ~Started(x) /\ acks[x] = {}
      /\ onlineIn = Node \X {1}
  BY SMTT(30) DEF Init, Started
<1>6. /\ ParallelSafe(FirstGen, Node).kind = "ps" /\ ParallelSafe(FirstGen, Node).gen = FirstGen
      /\ ParallelSafe(FirstGen, Node).kind # "prepare"
  BY DEF ParallelSafe
<1>7. SafeRecords /\ PreparedOnce /\ OriginOnline /\ AcksHeld
  BY SMTT(30), <1>2, <1>5, <1>6 DEF DataOk, RInv, SafeRecords, PreparedOnce, OriginOnline, AcksHeld
<1>8. Node # {} => FirstGen \in Serving
  <2> SUFFICES ASSUME Node # {} PROVE Majority(Node)
    BY <1>2 DEF Serving, Chosen
  <2>1. Cardinality(Node) \in Nat /\ Cardinality(Node) # 0
    BY NodeAssumption, FS_CardinalityType, FS_EmptySet
  <2> QED
    BY SMTT(30), <2>1 DEF Majority
<1>9. OnlineIsLogged
  BY SMTT(30), <1>2, <1>5, <1>6, <1>8 DEF DataOk, RInv, OnlineIsLogged
<1>10. NoneAbove
  BY <1>1, <1>5, GenFactsHold DEF NoneAbove, GenFacts, Serving, Gen
<1>11. Held
  BY <1>5 DEF Held, CouldCommit
<1>12. NormalOk
  BY <1>2, <1>5 DEF NormalOk, Init, Online
<1> QED
  BY <1>1, <1>4, <1>7, <1>9, <1>10, <1>11, <1>12 DEF RInv, DataOk

\* Every step keeps the invariant.
LEMMA NextRInv == RInv /\ [RNext]_rvars => RInv'
<1> SUFFICES ASSUME RInv, [RNext]_rvars PROVE RInv'
  OBVIOUS
<1>1. CASE UNCHANGED rvars
  <2>1. UNCHANGED <<vars, dataVars>> /\ UNCHANGED <<mode, session, inflight>>
    BY <1>1 DEF rvars, dataVars
  <2> QED
    BY <2>1, ReceiversKeep DEF RInv, RShapes, NormalOk
<1>2. ASSUME NEW i \in Node, NEW g \in {b.gen : b \in ballots},
             NEW D \in {MostAdvanced(Q) : Q \in Victories(g)}, LearnGen(i, g, D)
      PROVE  RInv'
  <2>1. Elected(g, D)
    BY DEF Elected
  <2> QED
    BY <1>2, <2>1, SwitchKeeps DEF LearnGen
<1>3. CASE RNext
  BY <1>2, <1>3, VoteKeeps, SetCatchupDonorKeeps, PrepareKeeps, FetchKeeps, ApplyInNormalKeeps,
     StartRecoveryKeeps, ExitRecoveryKeeps, ApplyInRecoveryKeeps, RestartKeeps DEF RNext
<1> QED
  BY <1>1, <1>3

\* The inductive invariant of recovery holds throughout.
THEOREM RecoveryInvariance == RSpec => []RInv
<1> QED
  BY InitRInv, NextRInv, PTL DEF RSpec

\* What is committable may still be committed.
LEMMA CommittableCould ==
    ASSUME RInv, NEW x \in Xact, Committable(x)
    PROVE  CouldCommit(x)
<1>1. PICK g \in {FirstGen} \cup {b.gen : b \in ballots} :
          /\ g.num = xact[x].gen
          /\ g.members \subseteq acks[x]
          /\ g = FirstGen \/ Victories(g) # {}
  BY DEF Committable
<1>2. Started(x) /\ g \in Chosen
  BY <1>1 DEF Committable, Started, Chosen
<1>3. PICK h \in Serving : h.num = xact[x].gen
  BY <1>2 DEF RInv, DataOk, OriginOnline, AcksHeld, OnlineIsLogged
<1>4. g = h
  BY <1>1, <1>2, <1>3, GenFactsHold DEF RInv, GenFacts, Serving
<1> QED
  BY <1>1, <1>2, <1>3, <1>4 DEF CouldCommit

\* Whoever goes online in a generation holds every committable transaction of
\* the generations before, logged before its ParallelSafe record: for any number
\* of nodes, transactions, elections, receivers and restarts.
THEOREM OnlineHoldsCommittable == RSpec => []HoldsCommittable
<1>1. RInv => HoldsCommittable
  <2> SUFFICES ASSUME RInv, NEW x \in Xact, Committable(x), NEW i \in Node,
                      NEW k \in DOMAIN wal[i],
                      wal[i][k].kind = "ps" /\ wal[i][k].gen.num > xact[x].gen
               PROVE  \E m \in 1 .. (k - 1) : wal[i][m] = PrepareRec(x)
    BY DEF HoldsCommittable
  <2>1. CouldCommit(x)
    BY CommittableCould
  <2> QED
    BY <2>1 DEF RInv, DataOk, Held, Later
<1> QED
  BY <1>1, RecoveryInvariance, PTL

\* The prepares that are committable lie in every WAL in the order of their
\* generations, whether they were applied in normal mode or in recovery.
THEOREM CommittableInOrder == RSpec => []PreparesOrdered
<1>1. RInv => PreparesOrdered
  <2> SUFFICES ASSUME RInv, NEW i \in Node, NEW k \in DOMAIN wal[i], NEW m \in DOMAIN wal[i],
                      wal[i][k].kind = "prepare", wal[i][m].kind = "prepare",
                      Committable(wal[i][k].xact),
                      xact[wal[i][k].xact].gen < xact[wal[i][m].xact].gen
               PROVE  k < m
    BY DEF PreparesOrdered
  <2> DEFINE x == wal[i][k].xact
             y == wal[i][m].xact
  <2>1. Positions
    BY PositionsHold DEF RInv, RShapes
  <2>2. x \in Xact /\ y \in Xact /\ wal[i][k] = PrepareRec(x)
    BY <2>1 DEF Positions, Record, PrepareRec
  <2>3. CouldCommit(x)
    BY <2>2, CommittableCould
  <2>4. xact[x].gen \in Nat /\ xact[y].gen \in Nat
    BY <2>2 DEF RInv, RShapes, DataOk, PreparedOnce, Started
  <2>5. Later(wal[i][m], xact[x].gen)
    BY <2>4 DEF Later
  <2>6. PICK l \in 1 .. (m - 1) : wal[i][l] = PrepareRec(x)
    BY <2>2, <2>3, <2>5 DEF RInv, DataOk, Held
  <2>7. l \in DOMAIN wal[i] /\ m \in Nat
    BY <2>1 DEF Positions
  <2>8. l = k
    BY <2>2, <2>6, <2>7 DEF RInv, DataOk, PreparedOnce
  <2> QED
    BY SMTT(30), <2>6, <2>7, <2>8
<1> QED
  BY <1>1, RecoveryInvariance, PTL

\* No worker in normal mode takes a FATAL branch of PGLOGICAL_PREPARE: the
\* ParallelSafe record of a generation is always applied before.
THEOREM WorkersInPlace == RSpec => []NeverMisplaced
<1>1. RInv => NeverMisplaced
  BY DEF RInv, NormalOk, NeverMisplaced
<1> QED
  BY <1>1, RecoveryInvariance, PTL
=============================================================================
