---------------------------- MODULE CommitProofs ----------------------------
(***************************************************************************)
(* The transaction ends alike on all nodes, for any number of nodes,       *)
(* members, ballots and crashes, and any loss, delay and repetition of     *)
(* messages, as long as the monitor of the coordinator does not restart    *)
(* while the server stays up.                                              *)
(***************************************************************************)
EXTENDS Commit, TLAPS

\* j has voted for d in term t.  The record of a precommit and the messages of
\* the other votes stay when j forgets the transaction.
Cast(j, t, d) ==
    \/ t = InitialGTxTerm /\ d = "precommit" /\ Has(j, "PC")
    \/ \E m \in sent : m.type \in {"2a", "2b"} /\ m.from = j /\ m.term = t /\ m.decree = d

Finished(j) == Has(j, "CP") \/ Has(j, "AP")

\* j votes in t no more.
Past(j, t) == Finished(j) \/ (Prepared(j) /\ Less(t, gtx[j].state.proposal))

Chosen(t, d) == \E Q \in SUBSET Node : Quorum(Q) /\ \A j \in Q : Cast(j, t, d)
NeverChosen(t, d) ==
    \E Q \in SUBSET Node : Quorum(Q) /\ \A j \in Q : Past(j, t) /\ ~Cast(j, t, d)

\* No other decree has been chosen below t, nor will be.
SafeAt(t, d) ==
    \A u \in Term, e \in Decree : Less(u, t) /\ e # d => NeverChosen(u, e)

\* A member is online in a later generation without the transaction.
Missed == \E j \in Members : later[j] = "online" /\ ~Has(j, "P")

\* What allows to abort without a vote: the coordinator has given up before its
\* own, or a member refuses for good.
NeverPrecommitted == Missed \/ (Has(Coordinator, "AP") /\ ~Has(Coordinator, "PC"))

Justified(kind) ==
    \/ kind = "CP" /\ \E t \in Term : Chosen(t, "precommit")
    \/ kind = "AP" /\ (NeverPrecommitted \/ \E t \in Term : Chosen(t, "preabort"))

----------------------------------------------------------------------------

\* A term that i has begun a ballot with; the highest one is its proposal, as
\* long as it has not promised another.
OwnTerm(i, t) ==
    /\ t \in Term /\ t.node = i /\ t.ballot >= 2
    /\ Has(i, "P")
    /\ Prepared(i) => ~Less(gtx[i].state.proposal, t)

\* The acknowledgement s of j, to i: a promise, and the last vote before it.
SoundAck(i, j, s) ==
    s.proposal # InvalidGTxTerm =>
        /\ OwnTerm(i, s.proposal)
        /\ Less(s.accepted, s.proposal)
        /\ \A u \in Term : Less(u, s.proposal) => Past(j, u)
        /\ s.accepted # InvalidGTxTerm => s.status \in Decree /\ Cast(j, s.accepted, s.status)
        /\ s.accepted = InvalidGTxTerm => s.status = "invalid"
        /\ \A u \in Term, e \in Decree :
              Less(u, s.proposal) /\ Cast(j, u, e) => ~Less(s.accepted, u)

SoundMsg(m) ==
    /\ m.type \in {"prepared", "precommitted", "1a", "1b", "2a", "2b", "finish"}
    /\ m.from \in Node
    /\ m.type = "prepared" => Has(m.from, "P")
    /\ m.type = "precommitted" => Has(m.from, "PC")
    /\ m.type = "1a" => OwnTerm(m.from, m.term)
    /\ m.type = "1b" =>
          /\ m.to \in Node /\ m.to # m.from /\ m.state \in GTxState
          /\ SoundAck(m.to, m.from, m.state)
          /\ m.state.status \in {"commit", "abort"} => Justified(Outcome(m.state.status))
    /\ m.type = "2a" =>
          /\ OwnTerm(m.from, m.term) /\ m.decree \in Decree
          /\ SafeAt(m.term, m.decree)
          /\ m.decree = "precommit" => Has(Coordinator, "PC")
    /\ m.type = "2b" =>
          /\ m.to \in Node /\ m.to # m.from
          /\ \E n \in sent : n.type = "2a" /\ n.from = m.to /\ n.term = m.term /\ n.decree = m.decree
    /\ m.type = "finish" => m.kind \in {"CP", "AP"} /\ Justified(m.kind)

\* A resolver does not propose two decrees in one term.
OneProposal ==
    \A m, n \in sent : m.type = "2a" /\ n.type = "2a" /\ m.term = n.term => m.decree = n.decree

\* The state of a prepared transaction is the last vote and the last promise.
StateOk(i) ==
    LET s == gtx[i].state IN
    /\ ~Prepared(i) => s = NoVote
    /\ Prepared(i) =>
          /\ ~Less(s.proposal, InitialGTxTerm) /\ ~Less(s.proposal, s.accepted)
          /\ s.accepted # InvalidGTxTerm => s.status \in Decree /\ Cast(i, s.accepted, s.status)
          /\ s.accepted = InvalidGTxTerm => s.status = "invalid"
    /\ \A u \in Term, e \in Decree :
          Cast(i, u, e) => Has(i, "P") /\ (Prepared(i) => ~Less(s.accepted, u))

\* What the resolver remembers of a term; one whose votes make a majority would
\* have finished.
Voters(i) ==
    {i} \cup {j \in Node \ {i} : gtx[i].phase2[j].proposal = gtx[i].state.proposal}

ResolverOk(i) ==
    LET g == gtx[i] IN
    /\ \A j \in Node \ {i} : SoundAck(i, j, g.phase1[j])
    /\ \A j \in Node \ {i} : g.phase2[j].proposal # InvalidGTxTerm =>
          \E m \in sent : /\ m.type = "2b" /\ m.from = j /\ m.to = i
                          /\ m.term = g.phase2[j].proposal /\ m.decree = g.phase2[j].status
    /\ Prepared(i) /\ g.state.proposal.node = i =>
          /\ g.stage = "AwaitAcks" => g.state.accepted = g.state.proposal /\ ~Quorum(Voters(i))
          /\ g.stage = "AwaitStatus" => Voters(i) = {i}

\* What the replier remembers of its node stays true.
ReplierOk(i) ==
    LET r == replier[i] IN
    /\ r.at \in {"idle", "scan", "recheck"}
    /\ r.at # "idle" => /\ r.req \in sent /\ r.req.type = "1a" /\ r.req.from # i
                        /\ r.online \in BOOLEAN
    /\ r.at = "scan" => (r.online => later[i] = "online")
    /\ r.at = "recheck" => /\ r.seen \subseteq wal[i]
                           /\ r.online /\ "P" \notin r.seen => Missed

\* Whoever is online in a later generation without the transaction has it from
\* a member.
LogOk(i) ==
    /\ later[i] = "online" /\ ~Has(i, "P") => Missed
    /\ \A kind \in {"CP", "AP"} : Has(i, kind) => Has(i, "P") /\ Justified(kind)
    /\ Has(i, "P") => Has(Coordinator, "P")
    /\ Has(i, "PC") => Has(Coordinator, "PC")

\* The backend holds the lock throughout the commit sequence, so that nobody
\* else votes at its node.
CoordOk ==
    LET s == gtx[Coordinator].state IN
    /\ locked <=> coord \in {"prepared", "ready", "precommitted"}
    /\ coord = "idle" <=> ~Has(Coordinator, "P")
    /\ locked => Prepared(Coordinator)
    /\ coord \in {"prepared", "ready"} => s = Fresh /\ ~Has(Coordinator, "PC")
    /\ coord = "precommitted" =>
          s = Voted(InitialGTxTerm, "precommit") /\ Has(Coordinator, "PC")
    /\ coord = "ready" \/ Has(Coordinator, "PC") => \A j \in Members : Has(j, "P")
    /\ doomed => coord = "done" /\ ~Has(Coordinator, "PC")

NodeOk(i) == StateOk(i) /\ ResolverOk(i) /\ ReplierOk(i) /\ LogOk(i)

IInv ==
    /\ TypeOK
    /\ replier = [i \in Node |-> replier[i]]
    /\ \A m \in sent : SoundMsg(m)
    /\ OneProposal
    /\ \A i \in Node : NodeOk(i)
    /\ CoordOk

\* Leaves are for Zenon, unless they cite SMT.
USE ZenonT(60)

----------------------------------------------------------------------------
(* Terms.                                                                  *)

\* Less (term_cmp) is a strict total order of the terms.
LEMMA TermOrder ==
    ASSUME NEW s \in Term, NEW t \in Term, NEW u \in Term
    PROVE  /\ ~Less(s, s)
           /\ Less(s, t) \/ Less(t, s) \/ s = t
           /\ Less(s, t) => ~Less(t, s)
           /\ Less(s, t) /\ Less(t, u) => Less(s, u)
           /\ Less(s, t) /\ ~Less(u, t) => Less(s, u)
           /\ ~Less(t, s) /\ Less(t, u) => Less(s, u)
           /\ ~Less(s, t) /\ ~Less(t, u) => ~Less(s, u)
<1>1. \A n \in Node \cup {0} : n \in Int
  BY SMTT(30), CommitAssumption
<1>2. \A b \in 0 .. MaxBallot : b \in Int
  BY SMTT(30), CommitAssumption
<1>3. \A v \in Term : v.ballot \in Int /\ v.node \in Int
  BY <1>1, <1>2 DEF Term
<1>4. s.ballot = t.ballot /\ s.node = t.node => s = t
  BY SMTT(30) DEF Term
<1> QED
  BY SMTT(30), <1>3, <1>4 DEF Less

\* The invalid term is the least one, and every ballot of a resolver is above
\* the coordinator's.
LEMMA TermFacts ==
    /\ InvalidGTxTerm \in Term /\ InitialGTxTerm \in Term
    /\ Less(InvalidGTxTerm, InitialGTxTerm) /\ InvalidGTxTerm # InitialGTxTerm
    /\ \A t \in Term : ~Less(t, InvalidGTxTerm)
    /\ \A t \in Term : t.ballot >= 2 =>
          Less(InitialGTxTerm, t) /\ t # InitialGTxTerm /\ t # InvalidGTxTerm
<1>1. \A n \in Node \cup {0} : n \in Nat
  BY SMTT(30), CommitAssumption
<1>2. 0 \in 0 .. MaxBallot /\ 1 \in 0 .. MaxBallot /\ \A b \in 0 .. MaxBallot : b \in Nat
  BY SMTT(30), CommitAssumption
<1>3. \A v \in Term : v.ballot \in Nat /\ v.node \in Nat
  BY <1>1, <1>2 DEF Term
<1>4. InvalidGTxTerm \in Term /\ InitialGTxTerm \in Term
  BY <1>2 DEF Term, InvalidGTxTerm, InitialGTxTerm
<1> QED
  BY SMTT(30), <1>3, <1>4 DEF InvalidGTxTerm, InitialGTxTerm, Less

\* The states the code builds are well formed.
LEMMA StateTypes ==
    /\ NoVote \in GTxState /\ Fresh \in GTxState
    /\ \A t \in Term, d \in Decree : Voted(t, d) \in GTxState
    /\ \A s \in GTxState : s.proposal \in Term /\ s.accepted \in Term
    /\ NoGtx.state = NoVote /\ NoVote.proposal = InvalidGTxTerm
BY TermFacts DEF NoVote, Fresh, Voted, State, GTxState, Decree, NoGtx, GlobalTx

----------------------------------------------------------------------------
(* What every step leaves in place.                                        *)

\* A step of node i: it adds to its WAL and to the messages, promises more and
\* more, and votes only where it has not promised otherwise.
Moves(i) ==
    /\ \A j \in Node \ {i} :
          wal'[j] = wal[j] /\ gtx'[j] = gtx[j] /\ replier'[j] = replier[j] /\ later'[j] = later[j]
    /\ wal[i] \subseteq wal'[i] /\ sent \subseteq sent'
    /\ Prepared(i) /\ Prepared(i)' => ~Less(gtx'[i].state.proposal, gtx[i].state.proposal)
    /\ \A m \in sent' \ sent : m.type \in {"2a", "2b"} =>
          m.from = i /\ Prepared(i) /\ ~Less(m.term, gtx[i].state.proposal)
    /\ Has(i, "PC")' => Has(i, "PC") \/ (Prepared(i) /\ ~Less(InitialGTxTerm, gtx[i].state.proposal))
    /\ later[i] = "online" => later'[i] = "online" /\ (Has(i, "P")' => Has(i, "P"))

\* A vote is never taken back, and a new one is made by the node that moves, in
\* a term not below its promise.
LEMMA CastGrows ==
    ASSUME NEW i \in Node, Moves(i), NEW j \in Node, NEW t, NEW d
    PROVE  /\ Cast(j, t, d) => Cast(j, t, d)'
           /\ Cast(j, t, d)' =>
                 Cast(j, t, d) \/ (j = i /\ Prepared(i) /\ ~Less(t, gtx[i].state.proposal))
<1>1. wal[j] \subseteq wal'[j] /\ sent \subseteq sent'
  BY DEF Moves
<1>2. Cast(j, t, d) => Cast(j, t, d)'
  BY <1>1 DEF Cast, Has
<1>3. ASSUME Cast(j, t, d)', ~Cast(j, t, d)
      PROVE  j = i /\ Prepared(i) /\ ~Less(t, gtx[i].state.proposal)
  <2>1. CASE t = InitialGTxTerm /\ d = "precommit" /\ Has(j, "PC")'
    <3>1. ~Has(j, "PC")
      BY <1>3, <2>1 DEF Cast
    <3>2. j = i
      BY <2>1, <3>1 DEF Moves, Has
    <3> QED
      BY <2>1, <3>1, <3>2 DEF Moves
  <2>2. CASE \E m \in sent' : m.type \in {"2a", "2b"} /\ m.from = j /\ m.term = t /\ m.decree = d
    <3>1. PICK m \in sent' : m.type \in {"2a", "2b"} /\ m.from = j /\ m.term = t /\ m.decree = d
      BY <2>2
    <3>2. m \notin sent
      BY <1>3, <3>1 DEF Cast
    <3> QED
      BY <3>1, <3>2 DEF Moves
  <2> QED
    BY <1>3, <2>1, <2>2 DEF Cast
<1> QED
  BY <1>2, <1>3

\* Who is past a term stays past it, and casts no further vote in it.
LEMMA PastStays ==
    ASSUME TypeOK, TypeOK', NEW i \in Node, Moves(i), NEW j \in Node, NEW t \in Term, Past(j, t)
    PROVE  Past(j, t)' /\ \A d : Cast(j, t, d)' => Cast(j, t, d)
<1>1. wal[j] \subseteq wal'[j]
  BY DEF Moves
<1>2. CASE Finished(j)
  <2>1. Finished(j)' /\ ~Prepared(j)
    BY <1>1, <1>2 DEF Finished, Has, Prepared
  <2> QED
    BY <2>1, CastGrows DEF Past
<1>3. CASE ~Finished(j)
  <2>1. Prepared(j) /\ Less(t, gtx[j].state.proposal)
    BY <1>3 DEF Past
  <2>2. \A d : Cast(j, t, d)' => Cast(j, t, d)
    BY <2>1, CastGrows
  <2>3. Finished(j)' \/ Prepared(j)'
    BY <1>1, <2>1 DEF Finished, Has, Prepared
  <2>4. ASSUME Prepared(j)' PROVE Less(t, gtx'[j].state.proposal)
    <3>1. gtx[j].state.proposal \in Term /\ gtx'[j].state.proposal \in Term
      BY StateTypes DEF TypeOK
    <3>2. ~Less(gtx'[j].state.proposal, gtx[j].state.proposal)
      BY <2>1, <2>4, <3>1, TermOrder DEF Moves
    <3> QED
      BY <2>1, <3>1, <3>2, TermOrder
  <2> QED
    BY <2>2, <2>3, <2>4 DEF Past
<1> QED
  BY <1>2, <1>3

\* Hence what was chosen, what can not be chosen, and what is safe to propose,
\* stay so.
LEMMA ChosenStays ==
    ASSUME TypeOK, TypeOK', NEW i \in Node, Moves(i), NEW t \in Term
    PROVE  /\ \A d : Chosen(t, d) => Chosen(t, d)'
           /\ \A d : NeverChosen(t, d) => NeverChosen(t, d)'
           /\ \A d : SafeAt(t, d) => SafeAt(t, d)'
<1>1. ASSUME NEW d, Chosen(t, d) PROVE Chosen(t, d)'
  BY <1>1, CastGrows DEF Chosen, Quorum
<1>2. ASSUME NEW u \in Term, NEW d, NeverChosen(u, d) PROVE NeverChosen(u, d)'
  <2>1. PICK Q \in SUBSET Node : Quorum(Q) /\ \A j \in Q : Past(j, u) /\ ~Cast(j, u, d)
    BY <1>2 DEF NeverChosen
  <2>2. \A j \in Q : Past(j, u)' /\ ~Cast(j, u, d)'
    BY <2>1, PastStays
  <2>3. Quorum(Q)'
    BY <2>1 DEF Quorum
  <2> QED
    BY <2>2, <2>3 DEF NeverChosen
<1>3. \A d : SafeAt(t, d) => SafeAt(t, d)'
  BY <1>2 DEF SafeAt
<1> QED
  BY <1>1, <1>2, <1>3

\* The reasons to commit or to abort never go away.
LEMMA JustifiedStays ==
    ASSUME TypeOK, TypeOK', NEW i \in Node, Moves(i)
    PROVE  /\ Missed => Missed'
           /\ NeverPrecommitted => NeverPrecommitted'
           /\ \A kind : Justified(kind) => Justified(kind)'
<1>0. Coordinator \in Node /\ Members \subseteq Node
  BY CommitAssumption
<1>1. Missed => Missed'
  <2>1. ASSUME NEW j \in Members, later[j] = "online", ~Has(j, "P")
        PROVE  later'[j] = "online" /\ ~Has(j, "P")'
    BY <1>0, <2>1 DEF Moves, Has
  <2> QED
    BY <2>1 DEF Missed
<1>2. Has(Coordinator, "AP") /\ ~Has(Coordinator, "PC")
        => (Has(Coordinator, "AP") /\ ~Has(Coordinator, "PC"))'
  BY <1>0 DEF Moves, Has, Prepared
<1>3. NeverPrecommitted => NeverPrecommitted'
  BY <1>1, <1>2 DEF NeverPrecommitted
<1>4. ASSUME NEW kind, Justified(kind) PROVE Justified(kind)'
  BY <1>3, <1>4, ChosenStays DEF Justified
<1> QED
  BY <1>1, <1>3, <1>4

\* A term of one's own stays one: the proposal of a node only grows.
LEMMA OwnTermStays ==
    ASSUME TypeOK, TypeOK', NEW i \in Node, Moves(i), NEW k \in Node, NEW t, OwnTerm(k, t)
    PROVE  OwnTerm(k, t)'
<1>1. t \in Term /\ t.node = k /\ t.ballot >= 2 /\ Has(k, "P")'
  BY DEF OwnTerm, Moves, Has
<1>2. ASSUME Prepared(k)' PROVE ~Less(gtx'[k].state.proposal, t)
  <2>1. Prepared(k)
    BY <1>2 DEF OwnTerm, Moves, Has, Prepared
  <2>2. gtx[k].state.proposal \in Term /\ gtx'[k].state.proposal \in Term
    BY StateTypes DEF TypeOK
  <2>3. ~Less(gtx'[k].state.proposal, gtx[k].state.proposal)
    BY SMTT(30), <1>2, <2>1, <2>2, TermOrder DEF Moves
  <2>4. ~Less(gtx[k].state.proposal, t)
    BY <2>1 DEF OwnTerm
  <2> QED
    BY SMTT(30), <1>1, <2>2, <2>3, <2>4, TermOrder
<1> QED
  BY <1>1, <1>2 DEF OwnTerm

\* An acknowledgement stays true however late it is read.
LEMMA SoundAckStays ==
    ASSUME TypeOK, TypeOK', NEW i \in Node, Moves(i), NEW k \in Node, NEW j \in Node,
           NEW s \in GTxState, SoundAck(k, j, s)
    PROVE  SoundAck(k, j, s)'
<1> SUFFICES ASSUME s.proposal # InvalidGTxTerm
             PROVE  /\ OwnTerm(k, s.proposal)'
                    /\ Less(s.accepted, s.proposal)
                    /\ \A u \in Term : Less(u, s.proposal) => Past(j, u)'
                    /\ s.accepted # InvalidGTxTerm =>
                          s.status \in Decree /\ Cast(j, s.accepted, s.status)'
                    /\ s.accepted = InvalidGTxTerm => s.status = "invalid"
                    /\ \A u \in Term, e \in Decree :
                          Less(u, s.proposal) /\ Cast(j, u, e)' => ~Less(s.accepted, u)
  BY DEF SoundAck
<1>1. OwnTerm(k, s.proposal)'
  BY OwnTermStays DEF SoundAck
<1>2. \A u \in Term : Less(u, s.proposal) => Past(j, u)
  BY DEF SoundAck
<1>3. \A u \in Term : Less(u, s.proposal) => Past(j, u)' /\ \A d : Cast(j, u, d)' => Cast(j, u, d)
  BY <1>2, PastStays
<1>4. s.accepted # InvalidGTxTerm => s.status \in Decree /\ Cast(j, s.accepted, s.status)'
  BY CastGrows DEF SoundAck
<1> QED
  BY <1>1, <1>3, <1>4 DEF SoundAck

\* What was true of a message stays so.
LEMMA SoundMsgStays ==
    ASSUME TypeOK, TypeOK', NEW i \in Node, Moves(i), NEW m \in sent, SoundMsg(m)
    PROVE  SoundMsg(m)'
<1>1. \A j \in Node, k \in {"P", "PC"} : Has(j, k) => Has(j, k)'
  BY DEF Moves, Has
<1>2. m.type \in {"prepared", "precommitted", "1a", "1b", "2a", "2b", "finish"} /\ m.from \in Node
  BY DEF SoundMsg
<1>3. m.type \in {"prepared", "precommitted", "1a"} => SoundMsg(m)'
  BY <1>1, <1>2, OwnTermStays DEF SoundMsg
<1>4. m.type = "1b" => SoundMsg(m)'
  BY <1>2, SoundAckStays, JustifiedStays DEF SoundMsg
<1>5. m.type = "2a" => SoundMsg(m)'
  <2> SUFFICES ASSUME m.type = "2a" PROVE SoundMsg(m)'
    OBVIOUS
  <2>1. /\ OwnTerm(m.from, m.term) /\ m.decree \in Decree
        /\ SafeAt(m.term, m.decree)
        /\ m.decree = "precommit" => Has(Coordinator, "PC")
    BY DEF SoundMsg
  <2>2. m.term \in Term /\ OwnTerm(m.from, m.term)'
    BY <1>2, <2>1, OwnTermStays DEF OwnTerm
  <2>3. SafeAt(m.term, m.decree)'
    BY <2>1, <2>2, ChosenStays
  <2>4. m.decree = "precommit" => Has(Coordinator, "PC")'
    BY <1>1, <2>1, CommitAssumption
  <2> QED
    BY <1>2, <2>1, <2>2, <2>3, <2>4 DEF SoundMsg
<1>6. m.type = "2b" => SoundMsg(m)'
  BY <1>2 DEF SoundMsg, Moves
<1>7. m.type = "finish" => SoundMsg(m)'
  BY <1>2, JustifiedStays DEF SoundMsg
<1> QED
  BY <1>2, <1>3, <1>4, <1>5, <1>6, <1>7

----------------------------------------------------------------------------
(* What a step of one node leaves to the others.                           *)

\* Promises and votes of a node that does not move.
LEMMA ResolverStays ==
    ASSUME IInv, TypeOK', NEW i \in Node, Moves(i), NEW j \in Node,
           gtx'[j] = gtx[j], Prepared(j)' => Prepared(j)
    PROVE  ResolverOk(j)'
<1>1. TypeOK /\ ResolverOk(j)
  BY DEF IInv, NodeOk
<1>2. \A k \in Node : gtx[j].phase1[k] \in GTxState
  BY SMTT(30), <1>1 DEF TypeOK
<1>3. \A k \in Node \ {j} : SoundAck(j, k, gtx[j].phase1[k])'
  BY <1>1, <1>2, SoundAckStays DEF ResolverOk
<1>4. sent \subseteq sent'
  BY DEF Moves
<1>5. Voters(j)' = Voters(j)
  BY DEF Voters
<1>6. Quorum(Voters(j))' <=> Quorum(Voters(j))
  BY <1>5 DEF Quorum
<1> QED
  BY SMTT(30), <1>1, <1>3, <1>4, <1>5, <1>6 DEF ResolverOk

\* What the replier of j remembers outlasts the steps of others.
LEMMA ReplierStays ==
    ASSUME IInv, TypeOK', NEW i \in Node, Moves(i), NEW j \in Node, replier'[j] = replier[j]
    PROVE  ReplierOk(j)'
<1>1. TypeOK /\ ReplierOk(j)
  BY DEF IInv, NodeOk
<1>2. wal[j] \subseteq wal'[j] /\ sent \subseteq sent' /\ (later[j] = "online" => later'[j] = "online")
  BY DEF Moves
<1> QED
  BY <1>1, <1>2, JustifiedStays DEF ReplierOk

\* The state of a transaction that is left alone stays right.
LEMMA StateStays ==
    ASSUME IInv, TypeOK', NEW i \in Node, Moves(i), NEW j \in Node,
           gtx'[j].state = gtx[j].state, wal'[j] = wal[j],
           \A u, e : Cast(j, u, e)' => Cast(j, u, e)
    PROVE  StateOk(j)'
<1>1. StateOk(j) /\ (Prepared(j)' <=> Prepared(j)) /\ (Has(j, "P")' <=> Has(j, "P"))
  BY DEF IInv, NodeOk, Prepared, Has
<1>2. \A t, d : Cast(j, t, d) => Cast(j, t, d)'
  BY CastGrows
<1> QED
  BY <1>1, <1>2 DEF StateOk

\* So does the log.
LEMMA LogStays ==
    ASSUME IInv, TypeOK', NEW i \in Node, Moves(i), NEW j \in Node,
           wal'[j] = wal[j], later'[j] = later[j]
    PROVE  LogOk(j)'
<1>1. TypeOK /\ LogOk(j)
  BY DEF IInv, NodeOk
<1>2. wal[Coordinator] \subseteq wal'[Coordinator]
  BY CommitAssumption DEF Moves
<1> QED
  BY <1>1, <1>2, JustifiedStays DEF LogOk, Has

\* A step of i keeps what is said of all the other nodes.
LEMMA OthersKeep ==
    ASSUME IInv, TypeOK', NEW i \in Node, Moves(i)
    PROVE  \A j \in Node \ {i} : NodeOk(j)'
<1> TAKE j \in Node \ {i}
<1>1. wal'[j] = wal[j] /\ gtx'[j] = gtx[j] /\ replier'[j] = replier[j] /\ later'[j] = later[j]
  BY DEF Moves
<1>2. \A u, e : Cast(j, u, e)' => Cast(j, u, e)
  BY CastGrows
<1>3. StateOk(j)'
  BY <1>1, <1>2, StateStays
<1>4. ResolverOk(j)'
  BY <1>1, ResolverStays DEF Prepared, Has
<1>5. ReplierOk(j)' /\ LogOk(j)'
  BY <1>1, ReplierStays, LogStays
<1> QED
  BY <1>3, <1>4, <1>5 DEF NodeOk

\* The coordinator is not disturbed by others, nor by its own resolver once the
\* backend is done.
LEMMA CoordStays ==
    ASSUME IInv, TypeOK', NEW i \in Node, Moves(i), UNCHANGED <<coord, locked, doomed>>,
           i = Coordinator => /\ ~locked
                              /\ Has(i, "P")' => Has(i, "P")
                              /\ Has(i, "PC")' => Has(i, "PC")
    PROVE  CoordOk'
<1>1. CoordOk /\ Coordinator \in Node /\ Members \subseteq Node
  BY CommitAssumption DEF IInv
<1>2. \A j \in Members : Has(j, "P") => Has(j, "P")'
  BY <1>1 DEF Moves, Has
<1>3. CASE i # Coordinator
  <2>1. wal'[Coordinator] = wal[Coordinator] /\ gtx'[Coordinator] = gtx[Coordinator]
    BY <1>1, <1>3 DEF Moves
  <2> QED
    BY <1>1, <1>2, <2>1 DEF CoordOk, Has, Prepared
<1>4. CASE i = Coordinator
  <2>1. wal[Coordinator] \subseteq wal'[Coordinator]
    BY <1>4 DEF Moves
  <2>2. /\ Has(Coordinator, "P")' <=> Has(Coordinator, "P")
        /\ Has(Coordinator, "PC")' <=> Has(Coordinator, "PC")
    BY <1>4, <2>1 DEF Has
  <2> QED
    BY <1>1, <1>2, <1>4, <2>2 DEF CoordOk
<1> QED
  BY <1>3, <1>4

\* So a step of i keeps the invariant, if its new messages are sound and what is
\* said of i itself and of the coordinator is kept.
LEMMA AllKeep ==
    ASSUME IInv, TypeOK', replier' = [j \in Node |-> replier'[j]], NEW i \in Node, Moves(i),
           \A m \in sent' \ sent : SoundMsg(m)', OneProposal', NodeOk(i)', CoordOk'
    PROVE  IInv'
<1>1. \A m \in sent' : SoundMsg(m)'
  <2>1. \A m \in sent : SoundMsg(m)'
    BY SoundMsgStays DEF IInv
  <2> QED
    BY <2>1
<1>2. \A j \in Node : NodeOk(j)'
  BY OthersKeep
<1> QED
  BY <1>1, <1>2 DEF IInv

\* No new proposal, no new conflict.
LEMMA ProposalsStay ==
    ASSUME IInv, \A m \in sent' \ sent : m.type # "2a"
    PROVE  OneProposal'
BY DEF IInv, OneProposal

----------------------------------------------------------------------------
(* Votes.                                                                  *)

\* Every vote above the first term is for what was proposed in that term, and
\* nobody precommits before the coordinator.
LEMMA CastIsProposed ==
    ASSUME IInv, NEW j \in Node, NEW t, NEW d, Cast(j, t, d)
    PROVE  /\ t \in Term /\ d \in Decree
           /\ d = "precommit" => Has(Coordinator, "PC")
           /\ \/ t = InitialGTxTerm /\ d = "precommit"
              \/ \E m \in sent : /\ m.type = "2a" /\ m.term = t /\ m.decree = d
                                 /\ m.from = j \/ t.node # j
                                 /\ t.ballot >= 2 /\ SafeAt(t, d) /\ t.node = m.from
<1>1. CASE t = InitialGTxTerm /\ d = "precommit" /\ Has(j, "PC")
  <2>1. LogOk(j)
    BY DEF IInv, NodeOk
  <2> QED
    BY <1>1, <2>1, TermFacts DEF LogOk, Decree
<1>2. CASE \E m \in sent : m.type = "2a" /\ m.from = j /\ m.term = t /\ m.decree = d
  <2>1. PICK m \in sent : m.type = "2a" /\ m.from = j /\ m.term = t /\ m.decree = d
    BY <1>2
  <2>2. SoundMsg(m)
    BY DEF IInv
  <2> QED
    BY <2>1, <2>2 DEF SoundMsg, OwnTerm
<1>3. CASE \E m \in sent : m.type = "2b" /\ m.from = j /\ m.term = t /\ m.decree = d
  <2>1. PICK m \in sent : m.type = "2b" /\ m.from = j /\ m.term = t /\ m.decree = d
    BY <1>3
  <2>2. SoundMsg(m)
    BY DEF IInv
  <2>3. PICK n \in sent : n.type = "2a" /\ n.from = m.to /\ n.term = t /\ n.decree = d
    BY <2>1, <2>2 DEF SoundMsg
  <2>4. SoundMsg(n)
    BY DEF IInv
  <2>5. m.to # j /\ t.node = n.from
    BY <2>1, <2>2, <2>3, <2>4 DEF SoundMsg, OwnTerm
  <2> QED
    BY <2>3, <2>4, <2>5 DEF SoundMsg, OwnTerm
<1> QED
  BY <1>1, <1>2, <1>3 DEF Cast

\* All votes of one term are for one decree.
LEMMA OneDecree ==
    ASSUME IInv, NEW j \in Node, NEW k \in Node, NEW t, NEW d, NEW e, Cast(j, t, d), Cast(k, t, e)
    PROVE  d = e
BY SMTT(30), CastIsProposed, TermFacts DEF IInv, OneProposal

----------------------------------------------------------------------------
(* Types.                                                                  *)

Shapes == TypeOK /\ replier = [i \in Node |-> replier[i]]

GtxRecord == [state : GTxState, stage : {"AwaitStatus", "AwaitAcks"},
              phase1 : [Node -> GTxState], phase2 : [Node -> GTxState]]

\* A new GlobalTx is well formed.
LEMMA GtxTypes ==
    /\ NoGtx \in GtxRecord
    /\ \A s \in GTxState : GlobalTx(s) \in GtxRecord
BY StateTypes DEF NoGtx, GlobalTx, GtxRecord

\* A GlobalTx with one part replaced.
LEMMA GtxParts ==
    ASSUME TypeOK, NEW i \in Node
    PROVE  /\ \A s \in GTxState : [gtx EXCEPT ![i].state = s] \in [Node -> GtxRecord]
           /\ \A t \in Term : [gtx EXCEPT ![i].state.proposal = t] \in [Node -> GtxRecord]
           /\ \A t \in Term :
                 [gtx EXCEPT ![i].state.proposal = t, ![i].stage = "AwaitStatus"] \in [Node -> GtxRecord]
           /\ \A a \in [Node -> GTxState] :
                 /\ [gtx EXCEPT ![i].phase1 = a] \in [Node -> GtxRecord]
                 /\ [gtx EXCEPT ![i].phase2 = a] \in [Node -> GtxRecord]
           /\ \A s \in GTxState, a \in [Node -> GTxState] :
                 [gtx EXCEPT ![i].state = s, ![i].stage = "AwaitAcks", ![i].phase1 = a]
                   \in [Node -> GtxRecord]
<1>1. gtx \in [Node -> GtxRecord] /\ gtx[i] \in GtxRecord /\ gtx[i].state \in GTxState
  BY DEF TypeOK, GtxRecord
<1>2. \A t \in Term : [gtx[i].state EXCEPT !.proposal = t] \in GTxState
  BY <1>1 DEF GTxState
<1>3. \A s \in GTxState : [gtx[i] EXCEPT !.state = s] \in GtxRecord
  BY <1>1 DEF GtxRecord
<1>4. \A a \in [Node -> GTxState] :
        [gtx[i] EXCEPT !.phase1 = a] \in GtxRecord /\ [gtx[i] EXCEPT !.phase2 = a] \in GtxRecord
  BY <1>1 DEF GtxRecord
<1>5. \A s \in GTxState : [gtx EXCEPT ![i].state = s] \in [Node -> GtxRecord]
  BY <1>1, <1>3
<1>6. \A a \in [Node -> GTxState] :
        /\ [gtx EXCEPT ![i].phase1 = a] \in [Node -> GtxRecord]
        /\ [gtx EXCEPT ![i].phase2 = a] \in [Node -> GtxRecord]
  BY <1>1, <1>4
<1>7. \A t \in Term : [gtx EXCEPT ![i].state.proposal = t] \in [Node -> GtxRecord]
  BY <1>1, <1>2, <1>3
<1>8. \A t \in Term :
        [gtx EXCEPT ![i].state.proposal = t, ![i].stage = "AwaitStatus"] \in [Node -> GtxRecord]
  BY <1>1, <1>2, <1>3 DEF GtxRecord
<1>9. \A s \in GTxState, a \in [Node -> GTxState] :
        [gtx EXCEPT ![i].state = s, ![i].stage = "AwaitAcks", ![i].phase1 = a] \in [Node -> GtxRecord]
  BY <1>1 DEF GtxRecord
<1> QED
  BY <1>5, <1>6, <1>7, <1>8, <1>9

\* A GlobalTx that has taken the first vote to precommit.
LEMMA VotedParts ==
    ASSUME TypeOK, NEW i \in Node
    PROVE  [gtx EXCEPT ![i].state = Voted(InitialGTxTerm, "precommit")] \in [Node -> GtxRecord]
<1>1. Voted(InitialGTxTerm, "precommit") \in GTxState
  BY StateTypes, TermFacts DEF Decree
<1> QED
  BY <1>1, GtxParts

\* The types, in steps of the backend and of finish_ready.
LEMMA BackendTypes ==
    ASSUME IInv, Backend \/ ChooseOwn \/ AbortOwn
    PROVE  Shapes'
<1> USE CommitAssumption, GtxTypes, StateTypes, TermFacts DEF GtxRecord
<1>0. Shapes
  BY DEF IInv, Shapes
<1>1. CASE Prepare
  BY <1>0, <1>1 DEF Prepare, Log, NewGtx, Shapes, TypeOK
<1>2. CASE GatherPrepared
  BY <1>0, <1>2 DEF GatherPrepared, Shapes, TypeOK
<1>3. CASE Precommit
  <2>1. gtx' = [gtx EXCEPT ![Coordinator].state = Voted(InitialGTxTerm, "precommit")]
    BY <1>3 DEF Precommit, SetState
  <2>2. gtx' \in [Node -> GtxRecord]
    BY <1>0, <2>1, VotedParts DEF Shapes
  <2> QED
    BY <1>0, <1>3, <2>2 DEF Precommit, Log, Shapes, TypeOK
<1>4. CASE Commit
  BY <1>0, <1>4 DEF Commit, Log, Finish, Shapes, TypeOK
<1>5. CASE Fail
  <2>1. /\ coord' = "done" /\ locked' = FALSE
        /\ Finish(Coordinator, "AP") \/ UNCHANGED <<wal, gtx>>
        /\ UNCHANGED <<doomed, replier, later, sent>>
    BY <1>5 DEF Fail
  <2>2. CASE Finish(Coordinator, "AP")
    BY <1>0, <2>1, <2>2 DEF Log, Finish, Shapes, TypeOK
  <2>3. CASE UNCHANGED <<wal, gtx>>
    BY <1>0, <2>1, <2>3 DEF Shapes, TypeOK
  <2> QED
    BY <2>1, <2>2, <2>3
<1>6. CASE ChooseOwn
  BY <1>0, <1>6 DEF ChooseOwn, backendVars, Shapes, TypeOK
<1>7. CASE AbortOwn
  <2>1. /\ doomed' = FALSE /\ UNCHANGED <<coord, locked, replier, later, sent>>
        /\ Finish(Coordinator, "AP") \/ UNCHANGED <<wal, gtx>>
    BY <1>7 DEF AbortOwn, backendVars
  <2>2. CASE Finish(Coordinator, "AP")
    BY <1>0, <2>1, <2>2 DEF Log, Finish, Shapes, TypeOK
  <2>3. CASE UNCHANGED <<wal, gtx>>
    BY <1>0, <2>1, <2>3 DEF Shapes, TypeOK
  <2> QED
    BY <2>1, <2>2, <2>3
<1> QED
  BY <1>1, <1>2, <1>3, <1>4, <1>5, <1>6, <1>7 DEF Backend

\* The types, in steps of apply workers and of generation switches.
LEMMA ApplierTypes ==
    ASSUME IInv, NEW i \in Node, Apply(i) \/ Generation(i)
    PROVE  Shapes'
<1> USE GtxTypes, StateTypes, TermFacts DEF backendVars, GtxRecord
<1>0. Shapes
  BY DEF IInv, Shapes
<1>1. CASE ApplyPrepare(i)
  BY <1>0, <1>1 DEF ApplyPrepare, Log, NewGtx, Shapes, TypeOK
<1>2. CASE ApplyPrecommit(i)
  <2>1. gtx' = [gtx EXCEPT ![i].state = Voted(InitialGTxTerm, "precommit")]
    BY <1>2 DEF ApplyPrecommit, TakePrecommit, SetState
  <2>2. gtx' \in [Node -> GtxRecord]
    BY <1>0, <2>1, VotedParts DEF Shapes
  <2> QED
    BY <1>0, <1>2, <2>2 DEF ApplyPrecommit, TakePrecommit, Log, Shapes, TypeOK
<1>3. ASSUME NEW j \in Node, NEW kind \in {"CP", "AP"}, ApplyFinish(i, j, kind) PROVE Shapes'
  BY <1>0, <1>3 DEF ApplyFinish, Log, Finish, Shapes, TypeOK
<1>4. ASSUME NEW to \in {"switched", "online"}, Switch(i, to) PROVE Shapes'
  BY <1>0, <1>4 DEF Switch, Shapes, TypeOK
<1>5. ASSUME NEW d \in Node, RecoverRecord(i, d) PROVE Shapes'
  <2>1. CASE Log(i, "P") /\ NewGtx(i)
    BY <1>0, <1>5, <2>1 DEF RecoverRecord, Log, NewGtx, Shapes, TypeOK
  <2>2. CASE TakePrecommit(i)
    <3>1. gtx' = [gtx EXCEPT ![i].state = Voted(InitialGTxTerm, "precommit")]
      BY <2>2 DEF TakePrecommit, SetState
    <3>2. gtx' \in [Node -> GtxRecord]
      BY <1>0, <3>1, VotedParts DEF Shapes
    <3> QED
      BY <1>0, <1>5, <2>2, <3>2 DEF RecoverRecord, TakePrecommit, Log, Shapes, TypeOK
  <2>3. ASSUME NEW kind \in {"CP", "AP"}, Finish(i, kind) PROVE Shapes'
    BY <1>0, <1>5, <2>3 DEF RecoverRecord, Log, Finish, Shapes, TypeOK
  <2> QED
    BY <1>5, <2>1, <2>2, <2>3 DEF RecoverRecord
<1>6. ASSUME NEW d \in Node, GetOnline(i, d) PROVE Shapes'
  BY <1>0, <1>6 DEF GetOnline, Shapes, TypeOK
<1> QED
  BY <1>1, <1>2, <1>3, <1>4, <1>5, <1>6 DEF Apply, Generation

\* A new ballot has a term of one's own, above whatever was promised.
LEMMA NextTermType ==
    ASSUME TypeOK, NEW i \in Node, NextTerm(i).ballot <= MaxBallot, Prepared(i) , StateOk(i)
    PROVE  /\ NextTerm(i) \in Term /\ NextTerm(i).node = i /\ NextTerm(i).ballot >= 2
           /\ Less(gtx[i].state.proposal, NextTerm(i))
<1>1. gtx[i].state.proposal \in Term /\ ~Less(gtx[i].state.proposal, InitialGTxTerm)
  BY StateTypes DEF TypeOK, StateOk
<1>2. /\ gtx[i].state.proposal.ballot \in 0 .. MaxBallot
      /\ gtx[i].state.proposal.node \in Node \cup {0}
  BY <1>1 DEF Term
<1>3. gtx[i].state.proposal.ballot \in Nat /\ gtx[i].state.proposal.node \in Nat /\ MaxBallot \in Nat
  <2>1. \A n \in Node \cup {0} : n \in Nat
    BY SMTT(30), CommitAssumption
  <2>2. MaxBallot \in Nat /\ \A b \in 0 .. MaxBallot : b \in Nat
    BY SMTT(30), CommitAssumption
  <2> QED
    BY <1>2, <2>1, <2>2
<1>4. gtx[i].state.proposal.ballot >= 1
  BY SMTT(30), <1>1, <1>3 DEF Less, InitialGTxTerm
<1>5. NextTerm(i).ballot = gtx[i].state.proposal.ballot + 1 /\ NextTerm(i).node = i
  BY DEF NextTerm
<1>6. NextTerm(i).ballot \in 0 .. MaxBallot
  BY SMTT(30), <1>3, <1>4, <1>5
<1>7. NextTerm(i) \in Term
  BY <1>6 DEF NextTerm, Term
<1> QED
  BY SMTT(30), <1>3, <1>4, <1>5, <1>7 DEF Less

\* The types, in steps of the resolver.
LEMMA ResolverTypes ==
    ASSUME IInv, NEW i \in Node, Resolver(i)
    PROVE  Shapes'
<1> USE GtxTypes, StateTypes, TermFacts DEF backendVars, GtxRecord
<1>0. Shapes /\ StateOk(i)
  BY DEF IInv, Shapes, NodeOk
<1>1. CASE ScatterStatusRequests(i)
  <2>1. NextTerm(i) \in Term
    BY <1>0, <1>1, NextTermType DEF ScatterStatusRequests, Shapes
  <2> QED
    BY <1>0, <1>1, <2>1, GtxParts DEF ScatterStatusRequests, Shapes, TypeOK
<1>2. ASSUME NEW m \in sent, m.type = "1b", m.to = i, Handle1b(i, m) PROVE Shapes'
  <2>0. UNCHANGED <<coord, locked, doomed, replier, later>>
    BY <1>2 DEF Handle1b
  <2>1. m.from \in Node /\ m.state \in GTxState
    BY <1>2 DEF IInv, SoundMsg
  <2> DEFINE acks == [gtx[i].phase1 EXCEPT ![i] = gtx[i].state, ![m.from] = m.state]
  <2>2. acks \in [Node -> GTxState]
    BY <1>0, <2>1 DEF Shapes, TypeOK
  <2>3. Decision(acks) \in Decree
    BY DEF Decision, Decree
  <2>4. Voted(gtx[i].state.proposal, Decision(acks)) \in GTxState
    BY <1>0, <2>3 DEF Shapes, TypeOK
  <2> HIDE DEF acks
  <2>5. CASE gtx' = [gtx EXCEPT ![i].state = Voted(gtx[i].state.proposal, Decision(acks)),
                                ![i].stage = "AwaitAcks", ![i].phase1 = acks] /\ UNCHANGED wal
    BY <1>0, <2>0, <2>2, <2>4, <2>5, GtxParts DEF Shapes, TypeOK
  <2>6. CASE gtx' = [gtx EXCEPT ![i].phase1 = acks] /\ UNCHANGED wal
    BY <1>0, <2>0, <2>2, <2>6, GtxParts DEF Shapes, TypeOK
  <2>7. CASE Finish(i, Outcome(m.state.status))
    BY <1>0, <1>2, <2>7 DEF Handle1b, Shapes, TypeOK, Finish, Log, Outcome
  <2> QED
    BY <1>2, <2>5, <2>6, <2>7 DEF Handle1b, acks
<1>3. ASSUME NEW m \in sent, m.type = "2b", m.to = i, Handle2b(i, m) PROVE Shapes'
  <2>0. UNCHANGED <<coord, locked, doomed, replier, later>>
    BY <1>3 DEF Handle2b
  <2>1. m.from \in Node /\ m.term \in Term /\ m.decree \in Decree
    <3>1. PICK n \in sent : n.type = "2a" /\ n.term = m.term /\ n.decree = m.decree
      BY <1>3 DEF IInv, SoundMsg
    <3> QED
      BY <1>3, <3>1 DEF IInv, SoundMsg, OwnTerm
  <2> DEFINE acks == [gtx[i].phase2 EXCEPT ![i] = gtx[i].state, ![m.from] = Voted(m.term, m.decree)]
  <2>2. acks \in [Node -> GTxState]
    BY <1>0, <2>1 DEF Shapes, TypeOK
  <2> HIDE DEF acks
  <2>3. CASE gtx' = [gtx EXCEPT ![i].phase2 = acks] /\ UNCHANGED wal
    BY <1>0, <2>0, <2>2, <2>3, GtxParts DEF Shapes, TypeOK
  <2>4. CASE Finish(i, Outcome(m.decree))
    BY <1>0, <1>3, <2>4 DEF Handle2b, Shapes, TypeOK, Finish, Log, Outcome
  <2> QED
    BY <1>3, <2>3, <2>4 DEF Handle2b, acks
<1> QED
  BY <1>1, <1>2, <1>3 DEF Resolver

\* The types, in a promise.
LEMMA PromiseTypes ==
    ASSUME IInv, NEW i \in Node, NEW m \in sent, m.type = "1a", Promise(i, m)
    PROVE  gtx' \in [Node -> GtxRecord]
<1>1. m.term \in Term /\ TypeOK
  BY DEF IInv, SoundMsg, OwnTerm
<1>2. CASE UNCHANGED gtx
  BY <1>1, <1>2 DEF TypeOK, GtxRecord
<1>3. CASE SetState(i, [gtx[i].state EXCEPT !.proposal = m.term])
  <2>1. [gtx[i].state EXCEPT !.proposal = m.term] \in GTxState
    BY <1>1 DEF TypeOK, GTxState
  <2> QED
    BY <1>1, <1>3, <2>1, GtxParts DEF SetState
<1> QED
  BY <1>2, <1>3 DEF Promise

\* The types, in steps of the replier.
LEMMA ReplierTypes ==
    ASSUME IInv, NEW i \in Node, Replier(i)
    PROVE  Shapes'
<1> USE GtxTypes, StateTypes, TermFacts DEF backendVars, GtxRecord
<1>0. Shapes /\ ReplierOk(i)
  BY DEF IInv, Shapes, NodeOk
<1>1. ASSUME NEW m \in sent, m.type = "1a", Handle1a(i, m) PROVE Shapes'
  BY <1>0, <1>1, PromiseTypes DEF Handle1a, Shapes, TypeOK
<1>2. CASE ScanWal(i)
  BY <1>0, <1>2 DEF ScanWal, Shapes, TypeOK
<1>3. CASE Recheck(i)
  <2>1. replier[i].req \in sent /\ replier[i].req.type = "1a"
    BY <1>0, <1>3 DEF Recheck, ReplierOk
  <2>2. CASE Promise(i, replier[i].req)
    BY <1>0, <1>3, <2>1, <2>2, PromiseTypes DEF Recheck, Shapes, TypeOK
  <2>3. CASE UNCHANGED gtx
    BY <1>0, <1>3, <2>3 DEF Recheck, Shapes, TypeOK
  <2> QED
    BY <1>3, <2>2, <2>3 DEF Recheck
<1>4. ASSUME NEW m \in sent, m.type = "2a", Handle2a(i, m) PROVE Shapes'
  <2>1. m.term \in Term /\ m.decree \in Decree
    BY <1>4 DEF IInv, SoundMsg, OwnTerm
  <2> QED
    BY <1>0, <1>4, <2>1 DEF Handle2a, SetState, Shapes, TypeOK
<1>5. ASSUME NEW m \in sent, m.type = "finish", HandleFinish(i, m) PROVE Shapes'
  <2>1. m.kind \in {"CP", "AP"}
    BY <1>5 DEF IInv, SoundMsg
  <2> QED
    BY <1>0, <1>5, <2>1 DEF HandleFinish, Finish, Log, Shapes, TypeOK
<1> QED
  BY <1>1, <1>2, <1>3, <1>4, <1>5 DEF Replier

\* The types, in crashes and restarts.
LEMMA FailureTypes ==
    ASSUME IInv, NEW i \in Node, Crash(i) \/ MonitorRestart(i)
    PROVE  Shapes'
<1>0. Shapes /\ Reload(i)
  BY DEF IInv, Shapes, Crash, MonitorRestart
<1>1. wal' = wal /\ later' = later /\ wal \in [Node -> SUBSET {"P", "PC", "CP", "AP"}]
      /\ later \in [Node -> {"same", "switched", "online"}]
  BY <1>0 DEF Reload, Shapes, TypeOK
<1>2. locked' \in BOOLEAN /\ doomed' \in BOOLEAN
  BY <1>0 DEF Reload
<1>3. coord' \in {"idle", "prepared", "ready", "precommitted", "done"}
  BY <1>0 DEF Crash, MonitorRestart, Shapes, TypeOK
<1>4. gtx' \in [Node -> GtxRecord] /\ replier' = [j \in Node |-> replier'[j]]
  BY <1>0, GtxTypes DEF Reload, Shapes, TypeOK, GtxRecord
<1> QED
  BY <1>1, <1>2, <1>3, <1>4 DEF Shapes, TypeOK, GtxRecord

----------------------------------------------------------------------------
(* What the actions have in common.                                        *)

\* SetPreparedTransactionState changes the state of one node and nothing else.
LEMMA SetStateParts ==
    ASSUME TypeOK, NEW i \in Node, NEW s, SetState(i, s)
    PROVE  /\ gtx'[i].state = s /\ gtx'[i].stage = gtx[i].stage
           /\ gtx'[i].phase1 = gtx[i].phase1 /\ gtx'[i].phase2 = gtx[i].phase2
           /\ \A j \in Node \ {i} : gtx'[j] = gtx[j]
BY DEF TypeOK, SetState

\* Writing a record changes the log of one node.
LEMMA LogParts ==
    ASSUME TypeOK, NEW i \in Node, NEW kind, Log(i, kind)
    PROVE  /\ wal'[i] = wal[i] \cup {kind}
           /\ \A j \in Node \ {i} : wal'[j] = wal[j]
BY DEF TypeOK, Log

\* A new GlobalTx has no acknowledgements.
LEMMA FreshParts ==
    ASSUME NEW i \in Node, NEW s
    PROVE  /\ GlobalTx(s).state = s /\ GlobalTx(s).stage = "AwaitStatus"
           /\ \A j \in Node : /\ GlobalTx(s).phase1[j].proposal = InvalidGTxTerm
                              /\ GlobalTx(s).phase2[j].proposal = InvalidGTxTerm
BY DEF GlobalTx, NoVote, State

\* A resolver that remembers nothing.
LEMMA EmptyResolver ==
    ASSUME TypeOK', NEW i \in Node, NEW s, gtx'[i] = GlobalTx(s), Prepared(i)' => s.proposal # InvalidGTxTerm
    PROVE  ResolverOk(i)'
<1>1. \A j \in Node : /\ gtx'[i].phase1[j].proposal = InvalidGTxTerm
                      /\ gtx'[i].phase2[j].proposal = InvalidGTxTerm
  BY SMTT(30), FreshParts
<1>2. \A j \in Node : SoundAck(i, j, gtx[i].phase1[j])'
  BY <1>1 DEF SoundAck
<1>3. Prepared(i)' => Voters(i)' = {i}
  BY SMTT(30), <1>1, FreshParts DEF Voters
<1>4. gtx'[i].stage = "AwaitStatus"
  BY FreshParts
<1> QED
  BY <1>1, <1>2, <1>3, <1>4 DEF ResolverOk

\* The transaction is made known to i by PREPARE.
LEMMA PrepareKeeps ==
    ASSUME IInv, TypeOK', NEW i \in Node, ~Has(i, "P"), Log(i, "P"), NewGtx(i),
           UNCHANGED <<replier, later>>, later[i] # "online", Has(Coordinator, "P")',
           sent \subseteq sent', \A m \in sent' \ sent : m.type \notin {"2a", "2b"}
    PROVE  Moves(i) /\ NodeOk(i)'
<1>0. TypeOK /\ StateOk(i) /\ LogOk(i)
  BY DEF IInv, NodeOk
<1>1. wal'[i] = wal[i] \cup {"P"} /\ \A j \in Node \ {i} : wal'[j] = wal[j]
  BY <1>0, LogParts
<1>2. gtx'[i] = GlobalTx(Fresh) /\ \A j \in Node \ {i} : gtx'[j] = gtx[j]
  BY <1>0 DEF NewGtx, TypeOK
<1>3. ~Prepared(i) /\ ~Has(i, "CP") /\ ~Has(i, "AP")
  BY <1>0 DEF Prepared, LogOk
<1>4. \A u \in Term, e \in Decree : ~Cast(i, u, e)
  BY <1>0 DEF StateOk
<1>5. ~Has(i, "PC")
  BY <1>4, TermFacts DEF Cast, Decree
<1>6. Moves(i)
  BY <1>1, <1>2, <1>3, <1>5 DEF Moves, Has
<1>7. \A u \in Term, e \in Decree : ~Cast(i, u, e)'
  BY <1>3, <1>4, <1>6, CastGrows
<1>8. StateOk(i)'
  <2>1. gtx'[i].state = Fresh /\ Prepared(i)'
    BY <1>1, <1>2, <1>3, FreshParts DEF Prepared, Has
  <2>2. /\ Fresh.proposal = InitialGTxTerm /\ Fresh.accepted = InvalidGTxTerm
        /\ Fresh.status = "invalid"
    BY DEF Fresh, State
  <2> QED
    BY <1>7, <2>1, <2>2, TermFacts, TermOrder DEF StateOk
<1>9. ResolverOk(i)'
  <2>1. Fresh.proposal # InvalidGTxTerm
    BY TermFacts DEF Fresh, State
  <2> QED
    BY <1>2, <2>1, EmptyResolver
<1>10. ReplierOk(i)'
  BY <1>6, ReplierStays
<1>11. LogOk(i)'
  BY <1>1, <1>3, <1>5 DEF LogOk, Has
<1> QED
  BY <1>6, <1>8, <1>9, <1>10, <1>11 DEF NodeOk

\* The transaction is finished at i.
LEMMA FinishKeeps ==
    ASSUME IInv, TypeOK', NEW i \in Node, NEW kind \in {"CP", "AP"}, Prepared(i), Finish(i, kind),
           Justified(kind) \/ Justified(kind)', UNCHANGED <<replier, later>>,
           sent \subseteq sent', \A m \in sent' \ sent : m.type \notin {"2a", "2b"}
    PROVE  Moves(i) /\ NodeOk(i)'
<1>0. TypeOK /\ StateOk(i) /\ LogOk(i)
  BY DEF IInv, NodeOk
<1>1. wal'[i] = wal[i] \cup {kind} /\ \A j \in Node \ {i} : wal'[j] = wal[j]
  BY <1>0, LogParts DEF Finish
<1>2. gtx'[i] = NoGtx /\ \A j \in Node \ {i} : gtx'[j] = gtx[j]
  BY <1>0 DEF Finish, TypeOK
<1>3. ~Prepared(i)' /\ Has(i, "P") /\ Has(i, "P")' /\ (Has(i, "PC")' <=> Has(i, "PC"))
  BY <1>1 DEF Prepared, Has
<1>4. Moves(i)
  BY <1>1, <1>2, <1>3 DEF Moves, Has
<1>5. StateOk(i)'
  BY <1>2, <1>3, StateTypes DEF StateOk
<1>6. ResolverOk(i)'
  BY <1>2, <1>3, EmptyResolver DEF NoGtx
<1>7. ReplierOk(i)'
  BY <1>4, ReplierStays
<1>8. Justified(kind)'
  BY <1>0, <1>4, JustifiedStays
<1>9. wal[Coordinator] \subseteq wal'[Coordinator]
  BY <1>1, CommitAssumption
<1>10. LogOk(i)'
  <2>1. \A k \in {"CP", "AP"} : Has(i, k)' => k = kind
    BY <1>1 DEF Has, Prepared
  <2> QED
    BY <1>0, <1>3, <1>8, <1>9, <2>1 DEF LogOk, Has
<1> QED
  BY <1>4, <1>5, <1>6, <1>7, <1>10 DEF NodeOk

\* A vote that i gives.
LEMMA AcceptState ==
    ASSUME IInv, TypeOK', NEW i \in Node, NEW t \in Term, NEW d \in Decree,
           Prepared(i), ~Less(t, gtx[i].state.proposal), gtx'[i].state = Voted(t, d),
           Cast(i, t, d)', \A u, e : Cast(i, u, e)' => Cast(i, u, e) \/ u = t,
           Prepared(i)'
    PROVE  StateOk(i)'
<1>0. TypeOK /\ StateOk(i)
  BY DEF IInv, NodeOk
<1>1. Voted(t, d).proposal = t /\ Voted(t, d).accepted = t /\ Voted(t, d).status = d
  BY DEF Voted, State
<1>2. gtx[i].state.proposal \in Term /\ gtx[i].state.accepted \in Term
  BY <1>0, StateTypes DEF TypeOK
<1>3. ~Less(gtx[i].state.proposal, InitialGTxTerm) /\ ~Less(gtx[i].state.proposal, gtx[i].state.accepted)
  BY <1>0 DEF StateOk
<1>4. ~Less(t, InitialGTxTerm) /\ ~Less(t, gtx[i].state.accepted)
  BY SMTT(30), <1>2, <1>3, TermOrder, TermFacts
<1>5. t # InvalidGTxTerm
  BY <1>4, TermFacts
<1>6. \A u \in Term, e \in Decree : Cast(i, u, e)' => ~Less(t, u)
  BY <1>0, <1>2, <1>4, TermOrder DEF StateOk
<1>7. Has(i, "P")'
  BY DEF Prepared
<1> QED
  BY <1>1, <1>4, <1>5, <1>6, <1>7, TermOrder DEF StateOk

\* The same in a term that is not its own: the backend's vote, or the one that
\* an applier or a replier gives.
LEMMA AcceptKeeps ==
    ASSUME IInv, TypeOK', NEW i \in Node, NEW t \in Term, NEW d \in Decree,
           Prepared(i), ~Less(t, gtx[i].state.proposal), t.node # i,
           SetState(i, Voted(t, d)), UNCHANGED <<replier, later>>,
           Cast(i, t, d)', \A u, e : Cast(i, u, e)' => Cast(i, u, e) \/ u = t,
           Moves(i), Prepared(i)'
    PROVE  StateOk(i)' /\ ResolverOk(i)' /\ ReplierOk(i)'
<1>0. TypeOK /\ StateOk(i) /\ ResolverOk(i)
  BY DEF IInv, NodeOk
<1>1. /\ gtx'[i].state = Voted(t, d) /\ gtx'[i].stage = gtx[i].stage
      /\ gtx'[i].phase1 = gtx[i].phase1 /\ gtx'[i].phase2 = gtx[i].phase2
  BY <1>0, SetStateParts
<1>2. Voted(t, d).proposal = t
  BY DEF Voted, State
<1>3. StateOk(i)'
  BY <1>1, AcceptState
<1>4. ResolverOk(i)'
  <2>1. \A k \in Node : gtx[i].phase1[k] \in GTxState
    BY SMTT(30), <1>0 DEF TypeOK
  <2>2. \A k \in Node \ {i} : SoundAck(i, k, gtx[i].phase1[k])'
    BY <1>0, <1>1, <2>1, SoundAckStays DEF ResolverOk
  <2>3. sent \subseteq sent'
    BY DEF Moves
  <2> QED
    BY SMTT(30), <1>0, <1>1, <1>2, <2>2, <2>3 DEF ResolverOk
<1>5. ReplierOk(i)'
  BY ReplierStays
<1> QED
  BY <1>3, <1>4, <1>5

\* A promise, with the answer that tells it, or a refusal.
LEMMA PromiseKeeps ==
    ASSUME IInv, TypeOK', NEW i \in Node, NEW m \in sent, m.type = "1a", m.from # i,
           Prepared(i), Promise(i, m), UNCHANGED <<wal, later>>,
           \A j \in Node \ {i} : replier'[j] = replier[j]
    PROVE  /\ Moves(i) /\ StateOk(i)' /\ ResolverOk(i)' /\ LogOk(i)'
           /\ \A n \in sent' \ sent : SoundMsg(n)' /\ n.type = "1b"
<1>0. TypeOK /\ StateOk(i) /\ ResolverOk(i) /\ SoundMsg(m)
  BY DEF IInv, NodeOk
<1>1. m.from \in Node /\ OwnTerm(m.from, m.term) /\ m.term \in Term /\ m.term.node = m.from
  BY <1>0 DEF SoundMsg, OwnTerm
<1>2. gtx[i].state.proposal \in Term /\ gtx[i].state.accepted \in Term /\ gtx[i].state \in GTxState
  BY <1>0, StateTypes DEF TypeOK
<1>3. Prepared(i)' /\ wal' = wal /\ later' = later
  BY DEF Prepared, Has
<1>4. ASSUME NEW s, sent' = sent \cup {[type |-> "1b", from |-> i, to |-> m.from, state |-> s]},
             s \in GTxState, SoundAck(m.from, i, s)', s.status \notin {"commit", "abort"}
      PROVE  \A n \in sent' \ sent : SoundMsg(n)' /\ n.type = "1b"
  BY SMTT(30), <1>1, <1>4 DEF SoundMsg
<1>5. CASE Less(gtx[i].state.proposal, m.term)
  <2>0. PICK s : s = [gtx[i].state EXCEPT !.proposal = m.term]
    OBVIOUS
  <2>1. /\ s \in GTxState /\ s.proposal = m.term
        /\ s.accepted = gtx[i].state.accepted /\ s.status = gtx[i].state.status
    BY <1>1, <1>2, <2>0 DEF GTxState
  <2>2. SetState(i, s) /\ sent' = sent \cup {[type |-> "1b", from |-> i, to |-> m.from, state |-> s]}
    BY <1>5, <2>0 DEF Promise, Reply, Send
  <2>3. /\ gtx'[i].state = s /\ gtx'[i].stage = gtx[i].stage
        /\ gtx'[i].phase1 = gtx[i].phase1 /\ gtx'[i].phase2 = gtx[i].phase2
        /\ \A j \in Node \ {i} : gtx'[j] = gtx[j]
    BY <1>0, <2>2, SetStateParts
  <2>4. Moves(i)
    BY SMTT(30), <1>1, <1>2, <1>3, <1>5, <2>1, <2>2, <2>3, TermOrder DEF Moves, Has
  <2>5. \A u, e : Cast(i, u, e)' <=> Cast(i, u, e)
    BY SMTT(30), <1>3, <2>2 DEF Cast, Has
  <2>6. Less(gtx[i].state.accepted, m.term) /\ ~Less(m.term, InitialGTxTerm)
    BY SMTT(30), <1>0, <1>1, <1>2, <1>5, TermOrder, TermFacts DEF StateOk
  <2>7. StateOk(i)'
    BY SMTT(30), <1>0, <1>1, <1>2, <1>3, <2>1, <2>3, <2>5, <2>6, TermOrder DEF StateOk, Has, Prepared
  <2>8. ResolverOk(i)'
    <3>1. \A k \in Node : gtx[i].phase1[k] \in GTxState
      BY SMTT(30), <1>0 DEF TypeOK
    <3>2. \A k \in Node \ {i} : SoundAck(i, k, gtx[i].phase1[k])'
      BY <1>0, <2>3, <2>4, <3>1, SoundAckStays DEF ResolverOk
    <3> QED
      BY SMTT(30), <1>0, <1>1, <2>1, <2>2, <2>3, <3>2 DEF ResolverOk
  <2>9. SoundAck(m.from, i, s)'
    <3>1. OwnTerm(m.from, m.term)'
      BY <1>0, <1>1, <2>4, OwnTermStays
    <3>2. \A u \in Term : Less(u, m.term) => Past(i, u)'
      BY <1>3, <2>1, <2>3 DEF Past
    <3>3. /\ s.accepted # InvalidGTxTerm => s.status \in Decree /\ Cast(i, s.accepted, s.status)'
          /\ s.accepted = InvalidGTxTerm => s.status = "invalid"
          /\ \A u \in Term, e \in Decree : Cast(i, u, e)' => ~Less(s.accepted, u)
      BY <1>0, <2>1, <2>5 DEF StateOk
    <3> QED
      BY <2>1, <2>6, <3>1, <3>2, <3>3 DEF SoundAck
  <2>10. s.status \notin {"commit", "abort"}
    BY <1>0, <2>1 DEF StateOk, Decree
  <2>11. LogOk(i)'
    BY <1>3, <2>4, LogStays
  <2> QED
    BY <1>4, <2>1, <2>2, <2>4, <2>7, <2>8, <2>9, <2>10, <2>11
<1>6. CASE ~Less(gtx[i].state.proposal, m.term)
  <2>1. gtx' = gtx /\ sent' = sent \cup {[type |-> "1b", from |-> i, to |-> m.from, state |-> NoVote]}
    BY <1>6 DEF Promise, Reply, Send
  <2>2. Moves(i)
    BY SMTT(30), <1>2, <1>3, <2>1, TermOrder DEF Moves, Has
  <2>3. \A u, e : Cast(i, u, e)' => Cast(i, u, e)
    BY SMTT(30), <1>3, <2>1 DEF Cast, Has
  <2>4. StateOk(i)' /\ ResolverOk(i)' /\ LogOk(i)'
    BY <1>3, <2>1, <2>2, <2>3, StateStays, ResolverStays, LogStays
  <2>5. SoundAck(m.from, i, NoVote)' /\ NoVote.status = "invalid" /\ NoVote \in GTxState
    BY StateTypes DEF SoundAck, NoVote, State
  <2> QED
    BY <1>4, <2>1, <2>2, <2>4, <2>5
<1> QED
  BY <1>5, <1>6

----------------------------------------------------------------------------
(* The backend.                                                            *)

\* A step that changes nothing but the backend, or what resolver and replier
\* have in memory.
LEMMA QuietKeeps ==
    ASSUME IInv, TypeOK', NEW i \in Node, UNCHANGED <<wal, gtx, later>>,
           \A j \in Node \ {i} : replier'[j] = replier[j],
           sent \subseteq sent', \A m \in sent' \ sent : m.type \notin {"2a", "2b"}
    PROVE  Moves(i) /\ StateOk(i)' /\ ResolverOk(i)' /\ LogOk(i)'
<1>1. gtx[i].state.proposal \in Term
  BY StateTypes DEF IInv, TypeOK
<1>2. Moves(i)
  BY SMTT(30), <1>1, TermOrder DEF Moves, Has
<1>3. \A u, e : Cast(i, u, e)' => Cast(i, u, e)
  BY DEF Cast, Has
<1> QED
  BY <1>2, <1>3, StateStays, ResolverStays, LogStays DEF Prepared, Has

\* PREPARE of the coordinator: its node has no vote and no promise yet.
LEMMA PrepareStep == ASSUME IInv, Prepare, Shapes' PROVE IInv'
<1>0. Coordinator \in Node /\ TypeOK /\ CoordOk
  BY CommitAssumption DEF IInv
<1>1. /\ coord = "idle" /\ later[Coordinator] = "same" /\ ~Has(Coordinator, "P")
      /\ Log(Coordinator, "P") /\ NewGtx(Coordinator)
      /\ coord' = "prepared" /\ locked' = TRUE /\ UNCHANGED <<doomed, replier, later, sent>>
  BY <1>0 DEF Prepare, CoordOk
<1>2. Has(Coordinator, "P")' /\ (Has(Coordinator, "PC")' <=> Has(Coordinator, "PC"))
  BY SMTT(30), <1>0, <1>1, LogParts DEF Has
<1>3. Moves(Coordinator) /\ NodeOk(Coordinator)'
  BY <1>0, <1>1, <1>2, PrepareKeeps DEF Shapes
<1>4. CoordOk'
  <2>1. ~Has(Coordinator, "CP") /\ ~Has(Coordinator, "AP")
    BY <1>0, <1>1 DEF IInv, NodeOk, LogOk
  <2>2. ~Has(Coordinator, "PC")
    BY <1>0, <1>1, TermFacts DEF IInv, NodeOk, StateOk, Cast, Decree
  <2>3. Prepared(Coordinator)'
    BY SMTT(30), <1>0, <1>1, <2>1, LogParts DEF Prepared, Has
  <2>4. gtx'[Coordinator].state = Fresh
    BY <1>0, <1>1, FreshParts DEF NewGtx, TypeOK
  <2>5. ~doomed
    BY <1>0, <1>1 DEF CoordOk
  <2> QED
    BY <1>1, <1>2, <2>2, <2>3, <2>4, <2>5 DEF CoordOk
<1> QED
  BY <1>0, <1>1, <1>3, <1>4, AllKeep, ProposalsStay DEF Shapes

\* All members have said that they are prepared, so they are.
LEMMA GatherStep == ASSUME IInv, GatherPrepared, Shapes' PROVE IInv'
<1>0. Coordinator \in Node /\ TypeOK /\ CoordOk
  BY CommitAssumption DEF IInv
<1>1. UNCHANGED <<wal, gtx, later, sent, replier, locked, doomed>> /\ coord = "prepared" /\ coord' = "ready"
  BY DEF GatherPrepared
<1>2. Moves(Coordinator) /\ NodeOk(Coordinator)'
  BY <1>0, <1>1, QuietKeeps, ReplierStays DEF Shapes, NodeOk
<1>3. \A j \in Members : Has(j, "P")
  <2>1. \A j \in Members \ {Coordinator} : j \in Acked
    BY DEF GatherPrepared, Hears
  <2>2. \A j \in Acked : Has(j, "P")
    BY SMTT(30) DEF Acked, IInv, SoundMsg
  <2>3. Has(Coordinator, "P")
    BY <1>0, <1>1 DEF CoordOk
  <2> QED
    BY <2>1, <2>2, <2>3
<1>4. CoordOk'
  BY <1>0, <1>1, <1>3 DEF CoordOk, Prepared, Has
<1> QED
  BY <1>0, <1>1, <1>2, <1>4, AllKeep, ProposalsStay DEF Shapes

\* The vote of the coordinator in term (1,0), below which there is none.
LEMMA PrecommitStep == ASSUME IInv, Precommit, Shapes' PROVE IInv'
<1>0. Coordinator \in Node /\ TypeOK /\ CoordOk /\ LogOk(Coordinator)
  BY CommitAssumption DEF IInv, NodeOk
<1>1. /\ coord = "ready" /\ Prepared(Coordinator) /\ coord' = "precommitted"
      /\ Log(Coordinator, "PC") /\ SetState(Coordinator, Voted(InitialGTxTerm, "precommit"))
      /\ UNCHANGED <<locked, doomed, replier, later, sent>>
  BY DEF Precommit
<1>2. wal'[Coordinator] = wal[Coordinator] \cup {"PC"} /\ \A j \in Node \ {Coordinator} : wal'[j] = wal[j]
  BY <1>0, <1>1, LogParts
<1>3. /\ gtx[Coordinator].state = Fresh /\ gtx[Coordinator].state.proposal = InitialGTxTerm
      /\ \A j \in Members : Has(j, "P")
  BY SMTT(30), <1>0, <1>1 DEF CoordOk, Fresh, State
<1>4. ~Less(InitialGTxTerm, InitialGTxTerm) /\ InitialGTxTerm.node # Coordinator
  BY <1>0, TermFacts, TermOrder, CommitAssumption DEF InitialGTxTerm
<1>5. gtx'[Coordinator].state = Voted(InitialGTxTerm, "precommit")
      /\ \A j \in Node \ {Coordinator} : gtx'[j] = gtx[j]
  BY <1>0, <1>1, SetStateParts
<1>6. Prepared(Coordinator)' /\ Has(Coordinator, "PC")' /\ Has(Coordinator, "P")'
  BY <1>1, <1>2 DEF Prepared, Has
<1>7. Moves(Coordinator)
  <2>1. Voted(InitialGTxTerm, "precommit").proposal = InitialGTxTerm
    BY DEF Voted, State
  <2> QED
    BY <1>1, <1>2, <1>3, <1>4, <1>5, <2>1 DEF Moves, Has, Prepared
<1>8. Cast(Coordinator, InitialGTxTerm, "precommit")' /\
      \A u, e : Cast(Coordinator, u, e)' => Cast(Coordinator, u, e) \/ u = InitialGTxTerm
  BY <1>1, <1>6 DEF Cast
<1>9. StateOk(Coordinator)' /\ ResolverOk(Coordinator)' /\ ReplierOk(Coordinator)'
  BY <1>0, <1>1, <1>3, <1>4, <1>6, <1>7, <1>8, TermFacts, AcceptKeeps DEF Shapes, Decree
<1>10. LogOk(Coordinator)'
  <2>1. \A kind \in {"P", "CP", "AP"} : Has(Coordinator, kind)' <=> Has(Coordinator, kind)
    BY <1>2 DEF Has
  <2> QED
    BY <1>0, <1>1, <1>6, <1>7, <2>1, JustifiedStays DEF LogOk, Shapes
<1>11. CoordOk'
  <2>1. \A j \in Members : Has(j, "P")'
    BY <1>2, <1>3, CommitAssumption DEF Has
  <2>2. locked /\ ~doomed
    BY <1>0, <1>1 DEF CoordOk
  <2> QED
    BY <1>1, <1>5, <1>6, <2>1, <2>2 DEF CoordOk
<1> QED
  BY <1>0, <1>1, <1>7, <1>9, <1>10, <1>11, AllKeep, ProposalsStay DEF Shapes, NodeOk

\* The backend commits on the votes of a majority in term (1,0).
LEMMA CommitStep == ASSUME IInv, Commit, Shapes' PROVE IInv'
<1>0. Coordinator \in Node /\ TypeOK /\ CoordOk /\ Members \subseteq Node
  BY CommitAssumption DEF IInv
<1>1. /\ coord = "precommitted" /\ Prepared(Coordinator) /\ coord' = "done" /\ locked' = FALSE
      /\ Finish(Coordinator, "CP") /\ UNCHANGED <<doomed, replier, later, sent>>
      /\ Quorum({Coordinator} \cup (Members \cap Hears(Precommitted)))
  BY DEF Commit
<1>2. Justified("CP")
  <2> DEFINE Q == {Coordinator} \cup (Members \cap Hears(Precommitted))
  <2>1. Has(Coordinator, "PC")
    BY <1>0, <1>1 DEF CoordOk
  <2>2. \A j \in Precommitted : Has(j, "PC")
    BY SMTT(30) DEF Precommitted, IInv, SoundMsg
  <2>3. Q \in SUBSET Node /\ \A j \in Q : Cast(j, InitialGTxTerm, "precommit")
    BY <1>0, <2>1, <2>2 DEF Hears, Cast
  <2>4. Chosen(InitialGTxTerm, "precommit")
    BY <1>1, <2>3 DEF Chosen
  <2> QED
    BY <2>4, TermFacts DEF Justified
<1>3. Moves(Coordinator) /\ NodeOk(Coordinator)'
  BY <1>0, <1>1, <1>2, FinishKeeps DEF Shapes
<1>4. CoordOk'
  <2>1. wal'[Coordinator] = wal[Coordinator] \cup {"CP"} /\ \A j \in Node \ {Coordinator} : wal'[j] = wal[j]
    BY <1>0, <1>1, LogParts DEF Finish
  <2> QED
    BY <1>0, <1>1, <2>1 DEF CoordOk, Has
<1> QED
  BY <1>0, <1>1, <1>3, <1>4, AllKeep, ProposalsStay DEF Shapes

\* The coordinator aborts what it has not precommitted.
LEMMA OwnAbort ==
    ASSUME IInv, Shapes', Prepared(Coordinator), ~Has(Coordinator, "PC"),
           Finish(Coordinator, "AP"), UNCHANGED <<replier, later, sent>>,
           coord' = "done", locked' = FALSE, doomed' => doomed
    PROVE  IInv'
<1>0. Coordinator \in Node /\ TypeOK /\ CoordOk /\ Members \subseteq Node
  BY CommitAssumption DEF IInv
<1>1. wal'[Coordinator] = wal[Coordinator] \cup {"AP"} /\ \A j \in Node \ {Coordinator} : wal'[j] = wal[j]
  BY <1>0, LogParts DEF Finish
<1>2. Justified("AP")'
  BY <1>1 DEF Justified, NeverPrecommitted, Has
<1>3. Moves(Coordinator) /\ NodeOk(Coordinator)'
  BY <1>0, <1>2, FinishKeeps DEF Shapes
<1>4. CoordOk'
  BY <1>0, <1>1 DEF CoordOk, Has, Prepared
<1> QED
  BY <1>0, <1>3, <1>4, AllKeep, ProposalsStay DEF Shapes

\* A failing backend aborts only what it has not precommitted.
LEMMA FailStep == ASSUME IInv, Fail, Shapes' PROVE IInv'
<1>0. Coordinator \in Node /\ TypeOK /\ CoordOk
  BY CommitAssumption DEF IInv
<1>1. /\ coord \in {"prepared", "ready", "precommitted"} /\ coord' = "done" /\ locked' = FALSE
      /\ UNCHANGED <<doomed, replier, later, sent>>
  BY DEF Fail
<1>2. CASE Prepared(Coordinator) /\ gtx[Coordinator].state.accepted = InvalidGTxTerm
  <2>1. coord # "precommitted"
    BY SMTT(30), <1>0, <1>2, TermFacts DEF CoordOk, Voted, State
  <2>2. ~Has(Coordinator, "PC")
    BY <1>0, <1>1, <2>1 DEF CoordOk
  <2>3. Finish(Coordinator, "AP")
    BY <1>2 DEF Fail
  <2> QED
    BY <1>1, <1>2, <2>2, <2>3, OwnAbort
<1>3. CASE ~(Prepared(Coordinator) /\ gtx[Coordinator].state.accepted = InvalidGTxTerm)
  <2>1. UNCHANGED <<wal, gtx>>
    BY <1>3 DEF Fail
  <2>2. Moves(Coordinator) /\ NodeOk(Coordinator)'
    BY <1>0, <1>1, <2>1, QuietKeeps, ReplierStays DEF Shapes, NodeOk
  <2>3. CoordOk'
    BY <1>0, <1>1, <2>1 DEF CoordOk, Has
  <2> QED
    BY <1>0, <1>1, <2>2, <2>3, AllKeep, ProposalsStay DEF Shapes
<1> QED
  BY <1>2, <1>3

\* finish_ready chooses only a transaction of its own without a precommit.
LEMMA ChooseOwnStep == ASSUME IInv, ChooseOwn, Shapes' PROVE IInv'
<1>0. Coordinator \in Node /\ TypeOK /\ CoordOk /\ StateOk(Coordinator)
  BY CommitAssumption DEF IInv, NodeOk
<1>1. /\ UNCHANGED <<wal, gtx, coord, locked, replier, later, sent>>
      /\ Prepared(Coordinator) /\ ~locked /\ gtx[Coordinator].state.status = "invalid"
  BY DEF ChooseOwn, backendVars
<1>2. Moves(Coordinator) /\ NodeOk(Coordinator)'
  BY <1>0, <1>1, QuietKeeps, ReplierStays DEF Shapes, NodeOk
<1>3. ~Has(Coordinator, "PC")
  <2>1. gtx[Coordinator].state.accepted = InvalidGTxTerm
    BY <1>0, <1>1 DEF StateOk, Decree
  <2>2. Has(Coordinator, "PC") => Cast(Coordinator, InitialGTxTerm, "precommit")
    BY DEF Cast
  <2> QED
    BY <1>0, <1>1, <2>1, <2>2, TermFacts DEF StateOk, Decree
<1>4. coord = "done"
  BY <1>0, <1>1 DEF CoordOk, TypeOK, Prepared
<1>5. CoordOk'
  BY <1>0, <1>1, <1>3, <1>4 DEF CoordOk, Has, Prepared
<1> QED
  BY <1>0, <1>1, <1>2, <1>5, AllKeep, ProposalsStay DEF Shapes

\* What finish_ready has chosen is not precommitted when it aborts it.
LEMMA AbortOwnStep == ASSUME IInv, AbortOwn, Shapes' PROVE IInv'
<1>0. Coordinator \in Node /\ TypeOK /\ CoordOk
  BY CommitAssumption DEF IInv
<1>1. doomed /\ doomed' = FALSE /\ UNCHANGED <<coord, locked, replier, later, sent>>
  BY DEF AbortOwn, backendVars
<1>2. coord = "done" /\ ~Has(Coordinator, "PC") /\ ~locked
  BY <1>0, <1>1 DEF CoordOk
<1>3. locked' = FALSE
  BY <1>0, <1>1, <1>2 DEF TypeOK
<1>4. CASE Prepared(Coordinator)
  <2>1. Finish(Coordinator, "AP")
    BY <1>4 DEF AbortOwn
  <2> QED
    BY <1>1, <1>2, <1>3, <1>4, <2>1, OwnAbort
<1>5. CASE ~Prepared(Coordinator)
  <2>1. UNCHANGED <<wal, gtx>>
    BY <1>5 DEF AbortOwn
  <2>2. Moves(Coordinator) /\ NodeOk(Coordinator)'
    BY <1>0, <1>1, <2>1, QuietKeeps, ReplierStays DEF Shapes, NodeOk
  <2>3. CoordOk'
    BY <1>0, <1>1, <1>2, <2>1 DEF CoordOk, Has
  <2> QED
    BY <1>0, <1>1, <2>2, <2>3, AllKeep, ProposalsStay DEF Shapes
<1> QED
  BY <1>4, <1>5

----------------------------------------------------------------------------
(* Appliers and generations.                                               *)

\* A worker applies PREPARE.
LEMMA ApplyPrepareStep ==
    ASSUME IInv, NEW i \in Node, ApplyPrepare(i), Shapes'
    PROVE  IInv'
<1>0. TypeOK /\ Coordinator \in Node
  BY CommitAssumption DEF IInv
<1>1. /\ i # Coordinator /\ Has(Coordinator, "P") /\ ~Has(i, "P") /\ later[i] = "same"
      /\ Log(i, "P") /\ NewGtx(i) /\ UNCHANGED <<coord, locked, doomed, replier, later>>
      /\ sent' = sent \cup {[type |-> "prepared", from |-> i]}
  BY DEF ApplyPrepare, Send, backendVars
<1>2. Has(Coordinator, "P")' /\ Has(i, "P")'
  BY SMTT(30), <1>0, <1>1, LogParts DEF Has
<1>3. Moves(i) /\ NodeOk(i)'
  BY SMTT(30), <1>1, <1>2, PrepareKeeps DEF Shapes
<1>4. \A m \in sent' \ sent : SoundMsg(m)' /\ m.type # "2a"
  BY SMTT(30), <1>1, <1>2 DEF SoundMsg
<1>5. CoordOk'
  BY <1>1, <1>3, CoordStays DEF Shapes
<1> QED
  BY <1>3, <1>4, <1>5, AllKeep, ProposalsStay DEF Shapes

\* The precommit of the coordinator is taken over by a peer.
LEMMA TakePrecommitKeeps ==
    ASSUME IInv, TypeOK', NEW i \in Node, Has(Coordinator, "PC"), TakePrecommit(i),
           UNCHANGED <<replier, later>>, sent \subseteq sent',
           \A m \in sent' \ sent : m.type \notin {"2a", "2b"}
    PROVE  Moves(i) /\ NodeOk(i)'
<1>0. TypeOK /\ LogOk(i) /\ Coordinator \in Node
  BY CommitAssumption DEF IInv, NodeOk
<1>1. /\ Prepared(i) /\ ~Less(InitialGTxTerm, gtx[i].state.proposal)
      /\ Log(i, "PC") /\ SetState(i, Voted(InitialGTxTerm, "precommit"))
  BY DEF TakePrecommit
<1>2. wal'[i] = wal[i] \cup {"PC"} /\ \A j \in Node \ {i} : wal'[j] = wal[j]
  BY <1>0, <1>1, LogParts
<1>3. gtx'[i].state = Voted(InitialGTxTerm, "precommit") /\ \A j \in Node \ {i} : gtx'[j] = gtx[j]
  BY <1>0, <1>1, SetStateParts
<1>4. InitialGTxTerm.node # i /\ Voted(InitialGTxTerm, "precommit").proposal = InitialGTxTerm
  BY CommitAssumption DEF InitialGTxTerm, Voted, State
<1>5. Prepared(i)' /\ Has(i, "PC")'
  BY <1>1, <1>2 DEF Prepared, Has
<1>6. Moves(i)
  BY <1>1, <1>2, <1>3, <1>4 DEF Moves, Has, Prepared
<1>7. Cast(i, InitialGTxTerm, "precommit")' /\
      \A u, e : Cast(i, u, e)' => Cast(i, u, e) \/ u = InitialGTxTerm
  BY <1>5 DEF Cast
<1>8. StateOk(i)' /\ ResolverOk(i)' /\ ReplierOk(i)'
  BY <1>1, <1>4, <1>5, <1>6, <1>7, TermFacts, AcceptKeeps DEF Decree
<1>9. LogOk(i)'
  <2>1. \A kind \in {"P", "CP", "AP"} : Has(i, kind)' <=> Has(i, kind)
    BY <1>2 DEF Has
  <2>2. wal[Coordinator] \subseteq wal'[Coordinator]
    BY <1>0, <1>2
  <2> QED
    BY <1>0, <1>1, <1>6, <2>1, <2>2, JustifiedStays DEF LogOk, Has, Prepared
<1> QED
  BY <1>6, <1>8, <1>9 DEF NodeOk

\* A worker applies PRECOMMIT: a vote of its node in term (1,0), unless the
\* node has promised more.
LEMMA ApplyPrecommitStep ==
    ASSUME IInv, NEW i \in Node, ApplyPrecommit(i), Shapes'
    PROVE  IInv'
<1>1. /\ i # Coordinator /\ Has(Coordinator, "PC") /\ TakePrecommit(i)
      /\ UNCHANGED <<coord, locked, doomed, replier, later>>
      /\ sent' = sent \cup {[type |-> "precommitted", from |-> i]}
  BY DEF ApplyPrecommit, Send, backendVars
<1>2. Moves(i) /\ NodeOk(i)'
  BY SMTT(30), <1>1, TakePrecommitKeeps DEF Shapes
<1>3. Has(i, "PC")'
  BY SMTT(30), <1>1, LogParts DEF IInv, TakePrecommit, Has
<1>4. \A m \in sent' \ sent : SoundMsg(m)' /\ m.type # "2a"
  BY SMTT(30), <1>1, <1>3 DEF SoundMsg
<1>5. CoordOk'
  BY <1>1, <1>2, CoordStays DEF Shapes
<1> QED
  BY <1>2, <1>4, <1>5, AllKeep, ProposalsStay DEF Shapes

\* A node other than a locked coordinator finishes the transaction.
LEMMA FinishStep ==
    ASSUME IInv, NEW i \in Node, NEW kind \in {"CP", "AP"}, Prepared(i), ~Locked(i),
           Finish(i, kind), Justified(kind), UNCHANGED <<coord, locked, doomed, replier, later>>,
           sent \subseteq sent', \A m \in sent' \ sent : SoundMsg(m)' /\ m.type \notin {"2a", "2b"},
           Shapes'
    PROVE  IInv'
<1>1. Moves(i) /\ NodeOk(i)'
  BY FinishKeeps DEF Shapes
<1>2. (Has(i, "P")' <=> Has(i, "P")) /\ (Has(i, "PC")' <=> Has(i, "PC"))
  BY SMTT(30), LogParts DEF IInv, Finish, Has
<1>3. CoordOk'
  BY <1>1, <1>2, CoordStays DEF Shapes, Locked
<1> QED
  BY <1>1, <1>3, AllKeep, ProposalsStay DEF Shapes

\* A worker applies COMMIT PREPARED or ROLLBACK PREPARED of another node.
LEMMA ApplyFinishStep ==
    ASSUME IInv, NEW i \in Node, NEW j \in Node, NEW kind \in {"CP", "AP"}, ApplyFinish(i, j, kind), Shapes'
    PROVE  IInv'
<1>1. Justified(kind)
  BY DEF ApplyFinish, IInv, NodeOk, LogOk
<1> QED
  BY <1>1, FinishStep DEF ApplyFinish, backendVars

\* A switch to a later generation; who goes online in it without the
\* transaction is a reason to abort.
LEMMA SwitchStep ==
    ASSUME IInv, NEW i \in Node, NEW to \in {"switched", "online"}, Switch(i, to), Shapes'
    PROVE  IInv'
<1>0. TypeOK /\ LogOk(i)
  BY DEF IInv, NodeOk
<1>1. /\ later[i] = "same" /\ (to = "online" => i \in Members)
      /\ UNCHANGED <<wal, gtx, coord, locked, doomed, replier, sent>>
      /\ later'[i] = to /\ \A j \in Node \ {i} : later'[j] = later[j]
  BY <1>0 DEF Switch, backendVars, TypeOK
<1>2. gtx[i].state.proposal \in Term
  BY <1>0, StateTypes DEF TypeOK
<1>3. Moves(i)
  BY SMTT(30), <1>1, <1>2, TermOrder DEF Moves, Has
<1>4. \A u, e : Cast(i, u, e)' => Cast(i, u, e)
  BY <1>1 DEF Cast, Has
<1>5. StateOk(i)' /\ ResolverOk(i)' /\ ReplierOk(i)'
  BY <1>1, <1>3, <1>4, StateStays, ResolverStays, ReplierStays DEF Shapes, Prepared, Has
<1>6. LogOk(i)'
  <2>1. (later[i] = "online" /\ ~Has(i, "P"))' => Missed'
    BY <1>1 DEF Missed
  <2> QED
    BY <1>0, <1>1, <1>3, <2>1, JustifiedStays DEF LogOk, Has, Shapes
<1>7. CoordOk'
  BY <1>1 DEF IInv, CoordOk, Has, Prepared
<1> QED
  BY <1>1, <1>3, <1>5, <1>6, <1>7, AllKeep, ProposalsStay DEF Shapes, NodeOk

\* A node goes online in a later generation after a donor.
LEMMA GetOnlineStep ==
    ASSUME IInv, NEW i \in Node, NEW d \in Node, GetOnline(i, d), Shapes'
    PROVE  IInv'
<1>0. TypeOK /\ LogOk(i) /\ LogOk(d)
  BY DEF IInv, NodeOk
<1>1. /\ later[i] = "switched" /\ later[d] = "online" /\ (Has(d, "P") => Has(i, "P"))
      /\ UNCHANGED <<wal, gtx, coord, locked, doomed, replier, sent>>
      /\ later'[i] = "online" /\ \A j \in Node \ {i} : later'[j] = later[j]
  BY <1>0 DEF GetOnline, backendVars, TypeOK
<1>2. gtx[i].state.proposal \in Term
  BY <1>0, StateTypes DEF TypeOK
<1>3. Moves(i)
  BY SMTT(30), <1>1, <1>2, TermOrder DEF Moves, Has
<1>4. \A u, e : Cast(i, u, e)' => Cast(i, u, e)
  BY <1>1 DEF Cast, Has
<1>5. StateOk(i)' /\ ResolverOk(i)' /\ ReplierOk(i)'
  BY <1>1, <1>3, <1>4, StateStays, ResolverStays, ReplierStays DEF Shapes, Prepared, Has
<1>6. LogOk(i)'
  <2>1. ~Has(i, "P") => Missed
    BY <1>0, <1>1 DEF LogOk
  <2> QED
    BY <1>0, <1>1, <1>3, <2>1, JustifiedStays DEF LogOk, Has, Shapes
<1>7. CoordOk'
  BY <1>1 DEF IInv, CoordOk, Has, Prepared
<1> QED
  BY <1>1, <1>3, <1>5, <1>6, <1>7, AllKeep, ProposalsStay DEF Shapes, NodeOk

\* A node in recovery gets a record of its donor.
LEMMA RecoverStep ==
    ASSUME IInv, NEW i \in Node, NEW d \in Node, RecoverRecord(i, d), Shapes'
    PROVE  IInv'
<1>0. TypeOK /\ LogOk(d) /\ CoordOk /\ Coordinator \in Node
  BY CommitAssumption DEF IInv, NodeOk
<1>1. later[i] = "switched" /\ UNCHANGED <<coord, locked, doomed, replier, later, sent>>
  BY DEF RecoverRecord, backendVars
<1>2. CASE Has(d, "P") /\ ~Has(i, "P") /\ Log(i, "P") /\ NewGtx(i)
  <2>1. Has(Coordinator, "P") /\ i # Coordinator
    BY <1>0, <1>2 DEF LogOk
  <2>2. Has(Coordinator, "P")'
    BY <1>0, <1>2, <2>1, LogParts DEF Has
  <2>3. Moves(i) /\ NodeOk(i)'
    BY <1>1, <1>2, <2>2, PrepareKeeps DEF Shapes
  <2>4. CoordOk'
    BY <1>1, <2>1, <2>3, CoordStays DEF Shapes
  <2> QED
    BY <1>1, <2>3, <2>4, AllKeep, ProposalsStay DEF Shapes
<1>3. CASE Has(d, "PC") /\ ~Locked(i) /\ TakePrecommit(i)
  <2>1. Has(Coordinator, "PC")
    BY <1>0, <1>3 DEF LogOk
  <2>2. Moves(i) /\ NodeOk(i)'
    BY <1>1, <1>3, <2>1, TakePrecommitKeeps DEF Shapes
  <2>3. i = Coordinator => ~locked /\ (Has(i, "P")' => Has(i, "P")) /\ (Has(i, "PC")' => Has(i, "PC"))
    BY <1>3, <2>1 DEF Locked, TakePrecommit, Prepared
  <2>4. CoordOk'
    BY <1>1, <2>2, <2>3, CoordStays DEF Shapes
  <2> QED
    BY <1>1, <2>2, <2>4, AllKeep, ProposalsStay DEF Shapes
<1>4. ASSUME NEW kind \in {"CP", "AP"}, Has(d, kind), Prepared(i), ~Locked(i), Finish(i, kind)
      PROVE  IInv'
  BY <1>0, <1>1, <1>4, FinishStep DEF LogOk
<1> QED
  BY <1>2, <1>3, <1>4 DEF RecoverRecord

----------------------------------------------------------------------------
(* The resolver.                                                           *)

\* Acknowledgements of votes are for proposals already made.
LEMMA NoAckAhead ==
    ASSUME IInv, NEW i \in Node, NEW j \in Node \ {i}, Prepared(i), NEW t \in Term,
           t # InvalidGTxTerm, Less(gtx[i].state.proposal, t)
    PROVE  gtx[i].phase2[j].proposal # t
<1> SUFFICES ASSUME gtx[i].phase2[j].proposal = t PROVE FALSE
  OBVIOUS
<1>1. PICK m \in sent : m.type = "2b" /\ m.to = i /\ m.term = t
  BY SMTT(30) DEF IInv, NodeOk, ResolverOk
<1>2. PICK n \in sent : n.type = "2a" /\ n.from = i /\ n.term = t
  BY SMTT(30), <1>1 DEF IInv, SoundMsg
<1>3. OwnTerm(i, t)
  BY SMTT(30), <1>2 DEF IInv, SoundMsg
<1> QED
  BY <1>3 DEF OwnTerm

\* A resolver begins a ballot: a promise to itself.
LEMMA ScatterStep ==
    ASSUME IInv, NEW i \in Node, ScatterStatusRequests(i), Shapes'
    PROVE  IInv'
<1>0. TypeOK /\ StateOk(i) /\ ResolverOk(i)
  BY DEF IInv, NodeOk
<1>1. /\ Prepared(i) /\ ~Locked(i) /\ UNCHANGED <<wal, coord, locked, doomed, replier, later>>
      /\ NextTerm(i).ballot <= MaxBallot
      /\ gtx' = [gtx EXCEPT ![i].state.proposal = NextTerm(i), ![i].stage = "AwaitStatus"]
      /\ sent' = sent \cup {[type |-> "1a", from |-> i, term |-> NextTerm(i)]}
  BY DEF ScatterStatusRequests, Send, backendVars
<1>2. PICK t \in Term : /\ t = NextTerm(i) /\ t.node = i /\ t.ballot >= 2
                        /\ Less(gtx[i].state.proposal, t)
  BY <1>0, <1>1, NextTermType
<1>3. gtx[i].state.proposal \in Term /\ gtx[i].state.accepted \in Term
  BY <1>0, StateTypes DEF TypeOK
<1>4. /\ gtx'[i].state.proposal = t /\ gtx'[i].state.accepted = gtx[i].state.accepted
      /\ gtx'[i].state.status = gtx[i].state.status /\ gtx'[i].stage = "AwaitStatus"
      /\ gtx'[i].phase1 = gtx[i].phase1 /\ gtx'[i].phase2 = gtx[i].phase2
      /\ \A j \in Node \ {i} : gtx'[j] = gtx[j]
  BY SMTT(30), <1>0, <1>1, <1>2 DEF TypeOK, GTxState
<1>5. Prepared(i)' /\ Has(i, "P")'
  BY <1>1 DEF Prepared, Has
<1>6. Moves(i)
  <2>1. ~Less(t, gtx[i].state.proposal)
    BY <1>2, <1>3, TermOrder
  <2>2. \A m \in sent' \ sent : m.type = "1a"
    BY SMTT(30), <1>1
  <2> QED
    BY <1>1, <1>4, <2>1, <2>2 DEF Moves, Has
<1>7. \A u, e : Cast(i, u, e)' <=> Cast(i, u, e)
  BY SMTT(30), <1>1 DEF Cast, Has
<1>8. StateOk(i)'
  <2>1. ~Less(t, InitialGTxTerm) /\ ~Less(t, gtx[i].state.accepted)
    BY SMTT(30), <1>0, <1>1, <1>2, <1>3, TermOrder, TermFacts DEF StateOk
  <2> QED
    BY <1>0, <1>1, <1>4, <1>5, <1>7, <2>1 DEF StateOk
<1>9. ResolverOk(i)'
  <2>1. \A k \in Node : gtx[i].phase1[k] \in GTxState
    BY SMTT(30), <1>0 DEF TypeOK
  <2>2. \A k \in Node \ {i} : SoundAck(i, k, gtx[i].phase1[k])'
    BY <1>0, <1>4, <1>6, <2>1, SoundAckStays DEF ResolverOk, Shapes
  <2>3. \A k \in Node \ {i} : gtx[i].phase2[k].proposal # t
    BY <1>1, <1>2, TermFacts, NoAckAhead
  <2>4. Voters(i)' = {i}
    BY <1>4, <2>3 DEF Voters
  <2>5. \A k \in Node \ {i} : gtx[i].phase2[k].proposal # InvalidGTxTerm =>
          \E m \in sent' : /\ m.type = "2b" /\ m.from = k /\ m.to = i
                           /\ m.term = gtx[i].phase2[k].proposal /\ m.decree = gtx[i].phase2[k].status
    BY <1>0, <1>1 DEF ResolverOk
  <2> QED
    BY SMTT(30), <1>4, <2>2, <2>4, <2>5 DEF ResolverOk
<1>10. ReplierOk(i)' /\ LogOk(i)'
  BY <1>1, <1>6, ReplierStays, LogStays DEF Shapes
<1>11. \A m \in sent' \ sent : SoundMsg(m)' /\ m.type # "2a"
  <2>1. OwnTerm(i, t)'
    BY <1>2, <1>4, <1>5, TermOrder DEF OwnTerm
  <2>2. ASSUME NEW m \in sent' \ sent PROVE m.type = "1a" /\ m.from = i /\ m.term = t
    BY SMTT(30), <1>1, <1>2, <2>2
  <2> QED
    BY <2>1, <2>2 DEF SoundMsg
<1>12. CoordOk'
  BY <1>1, <1>6, CoordStays DEF Shapes, Locked, Has
<1> QED
  BY <1>6, <1>8, <1>9, <1>10, <1>11, <1>12, AllKeep, ProposalsStay DEF Shapes, NodeOk

\* What the resolver of i goes by when the status response m has come.
LEMMA AcksSound ==
    ASSUME IInv, NEW i \in Node, NEW m \in sent, m.type = "1b", m.to = i, NEW acks,
           acks = [gtx[i].phase1 EXCEPT ![i] = gtx[i].state, ![m.from] = m.state]
    PROVE  /\ acks \in [Node -> GTxState] /\ acks[i] = gtx[i].state
           /\ \A j \in Node \ {i} : SoundAck(i, j, acks[j])
           /\ m.from \in Node /\ m.from # i
<1>1. m.from \in Node /\ m.from # i /\ m.state \in GTxState /\ SoundAck(i, m.from, m.state)
  BY DEF IInv, SoundMsg
<1>2. gtx[i].phase1 \in [Node -> GTxState] /\ gtx[i].state \in GTxState
  BY DEF IInv, TypeOK
<1>3. acks \in [Node -> GTxState] /\ acks[i] = gtx[i].state /\ acks[m.from] = m.state
  BY <1>1, <1>2
<1>4. \A j \in Node \ {i, m.from} : acks[j] = gtx[i].phase1[j]
  BY <1>1, <1>2
<1>5. \A j \in Node \ {i} : SoundAck(i, j, gtx[i].phase1[j])
  BY DEF IInv, NodeOk, ResolverOk
<1> QED
  BY <1>1, <1>3, <1>4, <1>5

\* What the resolver remembers is right while it waits for votes.
LEMMA VotingResolver ==
    ASSUME NEW i \in Node, \A j \in Node \ {i} : SoundAck(i, j, gtx[i].phase1[j])',
           \A j \in Node \ {i} : (gtx[i].phase2[j].proposal # InvalidGTxTerm =>
              \E n \in sent : /\ n.type = "2b" /\ n.from = j /\ n.to = i
                              /\ n.term = gtx[i].phase2[j].proposal /\ n.decree = gtx[i].phase2[j].status)',
           gtx'[i].stage = "AwaitAcks", gtx'[i].state.accepted = gtx'[i].state.proposal,
           ~Quorum(Voters(i))'
    PROVE  ResolverOk(i)'
BY DEF ResolverOk

\* A resolver that only remembers what it has been told.
LEMMA RememberStep ==
    ASSUME IInv, Shapes', NEW i \in Node, ~Locked(i),
           UNCHANGED <<wal, coord, locked, doomed, replier, later, sent>>,
           gtx'[i].state = gtx[i].state, \A j \in Node \ {i} : gtx'[j] = gtx[j],
           Moves(i) => ResolverOk(i)'
    PROVE  IInv'
<1>0. TypeOK' /\ TypeOK
  BY DEF IInv, Shapes
<1>1. Moves(i)
  <2>1. ~Less(gtx[i].state.proposal, gtx[i].state.proposal)
    BY SMTT(30), <1>0, StateTypes, TermOrder DEF TypeOK
  <2> QED
    BY <2>1 DEF Moves, Has
<1>2. \A u, e : Cast(i, u, e)' => Cast(i, u, e)
  BY DEF Cast, Has
<1>3. StateOk(i)' /\ ReplierOk(i)' /\ LogOk(i)'
  BY <1>0, <1>1, <1>2, StateStays, ReplierStays, LogStays
<1>4. CoordOk'
  BY <1>0, <1>1, CoordStays DEF Locked, Has
<1>5. NodeOk(i)'
  BY <1>1, <1>3 DEF NodeOk
<1>6. OneProposal'
  BY ProposalsStay
<1> QED
  BY <1>0, <1>1, <1>4, <1>5, <1>6, AllKeep DEF Shapes

----------------------------------------------------------------------------
(* The replier.                                                            *)

\* A step that leaves the coordinator's transaction alone.
LEMMA CoordQuiet ==
    ASSUME IInv, UNCHANGED <<wal, coord, locked, doomed>>, gtx'[Coordinator].state = gtx[Coordinator].state
    PROVE  CoordOk'
<1>1. CoordOk
  BY DEF IInv
<1> QED
  BY <1>1 DEF CoordOk, Has, Prepared

\* A replier that has answered remembers nothing.
LEMMA IdleReplier ==
    ASSUME TypeOK', NEW i \in Node, replier' = [replier EXCEPT ![i] = [at |-> "idle"]],
           replier = [j \in Node |-> replier[j]]
    PROVE  ReplierOk(i)' /\ \A j \in Node \ {i} : replier'[j] = replier[j]
<1>1. replier'[i] = [at |-> "idle"]
  OBVIOUS
<1>2. replier'[i].at = "idle"
  BY <1>1
<1>3. \A j \in Node \ {i} : replier'[j] = replier[j]
  OBVIOUS
<1> QED
  BY <1>2, <1>3 DEF ReplierOk

\* A promise: the answer tells of the last vote below the promised term.
LEMMA PromiseStep ==
    ASSUME IInv, Shapes', NEW i \in Node, NEW m \in sent, m.type = "1a", m.from # i,
           Prepared(i), ~Locked(i), Promise(i, m), UNCHANGED <<wal, coord, locked, doomed, later>>,
           replier' = replier \/ replier' = [replier EXCEPT ![i] = [at |-> "idle"]]
    PROVE  IInv'
<1>0. TypeOK' /\ replier = [j \in Node |-> replier[j]]
  BY DEF IInv, Shapes
<1>1. \A j \in Node \ {i} : replier'[j] = replier[j]
  BY <1>0, IdleReplier
<1>2. /\ Moves(i) /\ StateOk(i)' /\ ResolverOk(i)' /\ LogOk(i)'
      /\ \A n \in sent' \ sent : SoundMsg(n)' /\ n.type = "1b"
  BY <1>0, <1>1, PromiseKeeps
<1>3. ReplierOk(i)'
  BY <1>0, <1>2, IdleReplier, ReplierStays
<1>4. CoordOk'
  BY <1>0, <1>2, CoordStays DEF Locked, Has
<1>5. OneProposal'
  BY <1>2, ProposalsStay
<1>6. NodeOk(i)'
  BY <1>2, <1>3 DEF NodeOk
<1> QED
  BY <1>0, <1>2, <1>4, <1>5, <1>6, AllKeep DEF Shapes

\* Request 1a: promise, answer with the outcome, or begin to scan the WAL.
LEMMA Handle1aStep ==
    ASSUME IInv, Shapes', NEW i \in Node, NEW m \in sent, m.type = "1a", Handle1a(i, m)
    PROVE  IInv'
<1>0. TypeOK' /\ TypeOK /\ replier = [j \in Node |-> replier[j]]
  BY DEF IInv, Shapes
<1>1. /\ m.from # i /\ UNCHANGED <<wal, coord, locked, doomed, later>>
      /\ \/ Prepared(i) /\ ~Locked(i) /\ Promise(i, m) /\ UNCHANGED replier
         \/ /\ replier' = [replier EXCEPT ![i] =
                  [at |-> "scan", req |-> m, online |-> later[i] = "online"]]
            /\ UNCHANGED <<gtx, sent>>
  BY DEF Handle1a, backendVars
<1>2. CASE Prepared(i) /\ ~Locked(i) /\ Promise(i, m) /\ UNCHANGED replier
  BY <1>1, <1>2, PromiseStep
<1>3. CASE /\ replier' = [replier EXCEPT ![i] =
                  [at |-> "scan", req |-> m, online |-> later[i] = "online"]]
           /\ UNCHANGED <<gtx, sent>>
  <2>1. PICK r : r = [at |-> "scan", req |-> m, online |-> later[i] = "online"]
    OBVIOUS
  <2>2. r.at = "scan" /\ r.req = m /\ r.online \in BOOLEAN /\ (r.online => later[i] = "online")
    BY <2>1
  <2>3. replier'[i] = r /\ \A j \in Node \ {i} : replier'[j] = replier[j]
    BY <1>0, <1>3, <2>1
  <2>4. Moves(i) /\ StateOk(i)' /\ ResolverOk(i)' /\ LogOk(i)'
    BY <1>0, <1>1, <1>3, <2>3, QuietKeeps
  <2>5. ReplierOk(i)'
    BY SMTT(30), <1>1, <1>3, <2>2, <2>3 DEF ReplierOk
  <2>6. CoordOk'
    BY <1>1, <1>3, CoordQuiet
  <2>7. NodeOk(i)' /\ OneProposal'
    BY <1>3, <2>4, <2>5, ProposalsStay DEF NodeOk
  <2> QED
    BY <1>0, <1>3, <2>4, <2>6, <2>7, AllKeep DEF Shapes
<1> QED
  BY <1>1, <1>2, <1>3

\* The WAL scan sees what was logged before it ended.
LEMMA ScanStep ==
    ASSUME IInv, Shapes', NEW i \in Node, ScanWal(i)
    PROVE  IInv'
<1>0. TypeOK' /\ TypeOK /\ replier = [j \in Node |-> replier[j]] /\ ReplierOk(i) /\ LogOk(i)
  BY DEF IInv, Shapes, NodeOk
<1>1. PICK r : r = [at |-> "recheck", req |-> replier[i].req, online |-> replier[i].online, seen |-> wal[i]]
  OBVIOUS
<1>2. replier[i].at = "scan" /\ UNCHANGED <<wal, gtx, coord, locked, doomed, later, sent>>
  BY DEF ScanWal, backendVars
<1>3. replier'[i] = r /\ \A j \in Node \ {i} : replier'[j] = replier[j]
  BY <1>0, <1>1 DEF ScanWal
<1>4. /\ r.at = "recheck" /\ r.req = replier[i].req /\ r.online = replier[i].online
      /\ r.seen = wal[i]
  BY <1>1
<1>5. Moves(i) /\ StateOk(i)' /\ ResolverOk(i)' /\ LogOk(i)'
  BY <1>0, <1>2, <1>3, QuietKeeps
<1>6. ReplierOk(i)'
  <2>1. /\ r.req \in sent' /\ r.req.type = "1a" /\ r.req.from # i /\ r.online \in BOOLEAN
        /\ r.online => later[i] = "online"
    BY <1>0, <1>2, <1>4 DEF ReplierOk
  <2>2. r.online /\ "P" \notin r.seen => Missed
    BY <1>0, <1>4, <2>1 DEF LogOk, Has
  <2>3. Missed => Missed'
    BY <1>0, <1>5, JustifiedStays
  <2> QED
    BY <1>2, <1>3, <1>4, <2>1, <2>2, <2>3 DEF ReplierOk
<1>7. CoordOk'
  BY <1>2, CoordQuiet
<1>8. NodeOk(i)' /\ OneProposal'
  BY <1>2, <1>5, <1>6, ProposalsStay DEF NodeOk
<1> QED
  BY <1>0, <1>2, <1>5, <1>7, <1>8, AllKeep DEF Shapes

\* An answer that is no promise.
LEMMA AnswerStep ==
    ASSUME IInv, Shapes', NEW i \in Node, UNCHANGED <<wal, gtx, coord, locked, doomed, later>>,
           NEW q \in sent, q.from # i, replier' = [replier EXCEPT ![i] = [at |-> "idle"]],
           NEW s \in GTxState, s.proposal = InvalidGTxTerm,
           s.status \in {"commit", "abort"} => Justified(Outcome(s.status)), Reply(i, q, s)
    PROVE  IInv'
<1>0. TypeOK' /\ TypeOK /\ replier = [j \in Node |-> replier[j]] /\ q.from \in Node
  BY DEF IInv, Shapes, SoundMsg
<1>1. ReplierOk(i)' /\ \A j \in Node \ {i} : replier'[j] = replier[j]
  BY <1>0, IdleReplier
<1>2. PICK p : p = [type |-> "1b", from |-> i, to |-> q.from, state |-> s]
  OBVIOUS
<1>3. sent' = sent \cup {p} /\ p.type = "1b" /\ p.from = i /\ p.to = q.from /\ p.state = s
  BY <1>2 DEF Reply, Send
<1>4. Moves(i) /\ StateOk(i)' /\ ResolverOk(i)' /\ LogOk(i)'
  BY <1>0, <1>1, <1>3, QuietKeeps
<1>5. \A kind : Justified(kind) => Justified(kind)'
  BY <1>0, <1>4, JustifiedStays
<1>6. SoundMsg(p)'
  <2>1. SoundAck(q.from, i, s)'
    BY DEF SoundAck
  <2> QED
    BY <1>0, <1>3, <1>5, <2>1 DEF SoundMsg
<1>7. CoordOk'
  BY CoordQuiet
<1>8. NodeOk(i)' /\ OneProposal'
  BY <1>1, <1>3, <1>4, ProposalsStay DEF NodeOk
<1> QED
  BY <1>0, <1>3, <1>4, <1>6, <1>7, <1>8, AllKeep DEF Shapes

\* The answer after the scan: by now the transaction may be there; if it is not,
\* a node that was online before the scan never gets it.
LEMMA RecheckStep ==
    ASSUME IInv, Shapes', NEW i \in Node, Recheck(i)
    PROVE  IInv'
<1>0. TypeOK' /\ TypeOK /\ ReplierOk(i) /\ LogOk(i)
  BY DEF IInv, Shapes, NodeOk
<1>1. PICK r : r = replier[i]
  OBVIOUS
<1>2. /\ r.at = "recheck" /\ replier' = [replier EXCEPT ![i] = [at |-> "idle"]]
      /\ UNCHANGED <<wal, coord, locked, doomed, later>>
      /\ \/ "CP" \in r.seen /\ Reply(i, r.req, [NoVote EXCEPT !.status = "commit"]) /\ UNCHANGED gtx
         \/ "AP" \in r.seen /\ Reply(i, r.req, [NoVote EXCEPT !.status = "abort"]) /\ UNCHANGED gtx
         \/ Prepared(i) /\ ~Locked(i) /\ Promise(i, r.req)
         \/ /\ Reply(i, r.req, IF "P" \notin r.seen /\ r.online
                                 THEN [NoVote EXCEPT !.status = "abort"] ELSE NoVote)
            /\ UNCHANGED gtx
  BY <1>1 DEF Recheck, backendVars
<1>3. PICK q \in sent : q = r.req /\ q.type = "1a" /\ q.from # i
  BY <1>0, <1>1, <1>2 DEF ReplierOk
<1>4. r.seen \subseteq wal[i] /\ (r.online /\ "P" \notin r.seen => Missed)
  BY <1>0, <1>1, <1>2 DEF ReplierOk
<1>5. \A v \in {"commit", "abort"} :
        /\ [NoVote EXCEPT !.status = v] \in GTxState
        /\ [NoVote EXCEPT !.status = v].proposal = InvalidGTxTerm
        /\ [NoVote EXCEPT !.status = v].status = v
  BY TermFacts DEF NoVote, State, GTxState
<1>6. Outcome("commit") = "CP" /\ Outcome("abort") = "AP"
  BY DEF Outcome
<1>7. ASSUME NEW v \in {"commit", "abort"}, Justified(Outcome(v)), UNCHANGED gtx,
             Reply(i, q, [NoVote EXCEPT !.status = v])
      PROVE  IInv'
  BY <1>2, <1>3, <1>5, <1>7, AnswerStep
<1>8. CASE "CP" \in r.seen /\ Reply(i, q, [NoVote EXCEPT !.status = "commit"]) /\ UNCHANGED gtx
  <2>1. Justified("CP")
    BY <1>0, <1>4, <1>8 DEF LogOk, Has
  <2> QED
    BY <1>6, <1>7, <1>8, <2>1
<1>9. CASE "AP" \in r.seen /\ Reply(i, q, [NoVote EXCEPT !.status = "abort"]) /\ UNCHANGED gtx
  <2>1. Justified("AP")
    BY <1>0, <1>4, <1>9 DEF LogOk, Has
  <2> QED
    BY <1>6, <1>7, <1>9, <2>1
<1>10. CASE Prepared(i) /\ ~Locked(i) /\ Promise(i, q)
  BY <1>2, <1>3, <1>10, PromiseStep
<1>11. CASE /\ Reply(i, q, IF "P" \notin r.seen /\ r.online
                            THEN [NoVote EXCEPT !.status = "abort"] ELSE NoVote)
            /\ UNCHANGED gtx
  <2>1. CASE "P" \notin r.seen /\ r.online
    <3>1. Justified("AP")
      BY <1>4, <2>1 DEF Justified, NeverPrecommitted
    <3> QED
      BY <1>6, <1>7, <1>11, <2>1, <3>1
  <2>2. CASE ~("P" \notin r.seen /\ r.online)
    <3>1. NoVote \in GTxState /\ NoVote.proposal = InvalidGTxTerm /\ NoVote.status = "invalid"
      BY StateTypes DEF NoVote, State
    <3>2. Reply(i, q, NoVote)
      BY <1>11, <2>2
    <3> QED
      BY <1>2, <1>3, <1>11, <3>1, <3>2, AnswerStep
  <2> QED
    BY <2>1, <2>2
<1> QED
  BY <1>2, <1>3, <1>8, <1>9, <1>10, <1>11

\* Request 2a: a vote in the term of the proposal, if no later one is promised.
LEMMA Handle2aStep ==
    ASSUME IInv, Shapes', NEW i \in Node, NEW m \in sent, m.type = "2a", Handle2a(i, m)
    PROVE  IInv'
<1>0. TypeOK' /\ TypeOK
  BY DEF IInv, Shapes
<1>1. /\ m.from # i /\ Prepared(i) /\ ~Locked(i) /\ ~Less(m.term, gtx[i].state.proposal)
      /\ SetState(i, Voted(m.term, m.decree))
      /\ sent' = sent \cup {[type |-> "2b", from |-> i, to |-> m.from, term |-> m.term, decree |-> m.decree]}
      /\ UNCHANGED <<wal, coord, locked, doomed, replier, later>>
  BY DEF Handle2a, Send, backendVars
<1>2. m.term \in Term /\ m.term.node # i /\ m.decree \in Decree /\ m.from \in Node
  BY <1>1 DEF IInv, SoundMsg, OwnTerm
<1>3. /\ gtx'[i].state = Voted(m.term, m.decree)
      /\ \A j \in Node \ {i} : gtx'[j] = gtx[j]
  BY <1>0, <1>1, SetStateParts
<1>4. gtx'[i].state.proposal = m.term
  BY SMTT(30), <1>3 DEF Voted, State
<1>5. PICK p \in sent' : p = [type |-> "2b", from |-> i, to |-> m.from, term |-> m.term, decree |-> m.decree]
  BY <1>1
<1>6. /\ p.type = "2b" /\ p.from = i /\ p.to = m.from /\ p.term = m.term /\ p.decree = m.decree
      /\ sent' = sent \cup {p}
  BY <1>1, <1>5
<1>7. Prepared(i)'
  BY <1>1 DEF Prepared, Has
<1>8. Moves(i)
  BY <1>1, <1>3, <1>4, <1>6 DEF Moves, Has
<1>9. Cast(i, m.term, m.decree)' /\ \A u, e : Cast(i, u, e)' => Cast(i, u, e) \/ u = m.term
  BY <1>1, <1>6 DEF Cast, Has
<1>10. StateOk(i)' /\ ResolverOk(i)' /\ ReplierOk(i)'
  BY <1>0, <1>1, <1>2, <1>7, <1>8, <1>9, AcceptKeeps
<1>11. LogOk(i)'
  BY <1>0, <1>1, <1>8, LogStays
<1>12. CoordOk'
  BY <1>0, <1>1, <1>8, CoordStays DEF Locked, Has
<1>13. SoundMsg(p)'
  BY <1>1, <1>2, <1>6 DEF SoundMsg
<1>14. OneProposal'
  BY <1>6, ProposalsStay
<1>15. NodeOk(i)'
  BY <1>10, <1>11 DEF NodeOk
<1> QED
  BY <1>0, <1>6, <1>8, <1>12, <1>13, <1>14, <1>15, AllKeep DEF Shapes

\* The requests to commit or to abort.
LEMMA HandleFinishStep ==
    ASSUME IInv, Shapes', NEW i \in Node, NEW m \in sent, m.type = "finish", HandleFinish(i, m)
    PROVE  IInv'
<1>1. PICK kind \in {"CP", "AP"} : kind = m.kind /\ Justified(kind)
  BY SMTT(30) DEF IInv, SoundMsg
<1>2. /\ Prepared(i) /\ ~Locked(i) /\ Finish(i, kind)
      /\ UNCHANGED <<coord, locked, doomed, replier, later, sent>>
  BY <1>1 DEF HandleFinish, backendVars
<1> QED
  BY <1>1, <1>2, FinishStep

----------------------------------------------------------------------------
(* Failures.                                                               *)

\* GTx state is loaded from the WAL: votes and promises stay, acknowledgements
\* do not; at the coordinator, the backend has lost the lock.
LEMMA ReloadStep ==
    ASSUME IInv, Shapes', NEW i \in Node, Reload(i),
           \/ i # Coordinator /\ UNCHANGED coord
           \/ i = Coordinator /\ coord' = IF coord # "idle" THEN "done" ELSE coord
    PROVE  IInv'
<1>0. TypeOK' /\ TypeOK /\ replier = [j \in Node |-> replier[j]] /\ StateOk(i) /\ CoordOk
  BY DEF IInv, Shapes, NodeOk
<1>1. /\ gtx' = [gtx EXCEPT ![i] = GlobalTx(gtx[i].state)]
      /\ replier' = [replier EXCEPT ![i] = [at |-> "idle"]]
      /\ locked' = (locked /\ i # Coordinator) /\ doomed' = (doomed /\ i # Coordinator)
      /\ UNCHANGED <<wal, later, sent>>
  BY DEF Reload
<1>2. gtx[i].state.proposal \in Term
  BY <1>0, StateTypes DEF TypeOK
<1>3. gtx'[i] = GlobalTx(gtx[i].state) /\ \A j \in Node \ {i} : gtx'[j] = gtx[j]
  BY <1>0, <1>1 DEF TypeOK
<1>4. gtx'[i].state = gtx[i].state
  BY SMTT(30), <1>3 DEF GlobalTx
<1>5. ReplierOk(i)' /\ \A j \in Node \ {i} : replier'[j] = replier[j]
  BY <1>0, <1>1, IdleReplier
<1>6. Moves(i)
  <2>1. ~Less(gtx[i].state.proposal, gtx[i].state.proposal)
    BY SMTT(30), <1>2, TermOrder
  <2> QED
    BY <1>1, <1>3, <1>4, <1>5, <2>1 DEF Moves, Has
<1>7. StateOk(i)'
  <2>1. \A u, e : Cast(i, u, e)' => Cast(i, u, e)
    BY <1>1 DEF Cast, Has
  <2> QED
    BY <1>0, <1>1, <1>4, <1>6, <2>1, StateStays
<1>8. ResolverOk(i)'
  <2>1. Prepared(i) => gtx[i].state.proposal # InvalidGTxTerm
    BY <1>0, TermFacts DEF StateOk
  <2>2. Prepared(i)' => Prepared(i)
    BY <1>1 DEF Prepared, Has
  <2> QED
    BY <1>0, <1>3, <2>1, <2>2, EmptyResolver
<1>9. LogOk(i)'
  BY <1>0, <1>1, <1>6, LogStays
<1>10. CoordOk'
  <2>1. CASE i # Coordinator
    <3>1. locked' = locked /\ doomed' = doomed /\ gtx'[Coordinator].state = gtx[Coordinator].state
      BY <1>0, <1>1, <1>3, <2>1, CommitAssumption DEF TypeOK
    <3> QED
      BY <1>1, <2>1, <3>1, CoordQuiet
  <2>2. CASE i = Coordinator
    <3>1. ~locked' /\ ~doomed' /\ coord' \in {"idle", "done"} /\ (coord' = "idle" <=> coord = "idle")
      BY <1>0, <1>1, <2>2 DEF TypeOK
    <3> QED
      BY <1>0, <1>1, <3>1 DEF CoordOk, Has
  <2> QED
    BY <2>1, <2>2
<1>11. NodeOk(i)' /\ OneProposal'
  BY <1>1, <1>5, <1>7, <1>8, <1>9, ProposalsStay DEF NodeOk
<1> QED
  BY <1>0, <1>1, <1>6, <1>10, <1>11, AllKeep DEF Shapes

\* A crash of a node.
LEMMA CrashStep == ASSUME IInv, Shapes', NEW i \in Node, Crash(i) PROVE IInv'
<1>1. Reload(i) /\ coord' = IF i = Coordinator /\ coord # "idle" THEN "done" ELSE coord
  BY DEF Crash
<1>2. CASE i = Coordinator
  BY <1>1, <1>2, ReloadStep
<1>3. CASE i # Coordinator
  BY <1>1, <1>3, ReloadStep
<1> QED
  BY <1>2, <1>3

\* A restart of the monitor of another node than the coordinator.
LEMMA RestartStep ==
    ASSUME IInv, Shapes', NEW i \in Node, MonitorRestart(i), Coordinator \notin Reloading
    PROVE  IInv'
BY ReloadStep DEF MonitorRestart

----------------------------------------------------------------------------
(* Majorities.                                                             *)

INSTANCE FiniteSetTheorems

\* Two majorities of the nodes have a node in common.
LEMMA QuorumsMeet ==
    ASSUME NEW S \in SUBSET Node, NEW T \in SUBSET Node, Quorum(S), Quorum(T)
    PROVE  \E j \in Node : j \in S /\ j \in T
<1>1. IsFiniteSet(Node) /\ IsFiniteSet(S) /\ IsFiniteSet(T)
  BY CommitAssumption, FS_Subset
<1>2. /\ Cardinality(Node) \in Nat
      /\ Cardinality(S) \in Nat
      /\ Cardinality(T) \in Nat
  BY <1>1, FS_CardinalityType
<1>3. Cardinality(S) + Cardinality(T) > Cardinality(Node)
  BY SMTT(30), <1>2 DEF Quorum
<1>4. S \cap T # {}
  BY <1>1, <1>3, FS_MajoritiesIntersect
<1> QED
  BY <1>4

\* With two nodes or more, one alone is no majority.
LEMMA OneIsNotEnough ==
    ASSUME NEW i \in Node, NEW j \in Node, i # j
    PROVE  ~Quorum({i})
<1>1. Cardinality({i}) = 1 /\ Cardinality({i, j}) = 2
  BY SMTT(30), FS_Singleton, FS_AddElement
<1>2. IsFiniteSet(Node) /\ {i, j} \subseteq Node
  BY CommitAssumption
<1>3. Cardinality({i, j}) <= Cardinality(Node) /\ Cardinality(Node) \in Nat
  BY <1>2, FS_Subset, FS_CardinalityType
<1> QED
  BY SMTT(30), <1>1, <1>3 DEF Quorum

\* Two decrees that were chosen, in whatever terms, are the same.
LEMMA ChosenAgree ==
    ASSUME IInv, NEW t \in Term, NEW u \in Term, NEW d \in Decree, NEW e \in Decree,
           Chosen(t, d), Chosen(u, e)
    PROVE  d = e
<1>1. ASSUME NEW v \in Term, NEW w \in Term, NEW f \in Decree, NEW g \in Decree,
             Chosen(v, f), Chosen(w, g), Less(v, w), f # g
      PROVE  FALSE
  <2>1. PICK Q \in SUBSET Node : Quorum(Q) /\ \A j \in Q : Cast(j, v, f)
    BY <1>1 DEF Chosen
  <2>2. PICK R \in SUBSET Node : Quorum(R) /\ \A j \in R : Cast(j, w, g)
    BY <1>1 DEF Chosen
  <2>3. PICK k \in Node : k \in Q /\ k \in R
    BY <2>1, <2>2, QuorumsMeet
  <2>4. v = InitialGTxTerm \/ v.ballot >= 2
    BY <2>1, <2>3, CastIsProposed
  <2>5. w # InitialGTxTerm
    BY <1>1, <2>4, TermFacts, TermOrder
  <2>6. SafeAt(w, g)
    BY <2>2, <2>3, <2>5, CastIsProposed
  <2>7. NeverChosen(v, f)
    BY <1>1, <2>6 DEF SafeAt
  <2>8. PICK S \in SUBSET Node : Quorum(S) /\ \A j \in S : ~Cast(j, v, f)
    BY <2>7 DEF NeverChosen
  <2> QED
    BY <2>1, <2>8, QuorumsMeet
<1>2. CASE t = u
  <2>1. PICK Q \in SUBSET Node : Quorum(Q) /\ \A j \in Q : Cast(j, t, d)
    BY DEF Chosen
  <2>2. PICK R \in SUBSET Node : Quorum(R) /\ \A j \in R : Cast(j, t, e)
    BY <1>2 DEF Chosen
  <2> QED
    BY <2>1, <2>2, QuorumsMeet, OneDecree
<1> QED
  BY <1>1, <1>2, TermOrder

----------------------------------------------------------------------------
(* The resolver.                                                           *)

\* A set of numbers has a least one.
LEMMA LeastNat ==
    ASSUME NEW S, S \subseteq Nat, S # {}
    PROVE  \E n \in S : \A e \in S : n <= e
<1> DEFINE R == {p \in Nat \X Nat : p[1] < p[2]}
<1>1. PICK n \in S : \A e \in S : <<e, n>> \notin R
  <2> HIDE DEF R
  <2>1. IsWellFoundedOn(R, Nat)
    BY NatLessThanWellFounded DEF R, OpToRel
  <2> QED
    BY <2>1, WFMin
<1>2. ASSUME NEW e \in S PROVE n <= e
  <2>1. e \in Nat /\ n \in Nat
    OBVIOUS
  <2>2. e < n => <<e, n>> \in R
    BY <2>1
  <2> HIDE DEF R
  <2> QED
    BY SMTT(30), <1>1, <2>1, <2>2
<1> QED
  BY <1>2

\* Among acknowledgements there is one with the highest vote.
LEMMA SomeHighest ==
    ASSUME NEW acks \in [Node -> GTxState], Counted(acks) # {}
    PROVE  Highest(acks) # {}
<1> DEFINE Above(j) == {k \in Counted(acks) : Less(acks[j].accepted, acks[k].accepted)}
           Sizes == {Cardinality(Above(j)) : j \in Counted(acks)}
<1>0. Counted(acks) \subseteq Node /\ \A j \in Node : acks[j].accepted \in Term
  BY StateTypes DEF Counted
<1>1. \A j \in Counted(acks) : IsFiniteSet(Above(j)) /\ Cardinality(Above(j)) \in Nat
  <2>1. \A j \in Counted(acks) : Above(j) \subseteq Node
    BY <1>0
  <2> HIDE DEF Above
  <2> QED
    BY <2>1, CommitAssumption, FS_Subset, FS_CardinalityType
<1>2. Sizes \subseteq Nat /\ Sizes # {}
  BY <1>1
<1>3. PICK n \in Sizes : \A e \in Sizes : n <= e
  <2> HIDE DEF Sizes
  <2> QED
    BY <1>2, LeastNat
<1>4. PICK j \in Counted(acks) : n = Cardinality(Above(j))
  BY <1>3
<1>5. ASSUME NEW k \in Counted(acks), Less(acks[j].accepted, acks[k].accepted) PROVE FALSE
  <2>1. k \in Above(j)
    BY <1>5
  <2>2. k \notin Above(k)
    BY SMTT(30), <1>0, TermOrder
  <2>3. Above(k) \subseteq Above(j)
    BY <1>0, <1>5, TermOrder
  <2>4. Cardinality(Above(k)) \in Sizes
    OBVIOUS
  <2>5. n <= Cardinality(Above(k))
    BY <1>3, <2>4
  <2> HIDE DEF Above, Sizes
  <2>6. /\ Cardinality(Above(k)) <= Cardinality(Above(j))
        /\ Cardinality(Above(k)) = Cardinality(Above(j)) => Above(k) = Above(j)
    BY <1>1, <2>3, FS_Subset
  <2> QED
    BY SMTT(30), <1>1, <1>4, <2>1, <2>2, <2>5, <2>6
<1> QED
  BY <1>4, <1>5 DEF Highest

\* The rule of Paxos: what a majority tells, with what others have told before,
\* allows the decree of the highest vote.
LEMMA DecisionSafe ==
    ASSUME IInv, NEW acks \in [Node -> GTxState], NEW t \in Term, t # InvalidGTxTerm,
           NEW Q \in SUBSET Node, Quorum(Q),
           \A j \in Q :
              /\ acks[j].proposal = t
              /\ \A u \in Term : Less(u, t) => Past(j, u)
              /\ \A u \in Term, e \in Decree : Less(u, t) /\ Cast(j, u, e) => ~Less(acks[j].accepted, u),
           \A j \in Counted(acks) :
              /\ acks[j].accepted # InvalidGTxTerm =>
                    acks[j].status \in Decree /\ Cast(j, acks[j].accepted, acks[j].status)
              /\ acks[j].accepted = InvalidGTxTerm => acks[j].status = "invalid"
    PROVE  /\ SafeAt(t, Decision(acks))
           /\ Decision(acks) = "precommit" => Has(Coordinator, "PC")
<1>0. Counted(acks) \subseteq Node /\ \A j \in Node : acks[j].accepted \in Term
  BY StateTypes DEF Counted
<1>1. Q \subseteq Counted(acks)
  BY DEF Counted
<1>2. ASSUME NEW j \in Highest(acks), acks[j].accepted # InvalidGTxTerm
      PROVE  acks[j].status = Decision(acks) /\ Cast(j, acks[j].accepted, Decision(acks))
  <2>1. j \in Counted(acks) /\ acks[j].status \in Decree /\ Cast(j, acks[j].accepted, acks[j].status)
    BY <1>2 DEF Highest
  <2>2. ASSUME NEW k \in Highest(acks), acks[k].status = "precommit"
        PROVE  acks[j].status = "precommit"
    <3>1. k \in Counted(acks) /\ acks[k].accepted = acks[j].accepted
      BY <1>0, <1>2, <2>2, TermOrder DEF Highest
    <3>2. Cast(k, acks[j].accepted, acks[k].status)
      BY <1>2, <3>1
    <3> QED
      BY <1>0, <2>1, <2>2, <3>1, <3>2, OneDecree
  <2>3. acks[j].status = Decision(acks)
    BY <2>1, <2>2 DEF Decision, Decree
  <2> QED
    BY <2>1, <2>3
<1>3. ASSUME NEW u \in Term, NEW e \in Decree, Less(u, t), e # Decision(acks)
      PROVE  NeverChosen(u, e)
  <2>1. CASE \A j \in Q : ~Cast(j, u, e)
    BY <1>3, <2>1 DEF NeverChosen
  <2>2. ASSUME NEW j \in Q, Cast(j, u, e) PROVE NeverChosen(u, e)
    <3>1. j \in Counted(acks) /\ ~Less(acks[j].accepted, u)
      BY <1>1, <1>3, <2>2
    <3>2. PICK k \in Highest(acks) : TRUE
      BY <3>1, SomeHighest
    <3>3. k \in Counted(acks) /\ ~Less(acks[k].accepted, acks[j].accepted)
      BY <3>1, <3>2 DEF Highest
    <3>4. ~Less(acks[k].accepted, u) /\ acks[k].accepted \in Term
      BY SMTT(30), <1>0, <3>1, <3>3, TermOrder
    <3>5. u = InitialGTxTerm \/ u.ballot >= 2
      BY <1>0, <2>2, <3>1, CastIsProposed
    <3>6. ~Less(u, InitialGTxTerm)
      BY <3>5, TermFacts, TermOrder
    <3>7. acks[k].accepted # InvalidGTxTerm
      BY SMTT(30), <3>4, <3>6, TermFacts, TermOrder
    <3>8. Cast(k, acks[k].accepted, Decision(acks))
      BY <1>2, <3>2, <3>7
    <3>9. acks[k].accepted # u
      BY SMTT(30), <1>0, <1>3, <2>2, <3>3, <3>8, OneDecree
    <3>10. Less(u, acks[k].accepted)
      BY <3>4, <3>9, TermOrder
    <3>11. acks[k].accepted # InitialGTxTerm
      BY <3>6, <3>10
    <3>12. SafeAt(acks[k].accepted, Decision(acks))
      BY SMTT(30), <1>0, <3>3, <3>8, <3>11, CastIsProposed
    <3> QED
      BY <1>3, <3>10, <3>12 DEF SafeAt
  <2> QED
    BY <2>1, <2>2
<1>4. ASSUME Decision(acks) = "precommit" PROVE Has(Coordinator, "PC")
  <2>1. PICK j \in Highest(acks) : acks[j].status = "precommit"
    BY <1>4 DEF Decision
  <2>2. j \in Counted(acks)
    BY <2>1 DEF Highest
  <2>3. Cast(j, acks[j].accepted, "precommit")
    BY <2>1, <2>2 DEF Decree
  <2> QED
    BY SMTT(30), <1>0, <2>2, <2>3, CastIsProposed
<1> QED
  BY <1>3, <1>4 DEF SafeAt

\* The resolver proposes what is safe, and what it has proposed before if it has.
LEMMA ProposalSafe ==
    ASSUME IInv, NEW i \in Node, Prepared(i), NEW acks \in [Node -> GTxState], acks[i] = gtx[i].state,
           \A j \in Node \ {i} : SoundAck(i, j, acks[j]),
           NEW k \in Node, k # i, QuorumOf(i, acks),
           NEW t \in Term, t = gtx[i].state.proposal
    PROVE  /\ t.node = i /\ t.ballot >= 2 /\ Decision(acks) \in Decree
           /\ SafeAt(t, Decision(acks))
           /\ Decision(acks) = "precommit" => Has(Coordinator, "PC")
           /\ \A n \in sent : n.type = "2a" /\ n.term = t => n.decree = Decision(acks)
<1>0. StateOk(i) /\ gtx[i].state.accepted \in Term
  BY StateTypes DEF IInv, NodeOk, TypeOK
<1>1. t.node = i /\ Quorum({j \in Node : acks[j].proposal = t})
  BY DEF QuorumOf
<1>2. PICK Q \in SUBSET Node : Q = {j \in Node : acks[j].proposal = t}
  OBVIOUS
<1>3. Quorum(Q)
  BY <1>1, <1>2
<1>4. Q # {i}
  BY <1>3, OneIsNotEnough
<1>5. i \in Q
  BY <1>2
<1>6. PICK l \in Q : l # i
  BY <1>4, <1>5
<1>7. t # InvalidGTxTerm
  BY SMTT(30), <1>1, CommitAssumption DEF InvalidGTxTerm
<1>8. OwnTerm(i, t)
  BY <1>2, <1>6, <1>7 DEF SoundAck
<1>9. t.ballot >= 2 /\ Decision(acks) \in Decree
  BY <1>8 DEF OwnTerm, Decision, Decree
<1>10. \A n \in sent : n.type = "2a" /\ n.term = t => Cast(i, t, n.decree) /\ n.decree \in Decree
  <2> SUFFICES ASSUME NEW n \in sent, n.type = "2a", n.term = t
               PROVE  Cast(i, t, n.decree) /\ n.decree \in Decree
    OBVIOUS
  <2>1. n.from = i /\ n.decree \in Decree
    BY SMTT(30), <1>1 DEF IInv, SoundMsg, OwnTerm
  <2> QED
    BY <2>1 DEF Cast
<1>11. CASE gtx[i].state.accepted = t
  <2>1. gtx[i].state.status \in Decree /\ Cast(i, t, gtx[i].state.status)
    BY <1>0, <1>7, <1>11 DEF StateOk
  <2>2. ASSUME NEW j \in Counted(acks), j # i PROVE Less(acks[j].accepted, t)
    <3>1. j \in Node /\ acks[j].proposal # InvalidGTxTerm
      BY DEF Counted
    <3>2. acks[j].proposal \in Term /\ acks[j].accepted \in Term
      BY <3>1, StateTypes
    <3>3. Less(acks[j].accepted, acks[j].proposal) /\ ~Less(t, acks[j].proposal)
      BY <2>2, <3>1 DEF SoundAck, OwnTerm
    <3> QED
      BY <3>2, <3>3, TermOrder
  <2>3. i \in Counted(acks) /\ ~Less(t, t)
    BY SMTT(30), <1>7, TermOrder DEF Counted
  <2>4. \A j \in Highest(acks) : j = i
    BY <1>11, <2>2, <2>3 DEF Highest
  <2>5. \A j \in Counted(acks) : j # i => ~Less(t, acks[j].accepted)
    BY <2>2, StateTypes, TermOrder DEF Counted
  <2>6. i \in Highest(acks)
    BY <1>11, <2>3, <2>5 DEF Highest
  <2>7. Decision(acks) = gtx[i].state.status
    BY <2>1, <2>4, <2>6 DEF Decision, Decree
  <2>8. t # InitialGTxTerm
    BY <1>9, TermFacts
  <2>9. SafeAt(t, Decision(acks)) /\ (Decision(acks) = "precommit" => Has(Coordinator, "PC"))
    BY SMTT(30), <2>1, <2>7, <2>8, CastIsProposed
  <2>10. \A n \in sent : n.type = "2a" /\ n.term = t => n.decree = Decision(acks)
    BY <1>10, <2>1, <2>7, OneDecree
  <2> QED
    BY <1>1, <1>9, <2>9, <2>10
<1>12. CASE gtx[i].state.accepted # t
  <2>1. Less(gtx[i].state.accepted, t)
    BY SMTT(30), <1>0, <1>12, TermOrder DEF StateOk
  <2>2. \A u \in Term, e \in Decree : Cast(i, u, e) => ~Less(gtx[i].state.accepted, u)
    BY <1>0 DEF StateOk
  <2>3. \A n \in sent : ~(n.type = "2a" /\ n.term = t)
    BY <1>10, <2>1, <2>2
  <2>4. ASSUME NEW j \in Q
        PROVE  /\ acks[j].proposal = t
               /\ \A u \in Term : Less(u, t) => Past(j, u)
               /\ \A u \in Term, e \in Decree : Less(u, t) /\ Cast(j, u, e) => ~Less(acks[j].accepted, u)
    <3>1. CASE j = i
      BY <1>2, <2>2, <3>1 DEF Past
    <3>2. CASE j # i
      BY <1>2, <1>7, <3>2 DEF SoundAck
    <3> QED
      BY <3>1, <3>2
  <2>5. ASSUME NEW j \in Counted(acks)
        PROVE  /\ acks[j].accepted # InvalidGTxTerm =>
                    acks[j].status \in Decree /\ Cast(j, acks[j].accepted, acks[j].status)
               /\ acks[j].accepted = InvalidGTxTerm => acks[j].status = "invalid"
    <3>1. CASE j = i
      BY <1>0, <3>1 DEF StateOk
    <3>2. CASE j # i
      BY <3>2 DEF SoundAck, Counted
    <3> QED
      BY <3>1, <3>2
  <2>6. SafeAt(t, Decision(acks)) /\ (Decision(acks) = "precommit" => Has(Coordinator, "PC"))
    BY <1>3, <1>7, <2>4, <2>5, DecisionSafe
  <2> QED
    BY <1>1, <1>9, <2>3, <2>6
<1> QED
  BY <1>11, <1>12

\* A proposal after a majority of promises keeps the invariant: it is safe in
\* its term (ProposalSafe), and the first vote for it is that of the resolver.
LEMMA ProposeStep ==
    ASSUME IInv, Shapes', NEW i \in Node, Prepared(i), ~Locked(i), gtx[i].stage = "AwaitStatus",
           NEW acks \in [Node -> GTxState], acks[i] = gtx[i].state,
           \A j \in Node \ {i} : SoundAck(i, j, acks[j]),
           NEW k \in Node, k # i, QuorumOf(i, acks), NEW d, d = Decision(acks),
           gtx' = [gtx EXCEPT ![i].state = Voted(gtx[i].state.proposal, d),
                              ![i].stage = "AwaitAcks", ![i].phase1 = acks],
           sent' = sent \cup {[type |-> "2a", from |-> i, term |-> gtx[i].state.proposal, decree |-> d]},
           UNCHANGED <<wal, coord, locked, doomed, replier, later>>
    PROVE  IInv'
<1>0. TypeOK /\ StateOk(i) /\ ResolverOk(i) /\ TypeOK'
  BY DEF IInv, NodeOk, Shapes
<1>1. PICK t \in Term : t = gtx[i].state.proposal
  BY <1>0, StateTypes DEF TypeOK
<1>2. /\ t.node = i /\ t.ballot >= 2 /\ d \in Decree /\ SafeAt(t, d)
      /\ d = "precommit" => Has(Coordinator, "PC")
      /\ \A n \in sent : n.type = "2a" /\ n.term = t => n.decree = d
  BY SMTT(30), <1>1, ProposalSafe
<1>3. /\ gtx'[i].state = Voted(t, d) /\ gtx'[i].stage = "AwaitAcks"
      /\ gtx'[i].phase1 = acks /\ gtx'[i].phase2 = gtx[i].phase2
      /\ \A j \in Node \ {i} : gtx'[j] = gtx[j]
  BY <1>0, <1>1 DEF TypeOK
<1>4. /\ gtx'[i].state.proposal = t /\ gtx'[i].state.accepted = t
  BY SMTT(30), <1>3 DEF Voted, State
<1>5. Prepared(i)' /\ Has(i, "P")' /\ (Has(Coordinator, "PC") => Has(Coordinator, "PC")')
  BY DEF Prepared, Has
<1>6. ~Less(t, t)
  BY TermOrder
<1>7. PICK p \in sent' : /\ p = [type |-> "2a", from |-> i, term |-> t, decree |-> d]
                         /\ sent' = sent \cup {p}
  BY <1>1
<1>8. p.type = "2a" /\ p.from = i /\ p.term = t /\ p.decree = d
  BY <1>7
<1>9. Moves(i)
  BY <1>1, <1>3, <1>4, <1>6, <1>7, <1>8 DEF Moves, Has
<1>10. Cast(i, t, d)'
  BY <1>8 DEF Cast
<1>11. \A u, e : Cast(i, u, e)' => Cast(i, u, e) \/ u = t
  BY <1>7, <1>8 DEF Cast, Has
<1>12. StateOk(i)'
  BY <1>0, <1>1, <1>2, <1>3, <1>5, <1>6, <1>10, <1>11, AcceptState
<1>13. ResolverOk(i)'
  <2>1. \A j \in Node \ {i} : SoundAck(i, j, acks[j])'
    BY <1>0, <1>9, SoundAckStays
  <2>2. \A j \in Node \ {i} : gtx[i].phase2[j].proposal # InvalidGTxTerm =>
          \E n \in sent' : /\ n.type = "2b" /\ n.from = j /\ n.to = i
                           /\ n.term = gtx[i].phase2[j].proposal /\ n.decree = gtx[i].phase2[j].status
    BY <1>0, <1>7 DEF ResolverOk
  <2>3. Voters(i) = {i}
    BY <1>0, <1>1, <1>2 DEF ResolverOk
  <2>4. Voters(i)' = Voters(i)
    <3>1. gtx'[i].phase2 = gtx[i].phase2 /\ gtx'[i].state.proposal = gtx[i].state.proposal
      BY <1>1, <1>3, <1>4
    <3> QED
      BY <3>1 DEF Voters
  <2>5. ~Quorum(Voters(i))'
    BY <2>3, <2>4, OneIsNotEnough DEF Quorum
  <2>6. \A j \in Node \ {i} : SoundAck(i, j, gtx[i].phase1[j])'
    BY <1>3, <2>1
  <2>7. \A j \in Node \ {i} : (gtx[i].phase2[j].proposal # InvalidGTxTerm =>
          \E n \in sent : /\ n.type = "2b" /\ n.from = j /\ n.to = i
                          /\ n.term = gtx[i].phase2[j].proposal /\ n.decree = gtx[i].phase2[j].status)'
    BY SMTT(30), <1>3, <2>2
  <2>8. gtx'[i].stage = "AwaitAcks" /\ gtx'[i].state.accepted = gtx'[i].state.proposal
    BY <1>3, <1>4
  <2>9. i \in Node
    OBVIOUS
  <2> QED
    BY ONLY <2>5, <2>6, <2>7, <2>8, <2>9, VotingResolver
<1>14. ReplierOk(i)' /\ LogOk(i)'
  BY <1>0, <1>9, ReplierStays, LogStays
<1>15. SoundMsg(p)'
  <2>1. OwnTerm(i, t)'
    BY <1>2, <1>4, <1>5, <1>6 DEF OwnTerm
  <2>2. SafeAt(t, d)'
    BY <1>0, <1>2, <1>9, ChosenStays
  <2> QED
    BY <1>2, <1>5, <1>8, <2>1, <2>2 DEF SoundMsg
<1>16. OneProposal'
  BY SMTT(30), <1>2, <1>7, <1>8 DEF IInv, OneProposal
<1>17. CoordOk'
  BY <1>0, <1>9, CoordStays DEF Locked, Has
<1>18. NodeOk(i)'
  BY <1>12, <1>13, <1>14 DEF NodeOk
<1> QED
  BY <1>0, <1>7, <1>9, <1>15, <1>16, <1>17, <1>18, AllKeep DEF Shapes

\* An answer to 1a: an outcome, one more promise, or the one that makes a
\* majority.
LEMMA Handle1bStep ==
    ASSUME IInv, Shapes', NEW i \in Node, NEW m \in sent, m.type = "1b", m.to = i, Handle1b(i, m)
    PROVE  IInv'
<1>0. TypeOK /\ TypeOK' /\ ResolverOk(i)
  BY DEF IInv, NodeOk, Shapes
<1>1. PICK acks : acks = [gtx[i].phase1 EXCEPT ![i] = gtx[i].state, ![m.from] = m.state]
  OBVIOUS
<1>2. /\ acks \in [Node -> GTxState] /\ acks[i] = gtx[i].state
      /\ \A j \in Node \ {i} : SoundAck(i, j, acks[j])
      /\ m.from \in Node /\ m.from # i
  BY SMTT(30), <1>1, AcksSound
<1>3. /\ Prepared(i) /\ ~Locked(i) /\ gtx[i].stage = "AwaitStatus"
      /\ UNCHANGED <<coord, locked, doomed, replier, later>>
      /\ \/ /\ m.state.status \in {"commit", "abort"}
            /\ Finish(i, Outcome(m.state.status)) /\ UNCHANGED sent
         \/ /\ QuorumOf(i, acks)
            /\ gtx' = [gtx EXCEPT ![i].state = Voted(gtx[i].state.proposal, Decision(acks)),
                                  ![i].stage = "AwaitAcks", ![i].phase1 = acks]
            /\ sent' = sent \cup {[type |-> "2a", from |-> i, term |-> gtx[i].state.proposal,
                                   decree |-> Decision(acks)]}
            /\ UNCHANGED wal
         \/ gtx' = [gtx EXCEPT ![i].phase1 = acks] /\ UNCHANGED <<wal, sent>>
  BY <1>1 DEF Handle1b, Send, backendVars
<1>4. CASE m.state.status \in {"commit", "abort"} /\ Finish(i, Outcome(m.state.status)) /\ UNCHANGED sent
  <2>1. PICK kind \in {"CP", "AP"} : kind = Outcome(m.state.status)
    BY DEF Outcome
  <2>2. Justified(kind)
    BY <1>4, <2>1 DEF IInv, SoundMsg
  <2> QED
    BY <1>3, <1>4, <2>1, <2>2, FinishStep
<1>5. CASE /\ QuorumOf(i, acks)
           /\ gtx' = [gtx EXCEPT ![i].state = Voted(gtx[i].state.proposal, Decision(acks)),
                                 ![i].stage = "AwaitAcks", ![i].phase1 = acks]
           /\ sent' = sent \cup {[type |-> "2a", from |-> i, term |-> gtx[i].state.proposal,
                                  decree |-> Decision(acks)]}
           /\ UNCHANGED wal
  BY <1>2, <1>3, <1>5, ProposeStep
<1>6. CASE gtx' = [gtx EXCEPT ![i].phase1 = acks] /\ UNCHANGED <<wal, sent>>
  <2>1. /\ gtx'[i].state = gtx[i].state /\ gtx'[i].stage = gtx[i].stage
        /\ gtx'[i].phase1 = acks /\ gtx'[i].phase2 = gtx[i].phase2
        /\ \A j \in Node \ {i} : gtx'[j] = gtx[j]
    BY <1>0, <1>6 DEF TypeOK
  <2>2. ASSUME Moves(i) PROVE ResolverOk(i)'
    <3>1. \A j \in Node \ {i} : SoundAck(i, j, acks[j])'
      BY <1>0, <1>2, <2>2, SoundAckStays
    <3>2. Voters(i)' = Voters(i)
      BY <2>1 DEF Voters
    <3> QED
      BY SMTT(30), <1>0, <1>3, <1>6, <2>1, <3>1, <3>2 DEF ResolverOk
  <2> QED
    BY <1>3, <1>6, <2>1, <2>2, RememberStep
<1> QED
  BY <1>3, <1>4, <1>5, <1>6

\* More nodes are a majority all the more.
LEMMA QuorumGrows ==
    ASSUME NEW S \in SUBSET Node, NEW T \in SUBSET Node, S \subseteq T, Quorum(S)
    PROVE  Quorum(T)
<1>1. IsFiniteSet(T) /\ IsFiniteSet(Node)
  BY CommitAssumption, FS_Subset
<1>2. Cardinality(S) <= Cardinality(T)
  BY <1>1, FS_Subset
<1>3. Cardinality(S) \in Nat /\ Cardinality(T) \in Nat /\ Cardinality(Node) \in Nat
  BY <1>1, FS_Subset, FS_CardinalityType
<1> QED
  BY SMTT(30), <1>2, <1>3 DEF Quorum

\* A majority of acknowledgements, the last one m, is a choice.
LEMMA MajorityChose ==
    ASSUME IInv, NEW i \in Node, Prepared(i), gtx[i].stage = "AwaitAcks",
           NEW m \in sent, m.type = "2b", m.to = i, NEW acks,
           acks = [gtx[i].phase2 EXCEPT ![i] = gtx[i].state, ![m.from] = Voted(m.term, m.decree)],
           QuorumOf(i, acks)
    PROVE  m.term \in Term /\ m.decree \in Decree /\ Chosen(m.term, m.decree)
<1>0. StateOk(i) /\ ResolverOk(i) /\ m.from \in Node /\ m.from # i
  BY DEF IInv, NodeOk, SoundMsg
<1>1. gtx[i].phase2 \in [Node -> GTxState] /\ gtx[i].state \in GTxState
  BY DEF IInv, TypeOK
<1>2. PICK t \in Term : t = gtx[i].state.proposal
  BY <1>1, StateTypes
<1>3. /\ acks[i] = gtx[i].state /\ acks[m.from].proposal = m.term
      /\ \A j \in Node \ {i, m.from} : acks[j] = gtx[i].phase2[j]
  BY <1>0, <1>1 DEF Voted, State
<1>4. PICK Q \in SUBSET Node : Q = {j \in Node : acks[j].proposal = t}
  OBVIOUS
<1>5. t.node = i /\ Quorum(Q)
  BY <1>2, <1>3, <1>4 DEF QuorumOf
<1>6. gtx[i].state.accepted = t /\ ~Quorum(Voters(i))
  BY <1>0, <1>2, <1>5 DEF ResolverOk
<1>7. m.from \in Q
  <2> SUFFICES ASSUME m.from \notin Q PROVE FALSE
    OBVIOUS
  <2>1. Q \subseteq Voters(i)
    BY <1>2, <1>3, <1>4 DEF Voters
  <2>2. Voters(i) \in SUBSET Node
    BY DEF Voters
  <2> QED
    BY <1>5, <1>6, <2>1, <2>2, QuorumGrows
<1>8. m.term = t
  BY <1>3, <1>4, <1>7
<1>9. Cast(m.from, t, m.decree)
  BY <1>8 DEF Cast
<1>10. m.decree \in Decree
  BY <1>0, <1>9, CastIsProposed
<1>11. t # InvalidGTxTerm
  BY SMTT(30), <1>5, CommitAssumption DEF InvalidGTxTerm
<1>12. ASSUME NEW j \in Q PROVE \E e : Cast(j, t, e)
  <2>1. CASE j = i
    BY <1>0, <1>6, <1>11, <2>1 DEF StateOk
  <2>2. CASE j = m.from
    BY <1>9, <2>2
  <2>3. CASE j # i /\ j # m.from
    <3>1. gtx[i].phase2[j].proposal = t
      BY <1>3, <1>4, <2>3
    <3>2. PICK n \in sent : n.type = "2b" /\ n.from = j /\ n.term = t
      BY <1>0, <1>11, <2>3, <3>1 DEF ResolverOk
    <3> QED
      BY <3>2 DEF Cast
  <2> QED
    BY <2>1, <2>2, <2>3
<1>13. \A j \in Q : Cast(j, t, m.decree)
  BY <1>0, <1>9, <1>12, OneDecree
<1> QED
  BY <1>5, <1>8, <1>10, <1>13 DEF Chosen

\* An answer to 2a: the one that makes a majority of votes decides.
LEMMA Handle2bStep ==
    ASSUME IInv, Shapes', NEW i \in Node, NEW m \in sent, m.type = "2b", m.to = i, Handle2b(i, m)
    PROVE  IInv'
<1>0. TypeOK /\ TypeOK' /\ ResolverOk(i) /\ m.from \in Node /\ m.from # i
  BY DEF IInv, NodeOk, Shapes, SoundMsg
<1>1. PICK acks : acks = [gtx[i].phase2 EXCEPT ![i] = gtx[i].state, ![m.from] = Voted(m.term, m.decree)]
  OBVIOUS
<1>2. /\ Prepared(i) /\ ~Locked(i) /\ gtx[i].stage = "AwaitAcks"
      /\ UNCHANGED <<coord, locked, doomed, replier, later>>
      /\ \/ /\ QuorumOf(i, acks) /\ Finish(i, Outcome(m.decree))
            /\ sent' = sent \cup {[type |-> "finish", from |-> i, kind |-> Outcome(m.decree)]}
         \/ ~QuorumOf(i, acks) /\ gtx' = [gtx EXCEPT ![i].phase2 = acks] /\ UNCHANGED <<wal, sent>>
  BY <1>1 DEF Handle2b, Send, backendVars
<1>3. CASE /\ QuorumOf(i, acks) /\ Finish(i, Outcome(m.decree))
           /\ sent' = sent \cup {[type |-> "finish", from |-> i, kind |-> Outcome(m.decree)]}
  <2>1. m.term \in Term /\ m.decree \in Decree /\ Chosen(m.term, m.decree)
    BY <1>1, <1>2, <1>3, MajorityChose
  <2>2. PICK kind \in {"CP", "AP"} : kind = Outcome(m.decree)
    BY DEF Outcome
  <2>3. Justified(kind)
    BY <2>1, <2>2 DEF Justified, Outcome, Decree
  <2>4. \A n \in sent' \ sent : n.type = "finish" /\ n.from = i /\ n.kind = kind
    BY SMTT(30), <1>3, <2>2
  <2>5. sent \subseteq sent' /\ Finish(i, kind)
    BY <1>3, <2>2
  <2>6. Moves(i)
    BY <1>0, <1>2, <2>3, <2>4, <2>5, FinishKeeps
  <2>7. Justified(kind)'
    BY <1>0, <2>3, <2>6, JustifiedStays
  <2>8. \A n \in sent' \ sent : SoundMsg(n)' /\ n.type \notin {"2a", "2b"}
    BY <2>4, <2>7 DEF SoundMsg
  <2> QED
    BY <1>2, <2>3, <2>5, <2>8, FinishStep
<1>4. CASE ~QuorumOf(i, acks) /\ gtx' = [gtx EXCEPT ![i].phase2 = acks] /\ UNCHANGED <<wal, sent>>
  <2>1. /\ gtx'[i].state = gtx[i].state /\ gtx'[i].stage = gtx[i].stage
        /\ gtx'[i].phase1 = gtx[i].phase1 /\ gtx'[i].phase2 = acks
        /\ \A j \in Node \ {i} : gtx'[j] = gtx[j]
    BY <1>0, <1>4 DEF TypeOK
  <2>2. gtx[i].phase2 \in [Node -> GTxState]
    BY <1>0 DEF TypeOK
  <2>3. /\ acks[i] = gtx[i].state
        /\ acks[m.from].proposal = m.term /\ acks[m.from].status = m.decree
        /\ \A j \in Node \ {i, m.from} : acks[j] = gtx[i].phase2[j]
    BY <1>0, <1>1, <2>2 DEF Voted, State
  <2>4. ASSUME Moves(i) PROVE ResolverOk(i)'
    <3>1. \A j \in Node \ {i} : SoundAck(i, j, gtx[i].phase1[j])'
      <4>1. \A j \in Node : gtx[i].phase1[j] \in GTxState
        BY SMTT(30), <1>0 DEF TypeOK
      <4> QED
        BY <1>0, <2>1, <2>4, <4>1, SoundAckStays DEF ResolverOk
    <3>2. \A j \in Node \ {i} : acks[j].proposal # InvalidGTxTerm =>
            \E n \in sent : /\ n.type = "2b" /\ n.from = j /\ n.to = i
                            /\ n.term = acks[j].proposal /\ n.decree = acks[j].status
      BY SMTT(30), <1>0, <2>3 DEF ResolverOk
    <3>3. Prepared(i)' => Prepared(i)
      BY <1>4 DEF Prepared, Has
    <3>4. ASSUME gtx[i].state.proposal.node = i PROVE ~Quorum(Voters(i)')
      <4>1. Voters(i)' = {j \in Node : acks[j].proposal = acks[i].proposal}
        BY SMTT(30), <2>1, <2>3 DEF Voters
      <4> QED
        BY <1>4, <2>3, <3>4, <4>1 DEF QuorumOf
    <3>5. gtx[i].state.proposal.node = i => ~Quorum(Voters(i))'
      BY <3>4 DEF Quorum
    <3>6. gtx[i].state.proposal.node = i => gtx[i].state.accepted = gtx[i].state.proposal
      BY <1>0, <1>2 DEF ResolverOk
    <3> QED
      BY SMTT(30), <1>2, <1>4, <2>1, <3>1, <3>2, <3>5, <3>6 DEF ResolverOk
  <2> QED
    BY <1>2, <1>4, <2>1, <2>4, RememberStep
<1> QED
  BY <1>2, <1>3, <1>4

----------------------------------------------------------------------------
(* The theorems.                                                           *)

\* The invariant holds before the transaction.
LEMMA InitIInv == ASSUME Init PROVE IInv
<1>1. TypeOK
  BY GtxTypes, CommitAssumption DEF Init, TypeOK, GtxRecord
<1>2. replier = [i \in Node |-> replier[i]] /\ sent = {}
  BY DEF Init
<1>3. \A i \in Node : \A kind : ~Has(i, kind)
  BY DEF Init, Has
<1>4. \A i \in Node : /\ gtx[i] = GlobalTx(NoVote) /\ gtx[i].state = NoVote
                      /\ replier[i].at = "idle" /\ later[i] = "same"
  BY StateTypes DEF Init, NoGtx
<1>5. ASSUME NEW i \in Node PROVE NodeOk(i)
  <2>1. StateOk(i)
    BY <1>2, <1>3, <1>4 DEF StateOk, Prepared, Cast
  <2>2. \A j \in Node : /\ gtx[i].phase1[j].proposal = InvalidGTxTerm
                        /\ gtx[i].phase2[j].proposal = InvalidGTxTerm
    BY SMTT(30), <1>4, FreshParts
  <2>3. ResolverOk(i)
    BY <1>3, <2>2 DEF ResolverOk, SoundAck, Prepared
  <2>4. ReplierOk(i) /\ LogOk(i)
    BY <1>3, <1>4 DEF ReplierOk, LogOk
  <2> QED
    BY <2>1, <2>3, <2>4 DEF NodeOk
<1>6. CoordOk
  BY <1>3, CommitAssumption DEF Init, CoordOk
<1> QED
  BY <1>1, <1>2, <1>5, <1>6 DEF IInv, OneProposal

\* A step that changes nothing keeps the invariant.
LEMMA StutterIInv == ASSUME IInv, UNCHANGED vars PROVE IInv'
<1>1. PICK i \in Node : i = Coordinator
  BY CommitAssumption
<1>2. UNCHANGED <<wal, gtx, coord, locked, doomed, replier, later, sent>>
  BY DEF vars
<1>3. Shapes'
  BY <1>2 DEF IInv, Shapes, TypeOK
<1>4. Moves(i) /\ StateOk(i)' /\ ResolverOk(i)' /\ LogOk(i)'
  BY <1>2, <1>3, QuietKeeps DEF Shapes
<1>5. ReplierOk(i)'
  BY <1>2, <1>3, <1>4, ReplierStays DEF Shapes
<1>6. CoordOk' /\ OneProposal' /\ NodeOk(i)'
  BY <1>2, <1>4, <1>5, CoordQuiet, ProposalsStay DEF NodeOk
<1> QED
  BY <1>2, <1>3, <1>4, <1>6, AllKeep DEF Shapes

\* Every step keeps the invariant.
LEMMA NextIInv == ASSUME IInv, [Next]_vars, Coordinator \notin Reloading PROVE IInv'
<1>1. CASE Backend
  BY <1>1, BackendTypes, PrepareStep, GatherStep, PrecommitStep, CommitStep, FailStep DEF Backend
<1>2. CASE ChooseOwn \/ AbortOwn
  BY <1>2, BackendTypes, ChooseOwnStep, AbortOwnStep
<1>3. ASSUME NEW i \in Node, Apply(i) PROVE IInv'
  BY <1>3, ApplierTypes, ApplyPrepareStep, ApplyPrecommitStep, ApplyFinishStep DEF Apply
<1>4. ASSUME NEW i \in Node, Generation(i) PROVE IInv'
  BY <1>4, ApplierTypes, SwitchStep, RecoverStep, GetOnlineStep DEF Generation
<1>5. ASSUME NEW i \in Node, Resolver(i) PROVE IInv'
  BY <1>5, ResolverTypes, ScatterStep, Handle1bStep, Handle2bStep DEF Resolver
<1>6. ASSUME NEW i \in Node, Replier(i) PROVE IInv'
  BY <1>6, ReplierTypes, Handle1aStep, ScanStep, RecheckStep, Handle2aStep, HandleFinishStep DEF Replier
<1>7. ASSUME NEW i \in Node, Crash(i) \/ MonitorRestart(i) PROVE IInv'
  BY <1>7, FailureTypes, CrashStep, RestartStep
<1>8. CASE UNCHANGED vars
  BY <1>8, StutterIInv
<1> QED
  BY <1>1, <1>2, <1>3, <1>4, <1>5, <1>6, <1>7, <1>8 DEF Next

\* What one node has committed no other aborts: the coordinator had precommitted
\* with every member prepared, and two majorities have a node in common.
LEMMA IInvAgrees == ASSUME IInv PROVE Agreement
<1> SUFFICES ASSUME NEW i \in Node, NEW j \in Node, Has(i, "CP"), Has(j, "AP") PROVE FALSE
  BY DEF Agreement
<1>1. Justified("CP") /\ Justified("AP") /\ CoordOk
  BY DEF IInv, NodeOk, LogOk
<1>2. PICK t \in Term : Chosen(t, "precommit")
  BY <1>1 DEF Justified
<1>3. PICK Q \in SUBSET Node : Quorum(Q) /\ \A k \in Q : Cast(k, t, "precommit")
  BY <1>2 DEF Chosen
<1>4. PICK k \in Node : k \in Q
  BY <1>3, QuorumsMeet
<1>5. Has(Coordinator, "PC")
  BY <1>3, <1>4, CastIsProposed
<1>6. ~NeverPrecommitted
  BY <1>1, <1>5 DEF CoordOk, NeverPrecommitted, Missed
<1>7. PICK u \in Term : Chosen(u, "preabort")
  BY <1>1, <1>6 DEF Justified
<1> QED
  BY <1>2, <1>7, ChosenAgree DEF Decree

\* What was chosen for commit was precommitted by the coordinator, which had
\* heard from all members.
LEMMA IInvPrepared == ASSUME IInv PROVE CommittedIsPrepared
<1> SUFFICES ASSUME NEW i \in Node, Has(i, "CP") PROVE \A j \in Members : Has(j, "P")
  BY DEF CommittedIsPrepared
<1>1. Justified("CP") /\ CoordOk
  BY DEF IInv, NodeOk, LogOk
<1>2. PICK t \in Term : Chosen(t, "precommit")
  BY <1>1 DEF Justified
<1>3. PICK Q \in SUBSET Node : Quorum(Q) /\ \A k \in Q : Cast(k, t, "precommit")
  BY <1>2 DEF Chosen
<1>4. PICK k \in Node : k \in Q
  BY <1>3, QuorumsMeet
<1>5. Has(Coordinator, "PC")
  BY <1>3, <1>4, CastIsProposed
<1> QED
  BY <1>1, <1>5 DEF CoordOk

\* The states and messages that OneDecreePerTerm compares are votes.
LEMMA IInvOneDecree == ASSUME IInv PROVE OneDecreePerTerm
<1> DEFINE Vote(v) == \/ v[1] = InvalidGTxTerm /\ v[2] = "invalid"
                      \/ v[1] # InvalidGTxTerm /\ \E j \in Node : Cast(j, v[1], v[2])
<1>1. ASSUME NEW i \in Node PROVE Vote(<<gtx[i].state.accepted, gtx[i].state.status>>)
  <2>1. StateOk(i)
    BY DEF IInv, NodeOk
  <2>2. NoVote.accepted = InvalidGTxTerm /\ NoVote.status = "invalid"
    BY DEF NoVote, State
  <2> QED
    BY <2>1, <2>2 DEF StateOk
<1>2. ASSUME NEW m \in sent, m.type \in {"2a", "2b"} PROVE Vote(<<m.term, m.decree>>)
  <2>1. m.from \in Node /\ Cast(m.from, m.term, m.decree)
    BY <1>2 DEF IInv, SoundMsg, Cast
  <2>2. m.term \in Term /\ (m.term = InitialGTxTerm \/ m.term.ballot >= 2)
    BY <2>1, CastIsProposed
  <2>3. m.term # InvalidGTxTerm
    BY <2>2, TermFacts
  <2> QED
    BY <2>1, <2>3
<1>3. ASSUME NEW v, NEW w, Vote(v), Vote(w), v[1] = w[1] PROVE v[2] = w[2]
  BY <1>3, OneDecree
<1> HIDE DEF Vote
<1> QED
  BY SMTT(30), <1>1, <1>2, <1>3 DEF OneDecreePerTerm

\* The inductive invariant, for every number of nodes, ballots and crashes, as
\* long as the monitor of the coordinator does not restart alone.
THEOREM CommitInvariant == ASSUME Coordinator \notin Reloading PROVE Spec => []IInv
<1>1. Init => IInv
  BY InitIInv
<1>2. IInv /\ [Next]_vars => IInv'
  BY NextIInv
<1> QED
  BY <1>1, <1>2, PTL DEF Spec

\* Agreement: the transaction is never committed on one node and aborted on
\* another, whoever finishes it (commit.c, resolver.c, state.c, pglogical_apply.c).
THEOREM CommitAgrees == ASSUME Coordinator \notin Reloading PROVE Spec => []Agreement
<1>1. IInv => Agreement
  BY IInvAgrees
<1> QED
  BY <1>1, CommitInvariant, PTL

\* What is committed anywhere has been prepared by every member of its
\* generation (gather of MtmTwoPhaseCommit, before the precommit).
THEOREM CommitIsPrepared == ASSUME Coordinator \notin Reloading PROVE Spec => []CommittedIsPrepared
<1>1. IInv => CommittedIsPrepared
  BY IInvPrepared
<1> QED
  BY <1>1, CommitInvariant, PTL

\* The assertion of handle_response: votes of one term are for one decree.
THEOREM VotesAgree == ASSUME Coordinator \notin Reloading PROVE Spec => []OneDecreePerTerm
<1>1. IInv => OneDecreePerTerm
  BY IInvOneDecree
<1> QED
  BY <1>1, CommitInvariant, PTL
=============================================================================
