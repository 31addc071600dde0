------------------------------ MODULE Referee ------------------------------
(***************************************************************************)
(* A cluster of two nodes with a referee.  A node that loses its peer may  *)
(* go on alone, in a generation of which it is the only member, if the     *)
(* referee grants it that; the grant is turned in when both are online     *)
(* again.  The winner also finishes, by itself, the transactions its peer  *)
(* and it had under way.                                                   *)
(*                                                                         *)
(* Generations are those of GenElection for two nodes, of which both must  *)
(* vote.  The referee is a table of at most one row, the grant.  A request *)
(* to it may get lost, and so may its answer; a request the campaigner has *)
(* given up is not executed later.                                         *)
(***************************************************************************)
EXTENDS Naturals

CONSTANTS
    Node,         \* the two nodes
    Coordinator,  \* where the client runs the transaction
    MaxGenNum,    \* bound on the generation numbers proposed
    MaxRestarts,  \* bound on restarts
    None

ASSUME RefereeAssumption ==
    /\ \E i, j \in Node : i # j /\ Node = {i, j}
    /\ Coordinator \in Node
    /\ None \notin [node : Node, num : Nat]
    /\ None \notin [op : {"ask"}, gen : [num : Nat, members : SUBSET Node], state : {"done", "failed"}]

VARIABLES
    cur,       \* cur[i]: current generation
    donors,    \* donors[i]: its donors
    loi,       \* loi[i]: last_online_in
    vote,      \* vote[i]: last_vote
    ballots,   \* votes for generations of both nodes, with last_online_in
    seen,      \* seen[i]: others_last_online_in of i's peer
    pending,   \* pending[i]: referee_grant_turn_in_pending
    call,      \* call[i]: what i's campaigner waits for
    grant,     \* referee.decision: its row, or None
    alone,     \* the generations in which a node worked alone
    has,       \* has[i]: those of them whose commits i has
    wal,       \* wal[i]: the records of the transaction at i
    xgen,      \* number of the generation of the transaction
    busy,      \* the coordinator's backend holds the transaction
    acks,      \* records of it that its participant has confirmed
    ps,        \* ParallelSafe records, with what lies before them
    restarts

elect == <<cur, donors, loi, vote, ballots>>
data == <<alone, has, ps>>
xact == <<wal, xgen, busy, acks>>
vars == <<elect, seen, pending, call, grant, data, xact, restarts>>

Generation(n, M) == [num |-> n, members |-> M]
Other(i) == CHOOSE j \in Node : j # i
Participant == Other(Coordinator)

IsRefereeGen(g) == \E i \in Node : g.members = {i}

\* MtmGetCurrentStatusInGen: of two nodes, only both are a quorum.
Online(i) == loi[i] = cur[i].num
InRecovery(i) == ~Online(i) /\ cur[i].members = Node /\ vote[i].num = cur[i].num
Dead(i) == ~Online(i) /\ ~InRecovery(i)

ParallelSafe(n, i) == [num |-> n, by |-> i, has |-> has[i], wal |-> wal[i]]

Init ==
    /\ cur = [i \in Node |-> Generation(1, Node)]
    /\ donors = [i \in Node |-> Node]
    /\ loi = [i \in Node |-> 1]
    /\ vote = [i \in Node |-> Generation(1, {})]
    /\ ballots = {}
    /\ seen = [i \in Node |-> 0]
    /\ pending = [i \in Node |-> 1]
    /\ call = [i \in Node |-> None]
    /\ grant = None
    /\ alone = {}
    /\ has = [i \in Node |-> {}]
    /\ wal = [i \in Node |-> {}]
    /\ xgen = 0
    /\ busy = FALSE
    /\ acks = {}
    /\ ps = {}
    /\ restarts = 0

----------------------------------------------------------------------------
(* Generations.                                                            *)

\* Mutant of Vote: a switch does not raise last_vote.
KeepVote(i, g) == vote[i]

\* MtmConsiderGenSwitch to a newer generation: last_vote ...
Vote(i, g) == IF vote[i].num < g.num THEN g ELSE vote[i]

\* ... and the rest of it.
Switch(i, g, D) ==
    /\ cur' = [cur EXCEPT ![i] = g]
    /\ donors' = [donors EXCEPT ![i] = D]
    /\ IF i \in g.members /\ vote[i].num <= g.num /\ i \in D
         THEN /\ loi' = [loi EXCEPT ![i] = g.num]
              /\ ps' = ps \cup {ParallelSafe(g.num, i)}
              /\ alone' = alone \cup (IF IsRefereeGen(g) THEN {g} ELSE {})
              /\ has' = [has EXCEPT ![i] = @ \cup (IF IsRefereeGen(g) THEN {g} ELSE {})]
         ELSE UNCHANGED <<loi, data>>

MtmConsiderGenSwitch(i, g, D) ==
    IF cur[i].num < g.num THEN Switch(i, g, D)
                          ELSE UNCHANGED <<cur, donors, loi, data>>

\* MtmOnDmqReceiverHeartbeat
Heartbeat(i) ==
    LET j == Other(i) IN
    /\ seen[i] # loi[j] \/ cur[i].num < cur[j].num
    /\ MtmConsiderGenSwitch(i, cur[j], donors[j])
    /\ vote' = [vote EXCEPT ![i] = Vote(i, cur[j])]
    /\ seen' = [seen EXCEPT ![i] = loi[j]]
    /\ UNCHANGED <<ballots, pending, call, grant, xact, restarts>>

\* What i has of the transaction once it has applied the records w.
Finished(i) == wal[i] \cap {"CP", "AP"} # {}
Applied(i, w) == IF Finished(i) THEN wal[i] ELSE wal[i] \cup w

Released(i) == i = Coordinator => ~busy

\* MtmHandleParallelSafe in recovery: i reads in the WAL of a donor the
\* ParallelSafe of its generation, with all that lies before it.
GetOnline(i) ==
    /\ InRecovery(i) /\ Released(i)
    /\ \E r \in ps :
        /\ r.num = cur[i].num /\ r.by \in donors[i]
        /\ has' = [has EXCEPT ![i] = @ \cup r.has]
        /\ wal' = [wal EXCEPT ![i] = Applied(i, r.wal)]
    /\ loi' = [loi EXCEPT ![i] = cur[i].num]
    /\ pending' = [pending EXCEPT ![i] = cur[i].num]
    /\ UNCHANGED <<cur, donors, vote, ballots, seen, call, grant, alone, ps,
                   xgen, busy, acks, restarts>>

----------------------------------------------------------------------------
(* Campaigns.                                                              *)

\* CampaignMyself, in a connectivity clique C.  A node that is not a member
\* and lags waits for its catch-up, which may be at any time.
Candidates(i, C) == (cur[i].members \cap C) \cup {i}

\* Mutant of MayCampaign: also for the members of the current generation.
MayCampaignAgain(i, C) ==
    /\ call[i] = None
    /\ Online(i) => ~(cur[i].members \subseteq C)
    /\ C = Node \/ Online(i)

MayCampaign(i, C) ==
    /\ call[i] = None
    /\ Online(i) => ~(cur[i].members \subseteq C)
    /\ C = Node \/ Online(i)
    /\ Candidates(i, C) = cur[i].members => Dead(i) /\ vote[i].num # cur[i].num

\* A vote for the same candidates is used again.
Candidate(i, M) ==
    IF vote[i].members = M THEN vote[i] ELSE Generation(vote[i].num + 1, M)

CampaignMyself(i, C) ==
    LET g == Candidate(i, Candidates(i, C)) IN
    /\ MayCampaign(i, C)
    /\ g.num <= MaxGenNum
    /\ vote' = [vote EXCEPT ![i] = g]
    /\ IF IsRefereeGen(g)
         THEN /\ call' = [call EXCEPT ![i] = [op |-> "ask", gen |-> g, state |-> "sent"]]
              /\ UNCHANGED ballots
         ELSE /\ call' = [call EXCEPT ![i] = [op |-> "tour", gen |-> g, state |-> "sent"]]
              /\ ballots' = ballots \cup {[node |-> i, gen |-> g, loi |-> loi[i]]}
    /\ UNCHANGED <<cur, donors, loi, seen, pending, grant, data, xact, restarts>>

Waits(i, op) == call[i] # None /\ call[i].op = op
Returns(i) == call' = [call EXCEPT ![i] = None]

\* HandleGenVoteRequest, of a request that proposes both nodes.
VoteFor(i, g) ==
    /\ cur[i].num < g.num /\ vote[i].num < g.num
    /\ g.members \subseteq cur[i].members \cup {Other(i)}
    /\ vote' = [vote EXCEPT ![i] = g]
    /\ ballots' = ballots \cup {[node |-> i, gen |-> g, loi |-> loi[i]]}
    /\ UNCHANGED <<cur, donors, loi, seen, pending, call, grant, data, xact, restarts>>

\* CampaignTour: the peer votes for the proposed generation ...
BallotsFor(g) == {b \in ballots : b.gen = g}
MostAdvanced(Q) == {b.node : b \in {c \in Q : \A d \in Q : d.loi <= c.loi}}

TourWon(i) ==
    /\ Waits(i, "tour")
    /\ LET g == call[i].gen
           Q == BallotsFor(g)
       IN  /\ {b.node : b \in Q} = Node
           /\ MtmConsiderGenSwitch(i, g, MostAdvanced(Q))
           /\ vote' = [vote EXCEPT ![i] = Vote(i, g)]
    /\ Returns(i)
    /\ UNCHANGED <<ballots, seen, pending, grant, xact, restarts>>

\* ... or cannot be reached, or does not see the clique as the proposer does.
\* It has never voted for another generation (NeverOutvoted).
TourFails(i) ==
    /\ Waits(i, "tour")
    /\ Returns(i)
    /\ UNCHANGED <<elect, seen, pending, grant, data, xact, restarts>>

----------------------------------------------------------------------------
(* The grant.                                                              *)

\* referee.request_grant
RequestGrant(i, n) ==
    IF grant = None \/ (grant.node = i /\ grant.num < n)
      THEN /\ grant' = [node |-> i, num |-> n]
           /\ call' = [call EXCEPT ![i].state = "done"]
      ELSE /\ call' = [call EXCEPT ![i].state = "failed"]
           /\ UNCHANGED grant

\* Mutant of ClearedBy: the row is taken for the one that is to go.
ClearsAny(i, c) == TRUE

\* The delete of RefereeClearGrant.
ClearedBy(i, c) == grant.num < c.gen.num \/ (grant.node = i /\ grant.num <= c.mine)

DeleteGrant(i) ==
    /\ grant' = IF grant # None /\ ClearedBy(i, call[i]) THEN None ELSE grant
    /\ call' = [call EXCEPT ![i].state = "done"]

RefereeExecutes(i) ==
    /\ call[i] # None /\ call[i].state = "sent"
    /\ \/ call[i].op = "ask" /\ RequestGrant(i, call[i].gen.num)
       \/ call[i].op = "clear" /\ DeleteGrant(i)
    /\ UNCHANGED <<elect, seen, pending, data, xact, restarts>>

\* CampaignReferee, once it is granted ...
Granted(i) ==
    /\ Waits(i, "ask") /\ call[i].state = "done"
    /\ MtmConsiderGenSwitch(i, call[i].gen, {i})
    /\ vote' = [vote EXCEPT ![i] = Vote(i, call[i].gen)]
    /\ Returns(i)
    /\ UNCHANGED <<ballots, seen, pending, grant, xact, restarts>>

\* Mutant of AskFails: a failed request is taken for one that was not granted.
AskFailsQuietly(i) ==
    /\ Waits(i, "ask")
    /\ Returns(i)
    /\ UNCHANGED <<elect, seen, pending, grant, data, xact, restarts>>

\* ... and when the query fails, at the referee or on the way.
AskFails(i) ==
    /\ Waits(i, "ask")
    /\ pending' = [pending EXCEPT ![i] = cur[i].num]
    /\ Returns(i)
    /\ UNCHANGED <<elect, seen, grant, data, xact, restarts>>

\* RefereeClearGrant ...
RefereeClearGrant(i) ==
    /\ call[i] = None
    /\ pending[i] # 0
    /\ IF cur[i].members = Node /\ Online(i)
         THEN /\ seen[i] >= loi[i]
              /\ call' = [call EXCEPT ![i] = [op |-> "clear", gen |-> cur[i],
                                              mine |-> vote[i].num, state |-> "sent"]]
              /\ UNCHANGED pending
         ELSE /\ pending' = [pending EXCEPT ![i] = 0]
              /\ UNCHANGED call
    /\ UNCHANGED <<elect, seen, grant, data, xact, restarts>>

\* ... once the row is gone ...
Cleared(i) ==
    /\ Waits(i, "clear") /\ call[i].state = "done"
    /\ pending' = [pending EXCEPT ![i] = IF @ <= call[i].gen.num THEN 0 ELSE @]
    /\ Returns(i)
    /\ UNCHANGED <<elect, seen, grant, data, xact, restarts>>

\* ... and when the query fails.
ClearFails(i) ==
    /\ Waits(i, "clear")
    /\ Returns(i)
    /\ UNCHANGED <<elect, seen, pending, grant, data, xact, restarts>>

\* There is no connection to the referee.
NoReferee(i) ==
    /\ Waits(i, "ask") /\ call[i].state = "sent"
    /\ Returns(i)
    /\ UNCHANGED <<elect, seen, pending, grant, data, xact, restarts>>

\* CampaignerMain starts anew, by itself or because the node does, whose
\* shared memory is lost then.
CampaignerStarts(i) ==
    /\ call' = [call EXCEPT ![i] = None]
    /\ pending' = [pending EXCEPT ![i] = cur[i].num]
    /\ restarts < MaxRestarts
    /\ restarts' = restarts + 1
    /\ UNCHANGED <<elect, grant, data, wal, xgen, acks>>

CampaignerRestarts(i) == CampaignerStarts(i) /\ UNCHANGED <<seen, busy>>

NodeRestarts(i) ==
    /\ CampaignerStarts(i)
    /\ seen' = [seen EXCEPT ![i] = 0]
    /\ busy' = IF i = Coordinator THEN FALSE ELSE busy

----------------------------------------------------------------------------
(* One transaction of a generation of both nodes.  How the two resolve it  *)
(* by Paxos, while they see each other, is in module Commit.               *)

Log(i, r) == wal' = [wal EXCEPT ![i] = @ \cup {r}]
Prepared(i) == "P" \in wal[i] /\ ~Finished(i)
cluster == <<elect, seen, pending, call, grant, data, restarts>>

Prepare ==
    /\ wal[Coordinator] = {}
    /\ Online(Coordinator) /\ cur[Coordinator].members = Node
    /\ Log(Coordinator, "P")
    /\ xgen' = cur[Coordinator].num
    /\ busy' = TRUE
    /\ UNCHANGED <<cluster, acks>>

ApplyPrepare ==
    /\ "P" \in wal[Coordinator] /\ wal[Participant] = {}
    /\ Online(Participant) /\ cur[Participant].num = xgen
    /\ Log(Participant, "P")
    /\ acks' = acks \cup {"P"}
    /\ UNCHANGED <<cluster, xgen, busy>>

Precommit ==
    /\ busy /\ wal[Coordinator] = {"P"}
    /\ "P" \in acks
    /\ Log(Coordinator, "PC")
    /\ UNCHANGED <<cluster, xgen, busy, acks>>

ApplyPrecommit ==
    /\ "PC" \in wal[Coordinator] \ wal[Participant]
    /\ Prepared(Participant) /\ Online(Participant)
    /\ Log(Participant, "PC")
    /\ acks' = acks \cup {"PC"}
    /\ UNCHANGED <<cluster, xgen, busy>>

Commit ==
    /\ busy /\ "PC" \in acks
    /\ Log(Coordinator, "CP")
    /\ busy' = FALSE
    /\ UNCHANGED <<cluster, xgen, acks>>

\* mtm_commit_cleanup
CommitFails ==
    /\ busy
    /\ busy' = FALSE
    /\ IF "PC" \in wal[Coordinator] THEN UNCHANGED wal ELSE Log(Coordinator, "AP")
    /\ UNCHANGED <<cluster, xgen, acks>>

\* finish_ready
AbortOwn ==
    /\ ~busy /\ wal[Coordinator] = {"P"}
    /\ Log(Coordinator, "AP")
    /\ UNCHANGED <<cluster, xgen, busy, acks>>

\* The receiver gets what the peer has finished.
ApplyFinish(i) ==
    /\ Prepared(i) /\ Released(i) /\ Online(i)
    /\ \E r \in wal[Other(i)] \cap {"CP", "AP"} : Log(i, r)
    /\ UNCHANGED <<cluster, xgen, busy, acks>>

\* Mutant of ResolveForRefereeWinner: in a generation of both, too.
ResolveOnline(i) ==
    /\ Prepared(i) /\ Released(i) /\ Online(i)
    /\ Log(i, IF "PC" \in wal[i] THEN "CP" ELSE "AP")
    /\ UNCHANGED <<cluster, xgen, busy, acks>>

ResolveForRefereeWinner(i) ==
    /\ Prepared(i) /\ Released(i)
    /\ Online(i) /\ IsRefereeGen(cur[i])
    /\ Log(i, IF "PC" \in wal[i] THEN "CP" ELSE "AP")
    /\ UNCHANGED <<cluster, xgen, busy, acks>>

----------------------------------------------------------------------------
Next ==
    \/ \E i \in Node :
        \/ Heartbeat(i) \/ GetOnline(i)
        \/ \E C \in {{i}, Node} : CampaignMyself(i, C)
        \/ \E b \in ballots : VoteFor(i, b.gen)
        \/ TourWon(i) \/ TourFails(i)
        \/ RefereeExecutes(i) \/ Granted(i) \/ AskFails(i)
        \/ RefereeClearGrant(i) \/ Cleared(i) \/ ClearFails(i) \/ NoReferee(i)
        \/ CampaignerRestarts(i) \/ NodeRestarts(i)
        \/ ApplyFinish(i) \/ ResolveForRefereeWinner(i)
    \/ Prepare \/ ApplyPrepare \/ Precommit \/ ApplyPrecommit \/ Commit
    \/ CommitFails \/ AbortOwn

Spec == Init /\ [][Next]_vars

----------------------------------------------------------------------------
\* Type correctness, with what generations never lose: a node is not online
\* beyond its generation nor in it beyond its vote, and the row of the referee
\* is for a generation its node voted for.
TypeOK ==
    /\ \A i \in Node : loi[i] <= cur[i].num /\ cur[i].num <= vote[i].num
    /\ \A i \in Node : pending[i] <= cur[i].num /\ has[i] \subseteq alone
    /\ grant # None => grant.num <= vote[grant.node].num

\* No split brain: a node that is online has the commits of every earlier
\* generation in which a node worked alone on the word of the referee.
HoldsAll ==
    \A i \in Node : Online(i) => {g \in alone : g.num <= cur[i].num} \subseteq has[i]

\* The transaction is never committed at one node and aborted at the other,
\* also where a winner of the grant finished it by itself.
Agreement == \A i, j \in Node : ~("CP" \in wal[i] /\ "AP" \in wal[j])

\* Two nodes do not compete for a generation of both: when one proposes it, the
\* other is neither in that generation or a later one nor bound by another vote.
NeverOutvoted ==
    \A i \in Node : Waits(i, "tour") =>
        LET j == Other(i) IN
        /\ cur[j].num < call[i].gen.num
        /\ vote[j].num < call[i].gen.num \/ vote[j] = call[i].gen

\* A grant nobody uses is not forgotten: when both are online in a generation
\* of both and no request is under way, somebody means to turn it in.
GrantRemembered ==
    (/\ grant # None
     /\ \A i \in Node : /\ cur[i].members = Node /\ Online(i) /\ call[i] = None
     /\ \A i, j \in Node : cur[i] = cur[j])
    => \E i \in Node : pending[i] # 0
=============================================================================
