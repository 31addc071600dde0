------------------------------- MODULE Commit -------------------------------
(***************************************************************************)
(* The commit of one transaction: the coordinator's backend (commit.c), the *)
(* apply workers of its peers (pglogical_apply.c), and the resolvers        *)
(* (resolver.c) and repliers (state.c) that finish it by Paxos when the     *)
(* backend does not.                                                        *)
(*                                                                          *)
(* The transaction belongs to a generation with the given members.  Of the  *)
(* generations after it only this matters: a node that has switched refuses *)
(* PREPARE, and goes online when it was a donor or has pulled from an       *)
(* online node what that one has (module Recovery).                         *)
(***************************************************************************)
EXTENDS Integers, FiniteSets

CONSTANTS
    Node,         \* the configured nodes, 1 .. n
    Coordinator,  \* where the client runs the transaction
    Members,      \* the members of the transaction's generation
    Reloading,    \* bound: the nodes whose monitor may restart by itself
    Crashing,     \* bound: the nodes that may crash
    MaxBallot     \* bound: resolvers do not go beyond this ballot

ASSUME CommitAssumption ==
    /\ Node \subseteq Nat \ {0} /\ IsFiniteSet(Node)
    /\ Members \subseteq Node /\ Coordinator \in Members
    /\ Reloading \subseteq Node /\ Crashing \subseteq Node
    /\ MaxBallot \in Nat \ {0}

VARIABLES
    wal,      \* wal[i]: the records i has logged, by itself or as an applier
    gtx,      \* gtx[i]: the GlobalTx of the transaction at i
    coord,    \* what the coordinator's backend is at
    locked,   \* the backend holds the GlobalTx
    doomed,   \* finish_ready of the coordinator has chosen to abort
    replier,  \* replier[i]: the request that handle_1a of i is at
    later,    \* later[i]: how far i is beyond the transaction's generation
    sent      \* messages sent; they may be lost, reordered and late

vars == <<wal, gtx, coord, locked, doomed, replier, later, sent>>
backendVars == <<coord, locked>>

Term == [ballot : 0 .. MaxBallot, node : Node \cup {0}]
InvalidGTxTerm == [ballot |-> 0, node |-> 0]
InitialGTxTerm == [ballot |-> 1, node |-> 0]

\* term_cmp(s, t) < 0.
Less(s, t) == s.ballot < t.ballot \/ (s.ballot = t.ballot /\ s.node < t.node)

Decree == {"precommit", "preabort"}
GTxState == [proposal : Term, accepted : Term, status : {"invalid", "commit", "abort"} \cup Decree]
State(p, a, s) == [proposal |-> p, accepted |-> a, status |-> s]
NoVote == State(InvalidGTxTerm, InvalidGTxTerm, "invalid")
Fresh == State(InitialGTxTerm, InvalidGTxTerm, "invalid")
Voted(t, s) == State(t, t, s)

\* A GlobalTx: the state kept in WAL, and what its resolver remembers.  There
\* is one at i exactly while the transaction is prepared there.
GlobalTx(s) ==
    [state |-> s, stage |-> "AwaitStatus",
     phase1 |-> [j \in Node |-> NoVote], phase2 |-> [j \in Node |-> NoVote]]
NoGtx == GlobalTx(NoVote)

Quorum(S) == Cardinality(S) >= (Cardinality(Node) \div 2) + 1

Has(i, kind) == kind \in wal[i]
Prepared(i) == Has(i, "P") /\ ~Has(i, "CP") /\ ~Has(i, "AP")
Locked(i) == i = Coordinator /\ locked

Init ==
    /\ wal = [i \in Node |-> {}]
    /\ gtx = [i \in Node |-> NoGtx]
    /\ coord = "idle"
    /\ locked = FALSE
    /\ doomed = FALSE
    /\ replier = [i \in Node |-> [at |-> "idle"]]
    /\ later = [i \in Node |-> "same"]
    /\ sent = {}

Log(i, kind) == wal' = [wal EXCEPT ![i] = @ \cup {kind}]
SetState(i, s) == gtx' = [gtx EXCEPT ![i].state = s]
NewGtx(i) == gtx' = [gtx EXCEPT ![i] = GlobalTx(Fresh)]

\* FinishPreparedTransaction, and GlobalTxRelease of what is finished.
Finish(i, kind) ==
    /\ Log(i, kind)
    /\ gtx' = [gtx EXCEPT ![i] = NoGtx]
Send(m) == sent' = sent \cup {m}

----------------------------------------------------------------------------
(* The coordinator's backend, MtmTwoPhaseCommit.                           *)

Prepare ==
    /\ coord = "idle"
    /\ later[Coordinator] = "same"
    /\ coord' = "prepared"
    /\ locked' = TRUE
    /\ Log(Coordinator, "P")
    /\ NewGtx(Coordinator)
    /\ UNCHANGED <<doomed, replier, later, sent>>

Acked == {m.from : m \in {k \in sent : k.type = "prepared"}}

\* The backend hears its peers until the monitor restarts: that ends the dmq
\* receivers, and gather() gives up on the nodes behind them.  The lock on
\* the GlobalTx is lost by the same restart.
Hears(nodes) == IF locked THEN nodes ELSE {}

\* Mutant of GatherPrepared: the coordinator is counted as one of its peers.
GatherButOne ==
    /\ coord = "prepared"
    /\ Cardinality(Members \ {Coordinator}) <= Cardinality(Hears(Acked)) + 1
    /\ coord' = "ready"
    /\ UNCHANGED <<wal, gtx, locked, doomed, replier, later, sent>>

GatherPrepared ==
    /\ coord = "prepared"
    /\ Members \ {Coordinator} \subseteq Hears(Acked)
    /\ coord' = "ready"
    /\ UNCHANGED <<wal, gtx, locked, doomed, replier, later, sent>>

\* The vote is cast in the first term, without a look at the state: nobody
\* else changes what is locked.
Precommit ==
    /\ coord = "ready"
    /\ Prepared(Coordinator)
    /\ coord' = "precommitted"
    /\ Log(Coordinator, "PC")
    /\ SetState(Coordinator, Voted(InitialGTxTerm, "precommit"))
    /\ UNCHANGED <<locked, doomed, replier, later, sent>>

Precommitted == {m.from : m \in {k \in sent : k.type = "precommitted"}}

Commit ==
    /\ coord = "precommitted"
    /\ Prepared(Coordinator)
    /\ Quorum({Coordinator} \cup (Members \cap Hears(Precommitted)))
    /\ coord' = "done"
    /\ locked' = FALSE
    /\ Finish(Coordinator, "CP")
    /\ UNCHANGED <<doomed, replier, later, sent>>

\* An error, a cancellation or the loss of the client, mtm_commit_cleanup:
\* what has not been precommitted is aborted, the rest is for the resolver.
Fail ==
    /\ coord \in {"prepared", "ready", "precommitted"}
    /\ coord' = "done"
    /\ locked' = FALSE
    /\ IF Prepared(Coordinator) /\ gtx[Coordinator].state.accepted = InvalidGTxTerm
         THEN Finish(Coordinator, "AP")
         ELSE UNCHANGED <<wal, gtx>>
    /\ UNCHANGED <<doomed, replier, later, sent>>

----------------------------------------------------------------------------
(* Apply workers, process_remote_commit, in normal mode.                   *)

ApplyPrepare(i) ==
    /\ i \in Members \ {Coordinator}
    /\ Has(Coordinator, "P")
    /\ ~Has(i, "P")
    /\ later[i] = "same"
    /\ Log(i, "P")
    /\ NewGtx(i)
    /\ Send([type |-> "prepared", from |-> i])
    /\ UNCHANGED <<backendVars, doomed, replier, later>>

\* PGLOGICAL_PREPARE_PHASE2A where the rules of Paxos allow the vote.
TakePrecommit(i) ==
    /\ Prepared(i)
    /\ ~Less(InitialGTxTerm, gtx[i].state.proposal)
    /\ Log(i, "PC")
    /\ SetState(i, Voted(InitialGTxTerm, "precommit"))

ApplyPrecommit(i) ==
    /\ i # Coordinator
    /\ Has(Coordinator, "PC")
    /\ later[i] # "switched"
    /\ TakePrecommit(i)
    /\ Send([type |-> "precommitted", from |-> i])
    /\ UNCHANGED <<backendVars, doomed, replier, later>>

\* PGLOGICAL_COMMIT_PREPARED and PGLOGICAL_ABORT_PREPARED.  In normal mode a
\* node gets what a peer has finished by itself; what the peer has applied,
\* another peer has finished by itself.
ApplyFinish(i, j, kind) ==
    /\ j # i
    /\ Has(j, kind)
    /\ later[i] # "switched"
    /\ Prepared(i) /\ ~Locked(i)
    /\ Finish(i, kind)
    /\ UNCHANGED <<backendVars, doomed, replier, later, sent>>

----------------------------------------------------------------------------
(* Later generations.                                                      *)

\* A donor goes online at once; another node needs recovery.
Switch(i, to) ==
    /\ later[i] = "same"
    /\ to = "online" => i \in Members
    /\ later' = [later EXCEPT ![i] = to]
    /\ UNCHANGED <<wal, gtx, backendVars, doomed, replier, sent>>

\* In recovery a node applies the records of an online one in their order,
\* forwarded ones too, and does not reply.
RecoverRecord(i, d) ==
    /\ later[i] = "switched" /\ later[d] = "online"
    /\ \/ Has(d, "P") /\ ~Has(i, "P") /\ Log(i, "P") /\ NewGtx(i)
       \/ Has(d, "PC") /\ ~Locked(i) /\ TakePrecommit(i)
       \/ \E kind \in {"CP", "AP"} :
            Has(d, kind) /\ Prepared(i) /\ ~Locked(i) /\ Finish(i, kind)
    /\ UNCHANGED <<backendVars, doomed, replier, later, sent>>

\* ParallelSafe is reached, which lies behind PREPARE.
GetOnline(i, d) ==
    /\ later[i] = "switched" /\ later[d] = "online"
    /\ Has(d, "P") => Has(i, "P")
    /\ later' = [later EXCEPT ![i] = "online"]
    /\ UNCHANGED <<wal, gtx, backendVars, doomed, replier, sent>>

----------------------------------------------------------------------------
(* The resolver.                                                           *)

\* finish_ready collects own transactions that were never precommitted, and
\* finishes them after it has let go of the lock, without another look.
ChooseOwn ==
    /\ Prepared(Coordinator) /\ ~locked
    /\ gtx[Coordinator].state.status = "invalid"
    /\ ~doomed
    /\ doomed' = TRUE
    /\ UNCHANGED <<wal, gtx, backendVars, replier, later, sent>>

AbortOwn ==
    /\ doomed
    /\ doomed' = FALSE
    /\ ~(Prepared(Coordinator) /\ locked)
    /\ IF Prepared(Coordinator) THEN Finish(Coordinator, "AP") ELSE UNCHANGED <<wal, gtx>>
    /\ UNCHANGED <<backendVars, replier, later, sent>>

\* scatter_status_requests.  The transaction has been orphaned: the receiver
\* from its coordinator may exit at any time.
NextTerm(i) == [ballot |-> gtx[i].state.proposal.ballot + 1, node |-> i]

ScatterStatusRequests(i) ==
    /\ Prepared(i) /\ ~Locked(i)
    /\ NextTerm(i).ballot <= MaxBallot
    /\ gtx' = [gtx EXCEPT ![i].state.proposal = NextTerm(i), ![i].stage = "AwaitStatus"]
    /\ Send([type |-> "1a", from |-> i, term |-> NextTerm(i)])
    /\ UNCHANGED <<wal, backendVars, doomed, replier, later>>

\* quorum(): a majority has acknowledged the term, which is my own.
QuorumOf(i, acks) ==
    /\ acks[i].proposal.node = i
    /\ Quorum({j \in Node : acks[j].proposal = acks[i].proposal})

\* The decree of the highest vote, abort if there is none.
Counted(acks) == {j \in Node : acks[j].proposal # InvalidGTxTerm}
Highest(acks) ==
    {j \in Counted(acks) : \A k \in Counted(acks) : ~Less(acks[j].accepted, acks[k].accepted)}
Decision(acks) ==
    IF \E j \in Highest(acks) : acks[j].status = "precommit" THEN "precommit" ELSE "preabort"

Outcome(status) == IF status \in {"commit", "precommit"} THEN "CP" ELSE "AP"

\* handle_response to a status response.
Handle1b(i, m) ==
    LET term == gtx[i].state.proposal
        acks == [gtx[i].phase1 EXCEPT ![i] = gtx[i].state, ![m.from] = m.state]
    IN
    /\ Prepared(i) /\ ~Locked(i)
    /\ gtx[i].stage = "AwaitStatus"
    /\ \/ /\ m.state.status \in {"commit", "abort"}
          /\ Finish(i, Outcome(m.state.status))
          /\ UNCHANGED sent
       \/ /\ m.state.status \notin {"commit", "abort"}
          /\ QuorumOf(i, acks)
          /\ gtx' = [gtx EXCEPT ![i].state = Voted(term, Decision(acks)),
                                ![i].stage = "AwaitAcks",
                                ![i].phase1 = acks]
          /\ Send([type |-> "2a", from |-> i, term |-> term, decree |-> Decision(acks)])
          /\ UNCHANGED wal
       \/ /\ m.state.status \notin {"commit", "abort"}
          /\ ~QuorumOf(i, acks)
          /\ gtx' = [gtx EXCEPT ![i].phase1 = acks]
          /\ UNCHANGED <<wal, sent>>
    /\ UNCHANGED <<backendVars, doomed, replier, later>>

\* handle_response to the acknowledgement of a vote.
Handle2b(i, m) ==
    LET acks == [gtx[i].phase2 EXCEPT ![i] = gtx[i].state, ![m.from] = Voted(m.term, m.decree)]
    IN
    /\ Prepared(i) /\ ~Locked(i)
    /\ gtx[i].stage = "AwaitAcks"
    /\ IF QuorumOf(i, acks)
         THEN /\ Finish(i, Outcome(m.decree))
              /\ Send([type |-> "finish", from |-> i, kind |-> Outcome(m.decree)])
         ELSE /\ gtx' = [gtx EXCEPT ![i].phase2 = acks]
              /\ UNCHANGED <<wal, sent>>
    /\ UNCHANGED <<backendVars, doomed, replier, later>>

----------------------------------------------------------------------------
(* The replier.                                                            *)

Reply(i, m, s) == Send([type |-> "1b", from |-> i, to |-> m.from, state |-> s])

\* handle_1a_gtx: promise, or refuse with an empty state.
Promise(i, m) ==
    IF Less(gtx[i].state.proposal, m.term)
      THEN LET s == [gtx[i].state EXCEPT !.proposal = m.term] IN SetState(i, s) /\ Reply(i, m, s)
      ELSE UNCHANGED gtx /\ Reply(i, m, NoVote)

\* handle_1a: the fast check.  Without a prepared transaction the replier
\* remembers whether its node is online in a later generation ...
Handle1a(i, m) ==
    /\ replier[i].at = "idle"
    /\ m.from # i
    /\ \/ /\ Prepared(i) /\ ~Locked(i)
          /\ Promise(i, m)
          /\ UNCHANGED replier
       \/ /\ ~Prepared(i)
          /\ replier' = [replier EXCEPT ![i] =
                 [at |-> "scan", req |-> m, online |-> later[i] = "online"]]
          /\ UNCHANGED <<gtx, sent>>
    /\ UNCHANGED <<wal, backendVars, doomed, later>>

\* Mutant of ScanWal: last_online_in is read after the scan.
ScanThenRead(i) ==
    /\ replier[i].at \in {"scan", "scanned"}
    /\ replier' = [replier EXCEPT ![i] =
           IF @.at = "scan"
             THEN [at |-> "scanned", req |-> @.req, seen |-> wal[i]]
             ELSE [at |-> "recheck", req |-> @.req, seen |-> @.seen, online |-> later[i] = "online"]]
    /\ UNCHANGED <<wal, gtx, backendVars, doomed, later, sent>>

\* ... scans the WAL ...
ScanWal(i) ==
    /\ replier[i].at = "scan"
    /\ replier' = [replier EXCEPT ![i] =
           [at |-> "recheck", req |-> @.req, online |-> @.online, seen |-> wal[i]]]
    /\ UNCHANGED <<wal, gtx, backendVars, doomed, later, sent>>

\* ... and answers, unless PREPARE has come meanwhile.
Recheck(i) ==
    LET r == replier[i] IN
    /\ r.at = "recheck"
    /\ replier' = [replier EXCEPT ![i] = [at |-> "idle"]]
    /\ \/ /\ "CP" \in r.seen
          /\ Reply(i, r.req, [NoVote EXCEPT !.status = "commit"]) /\ UNCHANGED gtx
       \/ /\ "AP" \in r.seen
          /\ Reply(i, r.req, [NoVote EXCEPT !.status = "abort"]) /\ UNCHANGED gtx
       \/ /\ r.seen \cap {"CP", "AP"} = {}
          /\ Prepared(i) /\ ~Locked(i)
          /\ Promise(i, r.req)
       \/ /\ r.seen \cap {"CP", "AP"} = {}
          /\ ~Prepared(i)
          /\ Reply(i, r.req, IF "P" \notin r.seen /\ r.online
                               THEN [NoVote EXCEPT !.status = "abort"] ELSE NoVote)
          /\ UNCHANGED gtx
    /\ UNCHANGED <<wal, backendVars, doomed, later>>

\* Mutant of Handle2a: the decree is taken for a precommit whatever it is.
AlwaysPrecommit(i, m) ==
    /\ replier[i].at = "idle"
    /\ m.from # i
    /\ Prepared(i) /\ ~Locked(i)
    /\ ~Less(m.term, gtx[i].state.proposal)
    /\ SetState(i, Voted(m.term, "precommit"))
    /\ Send([type |-> "2b", from |-> i, to |-> m.from, term |-> m.term, decree |-> "precommit"])
    /\ UNCHANGED <<wal, backendVars, doomed, replier, later>>

\* handle_2a; a refusal has no effect at the resolver.
Handle2a(i, m) ==
    /\ replier[i].at = "idle"
    /\ m.from # i
    /\ Prepared(i) /\ ~Locked(i)
    /\ ~Less(m.term, gtx[i].state.proposal)
    /\ SetState(i, Voted(m.term, m.decree))
    /\ Send([type |-> "2b", from |-> i, to |-> m.from, term |-> m.term, decree |-> m.decree])
    /\ UNCHANGED <<wal, backendVars, doomed, replier, later>>

\* MTReq_Commit and MTReq_Abort.
HandleFinish(i, m) ==
    /\ replier[i].at = "idle"
    /\ m.from # i
    /\ Prepared(i) /\ ~Locked(i)
    /\ Finish(i, m.kind)
    /\ UNCHANGED <<backendVars, doomed, replier, later, sent>>

----------------------------------------------------------------------------
(* Failures.                                                               *)

\* What GlobalTxLoadAll forgets: the transaction is read back from WAL.
Reload(i) ==
    /\ gtx' = [gtx EXCEPT ![i] = GlobalTx(@.state)]
    /\ replier' = [replier EXCEPT ![i] = [at |-> "idle"]]
    /\ locked' = (locked /\ i # Coordinator)
    /\ doomed' = (doomed /\ i # Coordinator)
    /\ UNCHANGED <<wal, later, sent>>

Crash(i) ==
    /\ i \in Crashing
    /\ Reload(i)
    /\ coord' = IF i = Coordinator /\ coord # "idle" THEN "done" ELSE coord

\* The monitor restarts, and resolver and replier with it, but not backends.
MonitorRestart(i) ==
    /\ i \in Reloading
    /\ Reload(i)
    /\ UNCHANGED coord

----------------------------------------------------------------------------

Backend == Prepare \/ GatherPrepared \/ Precommit \/ Commit \/ Fail

Apply(i) ==
    \/ ApplyPrepare(i)
    \/ ApplyPrecommit(i)
    \/ \E j \in Node, kind \in {"CP", "AP"} : ApplyFinish(i, j, kind)

Generation(i) ==
    \/ \E to \in {"switched", "online"} : Switch(i, to)
    \/ \E d \in Node : RecoverRecord(i, d) \/ GetOnline(i, d)

Resolver(i) ==
    \/ ScatterStatusRequests(i)
    \/ \E m \in sent : m.type = "1b" /\ m.to = i /\ Handle1b(i, m)
    \/ \E m \in sent : m.type = "2b" /\ m.to = i /\ Handle2b(i, m)

Replier(i) ==
    \/ \E m \in sent : m.type = "1a" /\ Handle1a(i, m)
    \/ ScanWal(i)
    \/ Recheck(i)
    \/ \E m \in sent : m.type = "2a" /\ Handle2a(i, m)
    \/ \E m \in sent : m.type = "finish" /\ HandleFinish(i, m)

Next ==
    \/ Backend
    \/ ChooseOwn
    \/ AbortOwn
    \/ \E i \in Node :
        Apply(i) \/ Generation(i) \/ Resolver(i) \/ Replier(i) \/ Crash(i) \/ MonitorRestart(i)

Spec == Init /\ [][Next]_vars

----------------------------------------------------------------------------

\* The types of GlobalTx and of the messages; no resolver's outcome other than
\* commit or abort is ever logged.
TypeOK ==
    /\ wal \in [Node -> SUBSET {"P", "PC", "CP", "AP"}]
    /\ gtx \in [Node -> [state : GTxState, stage : {"AwaitStatus", "AwaitAcks"},
                         phase1 : [Node -> GTxState], phase2 : [Node -> GTxState]]]
    /\ coord \in {"idle", "prepared", "ready", "precommitted", "done"}
    /\ locked \in BOOLEAN /\ doomed \in BOOLEAN
    /\ later \in [Node -> {"same", "switched", "online"}]

\* The transaction is never committed on one node and aborted on another,
\* whoever finishes it: the backend, its cleanup, the resolver of any node,
\* an abort because a later generation is online without it, or recovery.
Agreement == \A i, j \in Node : ~(Has(i, "CP") /\ Has(j, "AP"))

\* What is committed anywhere has been prepared by every member of its
\* generation, so that donors of later ones have it.
CommittedIsPrepared ==
    \A i \in Node : Has(i, "CP") => \A j \in Members : Has(j, "P")

\* Assertions of handle_response: "Decrees of all the votes with this term
\* must be equal, seize the moment to sanity check it".
OneDecreePerTerm ==
    LET votes == {<<gtx[i].state.accepted, gtx[i].state.status>> : i \in Node}
                   \cup {<<m.term, m.decree>> : m \in {k \in sent : k.type \in {"2a", "2b"}}}
    IN \A v, w \in votes : v[1] = w[1] => v[2] = w[2]
=============================================================================
