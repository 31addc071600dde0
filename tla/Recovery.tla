------------------------------ MODULE Recovery ------------------------------
(***************************************************************************)
(* Generations and the transactions stamped with them: backends prepare    *)
(* in the generation their node is online in, receivers and apply workers  *)
(* carry the prepares to the other nodes, and a node that was away pulls   *)
(* the WAL of a donor up to the ParallelSafe record of its generation.     *)
(*                                                                         *)
(* Elections are those of GenElection (Campaign shows that the protocol    *)
(* implements it).  The WAL of a node is the sequence of its prepares and  *)
(* ParallelSafe records.  A prepare and a generation switch exclude each   *)
(* other by the prepare barrier (PrepareBarrier), so each is one step.     *)
(***************************************************************************)
EXTENDS GenElection, Sequences

CONSTANTS
    Xact,         \* the transactions backends may start, numbered
    MaxVoters,    \* bound on the votes given for one generation
    MaxEvents     \* bound on transactions started and generations proposed

VARIABLES
    mode,       \* mode[i]: receive_mode
    wal,        \* wal[i]: WAL of node i
    xact,       \* xact[x]: NoXact, or origin and generation of x
    acks,       \* acks[x]: nodes that answered the coordinator "prepared"
    session,    \* session[i]: the nodes i runs a recovery receiver from
    inflight    \* inflight[i]: handed to parallel apply workers of i

dataVars == <<wal, xact, acks>>
recvVars == <<session, inflight>>
rvars == <<vars, mode, wal, xact, acks, session, inflight>>

ASSUME NodeIdAssumption == Node \subseteq Nat \ {0} /\ Xact \subseteq Nat

Disabled == [kind |-> "disabled"]
Normal == [kind |-> "normal"]
RecoverFrom(d) == [kind |-> "recovery", from |-> d]

\* first_set_bit
FirstSetBit(S) == CHOOSE d \in S : \A e \in S : d <= e

NoXact == [gen |-> 0]
PrepareRec(x) == [kind |-> "prepare", xact |-> x]
ParallelSafe(g, D) == [kind |-> "ps", gen |-> g, donors |-> D]

RInit ==
    /\ Init
    /\ mode = [i \in Node |-> Normal]
    /\ wal = [i \in Node |-> <<ParallelSafe(FirstGen, Node)>>]
    /\ xact = [x \in Xact |-> NoXact]
    /\ acks = [x \in Xact |-> {}]
    /\ session = [i \in Node |-> {}]
    /\ inflight = [i \in Node |-> {}]

HasPrepare(i, x) == \E k \in DOMAIN wal[i] : wal[i][k] = PrepareRec(x)

Log(i, r) == wal' = [wal EXCEPT ![i] = Append(@, r)]

----------------------------------------------------------------------------
(* Elections and switches.                                                 *)

Events ==
    Cardinality({x \in Xact : xact[x] # NoXact}) + Cardinality({b.gen : b \in ballots})

\* A vote may end the recovery in the current generation.
VoteFor(i, g) ==
    /\ Cardinality({b \in ballots : b.gen = g}) < MaxVoters
    /\ (\A b \in ballots : b.gen # g) => Events < MaxEvents
    /\ Vote(i, g)
    /\ mode' = IF InRecovery(i) THEN [mode EXCEPT ![i] = Disabled] ELSE mode
    /\ UNCHANGED <<dataVars, recvVars>>

\* Mutant of ConsiderGenSwitch: a donor goes online without ParallelSafe.
SwitchSilently(i, g, D) ==
    /\ Switch(i, g, D)
    /\ mode' = [mode EXCEPT ![i] =
           IF ~MayServe(i, g) THEN Disabled
           ELSE IF i \in D THEN Normal ELSE RecoverFrom(FirstSetBit(D))]
    /\ UNCHANGED dataVars

\* MtmConsiderGenSwitch
ConsiderGenSwitch(i, g, D) ==
    /\ Switch(i, g, D)
    /\ IF MayServe(i, g) /\ i \in D
         THEN /\ Log(i, ParallelSafe(g, D))
              /\ mode' = [mode EXCEPT ![i] = Normal]
         ELSE /\ mode' = [mode EXCEPT ![i] =
                     IF MayServe(i, g) THEN RecoverFrom(FirstSetBit(D)) ELSE Disabled]
              /\ UNCHANGED wal
    /\ UNCHANGED <<xact, acks>>

\* A node learns of an elected generation, from its own victory, a heartbeat
\* or a vote response.
LearnGen(i, g, D) == ConsiderGenSwitch(i, g, D) /\ UNCHANGED recvVars

\* SetCatchupDonor: a dead node follows some node it is connected to.
SetCatchupDonor(i, d) ==
    /\ Dead(i)
    /\ mode' = [mode EXCEPT ![i] = RecoverFrom(d)]
    /\ UNCHANGED <<vars, dataVars, recvVars>>

----------------------------------------------------------------------------
(* Transactions.                                                           *)

\* MtmTwoPhaseCommit up to PREPARE at the coordinator.  Transactions differ
\* only in their names, so they are taken in the order of those.
Prepare(i, x) ==
    /\ xact[x] = NoXact
    /\ \A y \in Xact : y < x => xact[y] # NoXact
    /\ Events < MaxEvents
    /\ Online(i)
    /\ xact' = [xact EXCEPT ![x] = [origin |-> i, gen |-> cur[i].num]]
    /\ acks' = [acks EXCEPT ![x] = {i}]
    /\ Log(i, PrepareRec(x))
    /\ UNCHANGED <<vars, mode, recvVars>>

\* pglogical_receiver_main, registration: a recovery receiver runs alone, so
\* it waits for the normal ones to exit, which takes their workers and the
\* work these hold.  Normal receivers run whenever there is none in recovery.
StartRecovery(i) ==
    /\ session[i] = {}
    /\ mode[i].kind = "recovery"
    /\ session' = [session EXCEPT ![i] = {mode[i].from}]
    /\ inflight' = [inflight EXCEPT ![i] = {}]
    /\ UNCHANGED <<vars, mode, dataVars>>

\* A recovery receiver exits: its mode is not the one called for any more,
\* or the connection broke.
ExitRecovery(i) ==
    /\ session[i] # {}
    /\ session' = [session EXCEPT ![i] = {}]
    /\ UNCHANGED <<vars, mode, dataVars, inflight>>

\* The records that a recovery receiver does not simply pass over.  Prepares
\* the node has are filtered out; a ParallelSafe record counts if it is of a
\* higher generation or ends the recovery in the current one.
Relevant(i, r) ==
    \/ r.kind = "prepare" /\ ~HasPrepare(i, r.xact)
    \/ r.kind = "ps" /\ r.gen.num > cur[i].num
    \/ r.kind = "ps" /\ r.gen.num = cur[i].num /\ InRecovery(i)

\* The next record of d for i: receivers start at a point where all earlier
\* records were applied and read on in WAL order.
IsNextRecord(i, d, k) ==
    /\ k \in DOMAIN wal[d]
    /\ Relevant(i, wal[d][k])
    /\ \A m \in 1 .. (k - 1) : ~Relevant(i, wal[d][m])

\* In recovery the receiver applies records one by one.  It compares its mode
\* with receive_mode before it fetches a record, so that it may be late to
\* notice a change; here it may go on until it exits.  PREPARE of a generation
\* above the current one is FATAL: the receiver exits.
ApplyPrepareInRecovery(i, r) ==
    /\ r.kind = "prepare"
    /\ xact[r.xact].gen <= cur[i].num
    /\ Log(i, r)
    /\ UNCHANGED <<vars, mode, xact, acks>>

\* MtmHandleParallelSafe: the switch ...
ParallelSafeSwitches(i, r) ==
    /\ r.kind = "ps"
    /\ r.gen.num > cur[i].num
    /\ ConsiderGenSwitch(i, r.gen, r.donors)

\* ... and the end of recovery.
ParallelSafeEndsRecovery(i, r) ==
    /\ r.kind = "ps"
    /\ r.gen.num = cur[i].num
    /\ GetOnline(i)
    /\ Log(i, r)
    /\ mode' = [mode EXCEPT ![i] = Normal]
    /\ UNCHANGED <<xact, acks>>

ApplyInRecovery(i) ==
    /\ \E d \in session[i] : \E k \in DOMAIN wal[d] :
        /\ IsNextRecord(i, d, k)
        /\ \/ ApplyPrepareInRecovery(i, wal[d][k])
           \/ ParallelSafeSwitches(i, wal[d][k])
           \/ ParallelSafeEndsRecovery(i, wal[d][k])
    /\ UNCHANGED recvVars

\* Mutant of PassedParallelSafe: ParallelSafe records are skipped.
IsLogged(i, j, x) == \E k \in DOMAIN wal[j] : wal[j][k] = PrepareRec(x)

\* In normal mode the receiver of j's changes takes j's own transactions. It
\* has applied every ParallelSafe record before them, and reconnects at one
\* that finds the node in recovery.
PassedParallelSafe(i, j, x) ==
    \E k \in DOMAIN wal[j] :
        /\ wal[j][k] = PrepareRec(x)
        /\ \A m \in 1 .. (k - 1) : wal[j][m].kind = "ps" =>
               \/ wal[j][m].gen.num < cur[i].num
               \/ wal[j][m].gen.num = cur[i].num /\ ~InRecovery(i)

FetchInNormal(i, x) ==
    /\ session[i] = {}
    /\ mode[i] = Normal
    /\ xact[x] # NoXact
    /\ xact[x].origin # i
    /\ ~HasPrepare(i, x)
    /\ x \notin inflight[i]
    /\ PassedParallelSafe(i, xact[x].origin, x)
    /\ inflight' = [inflight EXCEPT ![i] = @ \cup {x}]
    /\ UNCHANGED <<vars, mode, dataVars, session>>

\* The conditions under which applying PREPARE in normal mode is FATAL.
Misplaced(i, x) ==
    \/ cur[i].num < xact[x].gen
    \/ cur[i].num = xact[x].gen /\ ~Online(i)

\* Mutant of ApplyInNormal: prepares of older generations are accepted.
ApplyLate(i, x) ==
    /\ x \in inflight[i]
    /\ ~Misplaced(i, x)
    /\ inflight' = [inflight EXCEPT ![i] = @ \ {x}]
    /\ Log(i, PrepareRec(x))
    /\ acks' = [acks EXCEPT ![x] = @ \cup {i}]
    /\ UNCHANGED <<vars, mode, xact, session>>

\* A worker applies PREPARE, or refuses it when the generation has changed.
ApplyInNormal(i, x) ==
    /\ x \in inflight[i]
    /\ ~Misplaced(i, x)
    /\ inflight' = [inflight EXCEPT ![i] = @ \ {x}]
    /\ IF xact[x].gen < cur[i].num
         THEN UNCHANGED <<wal, acks>>
         ELSE /\ Log(i, PrepareRec(x))
              /\ acks' = [acks EXCEPT ![x] = @ \cup {i}]
    /\ UNCHANGED <<vars, mode, xact, session>>

\* Crash and MtmStateStartup.
Restart(i) ==
    /\ session' = [session EXCEPT ![i] = {}]
    /\ inflight' = [inflight EXCEPT ![i] = {}]
    /\ mode' = [mode EXCEPT ![i] =
           IF Online(i) THEN Normal
           ELSE IF InRecovery(i) THEN RecoverFrom(FirstSetBit(donors[i])) ELSE Disabled]
    /\ UNCHANGED <<vars, dataVars>>

\* GiveUp, by which failed campaigns raise last_vote, is left out: it elects
\* nobody, and it keeps a node from serving just as a vote does.
RNext ==
    \E i \in Node :
        \/ \E g \in Proposable : VoteFor(i, g)
        \/ \E g \in {b.gen : b \in ballots} :
               /\ cur[i].num < g.num
               /\ \E D \in {MostAdvanced(Q) : Q \in Victories(g)} : LearnGen(i, g, D)
        \/ \E d \in Node \ {i} : SetCatchupDonor(i, d)
        \/ \E x \in Xact : Prepare(i, x) \/ FetchInNormal(i, x) \/ ApplyInNormal(i, x)
        \/ StartRecovery(i)
        \/ ExitRecovery(i)
        \/ ApplyInRecovery(i)
        \/ Restart(i)

RSpec == RInit /\ [][RNext]_rvars

\* A recovery receiver whose mode is not receive_mode any more exits at the
\* next record or keepalive.
ExitStaleRecovery(i) ==
    /\ session[i] # {}
    /\ mode[i].kind = "recovery" => mode[i].from \notin session[i]
    /\ ExitRecovery(i)

\* Heartbeats are periodic and receivers loop: both go on.  A receiver may
\* lose its connection again and again, but not each time before it has
\* applied a single record more.
RFairness ==
    \A i \in Node :
        /\ \A g \in Proposable : WF_rvars(\E Q \in Victories(g) : LearnGen(i, g, MostAdvanced(Q)))
        /\ WF_rvars(StartRecovery(i))
        /\ WF_rvars(ExitStaleRecovery(i))
        /\ SF_rvars(ApplyInRecovery(i))

RLiveSpec == RSpec /\ RFairness

----------------------------------------------------------------------------

\* The types of the WAL and of the receivers; a recovering receiver has a node
\* to recover from.
RTypeOK ==
    /\ TypeOK
    /\ mode \in [Node -> {Disabled, Normal} \cup {RecoverFrom(d) : d \in Node}]
    /\ acks \in [Xact -> SUBSET Node]
    /\ inflight \in [Node -> SUBSET Xact]

\* x has been prepared in normal mode by all the members of its generation.
Committable(x) ==
    /\ xact[x] # NoXact
    /\ \E g \in {FirstGen} \cup {b.gen : b \in ballots} :
        /\ g.num = xact[x].gen
        /\ g.members \subseteq acks[x]
        /\ g = FirstGen \/ Victories(g) # {}

\* state.h: "Node which is MTM_GEN_ONLINE in generation n holds all
\* committable xacts of all generations < n", and holds them before the
\* ParallelSafe record of n in its WAL.
HoldsCommittable ==
    \A x \in Xact : Committable(x) =>
        \A i \in Node : \A k \in DOMAIN wal[i] :
            wal[i][k].kind = "ps" /\ wal[i][k].gen.num > xact[x].gen =>
                \E m \in 1 .. (k - 1) : wal[i][m] = PrepareRec(x)

\* state.h: "At each node all prepares of generation n who might ever be
\* committed lie strictly before all such prepares of generation n+1".
PreparesOrdered ==
    \A i \in Node : \A k, m \in DOMAIN wal[i] :
        (/\ wal[i][k].kind = "prepare" /\ wal[i][m].kind = "prepare"
         /\ Committable(wal[i][k].xact) /\ Committable(wal[i][m].xact)
         /\ xact[wal[i][k].xact].gen < xact[wal[i][m].xact].gen) => k < m

\* A worker in normal mode never takes the FATAL branches of PGLOGICAL_PREPARE:
\* "This must be always true, as any switch into online in gen is preceded by
\* logging ParallelSafe message which is applied by receiver itself."  In
\* recovery it may be false: a donor that has itself recovered the transaction
\* has not logged ParallelSafe of its generation.
NeverMisplaced == \A i \in Node : \A x \in inflight[i] : ~Misplaced(i, x)

\* The donor i would recover from will never log ParallelSafe of i's generation:
\* it is no member of it, or has voted for a higher one before it was online.
Blocked(i) ==
    LET d == FirstSetBit(donors[i])
    IN  /\ \A k \in DOMAIN wal[d] : wal[d][k].kind = "ps" => wal[d][k].gen # cur[i]
        /\ d \notin cur[i].members \/ vote[d].num > cur[i].num

\* Recovery ends: a node that is in recovery does not stay there when no
\* further election disturbs it, whatever receivers it had running before and
\* whatever records it passed over, if its first donor logs ParallelSafe at all.
RecoveryEnds == \A i \in Node : InRecovery(i) ~> ~InRecovery(i) \/ Blocked(i)
=============================================================================
