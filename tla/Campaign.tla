------------------------------ MODULE Campaign ------------------------------
(***************************************************************************)
(* How state.c elects generations and switches between them: the           *)
(* campaigner (CampaignMyself, CampaignTour), the voter of the replier     *)
(* (HandleGenVoteRequest), the switch itself (MtmConsiderGenSwitch) reached*)
(* from heartbeats, vote responses, victories and ParallelSafe records,    *)
(* and restart (MtmStateStartup).                                          *)
(*                                                                         *)
(* The persistent state of a node (cur, donors, loi, vote) and its history *)
(* are the variables of GenElection; every change of it is saved before    *)
(* the lock that guards it is released, so a crash between two actions     *)
(* loses none of it.  The one place where a handler saves twice, around    *)
(* LogParallelSafe, is two actions.  Connectivity is an input: the set of  *)
(* nodes a node sees and the clique it computes are chosen anew each time. *)
(***************************************************************************)
EXTENDS GenElection

VARIABLES
    psLogged,       \* psLogged[i]: FALSE between going online and logging it
    mode,           \* mode[i]: receive_mode
    tour,           \* tour[i]: the campaigner's tour, or NoTour
    requests,       \* vote requests not handled yet
    responses,      \* vote responses not gathered yet
    announced,      \* <<gen, donors>> pairs heartbeats may carry
    parallelSafe,   \* ParallelSafe records in the WAL of some node
    tours,          \* bounded counter: tours started
    restarts        \* bounded counter: crashes

localVars == <<psLogged, mode>>
netVars == <<requests, responses>>
counters == <<tours, restarts>>
cvars == <<vars, psLogged, mode, tour, requests, responses, announced, parallelSafe, tours, restarts>>

CONSTANTS
    MaxGenNum,    \* bound on the generation numbers proposed
    Views,        \* the connectivity masks (with me) a node may see
    MaxTours,     \* bound on tours
    MaxRestarts   \* bound on restarts

ASSUME NodeIdAssumption == Node \subseteq Nat \ {0}
ASSUME ViewsAssumption == Views \subseteq SUBSET Node
ASSUME CandidatesAssumption ==
    /\ MaxGenNum \in Nat
    /\ [num : 1 .. MaxGenNum, members : SUBSET Node] \subseteq Proposable

Disabled == [kind |-> "disabled"]
Normal == [kind |-> "normal"]
RecoverFrom(d) == [kind |-> "recovery", from |-> d]

\* first_set_bit
FirstSetBit(S) == CHOOSE d \in S : \A e \in S : d <= e

NoTour == [phase |-> "none"]

\* Mutant of RestoredMode: recovery is not resumed.
RestoredOnlyOnline(i) == IF Online(i) THEN Normal ELSE Disabled

\* receive_mode as MtmStateStartup restores it from the status in the
\* current generation.
RestoredMode(i) ==
    IF Online(i) THEN Normal
    ELSE IF InRecovery(i) THEN RecoverFrom(FirstSetBit(donors[i]))
    ELSE Disabled

Pair(g, D) == [gen |-> g, donors |-> D]

CInit ==
    /\ Init
    /\ psLogged = [i \in Node |-> TRUE]
    /\ mode = [i \in Node |-> Normal]
    /\ tour = [i \in Node |-> NoTour]
    /\ requests = {}
    /\ responses = {}
    /\ announced = {Pair(FirstGen, Node)}
    /\ parallelSafe = {Pair(FirstGen, Node)}
    /\ tours = 0
    /\ restarts = 0

----------------------------------------------------------------------------
(* Switching to an elected generation.  A node that goes online holds the  *)
(* prepare barrier and gen_lock until ParallelSafe is logged: no handler   *)
(* of that node runs while psLogged[i] is FALSE.                           *)

Unlocked(i) == psLogged[i]

\* MtmConsiderGenSwitch up to the first MtmStateSave of the online branch,
\* or the whole of it in the other branches.
ConsiderGenSwitch(i, g, D) ==
    IF cur[i].num >= g.num
      THEN UNCHANGED <<vars, localVars, announced>>
      ELSE /\ Switch(i, g, D)
           /\ announced' = announced \cup {Pair(g, D)}
           /\ IF MayServe(i, g) /\ i \in D
                THEN /\ psLogged' = [psLogged EXCEPT ![i] = FALSE]
                     /\ UNCHANGED mode
                ELSE /\ mode' = [mode EXCEPT ![i] =
                            IF MayServe(i, g) THEN RecoverFrom(FirstSetBit(D)) ELSE Disabled]
                     /\ UNCHANGED psLogged

\* The rest of the online branch: LogParallelSafe, the second MtmStateSave
\* and the switch of the receivers to normal mode.
LogParallelSafe(i) ==
    /\ ~psLogged[i]
    /\ parallelSafe' = parallelSafe \cup {Pair(cur[i], donors[i])}
    /\ psLogged' = [psLogged EXCEPT ![i] = TRUE]
    /\ mode' = [mode EXCEPT ![i] = Normal]
    /\ UNCHANGED <<vars, tour, netVars, announced, counters>>

\* MtmOnDmqReceiverHeartbeat: a heartbeat carries the sender's generation.
Heartbeat(i) ==
    /\ Unlocked(i)
    /\ \E a \in announced :
        /\ a.gen.num > cur[i].num
        /\ ConsiderGenSwitch(i, a.gen, a.donors)
    /\ UNCHANGED <<tour, netVars, parallelSafe, counters>>

\* MtmHandleParallelSafe: the switch, and then, once the node is in the
\* record's generation, becoming online.  A receiver samples its mode before
\* it fetches a record, so the record may come in recovery mode after
\* receive_mode has moved on; in normal mode it changes nothing.
HandleParallelSafe(i) ==
    /\ Unlocked(i)
    /\ \E p \in parallelSafe :
        \/ /\ p.gen.num > cur[i].num
           /\ ConsiderGenSwitch(i, p.gen, p.donors)
        \/ /\ p.gen.num = cur[i].num
           /\ GetOnline(i)
           /\ psLogged' = [psLogged EXCEPT ![i] = FALSE]
           /\ UNCHANGED <<mode, announced>>
    /\ UNCHANGED <<tour, netVars, parallelSafe, counters>>

----------------------------------------------------------------------------
(* Campaigning.                                                            *)

\* The members i would propose.
CandidateMembers(i, clique) == (cur[i].members \cap clique) \cup {i}

\* Nothing to gain from a ballot for the members of the current generation.
SameAsCurrent(i, members) ==
    /\ members = cur[i].members
    /\ ~Dead(i) \/ vote[i].num = cur[i].num

\* Vote myself, reusing last_vote if it was for the same members, and ask
\* the rest of the clique.
Propose(i, clique) ==
    LET members == CandidateMembers(i, clique)
        reuse == members = vote[i].members
        candidate == IF reuse THEN vote[i]
                     ELSE [num |-> vote[i].num + 1, members |-> members]
    IN  /\ ~SameAsCurrent(i, members)
        /\ candidate.num <= MaxGenNum
        /\ tours < MaxTours
        /\ tours' = tours + 1
        /\ IF reuse THEN UNCHANGED vars ELSE Vote(i, candidate)
        /\ tour' = [tour EXCEPT ![i] =
               [phase |-> "asked", gen |-> candidate, cohort |-> clique \ {i}, loi |-> loi[i]]]
        /\ requests' = requests \cup
               {[from |-> i, to |-> j, gen |-> candidate] : j \in clique \ {i}}

\* CampaignMyself.  A dead node first aims its receivers at a connected
\* node, and stops there when it has to catch up before it adds itself.  It
\* does nothing while the replier is not running, which is left open here: a
\* tour need not start.  A node that joins, whose receivers it would aim at
\* the donor of the backup, is not modelled.
CampaignMyself(i, connected, clique) ==
    /\ Unlocked(i)
    /\ tour[i] = NoTour
    /\ ~(Online(i) /\ cur[i].members \subseteq connected)
    /\ \/ /\ ~(Majority(clique) /\ i \in clique)
          /\ Dead(i)
          /\ mode' = [mode EXCEPT ![i] = Disabled]
          /\ UNCHANGED <<vars, tour, requests, tours>>
       \/ /\ Majority(clique) /\ i \in clique
          /\ Dead(i)
          /\ \E d \in connected \ {i} : mode' = [mode EXCEPT ![i] = RecoverFrom(d)]
          /\ \/ i \notin cur[i].members /\ UNCHANGED <<vars, tour, requests, tours>>
             \/ Propose(i, clique)
             \/ SameAsCurrent(i, CandidateMembers(i, clique)) /\ UNCHANGED <<vars, tour, requests, tours>>
       \/ /\ Majority(clique) /\ i \in clique
          /\ ~Dead(i)
          /\ UNCHANGED mode
          /\ Propose(i, clique)
    /\ UNCHANGED <<psLogged, responses, announced, parallelSafe, restarts>>

\* Each sender in S answered at most once.
OnePerSender(S) == \A r, s \in S : r.from = s.from => r = s

\* CampaignTour gathers: for every node asked, a response that carries the
\* candidate's number, or nothing when the connection to it broke.
Gather(i) ==
    /\ tour[i].phase = "asked"
    /\ \E S \in SUBSET {r \in responses : /\ r.to = i
                                          /\ r.num = tour[i].gen.num
                                          /\ r.from \in tour[i].cohort} :
        /\ OnePerSender(S)
        /\ tour' = [tour EXCEPT ![i] =
               [phase |-> "polled", gen |-> @.gen, loi |-> @.loi, polled |-> S,
                learn |-> {Pair(r.cur, r.donors) : r \in {s \in S : s.kind = "passed"}}]]
        /\ responses' = responses \ S
    /\ UNCHANGED <<vars, localVars, requests, announced, parallelSafe, counters>>

\* ... looks at the current generations that came with the responses ...
LearnFromResponse(i) ==
    /\ Unlocked(i)
    /\ tour[i].phase = "polled"
    /\ \E a \in tour[i].learn :
        /\ ConsiderGenSwitch(i, a.gen, a.donors)
        /\ tour' = [tour EXCEPT ![i].learn = @ \ {a}]
    /\ UNCHANGED <<netVars, parallelSafe, counters>>

\* The ballots i counts: its own and the positive responses.
CountedBallots(i) ==
    {[node |-> i, gen |-> tour[i].gen, loi |-> tour[i].loi]} \cup
    {[node |-> r.from, gen |-> tour[i].gen, loi |-> r.loi] :
        r \in {s \in tour[i].polled : s.kind = "ok"}}

\* Mutant of Won: the number of votes is not checked.
EverybodyAnswered(i) == tour[i].gen.members \ {i} \subseteq {r.from : r \in tour[i].polled}

\* A majority voted for the candidate, and every member of it has answered
\* (even with a refusal).
Won(i) ==
    /\ Majority({b.node : b \in CountedBallots(i)})
    /\ tour[i].gen.members \ {i} \subseteq {r.from : r \in tour[i].polled}

\* ... switches to the candidate if it has won ...
DecideTour(i) ==
    /\ Unlocked(i)
    /\ tour[i].phase = "polled"
    /\ tour[i].learn = {}
    /\ IF Won(i) THEN ConsiderGenSwitch(i, tour[i].gen, MostAdvanced(CountedBallots(i)))
                 ELSE UNCHANGED <<vars, localVars, announced>>
    /\ tour' = [tour EXCEPT ![i] =
           [phase |-> "decided", refused |-> {r.lastVote : r \in {s \in @.polled : s.kind \in {"passed", "voted"}}}]]
    /\ UNCHANGED <<netVars, parallelSafe, counters>>

\* ... and raises last_vote to the greatest number it was refused with.
FinishTour(i) ==
    /\ Unlocked(i)
    /\ tour[i].phase = "decided"
    /\ \/ \E n \in tour[i].refused :
             /\ \A m \in tour[i].refused : m <= n
             /\ GiveUp(i, n)
       \/ (\A n \in tour[i].refused : n < vote[i].num) /\ UNCHANGED vars
    /\ tour' = [tour EXCEPT ![i] = NoTour]
    /\ UNCHANGED <<localVars, netVars, announced, parallelSafe, counters>>

----------------------------------------------------------------------------
(* Voting.                                                                 *)

Reply(m, answer) ==
    /\ requests' = requests \ {m}
    /\ responses' = responses \cup {answer}

\* The checks a voter makes besides the numbers: only the proposer may be
\* added, all members are in the voter's clique, and a healthy generation
\* is not traded for one with a newcomer and without an old member.
MakesSense(j, m, clique, curGenConnected) ==
    /\ m.gen.members \subseteq cur[j].members \cup {m.from}
    /\ m.gen.members \subseteq clique
    /\ ~ /\ Online(j)
         /\ curGenConnected
         /\ m.from \notin cur[j].members
         /\ ~(cur[j].members \subseteq m.gen.members)

\* HandleGenVoteRequest
HandleGenVoteRequest(j, m, clique, curGenConnected) ==
    LET n == m.gen.num
        Ok == [from |-> j, to |-> m.from, num |-> n, kind |-> "ok", loi |-> loi[j]]
    IN  /\ Unlocked(j)
        /\ m.to = j
        /\ \/ /\ cur[j].num >= n
              /\ Reply(m, [from |-> j, to |-> m.from, num |-> n, kind |-> "passed",
                           lastVote |-> vote[j].num, cur |-> cur[j], donors |-> donors[j]])
              /\ UNCHANGED <<vars, mode>>
           \/ /\ cur[j].num < n
              /\ vote[j] = m.gen
              /\ Reply(m, Ok)
              /\ UNCHANGED <<vars, mode>>
           \/ /\ cur[j].num < n
              /\ vote[j] # m.gen
              /\ vote[j].num >= n
              /\ Reply(m, [from |-> j, to |-> m.from, num |-> n, kind |-> "voted",
                           lastVote |-> vote[j].num])
              /\ UNCHANGED <<vars, mode>>
           \/ /\ vote[j].num < n
              /\ ~MakesSense(j, m, clique, curGenConnected)
              /\ Reply(m, [from |-> j, to |-> m.from, num |-> n, kind |-> "no"])
              /\ UNCHANGED <<vars, mode>>
           \/ /\ vote[j].num < n
              /\ MakesSense(j, m, clique, curGenConnected)
              /\ Reply(m, Ok)
              /\ Vote(j, m.gen)
              /\ mode' = IF InRecovery(j) THEN [mode EXCEPT ![j] = Disabled] ELSE mode
        /\ UNCHANGED <<psLogged, tour, announced, parallelSafe, counters>>

----------------------------------------------------------------------------

\* A crash and MtmStateStartup: the campaigner's tour is lost, receive_mode
\* is recomputed, and a ParallelSafe record that was not logged is logged.
Restart(i) ==
    /\ restarts < MaxRestarts
    /\ restarts' = restarts + 1
    /\ tour' = [tour EXCEPT ![i] = NoTour]
    /\ mode' = [mode EXCEPT ![i] = RestoredMode(i)]
    /\ psLogged' = [psLogged EXCEPT ![i] = TRUE]
    /\ parallelSafe' = IF Online(i) /\ ~psLogged[i]
                         THEN parallelSafe \cup {Pair(cur[i], donors[i])}
                         ELSE parallelSafe
    /\ UNCHANGED <<vars, netVars, announced, tours>>

CNext ==
    \E i \in Node :
        \/ LogParallelSafe(i)
        \/ Heartbeat(i)
        \/ HandleParallelSafe(i)
        \/ \E connected \in Views : \E clique \in Views \cup {{}} :
               /\ i \in connected
               /\ clique \subseteq connected
               /\ CampaignMyself(i, connected, clique)
        \/ Gather(i)
        \/ LearnFromResponse(i)
        \/ DecideTour(i)
        \/ FinishTour(i)
        \/ \E m \in requests, clique \in Views, b \in BOOLEAN :
               HandleGenVoteRequest(i, m, clique, b)
        \/ Restart(i)

CSpec == CInit /\ [][CNext]_cvars

----------------------------------------------------------------------------

\* The types of the campaigner's state and of the messages; a recovering node
\* has a donor to receive from.
CTypeOK ==
    /\ TypeOK
    /\ psLogged \in [Node -> BOOLEAN]
    /\ mode \in [Node -> {Disabled, Normal} \cup {RecoverFrom(d) : d \in Node}]
    /\ requests \subseteq [from : Node, to : Node, gen : Gen]
    /\ \A r \in responses : r.from \in Node /\ r.to \in Node /\ r.num \in 1 .. MaxGenNum
    /\ announced \cup parallelSafe \subseteq [gen : Gen, donors : SUBSET Node]
    /\ tours \in 0 .. MaxTours /\ restarts \in 0 .. MaxRestarts

\* The receivers are told to do what the status in the current generation
\* calls for, whatever sequence of votes, failed campaigns, switches and
\* restarts led to it: an online node receives from everyone, a recovering
\* one from its first donor, the one whose ParallelSafe it waits for.
ModeMatchesStatus ==
    \A i \in Node : Unlocked(i) =>
        /\ Online(i) => mode[i] = Normal
        /\ InRecovery(i) => mode[i] = RecoverFrom(FirstSetBit(donors[i]))
=============================================================================
