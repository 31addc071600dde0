# Multimaster: a TLA+ development

Multimaster is a PostgreSQL extension that keeps several servers in step: every
node accepts writes, and a transaction commits only when the nodes that are
currently in charge of it have prepared it. This directory holds TLA+ modules
that model its protocols from the C and SQL sources, TLC configurations that
check them on small instances, and proofs checked by TLAPS.
`PROJECT.json` lists components, runs, mutants, the source lines each
definition stands for, findings, hazards and theorems.

## 1. The system

### Parts, their state and their operations

| part | source | state | operations |
|---|---|---|---|
| generations | `state.c`, `state.h` | current generation (number, members, configured), donors, `last_online_in`, `last_vote`; all saved to disk under `gen_lock` | vote, switch (`MtmConsiderGenSwitch`), go online (`MtmHandleParallelSafe`), startup |
| campaigner, voter | `state.c` | one tour at a time, in process memory; `receive_mode` | `CampaignMyself`, `CampaignTour`, `HandleGenVoteRequest` |
| referee | `referee--1.0.sql`, `state.c`, `resolver.c` | one row, the grant; `referee_grant_turn_in_pending` | ask for the grant, turn it in, resolve alone |
| connectivity | `bkb.c`, `state.c` | masks of dmq senders and receivers, matrix of the masks of others | receiver hooks, heartbeats, `MtmGetConnectivityClique` |
| dmq | `dmq.c` | destinations, connections, receiver slots, queues, counters of send connections | connect, negotiate, send, reconnect, attach, gather |
| prepare barrier | `state.c` | four counters, a mode per process, `gen_lock` | acquire by preparer or holder, release, exit handler |
| receivers | `pglogical_receiver.c`, `pglogical_apply.c` | mode per receiver, replication origins, WAL | start, filter, apply PREPARE, PRECOMMIT, COMMIT PREPARED, ParallelSafe |
| apply pool | `bgwpool.c` | ring of work, `txlist`, workers, holders | push, take, wait for one's turn, die |
| syncpoints | `syncpoint.c`, `multimaster--1.0.sql` | `mtm.syncpoints`, slots | log, register, filter, horizons, cleanup |
| commit sequence | `commit.c`, `global_tx.c` | one `GlobalTx` per prepared transaction, locked by a backend | prepare, gather, precommit, commit, cleanup |
| resolver, replier | `resolver.c`, `state.c` | proposal, accepted term and status (in WAL), acknowledgements (in memory) | 1a, 1b, 2a, 2b, final requests, own aborts |
| monitor, membership | `state.c`, `multimaster.c`, `multimaster--1.0.sql` | tables of nodes, slots, origins; workers per peer | add, drop, join, reload, restart |

### How they interact

A client's backend prepares a transaction under the prepare barrier and stamps
it with the generation its node is online in. Receivers of the other nodes
decode the prepare from the WAL and hand it to their pool, whose workers apply
it; all members must acknowledge. The backend then precommits, which is a Paxos
vote in term (1,0), waits for a majority of the configured nodes to do the same,
and commits. If it cannot, the resolver of any node that has the transaction
prepared runs a ballot with a higher term.

When connectivity changes, a node campaigns for a new generation made of the
clique it sees. A vote is a promise not to serve in an older generation, and
carries `last_online_in`; the voters with the greatest one are donors. Donors go
online at once and log a ParallelSafe record. Other members recover from a
donor until they meet that record. Of two nodes one may go on alone, if the
referee grants it that.

Requests and acknowledgements travel over dmq. Syncpoints, which every node logs
now and then, tell the others from where to pull after a restart, and up to
where WAL may be trimmed. The monitor follows the tables of the configuration,
and starts and stops a destination and a receiver for each peer.

### What makes it hard

- Elections, prepares, recovery and resolution run at the same time in
  different processes on every node.
- Nodes crash between two saves. Messages are lost or arrive after their sender
  has moved on.
- A receiver acts on a mode it has read before. The replier answers from a WAL
  scan that took seconds. `finish_ready` aborts what it chose under a lock it
  has released.
- The barrier and `gen_lock` are taken in opposite orders by two handlers.
- Workers apply concurrently what must not be reordered, and each of them may
  die in between.
- Slots are not transactional, tables are: a failure of the monitor leaves one
  without the other, and the next monitor has to tell what happened.
- The monitor may restart alone, and its children with it, while backends run.

`PROJECT.json` lists these hazards at the line where each bites, with the
properties that would catch it.

## 2. Modules

    GenElection  <---- refines ----  Campaign <- CampaignProofs (TLAPS)
        ^   ^
        |   +-- GenElectionProofs (TLAPS)
        |
     Recovery (extends GenElection: transactions, WAL, receivers)
        ^
        +-- RecoveryProofs (TLAPS)

    PoolOrder  <---- refines ----  ApplyPool

    PrepareBarrier <- PrepareBarrierProofs (TLAPS)
    Commit         <- CommitProofs (TLAPS)
    Referee        <- RefereeProofs (TLAPS)
    Monitor        <- MonitorProofs (TLAPS)
    DmqLink        <- DmqLinkProofs (TLAPS)

    Syncpoint   MaxClique

**GenElection** is the abstract specification of generations: `Vote`, `GiveUp`
(a failed campaign raises `last_vote`), `Switch` and `GetOnline`. Its variables
`cur`, `donors`, `loi`, `vote` are the fields of `MtmState`. Two history
variables, `ballots` and `onlineIn`, exist for the properties only. The set of
configured nodes is fixed, and there is no referee.

**Campaign** is the protocol that does it: tours with requests and responses,
heartbeats that carry generations, ParallelSafe records, and restart. A node
chooses its connected set and clique anew for each campaign and each vote, so
views may differ between nodes and change at any time. `MtmStateSave` is part
of the action that changes the state, since the code saves before it releases
the lock. Going online saves twice, around `LogParallelSafe`, so it is two
actions, and a crash may fall between them.

**Recovery** extends GenElection by the WAL of each node (prepares and
ParallelSafe records), `receive_mode`, recovery receivers, normal receivers and
the prepares their workers hold. The barrier makes a prepare and a switch
exclude each other (that is what PrepareBarrier shows), so each is one step.
Syncpoints and filters appear as their result, a record the node has is
skipped, which is what Syncpoint shows. `GiveUp` is left out, because for this
module it is a vote for nobody.

**PrepareBarrier** has one process per role on one node, with the counters of
the code and its order of lock operations. Sleeping on the condition variable is
waiting for a guard. The state starts unloaded: `MtmStateStartup` loads it, and
a switcher that comes before gets an error under both locks. The consistency
check keeps the barrier while it waits for the transactions its node has
prepared (`own`), which other processes finish.

**Commit** follows one transaction: the backend, the apply workers, the
resolver and the replier of every node. `wal[i]` is the set of record kinds
node `i` has logged; `gtx[i]` is its `GlobalTx`. Messages stay in `sent` and may
be taken late, twice or never. What a resolver has logged is kept in a crash;
acknowledgements are not. Later generations enter by one fact each: a node that
has switched refuses PREPARE, and one that is online in a later generation has
all an online node had. `Switch(i, "online")` is allowed to every member of the
generation, which is the widest set of donors. The WAL scan of `handle_1a` is an
action of its own between reading `last_online_in` and the second look into the
table. `Hears` says that a backend no longer gets acknowledgements once the
monitor has restarted, because the exit of the replier ends the dmq receivers.
Left out: explicit two phase commit, the referee, recycled WAL, several
transactions at once, and the wait for commit acknowledgements, which changes
no state.

**Referee** is a cluster of two nodes, where only both are a quorum. Its
generations are those of GenElection; a node may also switch to a generation of
its own when the referee grants it. Variable `call` is the query or the tour a
campaigner waits for, so the peer and the referee act in between, and a query
may fail before or after it was executed. `alone` is the history of generations
in which a node worked alone; `has` says whose commits of them it holds. One
transaction runs through it, and `ResolveForRefereeWinner` finishes it. A
query the campaigner has given up is not executed later.

**ApplyPool** is the pool of one sender: the receiver, its workers, the ring of
ints with size words and wraparound, `txlist` with the two conditions on which
ordered messages wait for their turn, `n_holders`, and the death of workers and
receiver. A message is one of the kinds that the code treats differently:
prepare (P), its abort (AP), work in no order (job), syncpoint (S), DDL on
temporary objects (V), and what ends with a plain commit, which the receiver
applies at once (B). Apply is one step, between taking the work and removing it
from `txlist`. A worker may fail to start: if it cannot be registered the push
goes on without it, and if it does not come up the receiver fails. The model ends
where the memory of the pool is not what it seems (`Overrun`): in a ring filled
to the last int, and behind a store into a full `txlist`. **PoolOrder** is what
the pool promises: each message is done once or lost with its worker, in the
order that matters; a restart goes back to the last syncpoint and no further.

**Syncpoint** has the WAL of every node as a sequence of changes and syncpoint
records; an LSN is a position in it. `rows` is the replicated table
`mtm.syncpoints`, `slot` what a node has confirmed, `recv` the receivers with
the position vector and the filter they loaded when they started. The SQL
functions over the table are operators. Workers apply in any order between two
syncpoints. A worker that dies takes its transaction out of `txlist` first and
kills the receiver later; what it died with is remembered in `lost`. Rows of
syncpoints travel as changes, as they do in the code. The first recovery of a
node that has just joined, which takes its position from the backup, is not in
it.

**DmqLink** is one request and its answer between two nodes: on each side the
dmq sender with its connection, the server processes at the other end (a process
that is about to die may live on beside its successor), the registration of
receivers and their hooks, the queues of the subscriber and of the replier, and
the counter of send connections that the subscriber compares. Senders, replier,
subscriber and connections fail at any time. A sender drops what it is given
while its connection is not active, also when the other end is ready. The hooks
of the old and the new receiver run in any order. An answer is recognised by its
generation number alone, and a later tour may use a number again.

**Monitor** is one node's membership: the three tables, the slots and origins,
and the monitor with `MtmReloadConfig` and its callbacks, one action for each
step behind which a failure leaves something behind. The monitor, a receiver or
the server may die at every step. A node may also begin as a copy of another
node's data directory; `is_basebackuped` notices, the tables are emptied, and
`mtm.join_node` fills them again. `mtm.add_node` and `mtm.drop_node` are the
effects on this node's tables, with their triggers, also while the node joins:
each reload then starts the donor's workers again, and one that finds the donor
dropped brings the server down. `donors` is the history of peers a join was made
from. Two things are excluded: a drop of the last peer (the launcher starts no
monitor then) and, unless `Readd`, giving an id for a second time.

**MaxClique** holds the Bron-Kerbosch search of `bkb.c` as recursive operators,
with the order in which it visits vertices, since that order decides among
equal cliques. The code always searches among `MTM_MAX_NODES` ids; the ids above
`N` are isolated vertices and do not change the result.

Definitions that begin with the comment "Mutant of" are altered forms of the
definition that follows them. They are used by no specification; with one of
them in the place of the original, a property has to fail. Most modules state
the types of their state (`TypeOK`, `CTypeOK`, `RTypeOK`). A run lists it only
for Referee, where it also orders the numbers of a node; it is proved for
GenElection, PrepareBarrier, Referee and DmqLink. In the other modules it
documents the variables.

## 3. Runs

| run | instance | what it shows |
|---|---|---|
| `campaign` | 3 nodes, 3 views, numbers up to 4, 2 tours, 1 crash | Campaign implements GenElection (`Spec`); generation numbers are unique (`UniqueGen`), votes bind (`PromiseKept`), donors were online in whatever could commit (`DonorsAreCurrent`); `receive_mode` always fits the status (`ModeMatchesStatus`) |
| `recovery` | 3 nodes, 2 transactions, 2 elections, 2 voters each, 3 of these events | who is online in a generation holds the committable transactions of older ones, before its ParallelSafe record (`HoldsCommittable`); a worker of a normal receiver never meets the FATAL branches of PREPARE (`NeverMisplaced`); committable prepares are in generation order in every WAL (`PreparesOrdered`) |
| `recovery_live` | 1 transaction, 2 other elections, 2 of these events | recovery ends if the donor ever logs the record it ends with (`RecoveryEnds`) |
| `prepare_barrier` | 1 backend, 1 apply worker, 2 switchers, 1 ParallelSafe handler, 1 reader, 1 checker, 2 generations | counts are exact, a prepare lies in one generation, the checker excludes backends and goes on when no transaction is prepared, everybody gets out |
| `max_clique` | all 1024 graphs on 5 nodes, with at most one edge that only one end has noticed to be down | the search finds a biggest clique (`FindsBiggest`); all members of a computed clique see each other (`CliqueInView`) |
| `commit` | 3 nodes, 2 members, crash of the coordinator, monitor restarts of the others | nobody commits what another aborts (`Agreement`), committed means prepared by all members, one decree per term |
| `apply_pool` | 9 messages, 2 workers, ring of 12 ints, `txlist` of 3, 1 death or failed start, 1 join | workers find in the ring what was pushed, in order (`RingHoldsWaiting`), the pool implements PoolOrder (`KeepsOrder`), a transaction whose abort was handled is not prepared (`AbortSticks`), the whole stream gets through (`StreamApplied`) |
| `syncpoints` | 3 nodes with different histories, 1 transaction, 2 syncpoints, 1 restart or death of a worker | changes are applied once; but for what a worker died with, syncpoints are true and WAL that somebody needs is kept; so are the syncpoints (`AppliedOnce`, `SyncpointTrue`, `NeededIsKept`, `HorizonKept`) |
| `dmq_link` | 2 server processes a direction, 3 requests or faults | one receiver serves a sender (`OneReceiver`), connectivity does not outlive the receivers (`GoneIsDisconnected`), no wait is endless but in two cases (`WaitEnds`) |
| `monitor` | 3 ids, 2 founders, 4 changes or failures | marked peers have slots, wards are neither doubled, but for donors, nor left behind, only a copy is emptied, configured peers are served and dropped ones cleaned up in the end |
| `monitor_readd` | the same with ids given again, 2 changes or failures | violation: a member empties its configuration |
| `referee` | 2 nodes, numbers up to 5, 1 restart | who is online has what the other did alone (`HoldsAll`), the transaction ends alike (`Agreement`), no two proposals compete (`NeverOutvoted`), a grant left behind is turned in (`GrantRemembered`) |

### Bounds

- `campaign`: two tours let two campaigns compete over one number, or follow
  each other with a loser's votes in place. The views include a node that all
  see and two that do not see each other.
- `recovery`: the second election brings back the node that the first one left
  out. `MaxVoters` 2 lets any two of the three nodes be the majority of each
  election; elections with a third vote, in which two majorities may name
  different donors, are left out. `MaxEvents` 3 allows both elections around one
  transaction, or both transactions around one election.
- `recovery_live`: `MaxEvents` 2 allows both elections, or one and a transaction.
  In the second generation the only donor may be the node that has left; in the
  first the donor may vote for the second before it is online.
- `prepare_barrier`: two switchers are needed for the late one that finds the
  switch done. The state is loaded, so a preparer may meet a state that is not
  there, the first generation, or a switch to the second.
- `commit`: `MaxBallot` 2 gives every node one ballot above the coordinator's;
  competing resolvers are told apart by the node id in the term. `FewEvents`
  allows three ballots or departures to later generations together
  (`MaxEvents`), and one WAL scan at a time (`MaxScans`). A departure is what
  makes a direct abort possible, a ballot is what makes it asked for. With two
  members of three configured nodes the third one is outside of the generation
  and gets the transaction in recovery only.
- `apply_pool`: the stream has two prepares with their aborts, one before and
  one after a syncpoint, so a death may fall on each side of it. The messages
  wrap around the ring, overflow it, block the producer, and fill the ring to the
  last int; `TxlSize` is one more than the number of workers, and a message the
  receiver stores itself may find `txlist` full.
- `syncpoints`: the initial histories have syncpoints of two nodes, of which the
  third has seen all and the others part. The one that restarts may recover
  from either peer, with the new transaction anywhere between two syncpoints.
- `dmq_link`: two processes are the old receiver and the new one. A budget of
  three is a request and two faults, or a second request after one fault; the
  death of a sender counts twice. `MaxCount` bounds reconnections that happen
  while the old receiver is still in place.
- `monitor`: with three ids and a budget of four a peer may be added and another
  dropped with two failures, wherever they fall.
- `referee`: numbers up to 5 allow a node to go alone, both to return, and the
  other to go alone, with a tour that fails in between.

CHECK_DEADLOCK is off in all runs: instances stop when their bounded inputs are
used up, or when all nodes agree and nothing is left to do. Deadlocks of locks,
queues and waits are what `EveryoneReturns`, `StreamApplied` and `WaitEnds` are
about.

### Fairness

- `recovery_live`: heartbeats are periodic and receivers loop, so learning of a
  generation, starting and leaving recovery are weakly fair. Applying a record
  is strongly fair: a connection may break again and again, but not always
  before one more record is applied. Elections are not fair. `RecoveryEnds`
  exempts a node whose donor never logs the record (`Blocked`, section 4); TLC
  finds both kinds of such a donor in the instance if the exemption goes.
- `prepare_barrier`: a process goes on with what it has begun, which is one
  weakly fair action each. A comment at `state.c:488` says that LWLocks are
  unfair, so `EveryoneReturns` has the premise that at some time no more
  switchers, handlers and readers come (`Newcomer`); preparers may come forever.
  Nothing is assumed of the barrier, no process is assumed to fail or to begin,
  and no transaction to be finished: the consistency check may wait as long as
  one is prepared.
- `apply_pool`: the receiver and each worker run, the monitor starts a receiver
  that has died, and a join that holds the pool polls until it is idle. A worker
  that sleeps has no step of its own: somebody must wake it. Nothing has to die.
  `StreamApplied` lets a stream rest where the model ends (`Overrun`) and where
  no worker ever started (`Stranded`, section 4).
- `dmq_link`: every process goes on: one weakly fair action for the loop of each
  sender, each server process, the replier and the subscriber. No connection is
  assumed to stay up; faults are bounded by the budget.
- `monitor`: one weakly fair action for the monitor and the postmaster that
  starts it again. Changes, failures and joins are not fair.

Liveness of Commit and of Referee is not claimed.

## 4. Findings

`monitor_readd`: `is_basebackuped` takes a node with a peer that is marked in
`mtm.nodes_init_done` and has no logical slot for a restored backup. A drop
leaves the mark, and `mtm.add_node` gives the smallest unused id. So when a peer
is dropped and its id given to a new node, the monitor fails when it looks for
the slots of what it takes for an initialised peer (`state.c:3723`), and the one
that is started after it takes the member for a backup and empties its
configuration. `PROJECT.json` quotes the comment on which the property rests.
Without ids given again the property holds, and is proved.

### Met while modelling

The following disagreements with comments, or limits of the code, are not runs
here. The passing runs leave them out or exempt them, in the way described.

- *Donors* (`state.c:1409`). The comment at `state.c:103` calls donors a subset
  of the members. They are computed from all voters, members or not. A member
  may then recover from a node that never logs the record it waits for, until
  there is another election. A member that voted for a later generation before it
  learned of this one is dead in it and does not log the record either, but there
  the later election is under way. `recovery_live` has both; `RecoveryEnds` names
  them (`Blocked`) and says that recovery ends otherwise.
- *PREPARE of a higher generation* (`pglogical_apply.c:894`). The comment there
  says that it never arrives, since ParallelSafe goes before it. A node logs the
  ParallelSafe record that brings it online, but not one it passes over because
  it is dead in that generation; it then holds a transaction of the generation,
  and forwards it, without that record. If a third node, dead in an
  older generation, recovers from it at that moment, its receiver takes the
  FATAL branch and exits; a heartbeat then brings the generation, and recovery
  goes on. `NeverMisplaced` speaks of workers in normal mode.
- *Cliques* (`bkb.c:188`). The comment at `bkb.c:68` wants all members of some
  majority to calculate the same clique. On some graphs of five nodes no
  majority does: a node has the rows of its neighbours only, so two nodes search
  different graphs, and choose differently among equals. `max_clique` claims
  that a clique is biggest and in view.
- *Receivers* (`dmq.c:1357`, `state.c:2172`). The slot of a receiver is freed
  before its stop hook runs. A successor that comes in between is refused, for
  the bit is still set, but has written its pid, and as it ends its own stop hook
  clears the bit. A third receiver may then serve while the first one has yet to run
  its stop hook, which clears the bit of the third. The check at `state.c:2104`
  is there because "without check old dying receiver might clear bit set by new
  one". A receiver that serves is therefore not always one that its node knows of
  (`ServingIsKnown`). `GoneIsDisconnected` says that the error is on this side
  only: no bit outlives the receivers.
- *Waits without end* (`dmq.c:642`). The comment at `dmq.c:131` says of the
  counters that they save "from infinite waiting for reply", and the one at
  `dmq.c:164` wants no message lost with a live receiver. There are two ways to
  wait without end. The receiver at the other end answers the handshake and
  serves; the subscriber there takes its counter; the sender has not looked at
  the handshake yet and drops the next message as not connected, and it is the
  answer. Or the replier that dies ends the receiver by a pid that is not the
  pid of the one that serves; the requests lost with the replier are not
  noticed. `WaitEnds` exempts both (`sub.dropped`, `ServingIsKnown`), fails
  without either exemption, and says that every other wait ends.
- *Monitor restart on the coordinator* (`global_tx.c:356`). It drops the lock of
  a backend in the commit sequence; `finish_ready` may then abort a transaction
  that the other nodes commit. The comment at `resolver.c:205` says of the abort
  that it is "definitely safe as backend has already orphaned xact"; after the
  restart it has not. `commit` has restarts of the other monitors only
  (`Reloading`).
- *Ring and list* (`bgwpool.c:258`, `pglogical_apply.c:235`). A ring filled to
  exactly `head = tail` is taken for empty: the workers sleep on it, and the next
  push overwrites it. A syncpoint, or DDL on temporary objects, is stored in
  `txlist` without the check of room that a push makes; `txl_store` then searches
  beyond the end, which only an assertion forbids. `apply_pool` reaches both, and
  ends there (`Overrun`).
- *No worker* (`bgwpool.c:353`). If the first worker of a pool cannot be
  registered the receiver pushes its work all the same, and nobody takes it
  before the next push tries again (`Stranded`).
- *Syncpoint over a lost transaction* (`bgwpool.c:142`). The comment at
  `bgwpool.c:721` says that "all xacts created before sp must be written before
  applied sp". A worker that dies takes its transaction out of `txlist` before
  it kills the receiver, so the receiver may in between find the syncpoint at
  the head and log it; the transaction is not asked for again. The comment at the
  removal calls it cosmetics, "as currently dying pool worker takes down the
  whole pool". TLC finds it in a trace of eight states when the
  exception is left out. `SyncpointTrue` and
  `NeededIsKept` speak of all other transactions (`lost`), as do `KeepsOrder`
  and `StreamApplied`, which allow only a loss below a logged syncpoint.
- *Check of consistency and referee* (`multimaster.c:2510`, `resolver.c:104`).
  The check keeps the barrier while it waits for the transactions of its node. In
  a cluster with a referee the resolver takes the barrier as a preparer before it
  finishes anything, so the two wait for each other. PrepareBarrier assumes of no
  transaction that it ends.
- *Lost notice* (`state.c:4159`). `mtm_config_valid` is set at the end of a
  reload, also if an invalidation came during it. The liveness properties of
  Monitor exempt that case (`missed`).
- *Drop while the monitor is down*. The next monitor does not know the peer, so
  its slots stay, as a comment at `state.c:4116` admits. `DroppedIsCleaned`
  speaks of a monitor that knew the peer.
- *Reload during a join* (`multimaster.c:1754`). Each one starts the donor's
  workers again, and the receivers before lose their handles. If the donor is
  dropped meanwhile, `start_node_workers` dereferences the null pointer that
  `MtmNodeById` returns, on this reload and on the one after the restart.
  `WardsKept` exempts donors of a join, `ConfiguredIsServed` a dropped one.
- *Referee*. A comment in `referee--1.0.sql` says that a node never repeats a
  request with the same number; `CampaignMyself` may reuse `last_vote`, so it
  does. Nothing in `referee` depends on it. A delete that the
  referee executes after its client has given it up is not in the model.

Hazards without a property, besides those in `PROJECT.json`:

- An error raised by `SetPreparedTransactionState` after its record is written
  (`commit.c:574`); the model takes the call and the assignment behind it as one
  step.
- Requests of two resolvers about one transaction in one batch of the replier
  (`state.c:3256`): the earlier one gets no answer.
- The check for a busy transaction that does not fire, because the coordinator
  marks it orphaned when it is made (`global_tx.c:280`): a delay.
- The generation number printed into the gid in decimal and read in hexadecimal
  (`commit.c:309`); only an assertion reads it.

## 5. Proofs

`GenElectionProofs` proves, for any finite set of nodes and any set of
generations that may be proposed:

- `TypeCorrect`;
- `GenerationsUnique`: `Spec => []UniqueGen`;
- `PromisesKept`: `Spec => []PromiseKept`;
- `DonorsCurrent`: `Spec => []DonorsAreCurrent`: the donors were online in the
  newest older generation that a majority was online in, or in a later one.

None of the last three is inductive by itself. `IInv` adds the order
`loi <= cur <= vote` of the numbers at a node, that ballots are never above
their voter's `vote`, that a node votes once under a number, that `loi` is the
last entry of the history, and that every current generation has won an
election with the donors kept beside it. Each action preserves it. Uniqueness
follows since two majorities meet in a voter with one ballot. Currency of the
donors follows since the majority online in generation n meets the electing
majority of a later one; by its promise the common node was online in n before
it voted, so its ballot reports n or more, and donors report no less.
The assumptions are `NodeAssumption` (the nodes are finite) and
`ProposableAssumption` (typing).

`PrepareBarrierProofs` proves, for any finite number of processes of each role
and any number of generations, `CountersStayExact`, `PreparesInOneGen` and
`BackendsHeld`, which state the three safety invariants of the run. Its `IInv`
adds where a process of each role can be, that it is counted exactly between
taking and giving back the barrier, in the mode of its role, and `Excludes`: a
holder that has got past its wait and a preparer it concerns are never inside
together. `HeldIsClear` says that a check of consistency that has waited finds
no prepared transaction of its node from then on. Every step that changes the
generation or the status is made by a holder past its wait, so it meets no
prepare. A counter that reads zero means that nobody is counted, which is where
the exactness of the counters enters. The assumptions are `ProcAssumption`
(finitely many processes, one role each) and `MaxGenAssumption`.

`MonitorProofs` proves, for any set of peers and any number of changes and
failures:

- `SlotsKept`: `Spec => []DoneHasSlots`, and `ConfigKept`: `Spec => KeepsConfig`,
  both with the assumption `~Readd`, without which they are false (section 4);
- `WardsAreKept`: `Spec => []WardsKept`.

For the first two, `IInv` says what a copy still looks like (`CopyIsRaw`), that
a member has marked only peers that are or were configured and that an id is not
both (`MemberKnows`), and that the work a reload has left is right for the
tables as they are now, not only for those it has loaded (`WorkIsTrue`): what it
is about to drop was dropped for good, so no slot of a configured peer goes. A
monitor that starts then finds slots for whatever is marked and configured,
which is all that `is_basebackuped` looks at. For the third, `WInv` says that
the peer a node catches up with is in the history of donors (`JoinHasDonor`),
that callbacks under way are for peers of the right set (`TasksApart`), and that
without a monitor nobody has workers, and with one, donors apart, only peers of
the configuration whose start callback has run (`StrangersQuiet`). The
assumption is `MonitorAssumption`.

`CampaignProofs` proves that the campaign protocol implements the elections, for
any finite set of nodes, any views, any highest number and any number of tours
and crashes: `CampaignImplements` is `CSpec => Spec`. With it
`CampaignGensUnique`, `CampaignPromises` and `CampaignDonorsCurrent` carry over
what is proved of GenElection, and `ModeFollowsStatus` proves
`ModeMatchesStatus`. The mapping is the identity on the variables of
GenElection; the work is in `CInv`, which ties what is in flight to the ballots
that were really cast: an answer in a message or in a campaigner's memory stands
for a ballot of its sender, whoever asks for votes has voted for the candidate,
what heartbeats and ParallelSafe records carry was elected, and a node that has
yet to log ParallelSafe is online already. A tour that has counted a majority is
then an election, and one that has not is a step that changes nothing but
`vote`. The assumptions are those of GenElection, `NodeIdAssumption` and
`ViewsAssumption` (typing), and `CandidatesAssumption`: whatever a campaigner
may put together is proposable.

`RecoveryProofs` proves, for any finite set of nodes and any sets of generations
and transactions, `OnlineHoldsCommittable` (`RSpec => []HoldsCommittable`),
`CommittableInOrder` (`RSpec => []PreparesOrdered`) and `WorkersInPlace`
(`RSpec => []NeverMisplaced`). The bounds `MaxVoters` and `MaxEvents` play no
part in it. A transaction is committable when all members of its generation have
acknowledged it, which comes true late, so a statement about committable ones
alone is not inductive. `RInv` speaks of `CouldCommit`: each member has
acknowledged, or may still do so (`CanAck`), because it is online in the
generation or has not voted for a newer one. A transaction that has started and
could not be committed never can again (`CouldCommitShrinks`). `Held` says that
in every WAL what could be committed lies before each record of a later
generation. `NoneAbove` says that while all members may acknowledge, nobody has
been online in a later generation, so a transaction that starts breaks nothing.
When donors go online, the majority that elected them meets the members of the
transaction's generation in a node that has promised, so it has acknowledged
before or never will; by `DonorsAreCurrent` the
donors were online in that generation or a later one, and hold the transaction
(`DonorsKnow`, `DonorHeld`). A node in recovery copies the donor's WAL in its
order up to ParallelSafe. The assumptions are those of GenElection and
`NodeIdAssumption`.

`CommitProofs` proves, for any finite set of configured nodes, any members, any
highest ballot, any crashes, and messages that are lost, late or repeated:

- `CommitAgrees`: `Spec => []Agreement`;
- `CommitIsPrepared`: `Spec => []CommittedIsPrepared`;
- `VotesAgree`: `Spec => []OneDecreePerTerm`.

All three assume `Coordinator \notin Reloading`, that the monitor of the
coordinator does not restart by itself; with such a restart `Agreement` is false
(section 4). The proof is that of Paxos, for a protocol in which one participant
has a term without a first phase, votes are forgotten together with a finished
transaction, and some aborts need no vote. `Cast` therefore reads votes off the
records and messages that stay, not off `gtx`. `Past(j, t)` says that `j` votes
in `t` no more, `NeverChosen` that a majority is past a term without a vote for
a decree, and `SafeAt(t, d)` that nothing else than `d` was or will be chosen
below `t`. `IInv` ties the rest to these: an acknowledgement is a promise and
the last vote before it (`SoundAck`), a 2a proposes what is safe and a final
request says what is justified (`SoundMsg`), one term has one proposal
(`OneProposal`), a `GlobalTx` is the last vote and promise of its node
(`StateOk`), what the resolver has gathered was sent to it (`ResolverOk`), what
`handle_1a` has read stays true until it answers (`ReplierOk`), and each final
record has a reason (`LogOk`): a chosen decree, or an abort that excludes the
precommit of the coordinator, because a member is online in a later generation
without the transaction or because the backend has given up before its own vote
(`NeverPrecommitted`). `CoordOk` says that the backend holds the lock up to its
precommit, so its vote in term (1,0) comes before any other of its node; this
is the conjunct that a monitor restart of the coordinator breaks. The assumption
is `CommitAssumption`.

`RefereeProofs` proves all five invariants of the run for every highest number
and any number of restarts: `RefereeTypes`, `RefereeHoldsAll`,
`RefereeAgrees`, `RefereeNeverOutvoted` and `RefereeRemembers`. The set of nodes
is any set of two. There are two invariants. `IInv` is for split brain
and the transaction. Its centre is `GrantHeld`: while a node lacks what its peer
did alone, the peer holds the grant, with the number of that generation or a
later one. Around it, ballots bind and tell truly where their voter was last
online (`BallotsBind`), donors of a generation of both are the most advanced of
both (`CurrentElected`), a request to turn in the grant is about a generation
both have been online in (`CallsSound`), ParallelSafe records have all lone
generations before them (`SafeSound`), and an answer of the referee that is
still of use is about the grant as it is (`GrantFresh`). For the transaction, an
outcome is `Settled`: the peer has it as well, both have precommitted, the
coordinator has aborted before its precommit, or it belongs to a lone generation
whose commits the peer will get before it works. `Phases` is for competition
and for the grant that is left behind: the two are in one generation of both
(`Together`), or one is `Ahead`, alone, and the other is behind, aware of it, or
elected to the next generation of both. `NextTogether` and `NextAhead` are the
turns they take, and `Remembered` says within each turn who means to turn in the
grant. Both invariants were checked on the instance of the run before. The
assumption is `RefereeAssumption`.

`DmqLinkProofs` proves, for any set of server processes and any number of
requests and faults, `ReceiversAlone` (`[]OneReceiver`), `MaskOutlivesNone`
(`[]GoneIsDisconnected`) and `LinkTypes` (`[]TypeOK`). `DInv` says that the slot
of a direction holds exactly the process that serves it (`SlotServes`), that
whatever is told to end has not ended (`Ends`), and that a round is paid for
before it begins (`RoundsPaid`). `GoneIsDisconnected` is part of it: a stop hook
clears the bit whoever has set it, and only a receiver that runs one later sets it.
The assumption is `LinkAssumption`.

The leaves of the proofs are for Zenon (`USE ZenonT(60)` at the head of the
module), and cite SMT where they need arithmetic or records.

Only model-checked: MaxClique, ApplyPool with its refinement of PoolOrder,
Syncpoint, and all liveness properties. Liveness under fairness, and what the
recursive search of MaxClique computes, are beyond the prover. The refinement
over a ring with wraparound, and the invariants of Syncpoint, which depend on
the history a cluster starts with, have no proofs so far.

## 6. Not modelled

- Explicit two phase commit: the same protocol with the client in the place of
  the backend and a gid of its choice.
- The output plugin, row apply, spilling, `bytebuf.c` and the maps of
  relations: data and I/O, with no state of the protocol.
- DDL replication: statement hooks, parsing and catalog access.
- The deadlock detector `ddd.c`: a predicate without state. A lock wait of an
  apply worker in normal mode that outlasts `deadlock_timeout` is a deadlock.
- Logging, the layout of messages, the format of the state file, the checks of
  settings and connection strings when a cluster is initialised.

Left out of modelled parts: several transactions at a time in Commit and in the
batches of the replier; recycled WAL in the replier; changes of the set of
configured nodes during elections; the position from which a node that has just
joined starts; which process dmq is attached to under which handle. The reasons
are with each component in `PROJECT.json`.

## 7. Further work

In order of importance:

1. Commit: liveness of the resolution, and an invariant for several transactions.
2. The refinement of PoolOrder by ApplyPool, and the invariants of Syncpoint, for
   every value of the constants.
3. Explicit two phase commit, with the gid.
4. Elections while the set of configured nodes changes.
