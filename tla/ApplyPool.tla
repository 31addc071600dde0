------------------------------ MODULE ApplyPool ------------------------------
(***************************************************************************)
(* The apply pool of one sender: the receiver hands the messages of the    *)
(* stream to its pool workers through a ring buffer (BgwPoolExecute,       *)
(* BgwPoolMainLoop), every piece of work is kept in txlist from the moment *)
(* it is pushed until it is done (txl_store, txl_remove), and the messages *)
(* whose order matters wait there for everything before them               *)
(* (txl_wait_sphead, txl_wait_txhead).  A worker that dies kills the       *)
(* receiver, which kills the other workers and starts again from the last  *)
(* syncpoint, without what is logged already.                              *)
(***************************************************************************)
EXTENDS Integers, Sequences, SequencesExt, FiniteSets

CONSTANTS
    Stream,       \* what the sender sends: a sequence of [kind, tx, len]
    Worker,       \* the workers the pool may start (MtmMaxWorkers)
    QSize,        \* the size of the ring, in ints
    TxlSize,      \* the size of txlist (MaxBackends)
    MaxDeaths,    \* bound: how many processes die on their own or do not start
    MaxHolds,     \* bound: how many joins hold the pool
    None

\* check_config wants room for the workers in max_worker_processes, which
\* MaxBackends counts.
ASSUME TxlAssumption == TxlSize \in Nat /\ TxlSize > Cardinality(Worker)

Msg == DOMAIN Stream
Kind(i) == Stream[i].kind
Xact == {Stream[i].tx : i \in Msg} \ {None}
MsgLen(i) == Stream[i].len + 2     \* MSGLEN: the size word, the place in txlist, the work

VARIABLES
    wpc,      \* wpc[w]: where the worker is
    job,      \* job[w]: the message it works on, 0 for none
    rpc,      \* where the receiver is
    cur,      \* the message it works on, 0 for none
    next,     \* the next message of the stream
    mem,      \* the ring: what each of its ints holds
    head, tail,
    blocked,  \* producerBlocked
    txl,      \* txlist: the messages in it, in the order they were stored
    killed,   \* the receiver was sent SIGTERM
    holders,  \* n_holders
    xact,     \* xact[x]: what this node did with x
    logged,   \* the messages the node has in its WAL: the filter of a restart
    handled,  \* the messages that were applied, refused or skipped ...
    lost,     \* ... and the ones whose worker died before that
    floor,    \* the last syncpoint registered
    holding,  \* a join holds the pool
    deaths, holds    \* counters of the bounds

wvars == <<wpc, job>>
rvars == <<rpc, cur, next>>
queue == <<mem, head, tail, blocked>>
effects == <<xact, logged, handled, lost>>
bounds == <<holding, deaths, holds>>
vars == <<wvars, rvars, queue, txl, killed, holders, effects, floor, bounds>>

Init ==
    /\ wpc = [w \in Worker |-> "none"]
    /\ job = [w \in Worker |-> 0]
    /\ rpc = "recv" /\ cur = 0 /\ next = 1
    /\ mem = [o \in 0 .. QSize - 1 |-> 0]
    /\ head = 0 /\ tail = 0
    /\ blocked = FALSE
    /\ txl = <<>>
    /\ killed = FALSE
    /\ holders = 0
    /\ xact = [x \in Xact |-> "none"]
    /\ logged = {} /\ handled = {} /\ lost = {}
    /\ floor = 0
    /\ holding = FALSE /\ deaths = 0 /\ holds = 0

----------------------------------------------------------------------------
(* txlist *)

\* txl_syncpoint_at_head
SyncpointAtHead(l) == l # <<>> /\ Kind(Head(l)) = "S"

\* txl_wakeup_workers: the messages whose waiters are woken once the list is
\* l; txl_remove does not call it for an empty list.
Wakes(l) ==
    IF l = <<>> THEN {}
    ELSE {i \in Msg : (Kind(i) = "S") = SyncpointAtHead(l)}

\* txl_remove(i) by worker w, which goes to pc: the list without i, and the
\* processes the broadcast wakes look at it again.
TxlRemoveByWorker(w, i, pc) ==
    /\ txl' = IF i = 0 THEN txl ELSE Remove(txl, i)
    /\ wpc' = [v \in Worker |->
                 CASE v = w -> pc
                   [] v # w /\ i # 0 /\ wpc[v] = "waithead" /\ job[v] \in Wakes(txl') -> "check"
                   [] OTHER -> wpc[v]]
    /\ rpc' = IF i # 0 /\ rpc = "waithead" /\ cur \in Wakes(txl') THEN "check" ELSE rpc

----------------------------------------------------------------------------
(* The ring *)

\* BgwPoolExecute: is there room for i?
Fits(i) ==
    /\ \/ /\ head <= tail
          /\ QSize - tail >= MsgLen(i) \/ head >= MsgLen(i) - 1
       \/ head > tail /\ head - tail >= MsgLen(i)
    /\ Len(txl) < TxlSize

\* Where the place in txlist and the work go: after the size word at the
\* tail, or at the beginning of the ring.
BodyAt(i, o) == IF QSize - o >= MsgLen(i) THEN o + 1 ELSE 0

\* Mutant of Write: a message that does not fit at the end is cut there.
WriteWithoutWrap(i) ==
    /\ mem' = [o \in 0 .. QSize - 1 |->
                 IF o = tail THEN Stream[i].len
                 ELSE IF o > tail /\ o < tail + MsgLen(i) THEN i ELSE mem[o]]
    /\ tail' = (tail + MsgLen(i)) % QSize

\* The write: a message is never split.
Write(i) ==
    LET at == BodyAt(i, tail)
        end == at + MsgLen(i) - 1
    IN  /\ mem' = [o \in 0 .. QSize - 1 |->
                     IF o = tail THEN Stream[i].len
                     ELSE IF o >= at /\ o < end THEN i ELSE mem[o]]
        /\ tail' = IF end = QSize THEN 0 ELSE end

\* BgwPoolMainLoop: where the message of the size word at o goes on, what it
\* is, and where it ends.
ReadAt(o) == IF o + mem[o] + 2 > QSize THEN 0 ELSE o + 1
ReadMsg(o) == mem[ReadAt(o)]
ReadEnd(o) == LET end == ReadAt(o) + mem[o] + 1 IN IF end = QSize THEN 0 ELSE end

\* What was pushed and no worker has taken, as txlist has it.
Waiting ==
    SelectSeq(txl, LAMBDA i : Kind(i) \in {"P", "AP", "job"} /\ \A w \in Worker : job[w] # i)

\* A ring that is filled up to its last int has head = tail and passes for an
\* empty one.
RingFull == head = tail /\ Waiting # <<>>

\* Where the model ends, as anything may follow in the code: the ring is full,
\* or txl_store has looked for a place behind the end of txlist.
Overrun == rpc \notin {"cancel", "down"} /\ (RingFull \/ Len(txl) > TxlSize)
----------------------------------------------------------------------------
(* The receiver *)

\* What the stream still has: after a restart the filter drops what the node
\* has logged (MtmFilterTransaction).
Unfiltered == {i \in Msg : i >= next /\ i \notin logged}

Quiet == UNCHANGED <<wvars, queue, txl, killed, holders, effects, floor, bounds>>

\* pglogical_receiver_main gets a message.  Transactions and concurrent DDL
\* go to the pool, a syncpoint and temporary DDL ('V') are the receiver's own
\* and stand in txlist, and what ends with a plain COMMIT is applied by the
\* receiver at once (MtmExecute).  Those two are stored without a look at the
\* room in txlist.
Receive ==
    /\ rpc = "recv" /\ ~killed
    /\ Unfiltered # {}
    /\ LET i == CHOOSE j \in Unfiltered : \A k \in Unfiltered : j <= k
       IN  /\ next' = i + 1
           /\ cur' = i
           /\ \/ /\ Kind(i) \in {"S", "V"}
                 /\ txl' = Append(txl, i)
                 /\ rpc' = "check"
              \/ /\ Kind(i) = "B"
                 /\ rpc' = "exec"
                 /\ UNCHANGED txl
              \/ /\ Kind(i) \in {"P", "AP", "job"}
                 /\ rpc' = "hold"
                 /\ UNCHANGED txl
    /\ UNCHANGED <<wvars, queue, killed, holders, effects, floor, bounds>>

\* BgwPoolExecute: stay behind the barrier of a join, or go on to push.
Barrier ==
    /\ rpc = "hold" /\ ~killed
    /\ rpc' = IF holders > 0 THEN "held" ELSE "push"
    /\ UNCHANGED <<cur, next>> /\ Quiet

\* There is more work than workers.
Started == {w \in Worker : wpc[w] # "none"}
WantsWorker == Len(txl) + 1 > Cardinality(Started) /\ Started # Worker

Fault == deaths < MaxDeaths /\ deaths' = deaths + 1

\* BgwStartExtraWorker: w is the worker it starts, None if it starts none.  If
\* there is no room for another process, it warns and goes on.
StartExtraWorker(w) ==
    \/ WantsWorker /\ w \in Worker \ Started /\ UNCHANGED deaths
    \/ WantsWorker /\ w = None /\ Fault
    \/ ~WantsWorker /\ w = None /\ UNCHANGED deaths

\* ConditionVariableSignal(available_cv): v is the sleeper it wakes, if any.
SignalAvailable(v) ==
    IF \E u \in Worker : wpc[u] = "asleep"
    THEN v \in Worker /\ wpc[v] = "asleep"
    ELSE v = None

\* BgwPoolExecute pushes: store in txlist, start worker w if need be, write
\* and signal available_cv.
Push(w, v) ==
    /\ rpc = "push" /\ ~killed /\ Fits(cur)
    /\ txl' = Append(txl, cur)
    /\ StartExtraWorker(w)
    /\ Write(cur)
    /\ SignalAvailable(v)
    /\ wpc' = [u \in Worker |-> IF u \in {v, w} THEN "run" ELSE wpc[u]]
    /\ rpc' = "recv" /\ cur' = 0
    /\ UNCHANGED <<job, next, head, blocked, killed, holders, effects, floor, holding, holds>>

\* ... or fails with the new worker, and leaves its entry in txlist ...
StartFails ==
    /\ rpc = "push" /\ ~killed /\ Fits(cur)
    /\ WantsWorker /\ Fault
    /\ txl' = Append(txl, cur)
    /\ rpc' = "cancel" /\ cur' = 0
    /\ UNCHANGED <<wvars, next, queue, killed, holders, effects, floor, holding, holds>>

\* ... or waits for a worker to take something.
Block ==
    /\ rpc = "push" /\ ~killed /\ ~Fits(cur)
    /\ rpc' = "blocked"
    /\ blocked' = TRUE
    /\ UNCHANGED <<wvars, cur, next, mem, head, tail, txl, killed, holders, effects, floor, bounds>>

\* Mutant of CheckHead: only a syncpoint waits.
CheckSyncpoint ==
    /\ rpc = "check" /\ ~killed
    /\ rpc' = IF Kind(cur) # "S" \/ Head(txl) = cur THEN "exec" ELSE "waithead"
    /\ UNCHANGED <<cur, next>> /\ Quiet

\* txl_wait_sphead and txl_wait_txhead of the receiver.
CheckHead ==
    /\ rpc = "check" /\ ~killed
    /\ rpc' = IF Head(txl) = cur THEN "exec" ELSE "waithead"
    /\ UNCHANGED <<cur, next>> /\ Quiet

\* process_syncpoint registers, temporary DDL or a plain commit is applied.
\* A receiver that was killed may still get this far before it notices.
Process ==
    /\ rpc = "exec"
    /\ rpc' = "done"
    /\ handled' = handled \cup {cur}
    /\ logged' = IF Kind(cur) = "B" THEN logged \cup {cur} ELSE logged
    /\ floor' = IF Kind(cur) = "S" THEN cur ELSE floor
    /\ UNCHANGED <<wvars, cur, next, queue, txl, killed, holders, xact, lost, bounds>>

\* MtmExecutor ends with txl_remove.
Finish ==
    /\ rpc = "done"
    /\ LET l == IF Kind(cur) = "B" THEN txl ELSE Remove(txl, cur)
       IN  /\ txl' = l
           /\ wpc' = [w \in Worker |->
                        IF Kind(cur) # "B" /\ wpc[w] = "waithead" /\ job[w] \in Wakes(l)
                        THEN "check" ELSE wpc[w]]
    /\ rpc' = "recv" /\ cur' = 0
    /\ UNCHANGED <<job, next, queue, killed, holders, effects, floor, bounds>>

\* The receiver leaves: pglogical_receiver_at_exit calls BgwPoolCancel, which
\* takes receiver_pid away first.
Leave ==
    /\ rpc' = "cancel"
    /\ cur' = 0
    /\ UNCHANGED <<wvars, next, queue, txl, killed, holders, effects, floor, holding, holds>>

\* SIGTERM is noticed by CHECK_FOR_INTERRUPTS, also in the sleeps.
Interrupted ==
    /\ killed
    /\ rpc \notin {"done", "cancel", "down"}
    /\ Leave
    /\ UNCHANGED deaths

\* The stream has ended, or the receiver has to reconnect in another mode.
StreamEnds ==
    /\ rpc = "recv" /\ ~killed
    /\ Fault
    /\ Leave

\* BgwPoolCancel is done when no worker is left ...
Cancelled ==
    /\ rpc = "cancel"
    /\ \A w \in Worker : wpc[w] \in {"none", "dead"}
    /\ rpc' = "down"
    /\ wpc' = [w \in Worker |-> "none"]
    /\ blocked' = FALSE
    /\ txl' = <<>>
    /\ UNCHANGED <<job, cur, next, mem, head, tail, killed, holders, effects, floor, bounds>>

\* The stream starts after the last syncpoint.
RestartPoint == floor + 1

\* ... and BgwPoolStart makes a new ring; all that the node has not
\* logged since the syncpoint comes again.
Restart ==
    /\ rpc = "down"
    /\ rpc' = "recv"
    /\ killed' = FALSE
    /\ mem' = [o \in 0 .. QSize - 1 |-> 0]
    /\ head' = 0 /\ tail' = 0
    /\ holders' = 0
    /\ next' = RestartPoint
    /\ handled' = {i \in handled : i <= floor \/ i \in logged}
    /\ lost' = {i \in lost : i <= floor}
    /\ UNCHANGED <<wvars, cur, blocked, txl, xact, logged, floor, bounds>>

----------------------------------------------------------------------------
(* The workers *)

\* The queue is empty: sleep on available_cv, prepared under the lock.
Sleep(w) ==
    /\ wpc[w] = "run" /\ head = tail
    /\ wpc' = [wpc EXCEPT ![w] = "asleep"]
    /\ UNCHANGED <<job, rvars, queue, txl, killed, holders, effects, floor, bounds>>

\* Take the message at the head; an empty ring starts again at 0.  The abort
\* of a transaction waits for its turn in txlist before it is applied.
Dequeue(w) ==
    /\ wpc[w] = "run" /\ head # tail
    /\ job' = [job EXCEPT ![w] = ReadMsg(head)]
    /\ wpc' = [wpc EXCEPT ![w] = IF Kind(ReadMsg(head)) = "AP" THEN "check" ELSE "exec"]
    /\ head' = IF ReadEnd(head) = tail THEN 0 ELSE ReadEnd(head)
    /\ tail' = IF ReadEnd(head) = tail THEN 0 ELSE tail
    /\ blocked' = FALSE
    /\ rpc' = IF blocked /\ rpc = "blocked" THEN "push" ELSE rpc
    /\ UNCHANGED <<cur, next, mem, txl, killed, holders, effects, floor, bounds>>

\* Mutant of CheckTurn: an abort is applied at once.
CheckNothing(w) ==
    /\ wpc[w] = "check"
    /\ wpc' = [wpc EXCEPT ![w] = "exec"]
    /\ UNCHANGED <<job, rvars, queue, txl, killed, holders, effects, floor, bounds>>

\* txl_wait_txhead
CheckTurn(w) ==
    /\ wpc[w] = "check"
    /\ wpc' = [wpc EXCEPT ![w] = IF Head(txl) = job[w] THEN "exec" ELSE "waithead"]
    /\ UNCHANGED <<job, rvars, queue, txl, killed, holders, effects, floor, bounds>>

\* process_remote_commit.  PREPARE may also fail: MtmExecutor then answers
\* that the transaction is refused.  ABORT PREPARED of a transaction that is
\* not there is skipped; skipped and refused messages leave nothing in WAL.
Apply(w) ==
    LET i == job[w]
        x == Stream[i].tx
    IN  /\ wpc[w] = "exec"
        /\ wpc' = [wpc EXCEPT ![w] = "done"]
        /\ handled' = handled \cup {i}
        /\ \/ /\ Kind(i) = "P"
              /\ xact' = [xact EXCEPT ![x] = "prepared"]
              /\ logged' = logged \cup {i}
           \/ /\ Kind(i) \in {"P", "job"} \/ (Kind(i) = "AP" /\ xact[x] # "prepared")
              /\ UNCHANGED <<xact, logged>>
           \/ /\ Kind(i) = "AP" /\ xact[x] = "prepared"
              /\ xact' = [xact EXCEPT ![x] = "aborted"]
              /\ logged' = logged \cup {i}
        /\ UNCHANGED <<job, rvars, queue, txl, killed, holders, lost, floor, bounds>>

\* MtmExecutor ends with txl_remove.
Done(w) ==
    /\ wpc[w] = "done"
    /\ TxlRemoveByWorker(w, job[w], "run")
    /\ job' = [job EXCEPT ![w] = 0]
    /\ UNCHANGED <<cur, next, queue, killed, holders, effects, floor, bounds>>

\* BgwPoolBeforeShmemExit of a worker takes its work out of txlist ...
BeforeShmemExit(w) ==
    /\ wpc[w] \notin {"none", "dying", "dead"}
    /\ TxlRemoveByWorker(w, job[w], "dying")
    /\ lost' = IF job[w] # 0 /\ job[w] \notin handled THEN lost \cup {job[w]} ELSE lost
    /\ job' = [job EXCEPT ![w] = 0]
    /\ UNCHANGED <<cur, next, queue, killed, holders, xact, logged, handled, floor, holding, holds>>

\* The worker dies of an error it may not ignore ...
Die(w) ==
    /\ rpc # "cancel"
    /\ Fault
    /\ BeforeShmemExit(w)

\* ... or BgwPoolCancel terminates it.
Terminated(w) ==
    /\ rpc = "cancel"
    /\ BeforeShmemExit(w)
    /\ UNCHANGED deaths

\* Mutant of KillReceiver: the worker dies on its own.
DieAlone(w) ==
    /\ wpc[w] = "dying"
    /\ wpc' = [wpc EXCEPT ![w] = "dead"]
    /\ UNCHANGED <<job, rvars, queue, txl, killed, holders, effects, floor, bounds>>

\* ... and then kills the receiver, unless that one is exiting itself.
KillReceiver(w) ==
    /\ wpc[w] = "dying"
    /\ wpc' = [wpc EXCEPT ![w] = "dead"]
    /\ killed' = (killed \/ rpc # "cancel")
    /\ UNCHANGED <<job, rvars, queue, txl, holders, effects, floor, bounds>>

----------------------------------------------------------------------------
(* mtm_join_node holds the pool while it logs syncpoints for the new node. *)

Hold ==
    /\ ~holding /\ holds < MaxHolds
    /\ holding' = TRUE
    /\ holds' = holds + 1
    /\ holders' = holders + 1
    /\ UNCHANGED <<wvars, rvars, queue, txl, killed, effects, floor, deaths>>

\* MtmAllApplyWorkersFinished, the syncpoints, and the broadcast.
Release ==
    /\ holding
    /\ Started = {} \/ txl = <<>>
    /\ holding' = FALSE
    /\ holders' = holders - 1
    /\ rpc' = IF rpc = "held" THEN "hold" ELSE rpc
    /\ UNCHANGED <<wvars, cur, next, queue, txl, killed, effects, floor, deaths, holds>>

----------------------------------------------------------------------------

ReceiverStep ==
    \/ Receive
    \/ Barrier
    \/ \E w, v \in Worker \cup {None} : Push(w, v)
    \/ Block
    \/ CheckHead
    \/ Process
    \/ Finish
    \/ Interrupted
    \/ Cancelled
    \/ Restart

WorkerStep(w) ==
    \/ Sleep(w)
    \/ Dequeue(w)
    \/ CheckTurn(w)
    \/ Apply(w)
    \/ Done(w)
    \/ Terminated(w)
    \/ KillReceiver(w)

Next ==
    /\ ~Overrun
    /\ \/ ReceiverStep
       \/ \E w \in Worker : WorkerStep(w) \/ Die(w)
       \/ StartFails
       \/ StreamEnds
       \/ Hold
       \/ Release

\* The processes run, the monitor restarts a receiver, and a join that holds
\* the pool polls until it is idle.  Nothing has to die or to join.
Fairness ==
    /\ WF_vars(~Overrun /\ ReceiverStep)
    /\ \A w \in Worker : WF_vars(~Overrun /\ WorkerStep(w))
    /\ WF_vars(~Overrun /\ Release)

Spec == Init /\ [][Next]_vars /\ Fairness

----------------------------------------------------------------------------

\* What the workers will read from o on, n messages at most.
RECURSIVE Content(_, _)
Content(o, n) ==
    IF o = tail \/ n = 0 THEN <<>> ELSE <<ReadMsg(o)>> \o Content(ReadEnd(o), n - 1)

\* Writer and readers of the ring agree on it, wherever its messages wrap: the
\* workers will find what was pushed and not taken, in the order of txlist,
\* and each with its own place there.
RingHoldsWaiting ==
    rpc \notin {"cancel", "down"} /\ ~Overrun => Content(head, Len(Stream)) = Waiting

\* P and the AP of the same transaction are applied concurrently and still
\* not reordered: once the abort is through, the transaction is not (or no
\* more) prepared, whatever died in between.  A prepare that came after it
\* would hang, as nobody resolves it until the node reboots.
AbortSticks ==
    \A i \in handled : Kind(i) = "AP" => xact[Stream[i].tx] # "prepared"

\* What the pool promises: see PoolOrder.
Order == INSTANCE PoolOrder
         WITH st <- [i \in Msg |-> IF i \in handled THEN "done"
                                   ELSE IF i \in lost THEN "lost" ELSE "new"]
KeepsOrder == Order!Spec

\* A message waits and no process could be registered to apply it.
Stranded == Started = {} /\ Waiting # <<>>

\* Nobody waits for ever, neither in the queue (available_cv, overflow_cv) nor
\* in txlist (syncpoint_cv, transaction_cv) nor behind the barrier of a join,
\* and a death in the middle is made good by the restart: in the end every
\* message has been applied, refused or skipped, but for one whose worker died
\* while a syncpoint was registered over it.  It does not hold if the pool got
\* no worker at all, nor behind an overrun.
StreamApplied ==
    <>[](handled \cup {i \in lost : i <= floor} = Msg \/ Stranded \/ Overrun)
=============================================================================
