--------------------------- MODULE PrepareBarrier ---------------------------
(***************************************************************************)
(* The prepare barrier of one node and gen_lock: processes that PREPARE    *)
(* (backends, the resolver and apply workers) against processes that       *)
(* change the generation or the status in it, and against the consistency  *)
(* check that stops the backends.                                          *)
(*                                                                         *)
(* MtmConsiderGenSwitch takes the barrier and then gen_lock,               *)
(* MtmHandleParallelSafe takes them in the opposite order; preparers take  *)
(* the barrier only.  The barrier's counters are kept as the code keeps    *)
(* them.  Sleeping on the condition variable is waiting for the guard.     *)
(* Before the monitor has loaded the state the generation is 0.            *)
(***************************************************************************)
EXTENDS Integers, FiniteSets

CONSTANTS
    Backend,    \* backends and the resolver: AcquirePBByPreparer(true)
    Applier,    \* apply workers: AcquirePBByPreparer(false)
    Switcher,   \* callers of MtmConsiderGenSwitch and of MtmStateStartup
    Handler,    \* receivers in MtmHandleParallelSafe
    Reader,     \* processes that only read under gen_lock, shared
    Checker,    \* mtm_hold_backends
    MaxGen      \* bound on generation numbers

Preparer == Backend \cup Applier
Holder == Switcher \cup Handler \cup Checker
Proc == Preparer \cup Holder \cup Reader

\* A process has one role at a time; their number is bounded by MaxBackends.
ASSUME ProcAssumption ==
    /\ IsFiniteSet(Proc)
    /\ Backend \cap Applier = {}
    /\ Switcher \cap Handler = {}
    /\ Checker \cap (Switcher \cup Handler) = {}
    /\ Preparer \cap Holder = {}
    /\ Reader \cap (Preparer \cup Holder) = {}
ASSUME MaxGenAssumption == MaxGen \in Nat \ {0}

VARIABLES
    pc,        \* pc[p]: where p is
    pbMode,    \* pbMode[p]: pb_acquired_in_mode
    n,         \* n[m]: the counter of mode m in shared memory
    excl,      \* holders of gen_lock, exclusive
    shared,    \* holders of gen_lock, shared
    gen,       \* current_gen_num
    status,    \* MtmGetCurrentStatusInGen
    arg,       \* arg[p]: generation p was called with, or has read
    own        \* backends whose transaction is prepared and not finished

locks == <<excl, shared>>
state == <<gen, status, own>>
vars == <<pc, pbMode, n, excl, shared, gen, status, arg, own>>

Mode == {"backend_preparer", "apply_preparer", "backend_holder", "full_holder"}

\* The mode in which p takes the barrier.
ModeOf(p) ==
    CASE p \in Backend -> "backend_preparer"
      [] p \in Applier -> "apply_preparer"
      [] p \in Checker -> "backend_holder"
      [] p \in Switcher \cup Handler -> "full_holder"

Init ==
    /\ pc = [p \in Proc |-> "idle"]
    /\ pbMode = [p \in Proc |-> "none"]
    /\ n = [m \in Mode |-> 0]
    /\ excl = {}
    /\ shared = {}
    /\ gen = 0
    /\ status = "none"
    /\ arg = [p \in Proc |-> 0]
    /\ own = {}

GoWith(p, from, to, a) ==
    /\ pc[p] = from
    /\ pc' = [pc EXCEPT ![p] = to]
    /\ arg' = [arg EXCEPT ![p] = a]

\* The argument is of no use any more on the way out.
Go(p, from, to) ==
    GoWith(p, from, to, IF to \in {"donor", "unlocking", "unlocked", "leaving", "idle"} THEN 0 ELSE arg[p])

Count(p) ==
    /\ n' = [n EXCEPT ![ModeOf(p)] = @ + 1]
    /\ pbMode' = [pbMode EXCEPT ![p] = ModeOf(p)]

ReleasePB(p) ==
    /\ n' = IF pbMode[p] = "none" THEN n ELSE [n EXCEPT ![pbMode[p]] = @ - 1]
    /\ pbMode' = [pbMode EXCEPT ![p] = "none"]

----------------------------------------------------------------------------
(* Preparers.                                                              *)

\* Mutant of AcquirePBByPreparer: backends do not look at n_backend_holders.
AcquirePBDespiteChecker(p) ==
    /\ p \in Preparer
    /\ p \in Applier => gen # 0
    /\ p \notin own
    /\ n["full_holder"] = 0
    /\ Go(p, "idle", "inside")
    /\ Count(p)
    /\ UNCHANGED <<locks, state>>

\* The monitor starts receivers, and these their workers, once it has loaded
\* the state.  A backend has one transaction at a time.
AcquirePBByPreparer(p) ==
    /\ p \in Preparer
    /\ p \in Applier => gen # 0
    /\ p \notin own
    /\ n["full_holder"] = 0
    /\ p \in Backend => n["backend_holder"] = 0
    /\ Go(p, "idle", "inside")
    /\ Count(p)
    /\ UNCHANGED <<locks, state>>

\* Mutant of ReadGeneration: MtmGetCurrentGen(false), which takes gen_lock.
ReadGenerationLocked(p) ==
    /\ p \in Preparer
    /\ excl = {}
    /\ p \in Backend => status = "online"
    /\ GoWith(p, "inside", "preparing", gen)
    /\ UNCHANGED <<pbMode, n, locks, state>>

\* A backend reads the generation to stamp its transaction with and must be
\* online in it; an apply worker compares it with the transaction's.
ReadGeneration(p) ==
    /\ p \in Preparer
    /\ p \in Backend => status = "online"
    /\ GoWith(p, "inside", "preparing", gen)
    /\ UNCHANGED <<pbMode, n, locks, state>>

\* A backend that is not online gets an ERROR.
NotOnline(p) ==
    /\ p \in Backend
    /\ status # "online"
    /\ Go(p, "inside", "idle")
    /\ ReleasePB(p)
    /\ UNCHANGED <<locks, state>>

\* PREPARE is in the WAL.  The transaction of a backend is the node's own.
Prepared(p) ==
    /\ Go(p, "preparing", "idle")
    /\ ReleasePB(p)
    /\ own' = own \cup ({p} \cap Backend)
    /\ UNCHANGED <<locks, gen, status>>

\* The backend or, if it has failed, the resolver ends the transaction, which
\* takes other nodes, and in a cluster with a referee the barrier too.
FinishOwn(p) ==
    /\ p \in own
    /\ own' = own \ {p}
    /\ UNCHANGED <<pc, pbMode, n, locks, gen, status, arg>>

----------------------------------------------------------------------------
(* Holders.  They are counted first, which keeps new preparers out, and    *)
(* then wait for those inside.  Holders do not exclude each other.         *)

AcquirePBByHolder(p, from) ==
    /\ Go(p, from, "waiting")
    /\ Count(p)
    /\ UNCHANGED <<locks, state>>

\* Mutant of PBHeld: apply workers are not waited for.
PBHeldTooEarly(p) ==
    /\ p \in Holder
    /\ n["backend_preparer"] = 0
    /\ Go(p, "waiting", "holding")
    /\ UNCHANGED <<pbMode, n, locks, state>>

PBHeld(p) ==
    /\ p \in Holder
    /\ n["backend_preparer"] = 0
    /\ ModeOf(p) = "full_holder" => n["apply_preparer"] = 0
    /\ Go(p, "waiting", "holding")
    /\ UNCHANGED <<pbMode, n, locks, state>>

LockGenExclusive(p, from, to) ==
    /\ excl = {} /\ shared = {}
    /\ Go(p, from, to)
    /\ excl' = {p}
    /\ UNCHANGED <<pbMode, n, shared, state>>

\* MtmConsiderGenSwitch: the check without locks.
FastPath(p) ==
    /\ p \in Switcher
    /\ \E g \in (gen + 1) .. MaxGen : GoWith(p, "idle", "called", g)
    /\ UNCHANGED <<pbMode, n, locks, state>>

\* MtmStateStartup begins.
StateStartup(p) ==
    /\ p \in Switcher
    /\ GoWith(p, "idle", "called", 0)
    /\ UNCHANGED <<pbMode, n, locks, state>>

\* MtmStateLoad: the state that was saved last.  In a monitor that starts
\* again it is the one in memory.
LoadState(p) ==
    /\ p \in Switcher
    /\ arg[p] = 0
    /\ Go(p, "locked", "unlocking")
    /\ IF gen # 0
         THEN UNCHANGED <<gen, status>>
         ELSE /\ gen' \in 1 .. MaxGen
              /\ status' \in {"online", "recovery", "dead"}
    /\ UNCHANGED <<pbMode, n, locks, own>>

\* MtmConsiderGenSwitch before the state is loaded: an ERROR under both
\* locks.  It releases gen_lock and ends the dmq receiver, which releases the
\* barrier on its way out.
NotInitialized(p) ==
    /\ p \in Switcher
    /\ arg[p] # 0
    /\ gen = 0
    /\ Go(p, "locked", "unlocked")
    /\ excl' = excl \ {p}
    /\ UNCHANGED <<pbMode, n, shared, state>>

\* The switch under both locks.  The node may turn out dead in the new
\* generation, in recovery, or, if it is a donor, online.
UpdateGeneration(p) ==
    /\ p \in Switcher
    /\ gen # 0
    /\ arg[p] > gen
    /\ gen' = arg[p]
    /\ \/ status' \in {"recovery", "dead"} /\ Go(p, "locked", "unlocking")
       \/ status' = "recovery" /\ Go(p, "locked", "donor")
    /\ UNCHANGED <<pbMode, n, locks, own>>

BecomeOnlineAsDonor(p) ==
    /\ Go(p, "donor", "unlocking")
    /\ status' = "online"
    /\ UNCHANGED <<pbMode, n, locks, gen, own>>

\* Another process has switched to arg[p] or further: leave, the barrier first.
SwitchedAlready(p) ==
    /\ p \in Switcher
    /\ arg[p] # 0
    /\ arg[p] <= gen
    /\ Go(p, "locked", "leaving")
    /\ ReleasePB(p)
    /\ UNCHANGED <<locks, state>>

UnlockGen(p, from, to) ==
    /\ Go(p, from, to)
    /\ excl' = excl \ {p}
    /\ UNCHANGED <<pbMode, n, shared, state>>

UnlockPB(p, from, to) ==
    /\ Go(p, from, to)
    /\ ReleasePB(p)
    /\ UNCHANGED <<locks, state>>

\* MtmHandleParallelSafe, after its call of MtmConsiderGenSwitch.
HandleParallelSafe(p) ==
    /\ p \in Handler
    /\ \E g \in 1 .. gen : GoWith(p, "idle", "called", g)
    /\ UNCHANGED <<pbMode, n, locks, state>>

BecomeOnline(p) ==
    /\ p \in Handler
    /\ Go(p, "holding", "unlocking")
    /\ status' = IF arg[p] = gen /\ status = "recovery" THEN "online" ELSE status
    /\ UNCHANGED <<pbMode, n, locks, gen, own>>

----------------------------------------------------------------------------

LockGenShared(p) ==
    /\ p \in Reader
    /\ excl = {}
    /\ Go(p, "idle", "reading")
    /\ shared' = shared \cup {p}
    /\ UNCHANGED <<pbMode, n, excl, state>>

UnlockGenShared(p) ==
    /\ Go(p, "reading", "idle")
    /\ shared' = shared \ {p}
    /\ UNCHANGED <<pbMode, n, excl, state>>

\* Mutant of Fail: nobody releases the barrier.
FailSilently(p) ==
    /\ pc[p] \in {"inside", "preparing", "waiting"} /\ p \notin Handler
    /\ Go(p, pc[p], "idle")
    /\ pbMode' = [pbMode EXCEPT ![p] = "none"]
    /\ UNCHANGED <<n, locks, state>>

\* An error or the exit of the process: the error handlers and PBOnExit
\* release the barrier and the transaction machinery releases gen_lock.
\* Under gen_lock, and while the state is being changed, there is none but
\* NotInitialized.  A backend may fail when its transaction is prepared.
Fail(p) ==
    /\ \/ pc[p] \in {"inside", "preparing", "waiting"} /\ p \notin Handler
       \/ pc[p] \in {"holding", "held"} /\ p \in Checker
    /\ Go(p, pc[p], "idle")
    /\ ReleasePB(p)
    /\ \/ UNCHANGED own
       \/ pc[p] = "preparing" /\ own' = own \cup ({p} \cap Backend)
    /\ UNCHANGED <<locks, gen, status>>

\* What p may start while it is idle.
Start(p) ==
    \/ AcquirePBByPreparer(p)
    \/ FastPath(p)
    \/ StateStartup(p)
    \/ HandleParallelSafe(p)
    \/ p \in Checker /\ AcquirePBByHolder(p, "idle")    \* mtm_hold_backends
    \/ LockGenShared(p)

PreparerStep(p) == ReadGeneration(p) \/ NotOnline(p) \/ Prepared(p)

SwitcherLock(p) == p \in Switcher /\ LockGenExclusive(p, "holding", "locked")

SwitcherStep(p) ==
    /\ p \in Switcher
    /\ \/ AcquirePBByHolder(p, "called")
       \/ PBHeld(p)
       \/ LoadState(p)
       \/ NotInitialized(p)
       \/ UpdateGeneration(p)
       \/ BecomeOnlineAsDonor(p)
       \/ SwitchedAlready(p)
       \/ UnlockGen(p, "leaving", "idle")
       \/ UnlockGen(p, "unlocking", "unlocked")
       \/ UnlockPB(p, "unlocked", "idle")

HandlerLock(p) == p \in Handler /\ LockGenExclusive(p, "called", "locked")

HandlerStep(p) ==
    /\ p \in Handler
    /\ \/ AcquirePBByHolder(p, "locked")
       \/ PBHeld(p)
       \/ BecomeOnline(p)
       \/ UnlockPB(p, "unlocking", "leaving")
       \/ UnlockGen(p, "leaving", "idle")

\* mtm_hold_backends once the barrier is held: wait for the transactions that
\* were prepared before.
OwnFinished(p) ==
    /\ own = {}
    /\ Go(p, "holding", "held")
    /\ UNCHANGED <<pbMode, n, locks, state>>

\* mtm_hold_backends, and mtm_release_backends.
CheckerStep(p) ==
    /\ p \in Checker
    /\ \/ PBHeld(p)
       \/ OwnFinished(p)
       \/ UnlockPB(p, "held", "idle")

\* The rest of what p has started.
Step(p) ==
    \/ PreparerStep(p)
    \/ SwitcherLock(p)
    \/ SwitcherStep(p)
    \/ HandlerLock(p)
    \/ HandlerStep(p)
    \/ CheckerStep(p)
    \/ UnlockGenShared(p)

Next == \E p \in Proc : Start(p) \/ Step(p) \/ FinishOwn(p) \/ Fail(p)

\* What a process has started it goes on with.  A process that waits for
\* gen_lock takes it if it stays free, and no more: an LWLock is not fair.
\* Nobody has to start, to fail, or to finish a transaction.
Fairness == \A p \in Proc : WF_vars(Step(p))

Spec == Init /\ [][Next]_vars /\ Fairness

----------------------------------------------------------------------------

\* The types of the counters of the barrier and of the processes; generations
\* stay within the bound.
TypeOK ==
    /\ pc \in [Proc -> {"idle", "inside", "preparing", "called", "waiting", "holding", "locked",
                        "held", "donor", "unlocking", "unlocked", "leaving", "reading"}]
    /\ pbMode \in [Proc -> Mode \cup {"none"}]
    /\ n \in [Mode -> Nat]
    /\ excl \subseteq Proc /\ shared \subseteq Proc
    /\ gen \in 0 .. MaxGen
    /\ status \in {"none", "online", "recovery", "dead"}
    /\ arg \in [Proc -> 0 .. MaxGen]
    /\ own \subseteq Backend

\* The counters of the barrier count the processes that hold it, through
\* errors, exits and early returns: none is leaked, which would shut
\* preparers or holders out for good, and none is released twice.
CountersExact == \A m \in Mode : n[m] = Cardinality({p \in Proc : pbMode[p] = m})

\* A prepare lies wholly in one generation: from the moment a preparer has
\* read the generation until its PREPARE is logged, the node neither switches
\* nor (a backend) ceases to be online in it.
PrepareInOneGen ==
    \A p \in Preparer : pc[p] = "preparing" =>
        arg[p] = gen /\ (p \in Backend => status = "online")

\* While the consistency check holds the backends, none of them is inside the
\* barrier; and once mtm_hold_backends has returned, until the snapshot is
\* taken and the barrier released, no transaction of this node is prepared,
\* whatever backends, failures and switches come in between.
CheckerExcludesBackends ==
    \A c \in Checker :
        /\ pc[c] \in {"holding", "held"} => \A b \in Backend : pbMode[b] = "none"
        /\ pc[c] = "held" => own = {}

\* A process starts something that takes gen_lock.
Newcomer == \E p \in Switcher \cup Handler \cup Reader : pc[p] = "idle" /\ pc'[p] # "idle"

\* No circle of waits: despite the opposite lock orders of switchers and
\* handlers, and although preparers keep coming, whoever waits for the barrier
\* or for gen_lock gets it and gives it back, if only newcomers do not take
\* gen_lock forever.  The check of consistency, which keeps the barrier while
\* it waits, gets out unless a transaction of the node stays prepared: while it
\* holds the barrier no further one is.
EveryoneReturns ==
    <>[][~Newcomer]_vars =>
        /\ \A p \in Switcher \cup Handler : pc[p] # "idle" ~> pc[p] = "idle"
        /\ \A p \in Checker : pc[p] # "idle" ~> (pc[p] = "idle" \/ own # {})
=============================================================================
