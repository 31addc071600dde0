------------------------------ MODULE Syncpoint ------------------------------
(***************************************************************************)
(* Syncpoints: how a node knows which changes of which origin it has, from *)
(* whom it may pull them and since which LSN, what it filters out when it  *)
(* gets them again, and up to where the WAL of the others may be trimmed   *)
(* (syncpoint.c, the start of pglogical_receiver_main, MtmFilterTransaction *)
(* and the functions over mtm.syncpoints).                                 *)
(*                                                                         *)
(* An LSN is a position in the WAL of a node: the record with end_lsn k is *)
(* its k-th.  A node pulls from every other in normal mode, where it gets  *)
(* the sender's own changes and its workers apply them in any order        *)
(* between two syncpoints, or everything from one donor, in recovery.      *)
(***************************************************************************)
EXTENDS Integers, Sequences, FiniteSets, SequencesExt, FiniteSetsExt

CONSTANTS
    Node,
    InitialWal,    \* a history of every node to start with
    InitialRows,   \* and the syncpoints it has left in their tables
    Pulls,         \* the pairs <<receiver, sender>> whose receiver runs
    Writer,        \* the nodes that run transactions
    Hinter,        \* the nodes that log syncpoints
    Restarting,    \* the nodes whose receivers may stop, and that may recover
    MaxXacts, MaxSyncpoints, MaxStops    \* bounds

VARIABLES
    wal,      \* wal[n]: records [k, org, olsn, row, del]
    rows,     \* rows[n]: mtm.syncpoints at n, rows [recv, org, olsn, rlsn]
    slot,     \* slot[s][r]: what r has confirmed to s, and s need not keep for it
    filt,     \* filt[r][o]: position of the filter slot for origin o at r
    recv,     \* recv[r][s]: the receiver of r for s
    lost,     \* changes <<r, o, lsn>> that a worker of r died with
    xacts, syncpoints, stops    \* counters of the bounds

vars == <<wal, rows, slot, filt, recv, lost, xacts, syncpoints, stops>>

Peers(n) == Node \ {n}

\* A receiver that is not running.
Off == [mode |-> "off", pos |-> 0, vec |-> <<>>, known |-> {}, busy |-> {}, sp |-> <<>>,
        doomed |-> FALSE]

----------------------------------------------------------------------------
(* The functions over mtm.syncpoints, on a table t *)

RowsOf(t, r, o) == {w \in t : w.recv = r /\ w.org = o}

\* mtm.latest_syncpoints: up to which LSN of o did r apply everything?
Latest(t, r, o) == LET s == {w.olsn : w \in RowsOf(t, r, o)} IN IF s = {} THEN 0 ELSE Max(s)

\* mtm.translate_syncpoint: the last syncpoint of e about o not after olsn.
Translate(t, o, olsn, e) ==
    LET s == {w \in RowsOf(t, e, o) : w.olsn <= olsn}
    IN  {w \in s : \A v \in s : v.olsn <= w.olsn}

\* Mutant of Horizon: the sender's own changes are all that is asked for.
HorizonOfSender(t, r, s) == Latest(t, r, s)

\* mtm.get_recovery_horizon at r: what it may confirm to s.
Horizon(t, r, s) ==
    Min({IF o = s THEN Latest(t, r, o)
         ELSE LET e == Translate(t, o, Latest(t, r, o), s)
              IN  IF e = {} THEN 0 ELSE (CHOOSE w \in e : TRUE).rlsn : o \in Peers(r)})

\* mtm.oldest_syncpoint
Oldest(t, o) == Min({Latest(t, r, o) : r \in Peers(o)})

\* Mutant of Obsolete: what the node itself does not need.
ObsoleteForMe(t, n) ==
    {w \in t : w.recv = n /\ w.olsn < Latest(t, n, w.org)}

\* mtm.cleanup_old_syncpoints at n: its own rows that nobody needs any more.
Obsolete(t, n) ==
    {w \in t : /\ w.recv = n
               /\ \E e \in Translate(t, w.org, Oldest(t, w.org), n) : w.olsn < e.olsn
               /\ w.olsn < Latest(t, n, w.org)}

----------------------------------------------------------------------------

Rec(k, o, l) == [k |-> k, org |-> o, olsn |-> l, row |-> {}, del |-> {}]
Log(n, rec) == wal' = [wal EXCEPT ![n] = Append(@, rec)]
SetRecv(r, s, v) == recv' = [recv EXCEPT ![r][s] = v]

\* A transaction of a client at n.
Write(n) ==
    /\ n \in Writer /\ xacts < MaxXacts
    /\ xacts' = xacts + 1
    /\ Log(n, Rec("x", n, Len(wal[n]) + 1))
    /\ UNCHANGED <<rows, slot, filt, recv, lost, syncpoints, stops>>

\* MaybeLogSyncpoint: enough WAL was written since the last one.
MaybeLogSyncpoint(n) ==
    /\ n \in Hinter /\ syncpoints < MaxSyncpoints
    /\ syncpoints' = syncpoints + 1
    /\ Log(n, Rec("sp", n, Len(wal[n]) + 1))
    /\ UNCHANGED <<rows, slot, filt, recv, lost, xacts, stops>>

----------------------------------------------------------------------------
(* pglogical_receiver_main *)

\* RecoveryFilterLoad at r: the changes of the origins in q that its WAL has
\* since the earliest of their syncpoints, and after the syncpoint.  Records
\* of n in its own WAL have no origin.
FilterLoad(r, q, vec) ==
    LET from == Min({vec[o].local : o \in q})
    IN  {<<wal[r][k].org, wal[r][k].olsn>> : k \in
           {j \in from + 1 .. Len(wal[r]) :
              /\ wal[r][j].k \in {"x", "row"}
              /\ wal[r][j].org \in q
              /\ wal[r][j].olsn > vec[wal[r][j].org].olsn}}

\* SyncpointGetLatest and SyncpointGetAllLatest: without a row, the local
\* position is the one of the filter slot.
Vector(r, q) ==
    [o \in q |-> [olsn |-> Latest(rows[r], r, o),
                  local |-> LET e == Translate(rows[r], o, Latest(rows[r], r, o), r)
                            IN  IF e = {} THEN filt[r][o] ELSE (CHOOSE w \in e : TRUE).rlsn]]

\* START_REPLICATION with an LSN before the confirmed one is moved forward.
StreamFrom(s, r, lsn) == Max({lsn, slot[s][r]})

Running(r, s, mode, q, lsn) ==
    [mode |-> mode, pos |-> lsn, vec |-> Vector(r, q), known |-> FilterLoad(r, q, Vector(r, q)),
     busy |-> {}, sp |-> <<>>, doomed |-> FALSE]

\* The nodes are up, their receivers have started in normal mode and are
\* through what there is; a node of Restarting is about to start its own.
Init ==
    /\ wal = InitialWal
    /\ rows = InitialRows
    /\ slot = [s \in Node |-> [r \in Peers(s) |-> 0]]
    /\ filt = [r \in Node |-> [o \in Peers(r) |->
                 Max({w.rlsn : w \in RowsOf(InitialRows[r], r, o)} \cup {0})]]
    /\ recv = [r \in Node |-> [s \in Peers(r) |->
                 IF <<r, s>> \in Pulls /\ r \notin Restarting
                 THEN Running(r, s, "normal", {s}, Len(InitialWal[s]))
                 ELSE Off]]
    /\ lost = {} /\ xacts = 0 /\ syncpoints = 0 /\ stops = 0

Start(r, s, mode, q, lsn) == SetRecv(r, s, Running(r, s, mode, q, StreamFrom(s, r, lsn)))

\* In normal mode the receivers of r run side by side ...
StartNormal(r, s) ==
    /\ <<r, s>> \in Pulls
    /\ recv[r][s].mode = "off"
    /\ \A p \in Peers(r) : recv[r][p].mode # "recovery"
    /\ Start(r, s, "normal", {s}, Latest(rows[r], r, s))
    /\ UNCHANGED <<wal, rows, slot, filt, lost, xacts, syncpoints, stops>>

\* ... in recovery there is one.
StartRecovery(r, s) ==
    /\ r \in Restarting /\ <<r, s>> \in Pulls
    /\ \A p \in Peers(r) : recv[r][p].mode = "off"
    /\ Start(r, s, "recovery", Peers(r), Horizon(rows[r], r, s))
    /\ UNCHANGED <<wal, rows, slot, filt, lost, xacts, syncpoints, stops>>

\* The receivers die, at a restart of the node or to pull in another mode, and
\* with them what their workers have not applied yet.
Stop(r) ==
    /\ r \in Restarting /\ stops < MaxStops
    /\ \E s \in Peers(r) : recv[r][s].mode # "off"
    /\ stops' = stops + 1
    /\ recv' = [recv EXCEPT ![r] = [s \in Peers(r) |-> Off]]
    /\ UNCHANGED <<wal, rows, slot, filt, lost, xacts, syncpoints>>

\* The decoding of s leaves out what is not its own in normal mode, and
\* MtmFilterTransaction what is the node's own ...
NotForUs(r, s, rec) == rec.org = r \/ (recv[r][s].mode = "normal" /\ rec.org # s)

\* Mutant of Filtered: there is no filter, only the syncpoint.
FilteredBySyncpoint(r, s, rec) ==
    IF NotForUs(r, s, rec) THEN TRUE ELSE rec.olsn <= recv[r][s].vec[rec.org].olsn

\* ... what is before the syncpoint and what the filter knows.
Filtered(r, s, rec) ==
    IF NotForUs(r, s, rec) THEN TRUE
    ELSE \/ rec.olsn <= recv[r][s].vec[rec.org].olsn
         \/ <<rec.org, rec.olsn>> \in recv[r][s].known

\* The next record a running receiver does not filter out.
Deliverable(r, s) ==
    IF recv[r][s].mode = "off" \/ recv[r][s].sp # <<>> THEN {}
    ELSE LET ks == {k \in recv[r][s].pos + 1 .. Len(wal[s]) : ~Filtered(r, s, wal[s][k])}
         IN  IF ks = {} THEN {} ELSE {Min(ks)}

\* A transaction goes to the workers in normal mode ...
Dispatch(r, s, k) ==
    /\ recv[r][s].mode = "normal"
    /\ wal[s][k].k = "x"
    /\ SetRecv(r, s, [recv[r][s] EXCEPT !.pos = k, !.busy = @ \cup {wal[s][k]}])
    /\ UNCHANGED <<wal, rows, slot, filt, lost, xacts, syncpoints, stops>>

\* ... and one of them applies it, in an order of their own.
ApplyByWorker(r, s) ==
    \E rec \in recv[r][s].busy :
        /\ Log(r, rec)
        /\ SetRecv(r, s, [recv[r][s] EXCEPT !.busy = @ \ {rec}])
        /\ UNCHANGED <<rows, slot, filt, lost, xacts, syncpoints, stops>>

\* A worker dies: BgwPoolBeforeShmemExit takes its transaction out of txlist,
\* not applied ...
WorkerDies(r, s) ==
    /\ r \in Restarting /\ stops < MaxStops
    /\ stops' = stops + 1
    /\ \E rec \in recv[r][s].busy :
        /\ SetRecv(r, s, [recv[r][s] EXCEPT !.busy = @ \ {rec}, !.doomed = TRUE])
        /\ lost' = lost \cup {<<r, rec.org, rec.olsn>>}
    /\ UNCHANGED <<wal, rows, slot, filt, xacts, syncpoints>>

\* ... and then sends SIGTERM to the receiver, which ends with its pool.
KillReceiver(r, s) ==
    /\ recv[r][s].doomed
    /\ SetRecv(r, s, Off)
    /\ UNCHANGED <<wal, rows, slot, filt, lost, xacts, syncpoints, stops>>

\* In recovery the receiver applies it itself.
ApplyInRecovery(r, s, k) ==
    /\ recv[r][s].mode = "recovery"
    /\ wal[s][k].k = "x"
    /\ Log(r, wal[s][k])
    /\ SetRecv(r, s, [recv[r][s] EXCEPT !.pos = k])
    /\ UNCHANGED <<rows, slot, filt, lost, xacts, syncpoints, stops>>

\* The trigger of mtm.syncpoints runs before the row is there and brings the
\* horizons up to date with the rows it sees; sendFeedback confirms them.
\* Here it does so at once, which is when most WAL may go.
Confirm(n) ==
    slot' = [s \in Node |-> [r \in Peers(s) |->
               IF r = n THEN Max({slot[s][r], Horizon(rows[n], n, s)}) ELSE slot[s][r]]]

\* The syncpoint row of another node: a plain COMMIT, applied by the receiver.
ApplyRow(r, s, k) ==
    LET rec == wal[s][k]
    IN  /\ rec.k = "row"
        /\ Log(r, rec)
        /\ rows' = [rows EXCEPT ![r] = (@ \cup rec.row) \ rec.del]
        /\ Confirm(r)
        /\ SetRecv(r, s, [recv[r][s] EXCEPT !.pos = k])
        /\ UNCHANGED <<filt, lost, xacts, syncpoints, stops>>

\* Mutant of AllApplied: the workers may still be busy.
NoWait(r, s) == TRUE

\* txl_wait_sphead: nothing is left in txlist before the syncpoint.
AllApplied(r, s) == recv[r][s].busy = {}

\* process_syncpoint: wait for the workers and, unless the syncpoint was
\* forwarded, log it with its origin for those who will recover from us ...
ReceiveSyncpoint(r, s, k) ==
    LET rec == wal[s][k]
    IN  /\ rec.k \in {"sp", "F"}
        /\ AllApplied(r, s)
        /\ IF rec.k = "F" THEN UNCHANGED wal ELSE Log(r, Rec("F", rec.org, rec.olsn))
        /\ SetRecv(r, s, [recv[r][s] EXCEPT !.pos = k, !.sp = <<rec.org, rec.olsn, Len(wal'[r])>>])
        /\ UNCHANGED <<rows, slot, filt, lost, xacts, syncpoints, stops>>

\* ... and SyncpointRegister: the row, the cleanup of old ones in the same
\* transaction, and the filter slot.
SyncpointRegister(r, s) ==
    LET sp == recv[r][s].sp
        row == [recv |-> r, org |-> sp[1], olsn |-> sp[2], rlsn |-> sp[3]]
        t == rows[r] \cup {row}
    IN  /\ sp # <<>>
        /\ Log(r, [Rec("row", r, Len(wal[r]) + 1) EXCEPT !.row = {row}, !.del = Obsolete(t, r)])
        /\ rows' = [rows EXCEPT ![r] = t \ Obsolete(t, r)]
        /\ Confirm(r)
        /\ filt' = [filt EXCEPT ![r][sp[1]] = IF sp[3] > @ THEN sp[3] ELSE @]
        /\ SetRecv(r, s, [recv[r][s] EXCEPT !.sp = <<>>])
        /\ UNCHANGED <<lost, xacts, syncpoints, stops>>

\* MtmMaybeAdvanceSlot, while r recovers from another node.
AdvanceSlot(r, s) ==
    /\ recv[r][s].mode = "off"
    /\ \E p \in Peers(r) : recv[r][p].mode = "recovery"
    /\ Horizon(rows[r], r, s) > slot[s][r]
    /\ slot' = [slot EXCEPT ![s][r] = Horizon(rows[r], r, s)]
    /\ UNCHANGED <<wal, rows, filt, recv, lost, xacts, syncpoints, stops>>

----------------------------------------------------------------------------

Next ==
    \/ \E n \in Node : Write(n) \/ MaybeLogSyncpoint(n) \/ Stop(n)
    \/ \E r \in Node : \E s \in Peers(r) :
        \/ StartNormal(r, s)
        \/ StartRecovery(r, s)
        \/ \E k \in Deliverable(r, s) :
             \/ Dispatch(r, s, k)
             \/ ApplyInRecovery(r, s, k)
             \/ ApplyRow(r, s, k)
             \/ ReceiveSyncpoint(r, s, k)
        \/ ApplyByWorker(r, s) \/ WorkerDies(r, s) \/ KillReceiver(r, s)
        \/ SyncpointRegister(r, s)
        \/ AdvanceSlot(r, s)

Spec == Init /\ [][Next]_vars

----------------------------------------------------------------------------

Records == UNION {{wal[n][k] : k \in DOMAIN wal[n]} : n \in Node}

\* The types of the records and rows; no position, of a receiver, of a slot or
\* in a row, is beyond the end of the WAL it is a position in.
TypeOK ==
    /\ \A rec \in Records : rec.k \in {"x", "sp", "F", "row"} /\ rec.org \in Node
    /\ \A n \in Node : \A w \in rows[n] : w.recv # w.org /\ w.rlsn \in 1 .. Len(wal[w.recv])
    /\ \A r \in Node : \A s \in Peers(r) :
          /\ recv[r][s].mode \in {"off", "normal", "recovery"}
          /\ recv[r][s].pos \in 0 .. Len(wal[s])
          /\ slot[s][r] \in 0 .. Len(wal[s])
          /\ filt[r][s] \in 0 .. Len(wal[r])

\* Where the changes of o up to lsn are in the WAL of n.
Changes(n) == {k \in DOMAIN wal[n] : wal[n][k].k \in {"x", "row"}}
Has(n, o, lsn) == \E k \in Changes(n) : wal[n][k].org = o /\ wal[n][k].olsn = lsn

\* No change is applied twice, in whatever mode and after whatever restart.
AppliedOnce ==
    \A n \in Node :
        Cardinality({<<wal[n][k].org, wal[n][k].olsn>> : k \in Changes(n)}) = Cardinality(Changes(n))

\* ... or a worker of n died with it.
HasOrLost(n, o, lsn) == Has(n, o, lsn) \/ <<n, o, lsn>> \in lost

\* What SyncpointRegister says of a row: the node has all the changes of the
\* origin up to origin_lsn, and the later ones are behind receiver_lsn in its
\* WAL.  Everybody relies on it, at every node that has the row.  "all xacts
\* created before sp must be written before applied sp", says bgwpool.c;
\* that is not so of a transaction that a worker died with.
SyncpointTrue ==
    \A w \in UNION {rows[n] : n \in Node} :
        /\ \A k \in Changes(w.org) :
             (k <= w.olsn /\ wal[w.org][k].org = w.org) => HasOrLost(w.recv, w.org, k)
        /\ \A k \in Changes(w.recv) :
             (wal[w.recv][k].org = w.org /\ wal[w.recv][k].olsn > w.olsn) => k > w.rlsn

\* The WAL a node still needs is never gone: a change it has not got is in
\* the WAL of its origin, and of everyone it might recover from, behind what
\* it has confirmed there, but for one that a worker died with.
NeededIsKept ==
    \A r \in Node : \A s \in Peers(r) : \A k \in Changes(s) :
        (k <= slot[s][r] /\ wal[s][k].org # r) => HasOrLost(r, wal[s][k].org, wal[s][k].olsn)

\* No cleanup takes away the syncpoint that somebody's horizon rests on: what
\* a node would ask for now is never before what it has confirmed.
HorizonKept ==
    \A r \in Node : \A s \in Peers(r) : Horizon(rows[r], r, s) >= slot[s][r]
=============================================================================
