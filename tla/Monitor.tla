------------------------------ MODULE Monitor ------------------------------
(***************************************************************************)
(* Membership of the cluster as one node keeps it: the tables              *)
(* mtm.cluster_nodes, mtm.nodes_init_done and mtm.config, the replication  *)
(* slots and origins that go with a peer, and the monitor, the background  *)
(* worker that follows the tables, creates and drops those and starts and  *)
(* stops a dmq destination and a receiver for each peer.                   *)
(*                                                                         *)
(* Tables, slots and origins survive everything.  The monitor may fail at  *)
(* every step and is started again by the postmaster; the server may crash *)
(* at every step.  The data directory may be a copy of another node's: the *)
(* monitor notices, empties the tables and leaves; mtm.join_node fills     *)
(* them again.                                                             *)
(***************************************************************************)
EXTENDS Naturals, FiniteSets

CONSTANTS
    Peer,         \* the ids other nodes may get
    Founders,     \* those of the nodes configured at first
    Readd,        \* may an id be given to a node again?
    Budget,       \* bound on node additions and drops and on failures
    None

ASSUME MonitorAssumption ==
    Founders \subseteq Peer /\ None \notin Peer /\ Readd \in BOOLEAN

VARIABLES
    life,       \* "copy" of another node's data, "empty" one, or "member"
    nodes,      \* mtm.cluster_nodes: the peers ...
    self,       \* ... and whether the node itself is there
    done,       \* mtm.nodes_init_done
    key,        \* mtm.config, key 'basebackup': the donor of a join, or None
    filter,     \* peers with a filter slot
    logical,    \* peers with a logical slot
    origin,     \* peers with a replication origin
    mon,        \* the monitor: "off", "boot", "loop", "work", or "gone"
    cfg,        \* its mtm_cfg: the peers
    new,        \* the configuration MtmReloadConfig has loaded
    todo,       \* what is left for MtmReloadConfig to do
    cb,         \* the peer of the callback under way, and its next step
    valid,      \* mtm_config_valid
    inval,      \* is there an invalidation message for the monitor?
    missed,     \* has it taken one during the reload, and so to no effect?
    dest,       \* dest[p]: active dmq destinations of p
    bgw,        \* bgw[p]: "none", or state of the receiver the monitor keeps
    orphans,    \* orphans[p]: receivers of p no handle leads to
    used,       \* ids that were dropped once
    donors,     \* peers that a join was made from
    left        \* what is left of Budget

tables == <<life, nodes, self, done, key>>
slots == <<filter, logical, origin>>
task == <<cfg, new, todo, cb>>
notices == <<valid, inval, missed>>
wards == <<dest, bgw, orphans>>
history == <<used, donors>>
vars == <<tables, slots, mon, task, notices, wards, history, left>>

NoTask == [start |-> {}, stop |-> {}]
NoCall == [node |-> None, step |-> "end"]
NoConfig == [nodes |-> {}, self |-> FALSE, done |-> {}, key |-> None]

\* mtm_init_cluster has filled the tables, or the node starts from a backup
\* of a donor that had workers for some peers at least.
Init ==
    /\ nodes = Founders
    /\ self = TRUE
    /\ origin = Founders
    /\ \/ life = "member" /\ done = {}
       \/ life = "copy" /\ done \in (SUBSET Founders) \ {{}}
    /\ key = None
    /\ filter = {} /\ logical = {}
    /\ mon = "boot"
    /\ cfg = {} /\ new = NoConfig /\ todo = NoTask /\ cb = NoCall
    /\ valid = FALSE /\ inval = FALSE /\ missed = FALSE
    /\ dest = [p \in Peer |-> 0]
    /\ bgw = [p \in Peer |-> "none"]
    /\ orphans = [p \in Peer |-> 0]
    /\ used = {} /\ donors = {}
    /\ left = Budget

----------------------------------------------------------------------------
(* Changes of the configuration.                                           *)

Spend == left > 0 /\ left' = left - 1

\* The configuration of a member changes at any time, also while it joins.
MayChange == life = "member" /\ self

\* mtm.add_node and the trigger on_node_create: the origin must be new.
AddNode(p) ==
    /\ MayChange
    /\ p \notin nodes /\ p \notin origin
    /\ p \in used => Readd
    /\ Spend
    /\ nodes' = nodes \cup {p}
    /\ origin' = origin \cup {p}
    /\ inval' = TRUE
    /\ UNCHANGED <<life, self, done, key, filter, logical, mon, task, valid, missed, wards, history>>

\* mtm.drop_node and the trigger on_node_drop.  The last peer stays: without
\* one, launcher_main would not start a monitor after a restart.
DropNode(p) ==
    /\ MayChange
    /\ p \in nodes /\ nodes # {p}
    /\ Spend
    /\ nodes' = nodes \ {p}
    /\ used' = used \cup {p}
    /\ inval' = TRUE
    /\ UNCHANGED <<life, self, done, key, slots, mon, task, valid, missed, wards, donors>>

DropMyself ==
    /\ MayChange
    /\ Spend
    /\ self' = FALSE
    /\ inval' = TRUE
    /\ UNCHANGED <<life, nodes, done, key, slots, mon, task, valid, missed, wards, history>>

\* mtm_join_node, run at the donor, writes to the node that joins: first the
\* basebackup key ...
JoinKey(p) ==
    /\ life = "empty" /\ mon = "gone" /\ key = None
    /\ key' = p
    /\ donors' = donors \cup {p}
    /\ UNCHANGED <<life, nodes, self, done, slots, mon, task, notices, wards, used, left>>

\* ... then the list of nodes, whose triggers create the origins and, for the
\* row of the node itself, start the monitor.
JoinNodes ==
    /\ life = "empty" /\ key # None
    /\ origin \cap Founders = {}
    /\ life' = "member"
    /\ nodes' = Founders
    /\ self' = TRUE
    /\ origin' = origin \cup Founders
    /\ mon' = "boot"
    /\ UNCHANGED <<done, key, filter, logical, task, notices, wards, history, left>>

\* The receiver of the donor is told that it has caught up ('Z').
CaughtUp ==
    /\ key # None /\ life = "member"
    /\ bgw[key] = "live" \/ orphans[key] > 0
    /\ key' = None
    /\ inval' = TRUE
    /\ UNCHANGED <<life, nodes, self, done, slots, mon, task, valid, missed, wards, history, left>>

----------------------------------------------------------------------------
(* The life of the monitor.                                                *)

\* Mutant of MtmMonitorOnExit: the receivers are left alone.
ExitAlone ==
    /\ dest' = [p \in Peer |-> 0]
    /\ bgw' = [p \in Peer |-> "none"]
    /\ orphans' = [p \in Peer |-> IF bgw[p] = "live" THEN orphans[p] + 1 ELSE orphans[p]]

\* "monitor must take all his wards with himself"
MtmMonitorOnExit ==
    /\ dest' = [p \in Peer |-> 0]
    /\ bgw' = [p \in Peer |-> "none"]
    /\ UNCHANGED orphans

Forget ==
    /\ cfg' = {} /\ new' = NoConfig /\ todo' = NoTask /\ cb' = NoCall
    /\ valid' = FALSE /\ inval' = FALSE /\ missed' = FALSE

\* The monitor exits; the postmaster starts it again unless it was code 0.
Exits(how) == mon' = how /\ Forget /\ MtmMonitorOnExit

\* ERROR
Fails == Exits("off") /\ UNCHANGED <<tables, slots, history, left>>

Restarted ==
    /\ mon = "off"
    /\ mon' = "boot"
    /\ UNCHANGED <<tables, slots, task, notices, wards, history, left>>

\* SIGTERM, or an error that has nothing to do with what is modelled here.
MonitorDies ==
    /\ mon \in {"boot", "loop", "work"}
    /\ Spend
    /\ Exits("off")
    /\ UNCHANGED <<tables, slots, history>>

\* The server restarts.  launcher_main starts a monitor if it finds the
\* subscription of a peer.
ServerRestarts ==
    /\ mon' = IF nodes = {} THEN "gone" ELSE "off"
    /\ Forget
    /\ dest' = [p \in Peer |-> 0]
    /\ bgw' = [p \in Peer |-> "none"]
    /\ orphans' = [p \in Peer |-> 0]
    /\ UNCHANGED <<tables, slots, history>>

Crash == mon # "gone" /\ Spend /\ ServerRestarts

\* Mutant of IsBasebackuped: nodes_init_done is not looked at.
AnySlotMissing == \E p \in nodes : p \notin logical

\* is_basebackuped
IsBasebackuped == \E p \in nodes \cap done : p \notin logical

\* "multimaster is not configured"
Misconfigured ==
    /\ mon = "boot" /\ nodes # {} /\ ~self
    /\ Fails

\* A backup: the tables are emptied in one transaction, which fails if one of
\* the origins is missing.
DetectBackup ==
    /\ mon = "boot" /\ self /\ IsBasebackuped
    /\ IF nodes \subseteq origin
         THEN /\ life' = "empty"
              /\ nodes' = {} /\ self' = FALSE /\ done' = {}
              /\ origin' = origin \ nodes
              /\ Exits("gone")
              /\ UNCHANGED <<key, filter, logical, history, left>>
         ELSE Fails

\* Mutant of Boot: mtm_config_valid is not false at first.
BootValid ==
    /\ mon = "boot" /\ self /\ ~IsBasebackuped
    /\ mon' = "loop"
    /\ valid' = TRUE
    /\ UNCHANGED <<tables, slots, task, inval, missed, wards, history, left>>

Boot ==
    /\ mon = "boot" /\ self /\ ~IsBasebackuped
    /\ mon' = "loop"
    /\ Forget
    /\ UNCHANGED <<tables, slots, wards, history, left>>

----------------------------------------------------------------------------
(* MtmReloadConfig and its callbacks.                                      *)

\* MtmLoadConfig: the three tables, read in one transaction.
LoadConfig == [nodes |-> nodes, self |-> self, done |-> done, key |-> key]

\* The callbacks run for the nodes added and dropped since mtm_cfg, and for
\* the donor whenever the basebackup key is there.
Reload ==
    /\ mon = "loop" /\ (inval \/ ~valid)
    /\ mon' = "work"
    /\ new' = LoadConfig
    /\ todo' = [start |-> (nodes \ cfg) \cup ({key} \ {None}), stop |-> cfg \ nodes]
    /\ inval' = FALSE /\ valid' = FALSE /\ missed' = FALSE
    /\ UNCHANGED <<tables, slots, cfg, cb, wards, history, left>>

\* A transaction that begins, or takes a lock, accepts invalidations: they
\* clear mtm_config_valid, which the end of the reload sets regardless.
Accept == inval' = FALSE /\ missed' = (missed \/ inval) /\ UNCHANGED valid

\* start_node_workers, for the donor first and then the others in any order,
\* begins a transaction, which accepts invalidations, and makes sure of the
\* filter slot.  A donor that has been dropped is not found in the
\* configuration, and the null pointer brings the server down.
StartNode ==
    /\ mon = "work" /\ cb = NoCall /\ todo.start # {}
    /\ \E p \in todo.start :
        /\ new.key \in todo.start => p = new.key
        /\ IF p \notin new.nodes
             THEN ServerRestarts /\ UNCHANGED left
           ELSE IF p \in new.done /\ p \notin filter \cap logical
             THEN Fails
             ELSE /\ filter' = filter \cup {p}
                  /\ cb' = [node |-> p, step |-> "launch"]
                  /\ Accept
                  /\ UNCHANGED <<tables, logical, origin, mon, cfg, new, todo, wards, history, left>>

\* The callback for p is over.
Return(p) ==
    /\ cb' = NoCall
    /\ todo' = [start |-> todo.start \ {p}, stop |-> todo.stop \ {p}]

Goto(step) == cb' = [cb EXCEPT !.step = step] /\ UNCHANGED todo

At(step) == mon = "work" /\ cb.step = step

\* Mutant of Launch: the peer is marked before its logical slot is created.
LaunchAndMark ==
    /\ At("launch")
    /\ LET p == cb.node IN
        /\ dest' = [dest EXCEPT ![p] = @ + 1]
        /\ bgw' = [bgw EXCEPT ![p] = "live"]
        /\ orphans' = [orphans EXCEPT ![p] = IF bgw[p] = "live" THEN @ + 1 ELSE @]
        /\ done' = done \cup {p}
        /\ IF p \in new.done THEN Return(p) ELSE Goto("create")
    /\ UNCHANGED <<life, nodes, self, key, slots, mon, cfg, new, notices, history, left>>

\* dmq_destination_add and MtmBgwStart.  The entry of the receiver is cleared
\* whatever it held.
Launch ==
    /\ At("launch")
    /\ LET p == cb.node IN
        /\ dest' = [dest EXCEPT ![p] = @ + 1]
        /\ bgw' = [bgw EXCEPT ![p] = "live"]
        /\ orphans' = [orphans EXCEPT ![p] = IF bgw[p] = "live" THEN @ + 1 ELSE @]
        /\ IF p \in new.done THEN Return(p) ELSE Goto("create")
    /\ UNCHANGED <<tables, slots, mon, cfg, new, notices, history, left>>

CreateLogicalSlot ==
    /\ At("create")
    /\ logical' = logical \cup {cb.node}
    /\ Goto("mark")
    /\ UNCHANGED <<tables, filter, origin, mon, cfg, new, notices, wards, history, left>>

\* The row of nodes_init_done, and commit.
MarkDone ==
    /\ At("mark")
    /\ done' = done \cup {cb.node}
    /\ Accept
    /\ Return(cb.node)
    /\ UNCHANGED <<life, nodes, self, key, slots, mon, cfg, new, wards, history, left>>

\* stop_node_workers: the destination and the receiver ...
StopNode ==
    /\ mon = "work" /\ cb = NoCall /\ todo.start = {} /\ todo.stop # {}
    /\ \E p \in todo.stop :
        /\ dest' = [dest EXCEPT ![p] = IF @ = 0 THEN 0 ELSE @ - 1]
        /\ bgw' = [bgw EXCEPT ![p] = "none"]
        /\ cb' = [node |-> p, step |-> "filter"]
    /\ Accept
    /\ UNCHANGED <<tables, slots, mon, cfg, new, todo, orphans, history, left>>

\* ... the filter slot, which nobody may hold any more ...
DropFilterSlot ==
    /\ At("filter")
    /\ IF orphans[cb.node] > 0
         THEN Fails
         ELSE /\ filter' = filter \ {cb.node}
              /\ Goto("logical")
              /\ UNCHANGED <<tables, logical, origin, mon, cfg, new, notices, wards, history, left>>

\* ... and the logical slot.  The origin is gone once the transaction is
\* committed.
DropLogicalSlot ==
    /\ At("logical")
    /\ logical' = logical \ {cb.node}
    /\ Goto("commit")
    /\ UNCHANGED <<tables, filter, origin, mon, cfg, new, notices, wards, history, left>>

\* Mutant of CommitStop: the origin stays.
CommitWithOrigin ==
    /\ At("commit")
    /\ Accept
    /\ Return(cb.node)
    /\ UNCHANGED <<tables, slots, mon, cfg, new, wards, history, left>>

CommitStop ==
    /\ At("commit")
    /\ origin' = origin \ {cb.node}
    /\ Accept
    /\ Return(cb.node)
    /\ UNCHANGED <<tables, filter, logical, mon, cfg, new, wards, history, left>>

\* The end of the reload.  A node that finds itself excluded empties its
\* tables and leaves for good.
EndReload ==
    /\ mon = "work" /\ cb = NoCall /\ todo = NoTask
    /\ IF new.self
         THEN /\ cfg' = new.nodes /\ mon' = "loop"
              /\ valid' = TRUE
              /\ UNCHANGED <<nodes, new, todo, cb, inval, missed, wards>>
         ELSE nodes' = {} /\ Exits("gone")
    /\ UNCHANGED <<life, self, done, key, slots, history, left>>

\* The monitor's loop starts the receivers that died.
RestartReceivers ==
    /\ mon = "loop" /\ valid /\ ~inval
    /\ \E p \in Peer : bgw[p] = "dead"
    /\ bgw' = [p \in Peer |-> IF bgw[p] = "dead" THEN "live" ELSE bgw[p]]
    /\ UNCHANGED <<tables, slots, mon, task, notices, dest, orphans, history, left>>

ReceiverDies(p) ==
    /\ bgw[p] = "live"
    /\ Spend
    /\ bgw' = [bgw EXCEPT ![p] = "dead"]
    /\ UNCHANGED <<tables, slots, mon, task, notices, dest, orphans, history>>

\* A receiver that no handle leads to is not started again.
OrphanDies(p) ==
    /\ orphans[p] > 0
    /\ orphans' = [orphans EXCEPT ![p] = @ - 1]
    /\ UNCHANGED <<tables, slots, mon, task, notices, dest, bgw, history, left>>

MonitorStep ==
    \/ Restarted \/ Misconfigured \/ DetectBackup \/ Boot
    \/ Reload \/ StartNode \/ Launch \/ CreateLogicalSlot \/ MarkDone
    \/ StopNode \/ DropFilterSlot \/ DropLogicalSlot \/ CommitStop
    \/ EndReload \/ RestartReceivers

Next ==
    \/ \E p \in Peer : AddNode(p) \/ DropNode(p) \/ ReceiverDies(p) \/ OrphanDies(p)
    \/ \E p \in Founders : JoinKey(p)
    \/ DropMyself \/ JoinNodes \/ CaughtUp
    \/ MonitorDies \/ Crash
    \/ MonitorStep

\* The monitor runs on, and the postmaster starts it again.
Spec == Init /\ [][Next]_vars /\ WF_vars(MonitorStep)

----------------------------------------------------------------------------

\* The types of the tables, slots and workers; every configured peer has its
\* replication origin, and a reload starts and stops disjoint sets of peers.
TypeOK ==
    /\ life \in {"copy", "empty", "member"}
    /\ nodes \subseteq Peer /\ done \subseteq Peer
    /\ self \in BOOLEAN
    /\ key \in Founders \cup {None}
    /\ filter \subseteq Peer /\ logical \subseteq Peer /\ origin \subseteq Peer
    /\ nodes \subseteq origin
    /\ mon \in {"off", "boot", "loop", "work", "gone"}
    /\ cfg \subseteq Peer
    /\ todo.start \subseteq new.nodes \cup {new.key} /\ todo.stop \cap new.nodes = {}
    /\ cb.node \in Peer \cup {None}
    /\ valid \in BOOLEAN /\ inval \in BOOLEAN /\ missed \in BOOLEAN
    /\ bgw \in [Peer -> {"none", "live", "dead"}]

\* A peer marked in nodes_init_done has both its slots, wherever the monitor
\* or the server failed: start_node_workers relies on it ("can't find
\* recovery slot"), and is_basebackuped takes the contrary for a backup.
DoneHasSlots == life = "member" => nodes \cap done \subseteq filter \cap logical

\* "monitor must take all his wards with himself; otherwise e.g. new instance
\* will duplicate them": no receiver runs without a monitor that keeps it, and
\* no peer has two receivers or two destinations.  The donor of a join may:
\* every reload before the node has caught up starts its workers once more.
WardsKept ==
    \A p \in Peer :
        /\ p \notin donors => orphans[p] = 0 /\ dest[p] <= 1
        /\ mon \notin {"loop", "work"} => bgw[p] = "none" /\ dest[p] = 0

\* "Ok, we are starting from a basebackup.  Delete neighbors from
\* mtm.cluster_nodes": a monitor that starts empties the tables of a copy
\* only, never those of a member.
KeepsConfig == [][self /\ ~self' /\ nodes' # nodes => life = "copy"]_vars

\* The donor of a join is dropped before the node has caught up: every reload
\* ends with a restart of the server.
DonorDropped == key \notin nodes \cup {None}

\* A configured peer gets its slots and its receiver, whatever fails on the
\* way, unless it, the node itself or the donor of its join is dropped, or the
\* monitor took notice of it during a reload.
ConfiguredIsServed ==
    \A p \in Peer :
        (life = "member" /\ self /\ p \in nodes)
            ~> \/ bgw[p] = "live" /\ p \in filter \cap logical
               \/ ~self \/ p \notin nodes \/ DonorDropped \/ missed

\* What a dropped peer held is dropped, unless the monitor that knew the peer
\* fails, is told to leave, or took notice of it during a reload.
DroppedIsCleaned ==
    \A p \in Peer :
        (p \in cfg /\ p \notin nodes)
            ~> p \notin filter \cup logical \cup origin \/ mon \in {"off", "gone"} \/ missed
=============================================================================
