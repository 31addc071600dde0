--------------------------- MODULE MonitorProofs ---------------------------
(***************************************************************************)
(* However the monitor and the server fail, with any number of peers and   *)
(* changes of the configuration: a peer that is marked as initialized has  *)
(* its slots, so the node never takes itself for a copy of another and     *)
(* empties its tables; and the monitor loses no worker but, perhaps, those *)
(* of the donor of a join.  The first two need that the id of a dropped    *)
(* node is not given to another (~Readd).                                  *)
(***************************************************************************)
EXTENDS Monitor, TLAPS

Steps == {"end", "launch", "create", "mark", "filter", "logical", "commit"}

Types ==
    /\ life \in {"copy", "empty", "member"}
    /\ mon \in {"off", "boot", "loop", "work", "gone"}
    /\ nodes \in SUBSET Peer /\ done \in SUBSET Peer /\ used \in SUBSET Peer
    /\ donors \in SUBSET Peer
    /\ filter \in SUBSET Peer /\ logical \in SUBSET Peer
    /\ self \in BOOLEAN
    /\ key \in Founders \cup {None}
    /\ cfg \in SUBSET Peer
    /\ new \in [nodes : SUBSET Peer, self : BOOLEAN, done : SUBSET Peer,
                key : Founders \cup {None}]
    /\ todo \in [start : SUBSET Peer, stop : SUBSET Peer]
    /\ cb \in [node : Peer \cup {None}, step : Steps]

\* Peers the tables hold or held.
Known == nodes \cup used

\* The tables of a copy are those of its donor until they are emptied, and
\* its monitor gets no further than to notice that.
CopyIsRaw ==
    /\ life = "copy" =>
        /\ mon \in {"off", "boot"} /\ nodes # {} /\ nodes \subseteq Founders
        /\ done # {} /\ done \subseteq nodes
        /\ logical = {} /\ used = {} /\ key = None
    /\ life = "empty" =>
        /\ mon = "gone" /\ nodes = {} /\ ~self /\ done = {} /\ used = {}
    /\ life # "member" => cfg = {} /\ new.nodes = {}

\* A member forgets no id until it is excluded and its monitor gone for good.
MemberKnows ==
    life = "member" =>
        /\ nodes \cap used = {}
        /\ self \/ mon # "gone" =>
            /\ key # None => key \in Known
            /\ done \subseteq Known /\ cfg \subseteq Known /\ new.nodes \subseteq Known

\* What a reload is about to do is right for the tables as they are now, not
\* only for the configuration it has loaded.
WorkIsTrue ==
    /\ mon # "work" => cb = NoCall
    /\ mon = "work" =>
        /\ self => new.self
        /\ todo.start \subseteq Known
        /\ todo.stop \subseteq used
        /\ cb.step \in {"launch", "create", "mark"} => cb.node \in filter \cap Known
        /\ cb.step = "mark" => cb.node \in logical
        /\ cb.step \in {"filter", "logical", "commit"} => cb.node \in used

IInv ==
    /\ Types
    /\ CopyIsRaw
    /\ MemberKnows
    /\ WorkIsTrue
    /\ DoneHasSlots

\* Leaves are for Zenon, unless they cite SMT.
USE ZenonT(60)

----------------------------------------------------------------------------

\* The invariant of slots and marks holds at the start.
LEMMA InitIInv == Init => IInv
<1>. SUFFICES ASSUME Init PROVE IInv
  OBVIOUS
<1>. USE MonitorAssumption
     DEF Init, IInv, CopyIsRaw, MemberKnows, Known, WorkIsTrue, DoneHasSlots
<1>1. Types
  BY DEF Types, Steps, NoTask, NoCall, NoConfig
<1>2. WorkIsTrue
  OBVIOUS
<1>3. new.nodes = {}
  BY DEF NoConfig
<1>4. CASE life = "member"
  BY <1>1, <1>2, <1>3, <1>4
<1>5. CASE life = "copy"
  <2>1. done # {} /\ done \subseteq Founders
    BY <1>5
  <2>2. Founders # {}
    BY <2>1
  <2>. QED
    BY <1>1, <1>2, <1>3, <1>5, <2>1, <2>2
<1>. QED
  BY <1>4, <1>5

\* A monitor that fails leaves the tables and slots as they are.
LEMMA FailsIInv ==
    ASSUME IInv, mon # "gone", Fails
    PROVE  IInv'
BY MonitorAssumption
   DEF Fails, Exits, Forget, MtmMonitorOnExit, IInv, Types, CopyIsRaw, MemberKnows, Known,
       WorkIsTrue, DoneHasSlots, Steps, NoTask, NoCall, NoConfig, tables, slots, history

\* So does a restart of the server.
LEMMA RestartIInv ==
    ASSUME IInv, mon # "gone", ServerRestarts
    PROVE  IInv'
BY MonitorAssumption
   DEF ServerRestarts, Forget, IInv, Types, CopyIsRaw, MemberKnows, Known, WorkIsTrue,
       DoneHasSlots, Steps, NoTask, NoCall, NoConfig, tables, slots, history

\* Every step keeps it, if no id is given twice.
LEMMA NextIInv ==
    ASSUME ~Readd, IInv, [Next]_vars
    PROVE  IInv'
<1>. USE MonitorAssumption
     DEF IInv, Types, CopyIsRaw, MemberKnows, Known, WorkIsTrue, DoneHasSlots, Steps,
         NoTask, NoCall, NoConfig, tables, slots, task, notices, wards, history, Spend
<1>1. ASSUME NEW p \in Peer, AddNode(p) PROVE IInv'
  BY SMTT(30), <1>1 DEF AddNode, MayChange
<1>2. ASSUME NEW p \in Peer, DropNode(p) PROVE IInv'
  BY <1>2 DEF DropNode, MayChange
<1>3. ASSUME NEW p \in Peer, ReceiverDies(p) PROVE IInv'
  BY SMTT(30), <1>3 DEF ReceiverDies
<1>26. ASSUME NEW p \in Peer, OrphanDies(p) PROVE IInv'
  BY SMTT(30), <1>26 DEF OrphanDies
<1>4. ASSUME NEW p \in Founders, JoinKey(p) PROVE IInv'
  BY <1>4 DEF JoinKey
<1>5. CASE DropMyself
  BY <1>5 DEF DropMyself, MayChange
<1>6. CASE JoinNodes
  BY <1>6 DEF JoinNodes
<1>7. CASE CaughtUp
  BY <1>7 DEF CaughtUp
<1>8. CASE MonitorDies
  BY <1>8 DEF MonitorDies, Exits, Forget, MtmMonitorOnExit
<1>9. CASE Crash
  BY <1>9, RestartIInv DEF Crash
<1>10. CASE Restarted
  BY <1>10 DEF Restarted
<1>11. CASE Misconfigured
  BY <1>11 DEF Misconfigured, Fails, Exits, Forget, MtmMonitorOnExit
<1>12. CASE DetectBackup
  <2>1. CASE nodes \subseteq origin
    <3>1. life = "copy"
      BY <1>12 DEF DetectBackup, IsBasebackuped
    <3>2. /\ life' = "empty" /\ mon' = "gone" /\ nodes' = {} /\ done' = {}
          /\ self' = FALSE
          /\ UNCHANGED <<key, filter, logical, used, donors>>
          /\ cfg' = {} /\ new' = NoConfig /\ todo' = NoTask /\ cb' = NoCall
      BY <1>12, <2>1 DEF DetectBackup, Exits, Forget
    <3>3. Types'
      BY <3>2
    <3>4. CopyIsRaw'
      BY <3>1, <3>2
    <3>5. MemberKnows' /\ WorkIsTrue' /\ DoneHasSlots'
      BY <3>2
    <3>. QED
      BY <3>3, <3>4, <3>5
  <2>2. CASE ~(nodes \subseteq origin)
    BY <1>12, <2>2, FailsIInv DEF DetectBackup
  <2>. QED
    BY <2>1, <2>2
<1>13. CASE Boot
  BY <1>13 DEF Boot, IsBasebackuped, Forget
<1>14. CASE Reload
  BY SMTT(30), <1>14 DEF Reload, LoadConfig
<1>15. CASE StartNode
  <2>1. PICK p \in todo.start :
          \/ ServerRestarts
          \/ Fails
          \/ /\ filter' = filter \cup {p}
             /\ cb' = [node |-> p, step |-> "launch"]
             /\ UNCHANGED <<tables, logical, mon, cfg, new, todo, used, donors>>
    BY <1>15 DEF StartNode
  <2>2. CASE ServerRestarts \/ Fails
    BY <1>15, <2>2, FailsIInv, RestartIInv DEF StartNode
  <2>3. CASE ~(ServerRestarts \/ Fails)
    BY SMTT(30), <1>15, <2>1, <2>3 DEF StartNode
  <2>. QED
    BY <2>2, <2>3
<1>16. CASE Launch
  BY SMTT(30), <1>16 DEF Launch, At, Goto, Return
<1>17. CASE CreateLogicalSlot
  BY <1>17 DEF CreateLogicalSlot, At, Goto
<1>18. CASE MarkDone
  BY <1>18 DEF MarkDone, At, Accept, Return
<1>19. CASE StopNode
  BY SMTT(30), <1>19 DEF StopNode, Accept
<1>20. CASE DropFilterSlot
  <2>1. CASE orphans[cb.node] > 0
    BY <1>20, <2>1, FailsIInv DEF DropFilterSlot, At
  <2>2. CASE ~(orphans[cb.node] > 0)
    BY SMTT(30), <1>20, <2>2 DEF DropFilterSlot, At, Goto
  <2>. QED
    BY <2>1, <2>2
<1>21. CASE DropLogicalSlot
  BY <1>21 DEF DropLogicalSlot, At, Goto
<1>22. CASE CommitStop
  BY <1>22 DEF CommitStop, At, Accept, Return
<1>23. CASE EndReload
  <2>1. CASE new.self
    BY <1>23, <2>1 DEF EndReload
  <2>2. CASE ~new.self
    <3>1. /\ mon = "work" /\ mon' = "gone" /\ nodes' = {}
          /\ UNCHANGED <<life, self, done, key, filter, logical, used, donors>>
          /\ cfg' = {} /\ new' = NoConfig /\ todo' = NoTask /\ cb' = NoCall
      BY <1>23, <2>2 DEF EndReload, Exits, Forget
    <3>2. life = "member"
      BY <3>1
    <3>3. ~self
      BY <2>2, <3>1
    <3>4. Types' /\ CopyIsRaw'
      BY <3>1, <3>2
    <3>5. MemberKnows'
      BY <3>1, <3>2, <3>3
    <3>6. WorkIsTrue' /\ DoneHasSlots'
      BY <3>1
    <3>. QED
      BY <3>4, <3>5, <3>6
  <2>. QED
    BY <2>1, <2>2
<1>24. CASE RestartReceivers
  BY <1>24 DEF RestartReceivers
<1>25. CASE UNCHANGED vars
  BY SMTT(30), <1>25 DEF vars
<1>. QED
  BY <1>1, <1>2, <1>3, <1>4, <1>5, <1>6, <1>7, <1>8, <1>9, <1>10, <1>11, <1>12, <1>13, <1>14, <1>15, <1>16, <1>17, <1>18, <1>19, <1>20, <1>21, <1>22, <1>23, <1>24, <1>25, <1>26
  DEF Next, MonitorStep

\* A peer marked in nodes_init_done has its slots (start_node_workers).
THEOREM SlotsKept == ASSUME ~Readd PROVE Spec => []DoneHasSlots
<1>1. IInv => DoneHasSlots
  BY DEF IInv
<1>. QED
  BY InitIInv, NextIInv, <1>1, PTL DEF Spec

\* A member is never taken for a copy: is_basebackuped says true of copies only,
\* and only their tables are emptied when a monitor starts.
THEOREM ConfigKept == ASSUME ~Readd PROVE Spec => KeepsConfig
<1>1. ASSUME IInv, [Next]_vars
      PROVE  [self /\ ~self' /\ nodes' # nodes => life = "copy"]_vars
  <2>. USE <1>1 DEF tables, slots, task, notices, wards
  <2>1. ASSUME NEW p \in Peer, AddNode(p) \/ DropNode(p) \/ ReceiverDies(p) \/ OrphanDies(p)
        PROVE  self' = self
    BY <2>1 DEF AddNode, DropNode, ReceiverDies, OrphanDies
  <2>2. ASSUME NEW p \in Founders, JoinKey(p) PROVE self' = self
    BY <2>2 DEF JoinKey
  <2>3. CASE DropMyself
    BY <2>3 DEF DropMyself
  <2>4. CASE DetectBackup
    <3>1. CASE life = "member"
      BY <2>4, <3>1 DEF DetectBackup, IsBasebackuped, IInv, DoneHasSlots
    <3>2. CASE life = "empty"
      BY <2>4, <3>2 DEF DetectBackup, IInv, CopyIsRaw
    <3>. QED
      BY <3>1, <3>2 DEF IInv, Types
  <2>5. CASE JoinNodes \/ CaughtUp \/ MonitorDies \/ Crash \/ Restarted \/ Misconfigured \/ Boot
    BY <2>5 DEF JoinNodes, CaughtUp, MonitorDies, Crash, ServerRestarts, Restarted, Misconfigured, Boot, Fails
  <2>6. CASE \/ Reload \/ StartNode \/ Launch \/ CreateLogicalSlot \/ MarkDone \/ StopNode
             \/ DropFilterSlot \/ DropLogicalSlot \/ CommitStop \/ EndReload \/ RestartReceivers
    BY <2>6 DEF Reload, LoadConfig, StartNode, Launch, CreateLogicalSlot, MarkDone, StopNode, DropFilterSlot,
                DropLogicalSlot, CommitStop, EndReload, RestartReceivers, Fails, ServerRestarts
  <2>7. CASE UNCHANGED vars
    BY <2>7 DEF vars
  <2>. QED
    BY <2>1, <2>2, <2>3, <2>4, <2>5, <2>6, <2>7 DEF Next, MonitorStep
<1>. QED
  BY InitIInv, NextIInv, <1>1, PTL DEF Spec, KeepsConfig
----------------------------------------------------------------------------
(* The workers.  The dangerous step is Launch, which clears the entry of   *)
(* the receiver: it must find none there.                                  *)

Quiet(p) == bgw[p] = "none" /\ dest[p] = 0

WardTypes ==
    /\ bgw \in [Peer -> {"none", "live", "dead"}]
    /\ dest \in [Peer -> Nat]
    /\ orphans \in [Peer -> Nat]

\* A join begins without a monitor, and its donor is the only peer that a
\* reload starts although it may be at work.
JoinHasDonor ==
    /\ life = "empty" => mon = "gone"
    /\ key # None => key \in donors
    /\ mon = "work" /\ new.key # None => new.key \in donors

\* The callbacks under way and those still to come.
TasksApart ==
    /\ mon # "work" => cb = NoCall
    /\ mon = "work" =>
        /\ todo.start \subseteq new.nodes \cup donors
        /\ todo.stop \cap new.nodes = {}
        /\ cb.step \in {"launch", "create", "mark"} => cb.node \in todo.start
        /\ cb.step \in {"filter", "logical", "commit"} => cb.node \in todo.stop

\* Without a monitor there are no workers.  Only a peer of the configuration
\* has some, and one whose callback is still to run has none yet, and one that
\* is being stopped none any more, unless it was a donor.
StrangersQuiet ==
    \A p \in Peer :
        /\ mon \notin {"loop", "work"} => Quiet(p)
        /\ p \notin donors =>
            /\ orphans[p] = 0 /\ dest[p] \in {0, 1}
            /\ mon = "loop" /\ p \notin cfg => Quiet(p)
            /\ mon = "work" =>
                /\ p \notin new.nodes \cup todo.stop => Quiet(p)
                /\ p \in todo.start /\ (cb.node = p => cb.step = "launch") => Quiet(p)
                /\ cb.node = p /\ cb.step \in {"filter", "logical", "commit"} => Quiet(p)

WInv ==
    /\ Types
    /\ WardTypes
    /\ JoinHasDonor
    /\ TasksApart
    /\ StrangersQuiet

\* The invariant of wards holds at the start.
LEMMA InitWInv == Init => WInv
BY SMTT(30), MonitorAssumption
   DEF Init, WInv, Types, Steps, NoTask, NoCall, NoConfig, WardTypes, JoinHasDonor, TasksApart,
       StrangersQuiet, Quiet

\* No destination is a number of destinations.
LEMMA ZeroNat == 0 \in Nat
BY SMTT(30)

\* A monitor that fails leaves no wards.
LEMMA FailsWInv ==
    ASSUME WInv, mon # "gone", Fails
    PROVE  WInv'
BY MonitorAssumption, ZeroNat
   DEF Fails, Exits, Forget, MtmMonitorOnExit, WInv, Types, Steps, NoTask, NoCall, NoConfig,
       WardTypes, JoinHasDonor, TasksApart, StrangersQuiet, Quiet, tables, slots, history

\* A node that is dropped.
LEMMA DropMyselfWInv ==
    ASSUME WInv, DropMyself
    PROVE  WInv'
<1>. USE MonitorAssumption DEF WInv
<1>1. /\ self' = FALSE
      /\ UNCHANGED <<life, nodes, done, key, slots, mon, task, wards, history>>
  BY DEF DropMyself
<1>. USE DEF slots, task, wards, history
<1>2. Types'
  BY <1>1 DEF Types
<1>3. WardTypes' /\ JoinHasDonor'
  BY <1>1 DEF WardTypes, JoinHasDonor
<1>4. TasksApart'
  BY <1>1 DEF TasksApart, NoCall
<1>5. StrangersQuiet'
  BY <1>1 DEF StrangersQuiet, Quiet
<1>. QED
  BY <1>2, <1>3, <1>4, <1>5

\* A restart of the server leaves no worker at all.
LEMMA RestartWInv ==
    ASSUME WInv, mon # "gone", ServerRestarts
    PROVE  WInv'
<1>. USE MonitorAssumption DEF WInv
<1>1. /\ mon' \in {"off", "gone"}
      /\ UNCHANGED <<life, nodes, self, done, key, filter, logical, used, donors>>
      /\ cfg' = {} /\ new' = NoConfig /\ todo' = NoTask /\ cb' = NoCall
      /\ dest' = [p \in Peer |-> 0] /\ bgw' = [p \in Peer |-> "none"]
      /\ orphans' = [p \in Peer |-> 0]
  BY DEF ServerRestarts, Forget, tables, slots, history
<1>2. Types'
  BY <1>1 DEF Types, Steps, NoConfig, NoTask, NoCall
<1>3. WardTypes' /\ JoinHasDonor' /\ TasksApart' /\ StrangersQuiet'
  BY <1>1, ZeroNat DEF WardTypes, JoinHasDonor, TasksApart, StrangersQuiet, Quiet, NoCall
<1>. QED
  BY <1>2, <1>3

\* A copy is recognised, and its tables are emptied.
LEMMA DetectBackupWInv ==
    ASSUME WInv, DetectBackup
    PROVE  WInv'
<1>1. CASE nodes \subseteq origin
  <2>. USE MonitorAssumption DEF WInv
  <2>1. /\ life' = "empty" /\ mon' = "gone" /\ nodes' = {} /\ done' = {}
        /\ self' = FALSE
        /\ UNCHANGED <<key, filter, logical, history, orphans>>
        /\ cfg' = {} /\ new' = NoConfig /\ todo' = NoTask /\ cb' = NoCall
        /\ dest' = [p \in Peer |-> 0] /\ bgw' = [p \in Peer |-> "none"]
    BY <1>1 DEF DetectBackup, Exits, Forget, MtmMonitorOnExit, history
  <2>. USE DEF history
  <2>2. Types'
    BY <2>1 DEF Types, Steps, NoConfig, NoTask, NoCall
  <2>3. WardTypes' /\ JoinHasDonor' /\ TasksApart' /\ StrangersQuiet'
    BY <2>1, ZeroNat DEF WardTypes, JoinHasDonor, TasksApart, StrangersQuiet, Quiet, NoCall
  <2>. QED
    BY <2>2, <2>3
<1>2. CASE ~(nodes \subseteq origin)
  BY <1>2, FailsWInv DEF DetectBackup
<1>. QED
  BY <1>1, <1>2

\* The start of a monitor.
LEMMA BootWInv ==
    ASSUME WInv, Boot
    PROVE  WInv'
<1>. USE MonitorAssumption DEF WInv
<1>1. /\ mon' = "loop" /\ mon = "boot"
      /\ UNCHANGED <<life, nodes, self, done, key, filter, logical, wards, history>>
      /\ cfg' = {} /\ new' = NoConfig /\ todo' = NoTask /\ cb' = NoCall
  BY DEF Boot, Forget, tables, slots
<1>. USE DEF wards, history
<1>2. Types'
  BY <1>1 DEF Types, Steps, NoConfig, NoTask, NoCall
<1>3. WardTypes' /\ JoinHasDonor'
  BY <1>1 DEF WardTypes, JoinHasDonor
<1>4. TasksApart' /\ StrangersQuiet'
  BY <1>1 DEF TasksApart, StrangersQuiet, Quiet, NoCall
<1>. QED
  BY <1>2, <1>3, <1>4

\* The start callback of a peer.
LEMMA StartNodeWInv ==
    ASSUME WInv, StartNode
    PROVE  WInv'
<1>1. mon = "work" /\ cb = NoCall
  BY DEF StartNode
<1>2. PICK p \in todo.start :
        \/ ServerRestarts
        \/ Fails
        \/ /\ filter' = filter \cup {p}
           /\ cb' = [node |-> p, step |-> "launch"]
           /\ UNCHANGED <<tables, logical, mon, cfg, new, todo, wards, history>>
  BY DEF StartNode
<1>3. CASE ServerRestarts \/ Fails
  BY <1>1, <1>3, FailsWInv, RestartWInv
<1>4. CASE ~(ServerRestarts \/ Fails)
  <2>. USE MonitorAssumption DEF WInv
  <2>0. /\ filter' = filter \cup {p}
        /\ cb' = [node |-> p, step |-> "launch"]
        /\ UNCHANGED <<tables, logical, mon, cfg, new, todo, wards, history>>
    BY <1>2, <1>4
  <2>. USE <1>1, <2>0 DEF tables, wards, history
  <2>1. Types'
    BY DEF Types, Steps
  <2>2. WardTypes' /\ JoinHasDonor'
    BY DEF WardTypes, JoinHasDonor
  <2>3. TasksApart'
    BY DEF TasksApart
  <2>4. StrangersQuiet'
    BY DEF StrangersQuiet, Quiet, Types, TasksApart, NoCall
  <2>. QED
    BY <2>1, <2>2, <2>3, <2>4
<1>. QED
  BY <1>3, <1>4

\* The stop callback of a peer.
LEMMA CommitStopWInv ==
    ASSUME WInv, CommitStop
    PROVE  WInv'
<1>. USE MonitorAssumption DEF WInv
<1>1. /\ mon = "work" /\ cb.node \in todo.stop
      /\ cb' = NoCall
      /\ todo' = [start |-> todo.start \ {cb.node}, stop |-> todo.stop \ {cb.node}]
      /\ UNCHANGED <<tables, filter, logical, mon, cfg, new, wards, history>>
  BY DEF CommitStop, At, Return, TasksApart
<1>. USE DEF tables, wards, history
<1>2. Types'
  BY <1>1 DEF Types, Steps, NoCall
<1>3. WardTypes' /\ JoinHasDonor'
  BY <1>1 DEF WardTypes, JoinHasDonor
<1>4. TasksApart'
  BY <1>1 DEF TasksApart, NoCall
<1>5. cb.node \in Peer /\ (cb.node \notin donors => Quiet(cb.node))
  BY <1>1 DEF CommitStop, At, StrangersQuiet, Types
<1>6. ASSUME NEW p \in Peer, p \notin donors
      PROVE  /\ p \notin new.nodes \cup (todo.stop \ {cb.node}) => Quiet(p)
             /\ p \in todo.start \ {cb.node} => Quiet(p)
  BY <1>1, <1>5, <1>6 DEF StrangersQuiet
<1>7. todo'.start = todo.start \ {cb.node} /\ todo'.stop = todo.stop \ {cb.node}
  BY <1>1
<1>8. cb'.step = "end" /\ mon' = "work"
  BY <1>1 DEF NoCall
<1>9. StrangersQuiet'
  BY <1>1, <1>6, <1>7, <1>8 DEF StrangersQuiet, Quiet
<1>. QED
  BY <1>2, <1>3, <1>4, <1>9

\* The end of a reload.
LEMMA EndReloadWInv ==
    ASSUME WInv, EndReload
    PROVE  WInv'
<1>. USE MonitorAssumption DEF WInv
<1>1. CASE new.self
  <2>1. /\ mon = "work" /\ todo = NoTask /\ cb = NoCall
        /\ mon' = "loop" /\ cfg' = new.nodes
        /\ UNCHANGED <<tables, filter, logical, new, todo, cb, wards, history>>
    BY <1>1 DEF EndReload, tables, slots
  <2>. USE <2>1 DEF tables, wards, history
  <2>2. Types'
    BY DEF Types
  <2>3. WardTypes' /\ JoinHasDonor'
    BY DEF WardTypes, JoinHasDonor
  <2>4. TasksApart'
    BY DEF TasksApart
  <2>5. StrangersQuiet'
    BY DEF StrangersQuiet, Quiet, NoTask
  <2>. QED
    BY <2>2, <2>3, <2>4, <2>5
<1>2. CASE ~new.self
  <2>1. /\ mon = "work" /\ mon' = "gone" /\ nodes' = {}
        /\ UNCHANGED <<life, self, done, key, filter, logical, history, orphans>>
        /\ cfg' = {} /\ new' = NoConfig /\ todo' = NoTask /\ cb' = NoCall
        /\ dest' = [p \in Peer |-> 0] /\ bgw' = [p \in Peer |-> "none"]
    BY <1>2 DEF EndReload, Exits, Forget, MtmMonitorOnExit, slots
  <2>. USE DEF history
  <2>2. Types'
    BY <2>1 DEF Types, Steps, NoConfig, NoTask, NoCall
  <2>3. WardTypes' /\ JoinHasDonor' /\ TasksApart' /\ StrangersQuiet'
    BY <2>1, ZeroNat DEF WardTypes, JoinHasDonor, TasksApart, StrangersQuiet, Quiet, NoCall
  <2>. QED
    BY <2>2, <2>3
<1>. QED
  BY <1>1, <1>2

\* Every step keeps the invariant of wards.
LEMMA NextWInv ==
    ASSUME WInv, [Next]_vars
    PROVE  WInv'
<1>. USE MonitorAssumption
     DEF WInv, Types, WardTypes, JoinHasDonor, TasksApart, StrangersQuiet, Quiet, Steps,
         NoTask, NoCall, NoConfig, tables, slots, task, notices, wards, history, Spend
<1>1. ASSUME NEW p \in Peer, AddNode(p) PROVE WInv'
  BY SMTT(30), <1>1 DEF AddNode, MayChange
<1>2. ASSUME NEW p \in Peer, DropNode(p) PROVE WInv'
  BY SMTT(30), <1>2 DEF DropNode, MayChange
<1>3. ASSUME NEW p \in Peer, ReceiverDies(p) PROVE WInv'
  BY SMTT(30), <1>3 DEF ReceiverDies
<1>26. ASSUME NEW p \in Peer, OrphanDies(p) PROVE WInv'
  BY SMTT(30), <1>26 DEF OrphanDies
<1>4. ASSUME NEW p \in Founders, JoinKey(p) PROVE WInv'
  BY SMTT(30), <1>4 DEF JoinKey
<1>5. CASE DropMyself
  BY <1>5, DropMyselfWInv
<1>6. CASE JoinNodes
  BY <1>6 DEF JoinNodes
<1>7. CASE CaughtUp
  BY <1>7 DEF CaughtUp
<1>8. CASE MonitorDies
  BY <1>8, ZeroNat DEF MonitorDies, Exits, Forget, MtmMonitorOnExit
<1>9. CASE Crash
  BY <1>9, RestartWInv DEF Crash
<1>10. CASE Restarted
  BY <1>10 DEF Restarted
<1>11. CASE Misconfigured
  BY <1>11, FailsWInv DEF Misconfigured
<1>12. CASE DetectBackup
  BY <1>12, DetectBackupWInv
<1>13. CASE Boot
  BY <1>13, BootWInv
<1>14. CASE Reload
  BY SMTT(30), <1>14 DEF Reload, LoadConfig
<1>15. CASE StartNode
  BY <1>15, StartNodeWInv
<1>16. CASE Launch
  BY SMTT(30), <1>16 DEF Launch, At, Goto, Return
<1>17. CASE CreateLogicalSlot
  BY SMTT(30), <1>17 DEF CreateLogicalSlot, At, Goto
<1>18. CASE MarkDone
  BY SMTT(30), <1>18 DEF MarkDone, At, Accept, Return
<1>19. CASE StopNode
  BY SMTT(30), <1>19 DEF StopNode, Accept
<1>20. CASE DropFilterSlot
  <2>1. CASE orphans[cb.node] > 0
    BY <1>20, <2>1, FailsWInv DEF DropFilterSlot, At
  <2>2. CASE ~(orphans[cb.node] > 0)
    BY SMTT(30), <1>20, <2>2 DEF DropFilterSlot, At, Goto
  <2>. QED
    BY <2>1, <2>2
<1>21. CASE DropLogicalSlot
  BY <1>21 DEF DropLogicalSlot, At, Goto
<1>22. CASE CommitStop
  BY <1>22, CommitStopWInv
<1>23. CASE EndReload
  BY <1>23, EndReloadWInv
<1>24. CASE RestartReceivers
  BY <1>24 DEF RestartReceivers
<1>25. CASE UNCHANGED vars
  BY SMTT(30), <1>25 DEF vars
<1>. QED
  BY <1>1, <1>2, <1>3, <1>4, <1>5, <1>6, <1>7, <1>8, <1>9, <1>10, <1>11, <1>12, <1>13, <1>14, <1>15, <1>16, <1>17, <1>18, <1>19, <1>20, <1>21, <1>22, <1>23, <1>24, <1>25, <1>26
  DEF Next, MonitorStep

\* No receiver runs without a monitor that keeps it, and no peer has two
\* (MtmMonitorOnExit, start_node_workers), ids given again included, but for
\* peers that a join was made from.
THEOREM WardsAreKept == Spec => []WardsKept
<1>1. WInv => WardsKept
  BY SMTT(30) DEF WInv, WardTypes, StrangersQuiet, Quiet, WardsKept
<1>. QED
  BY InitWInv, NextWInv, <1>1, PTL DEF Spec
=============================================================================
