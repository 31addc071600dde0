--------------------------- MODULE DmqLinkProofs ---------------------------
(***************************************************************************)
(* What a dmq link keeps, whatever the number of server processes and of   *)
(* faults: one receiver at a time, and a connectivity mask that outlives   *)
(* none of them.                                                           *)
(***************************************************************************)
EXTENDS DmqLink, TLAPS

State == {"free", "registered", "live", "refused", "exiting"}

SubPc == {"start", "attach", "ready", "reattach", "count", "push", "gather"}

\* A subscriber.
Subscriber == [pc : SubPc, gen : Nat, att : Server \cup {None}, saved : Nat, num : Nat,
               dropped : BOOLEAN, out : BOOLEAN]

\* A new number is paid for.
RoundsPaid == sub.num <= Budget - left

Types ==
    /\ conn \in [Dir -> {"Idle", "Negotiating", "Active", "Down"}]
    /\ cur \in [Dir -> Server \cup {None}]
    /\ ps \in [Dir -> [Server -> State]]
    /\ slot \in [Dir -> Server \cup {None}]
    /\ doomed \in [Dir -> SUBSET Server]
    /\ known \subseteq {"mask", "row"}
    /\ cnt \in Nat /\ scnt \in {DEAD} \cup 1 .. cnt
    /\ pid \in Server \cup {None} /\ hup \subseteq Server
    /\ sub \in Subscriber
    /\ left \in Nat

\* The slot of a direction is held by the process that serves the sender.
SlotServes ==
    \A d \in Dir : \A r \in Server : ps[d][r] \in {"registered", "live"} <=> slot[d] = r

\* A sender has an end of the connection it uses, and what is to end has not
\* ended.
Ends ==
    \A d \in Dir :
        /\ conn[d] \in {"Negotiating", "Active"} => cur[d] # None
        /\ doomed[d] \subseteq Alive(d)

\* The inductive invariant.
DInv ==
    /\ Types /\ RoundsPaid /\ SlotServes /\ Ends
    /\ GoneIsDisconnected

\* Leaves are for Zenon, unless they cite SMT.
USE ZenonT(60)
----------------------------------------------------------------------------

\* What becomes of the states of the processes when one of them changes.
LEMMA StateSet ==
    ASSUME Types, NEW d \in Dir, NEW r \in Server, NEW s \in State,
           ps' = [ps EXCEPT ![d][r] = s]
    PROVE  /\ ps' \in [Dir -> [Server -> State]]
           /\ ps'[d][r] = s
           /\ \A e \in Dir : \A q \in Server : e # d \/ q # r => ps'[e][q] = ps[e][q]
<1>1. ps \in [Dir -> [Server -> State]] /\ ps[d] \in [Server -> State]
  BY DEF Types
<1>2. ps' = [ps EXCEPT ![d] = [ps[d] EXCEPT ![r] = s]]
  OBVIOUS
<1>3. [ps[d] EXCEPT ![r] = s] \in [Server -> State]
  BY <1>1
<1>4. ps' \in [Dir -> [Server -> State]]
  BY <1>1, <1>2, <1>3
<1>5. ps'[d] = [ps[d] EXCEPT ![r] = s]
  BY <1>1, <1>2
<1>6. \A e \in Dir : e # d => ps'[e] = ps[e]
  BY <1>1, <1>2
<1>7. ASSUME NEW e \in Dir, NEW q \in Server, e # d \/ q # r
      PROVE  ps'[e][q] = ps[e][q]
  BY <1>1, <1>5, <1>6, <1>7
<1> QED
  BY <1>1, <1>4, <1>5, <1>7

\* Only five operations change the state of a server process or a slot.
LEMMA StateSteps ==
    ASSUME [Next]_vars
    PROVE  \/ UNCHANGED <<ps, slot>> /\ (known' = known \/ \E r \in Server : ReceiveHeartbeat(r))
           \/ \E d \in Dir : Connect(d)
           \/ \E r \in Server : CheckIn(r) \/ CheckInEarly(r)
           \/ \E d \in Dir : \E r \in Server : FreeSlot(d, r) \/ Detach(d, r)
<1>1. CASE UNCHANGED vars
  BY <1>1 DEF vars
<1>2. ASSUME NEW d \in Dir, SenderStep(d)
      PROVE  UNCHANGED <<ps, slot, known>> \/ Connect(d)
  BY <1>2 DEF SenderStep, SenderLoop, Reconnect, Transfer, Heartbeat, Negotiated, SenderDies,
              SenderStarts, RequestReconnect, Break, serverVars
<1>3. ASSUME NEW d \in Dir, NEW r \in Server, ServerStep(d, r)
      PROVE  UNCHANGED <<ps, slot, known>> \/ FreeSlot(d, r) \/ Detach(d, r) \/ CheckIn(r)
  BY <1>3 DEF ServerStep, HandleMessage, RecreateMqs
<1>4. ASSUME NEW r \in Server, ReceiveHeartbeat(r)
      PROVE  UNCHANGED <<ps, slot>>
  BY <1>4 DEF ReceiveHeartbeat
<1>5. CASE ReplierStep \/ ReplierDies
  BY <1>5 DEF ReplierStep, Answer, ReplierDies, ReplierOnExit, ReplierStarts, serverVars
<1>6. CASE SubscriberStep \/ SubscriberDies
  BY <1>6 DEF SubscriberStep, SubscriberDies, Subscribe, Reattach, Begin, GetSendconnCnt,
              PushRequest, GatherMessage, GatherDetached, GatherTimeout, subOnly
<1> QED
  BY <1>1, <1>2, <1>3, <1>4, <1>5, <1>6 DEF Next

\* What Connect does: a free process takes the slot, or is refused.
LEMMA Connects ==
    ASSUME Types, NEW d \in Dir, Connect(d)
    PROVE  \E r \in Server :
              /\ ps[d][r] = "free"
              /\ ps' = [ps EXCEPT ![d][r] = IF slot[d] # None THEN "refused"
                                            ELSE IF d = "req" THEN "registered" ELSE "live"]
              /\ slot' = [slot EXCEPT ![d] = IF @ = None THEN r ELSE @]
              /\ cur' = [cur EXCEPT ![d] = r]
<1> DEFINE r == CHOOSE r \in Fresh(d) : TRUE
<1>1. r \in Fresh(d)
  BY DEF Connect
<1>2. r \in Server /\ ps[d][r] = "free"
  BY <1>1 DEF Fresh, Alive
<1>3. /\ ps' = [ps EXCEPT ![d][r] = IF slot[d] # None THEN "refused"
                                    ELSE IF d = "req" THEN "registered" ELSE "live"]
      /\ slot' = [slot EXCEPT ![d] = IF @ = None THEN r ELSE @]
      /\ cur' = [cur EXCEPT ![d] = r]
  BY DEF Connect
<1> HIDE DEF r
<1> QED
  BY <1>2, <1>3

\* A process that takes the slot finds it free; one that leaves it stops serving.
LEMMA SlotKept ==
    ASSUME DInv, [Next]_vars
    PROVE  SlotServes'
<1> USE LinkAssumption
<1> USE DEF Dir
<1>1. Types /\ SlotServes
  BY DEF DInv
<1>2. CASE UNCHANGED <<ps, slot>>
  BY <1>1, <1>2 DEF SlotServes
<1>3. ASSUME NEW d \in Dir, Connect(d)
      PROVE  SlotServes'
  <2>1. PICK r \in Server :
              /\ ps[d][r] = "free"
              /\ ps' = [ps EXCEPT ![d][r] = IF slot[d] # None THEN "refused"
                                            ELSE IF d = "req" THEN "registered" ELSE "live"]
              /\ slot' = [slot EXCEPT ![d] = IF @ = None THEN r ELSE @]
    BY <1>1, <1>3, Connects
  <2> DEFINE s == IF slot[d] # None THEN "refused"
                  ELSE IF d = "req" THEN "registered" ELSE "live"
  <2>2. s \in State /\ ps' = [ps EXCEPT ![d][r] = s]
    BY <2>1 DEF State
  <2>3. s \in {"registered", "live"} <=> slot[d] = None
    OBVIOUS
  <2> HIDE DEF s
  <2>4. /\ ps'[d][r] = s
        /\ \A e \in Dir : \A q \in Server : e # d \/ q # r => ps'[e][q] = ps[e][q]
    BY <1>1, <2>2, StateSet
  <2>5. slot'[d] = (IF slot[d] = None THEN r ELSE slot[d]) /\ \A e \in Dir : e # d => slot'[e] = slot[e]
    BY <1>1, <2>1 DEF Types
  <2>6. slot[d] # r
    BY <1>1, <2>1 DEF SlotServes
  <2> SUFFICES ASSUME NEW e \in Dir, NEW q \in Server
               PROVE  (ps'[e][q] \in {"registered", "live"}) <=> slot'[e] = q
    BY DEF SlotServes
  <2>7. ps[e][q] \in {"registered", "live"} <=> slot[e] = q
    BY <1>1 DEF SlotServes
  <2>8. CASE e # d
    BY <2>4, <2>5, <2>7, <2>8
  <2>9. CASE e = d /\ q = r
    BY <2>3, <2>4, <2>5, <2>6, <2>9
  <2>10. CASE e = d /\ q # r
    BY <2>4, <2>5, <2>7, <2>10
  <2> QED
    BY <2>8, <2>9, <2>10
<1>4. ASSUME NEW r \in Server, CheckIn(r) \/ CheckInEarly(r)
      PROVE  SlotServes'
  <2>1. PICK s \in State :
            /\ ps' = [ps EXCEPT !["req"][r] = s]
            /\ \/ s = "exiting" /\ slot' = [slot EXCEPT !["req"] = None]
               \/ s = "live" /\ slot' = slot
    BY <1>4 DEF CheckIn, CheckInEarly, Refused, SetPs, State
  <2>2. /\ ps'["req"][r] = s
        /\ \A e \in Dir : \A q \in Server : e # "req" \/ q # r => ps'[e][q] = ps[e][q]
    BY <1>1, <2>1, StateSet
  <2>3. slot["req"] = r
    BY <1>1, <1>4 DEF SlotServes, CheckIn, CheckInEarly
  <2>4. slot'["rep"] = slot["rep"] /\ (slot'["req"] = IF s = "exiting" THEN None ELSE slot["req"])
    BY <1>1, <2>1 DEF Types
  <2> SUFFICES ASSUME NEW e \in Dir, NEW q \in Server
               PROVE  (ps'[e][q] \in {"registered", "live"}) <=> slot'[e] = q
    BY DEF SlotServes
  <2>5. ps[e][q] \in {"registered", "live"} <=> slot[e] = q
    BY <1>1 DEF SlotServes
  <2> QED
    BY SMTT(30), <2>1, <2>2, <2>3, <2>4, <2>5
<1>5. ASSUME NEW d \in Dir, NEW r \in Server, FreeSlot(d, r)
      PROVE  SlotServes'
  <2>1. PICK s \in State :
            /\ ps' = [ps EXCEPT ![d][r] = s]
            /\ s \in {"exiting", "free"}
    BY <1>5 DEF FreeSlot, SetPs, State
  <2>2. /\ ps'[d][r] = s
        /\ \A e \in Dir : \A q \in Server : e # d \/ q # r => ps'[e][q] = ps[e][q]
    BY <1>1, <2>1, StateSet
  <2>3. slot'[d] = (IF slot[d] = r THEN None ELSE slot[d]) /\ \A e \in Dir : e # d => slot'[e] = slot[e]
    BY <1>1, <1>5 DEF Types, FreeSlot
  <2> SUFFICES ASSUME NEW e \in Dir, NEW q \in Server
               PROVE  (ps'[e][q] \in {"registered", "live"}) <=> slot'[e] = q
    BY DEF SlotServes
  <2>5. ps[e][q] \in {"registered", "live"} <=> slot[e] = q
    BY <1>1 DEF SlotServes
  <2> QED
    BY SMTT(30), <2>1, <2>2, <2>3, <2>5
<1>6. ASSUME NEW d \in Dir, NEW r \in Server, Detach(d, r)
      PROVE  SlotServes'
  <2> DEFINE s == "free"
  <2>1. ps[d][r] = "exiting" /\ slot' = slot
    BY <1>6 DEF Detach
  <2>2. s \in State /\ ps' = [ps EXCEPT ![d][r] = s]
    BY <1>6 DEF Detach, SetPs, State
  <2>3. s \notin {"registered", "live"}
    OBVIOUS
  <2> HIDE DEF s
  <2>4. /\ ps'[d][r] = s
        /\ \A e \in Dir : \A q \in Server : e # d \/ q # r => ps'[e][q] = ps[e][q]
    BY <1>1, <2>2, StateSet
  <2> QED
    BY SMTT(30), <1>1, <2>1, <2>4, <2>3 DEF SlotServes
<1> QED
  BY <1>2, <1>3, <1>4, <1>5, <1>6, StateSteps

\* Whoever sets a bit serves, and whoever stops to serve clears it as it goes.
LEMMA DisconnectedKept ==
    ASSUME DInv, [Next]_vars
    PROVE  GoneIsDisconnected'
<1> USE LinkAssumption
<1> USE DEF Dir
<1>1. Types /\ SlotServes /\ GoneIsDisconnected
  BY DEF DInv
<1>2. ASSUME known' = known,
             \A q \in Server : ps["req"][q] \in {"live", "exiting"} => ps'["req"][q] \in {"live", "exiting"}
      PROVE  GoneIsDisconnected'
  BY <1>1, <1>2 DEF GoneIsDisconnected
<1>3. ASSUME NEW r \in Server, ReceiveHeartbeat(r)
      PROVE  GoneIsDisconnected'
  BY <1>3 DEF ReceiveHeartbeat, GoneIsDisconnected
<1>4. ASSUME NEW d \in Dir, Connect(d)
      PROVE  GoneIsDisconnected'
  <2>1. PICK r \in Server :
              /\ ps[d][r] = "free"
              /\ ps' = [ps EXCEPT ![d][r] = IF slot[d] # None THEN "refused"
                                            ELSE IF d = "req" THEN "registered" ELSE "live"]
    BY <1>1, <1>4, Connects
  <2>2. PICK s \in State : ps' = [ps EXCEPT ![d][r] = s]
    BY <2>1 DEF State
  <2>3. \A e \in Dir : \A q \in Server : e # d \/ q # r => ps'[e][q] = ps[e][q]
    BY <1>1, <2>2, StateSet
  <2>4. known' = known
    BY <1>4 DEF Connect
  <2> QED
    BY <1>2, <2>1, <2>3, <2>4
<1>5. ASSUME NEW r \in Server, CheckIn(r) \/ CheckInEarly(r)
      PROVE  GoneIsDisconnected'
  <2>1. PICK s \in {"exiting", "live"} : ps' = [ps EXCEPT !["req"][r] = s]
    BY <1>5 DEF CheckIn, CheckInEarly, Refused, SetPs
  <2>2. ps'["req"][r] = s
    BY <1>1, <2>1, StateSet DEF State
  <2> QED
    BY <2>1, <2>2 DEF GoneIsDisconnected
<1>6. ASSUME NEW d \in Dir, NEW r \in Server, FreeSlot(d, r)
      PROVE  GoneIsDisconnected'
  <2>1. PICK s \in State : ps' = [ps EXCEPT ![d][r] = s] /\ s = (IF slot[d] = r THEN "exiting" ELSE "free")
    BY <1>6 DEF FreeSlot, SetPs, State
  <2>2. /\ ps'[d][r] = s
        /\ \A e \in Dir : \A q \in Server : e # d \/ q # r => ps'[e][q] = ps[e][q]
    BY <1>1, <2>1, StateSet
  <2>3. known' = known /\ ps[d][r] # "exiting"
    BY <1>6 DEF FreeSlot
  <2>4. ps[d][r] = "live" => s = "exiting"
    BY SMTT(30), <1>1, <2>1 DEF SlotServes
  <2> QED
    BY <1>2, <2>2, <2>3, <2>4
<1>7. ASSUME NEW d \in Dir, NEW r \in Server, Detach(d, r)
      PROVE  GoneIsDisconnected'
  <2>1. CASE d = "req"
    BY <1>7, <2>1 DEF Detach, GoneIsDisconnected
  <2>2. CASE d # "req"
    <3>1. PICK s \in State : ps' = [ps EXCEPT ![d][r] = s]
      BY <1>7 DEF Detach, SetPs, State
    <3>2. \A e \in Dir : \A q \in Server : e # d \/ q # r => ps'[e][q] = ps[e][q]
      BY <1>1, <3>1, StateSet
    <3>3. known' = known
      BY <1>7, <2>2 DEF Detach
    <3> QED
      BY <1>2, <2>2, <3>2, <3>3
  <2> QED
    BY <2>1, <2>2
<1> QED
  BY <1>2, <1>3, <1>4, <1>5, <1>6, <1>7, StateSteps

\* The connections of the senders.
Conns ==
    /\ conn \in [Dir -> {"Idle", "Negotiating", "Active", "Down"}]
    /\ cur \in [Dir -> Server \cup {None}]
    /\ \A d \in Dir : conn[d] \in {"Negotiating", "Active"} => cur[d] # None
    /\ cnt \in Nat /\ scnt \in {DEAD} \cup 1 .. cnt

\* A sender uses a connection it made, and counts it.
LEMMA ConnsKept ==
    ASSUME DInv, [Next]_vars
    PROVE  Conns'
<1> USE LinkAssumption
<1> USE DEF Dir
<1>1. Conns /\ Types
  BY DEF DInv, Types, Ends, Conns
<1>2. CASE UNCHANGED <<conn, cur, cnt, scnt>>
  BY <1>1, <1>2 DEF Conns
<1>3. ASSUME NEW d \in Dir, Reconnect(d) \/ Transfer(d) \/ Heartbeat(d) \/ SenderStarts(d)
      PROVE  Conns'
  <2>1. \/ UNCHANGED <<conn, cur, cnt, scnt>>
        \/ /\ conn' = [conn EXCEPT ![d] = "Idle"] /\ scnt' = IF d = "req" THEN DEAD ELSE scnt
           /\ cur' = cur \/ cur' = [cur EXCEPT ![d] = None]
           /\ cnt' = cnt \/ cnt' = IF d = "req" THEN 0 ELSE cnt
    BY <1>3 DEF Reconnect, Transfer, Heartbeat, SenderStarts, Disconnect
  <2>2. CASE /\ conn' = [conn EXCEPT ![d] = "Idle"] /\ scnt' = IF d = "req" THEN DEAD ELSE scnt
             /\ cur' = cur \/ cur' = [cur EXCEPT ![d] = None]
             /\ cnt' = cnt \/ cnt' = IF d = "req" THEN 0 ELSE cnt
    <3>1. cnt' \in Nat /\ scnt' \in {DEAD} \cup 1 .. cnt'
      BY SMTT(30), <1>1, <2>2 DEF Conns, DEAD
    <3>2. conn' \in [Dir -> {"Idle", "Negotiating", "Active", "Down"}]
      BY <1>1, <2>2 DEF Conns
    <3>3. cur' \in [Dir -> Server \cup {None}]
      BY <1>1, <2>2 DEF Conns
    <3>4. \A e \in Dir : e # d => conn'[e] = conn[e] /\ cur'[e] = cur[e]
      BY <1>1, <2>2 DEF Conns
    <3>5. conn'[d] = "Idle"
      BY <1>1, <2>2 DEF Conns
    <3> QED
      BY <1>1, <3>1, <3>2, <3>3, <3>4, <3>5 DEF Conns
  <2> QED
    BY <1>2, <2>1, <2>2
<1>4. ASSUME NEW d \in Dir, Connect(d)
      PROVE  Conns'
  <2>1. PICK r \in Server : cur' = [cur EXCEPT ![d] = r]
    BY <1>1, <1>4, Connects
  <2>2. conn' = [conn EXCEPT ![d] = "Negotiating"] /\ UNCHANGED <<cnt, scnt>>
    BY <1>4 DEF Connect
  <2> QED
    BY <1>1, <2>1, <2>2 DEF Conns
<1>5. ASSUME NEW d \in Dir, Negotiated(d)
      PROVE  Conns'
  <2>1. /\ conn[d] = "Negotiating" /\ cur' = cur
        /\ conn' = [conn EXCEPT ![d] = "Active"] \/ conn' = [conn EXCEPT ![d] = "Idle"]
        /\ UNCHANGED <<cnt, scnt>> \/ (cnt' = cnt + 1 /\ scnt' = cnt + 1)
    BY <1>5 DEF Negotiated
  <2>2. cnt' \in Nat /\ scnt' \in {DEAD} \cup 1 .. cnt'
    BY SMTT(30), <1>1, <2>1 DEF Conns, DEAD
  <2> QED
    BY <1>1, <2>1, <2>2 DEF Conns
<1>6. ASSUME NEW d \in Dir, SenderDies(d)
      PROVE  Conns'
  BY <1>1, <1>6 DEF Conns, SenderDies
<1>7. ASSUME NEW d \in Dir, RequestReconnect(d) \/ Break(d)
      PROVE  UNCHANGED <<conn, cur, cnt, scnt>>
  BY <1>7 DEF RequestReconnect, Break, senderVars
<1>8. ASSUME NEW d \in Dir, NEW r \in Server, ServerStep(d, r)
      PROVE  UNCHANGED <<conn, cur, cnt, scnt>>
  BY <1>8 DEF ServerStep, HandleMessage, FreeSlot, Detach, CheckIn, RecreateMqs, senderVars
<1>9. ASSUME NEW r \in Server, CheckInEarly(r) \/ ReceiveHeartbeat(r)
      PROVE  UNCHANGED <<conn, cur, cnt, scnt>>
  BY <1>9 DEF CheckInEarly, ReceiveHeartbeat, senderVars
<1>10. ReplierStep \/ ReplierDies => UNCHANGED <<conn, cur, cnt, scnt>>
  BY DEF ReplierStep, Answer, ReplierDies, ReplierOnExit, ReplierStarts, senderVars
<1>11. SubscriberStep \/ SubscriberDies => UNCHANGED <<conn, cur, cnt, scnt>>
  BY DEF SubscriberStep, SubscriberDies, Subscribe, Reattach, Begin, GetSendconnCnt,
         PushRequest, GatherMessage, GatherDetached, GatherTimeout, subOnly, senderVars
<1>12. UNCHANGED vars => UNCHANGED <<conn, cur, cnt, scnt>>
  BY DEF vars
<1>13. ASSUME NEW d \in Dir, SenderStep(d)
       PROVE  Conns'
  BY <1>2, <1>3, <1>4, <1>5, <1>6, <1>7, <1>13 DEF SenderStep, SenderLoop
<1> QED
  BY <1>2, <1>8, <1>9, <1>10, <1>11, <1>12, <1>13 DEF Next

\* What is to end has not ended.
Doomed ==
    /\ doomed \in [Dir -> SUBSET Server]
    /\ \A d \in Dir : \A r \in doomed[d] : ps[d][r] # "free"

\* Whoever makes a process end finds it there: a sender its connection, a
\* sender that dies the receivers in the slots, the replier the process whose
\* pid it has.
LEMMA DoomedKept ==
    ASSUME DInv, [Next]_vars
    PROVE  Doomed'
<1> USE LinkAssumption
<1> USE DEF Dir
<1>1. Doomed /\ Types /\ SlotServes
  BY DEF DInv, Types, Ends, Doomed, Alive
<1>2. CASE UNCHANGED <<ps, doomed>>
  BY <1>1, <1>2 DEF Doomed
<1>3. ASSUME ps' = ps, NEW d \in Dir, NEW S \in SUBSET Server, \A r \in S : ps[d][r] # "free",
             doomed' = [doomed EXCEPT ![d] = @ \cup S]
      PROVE  Doomed'
  BY <1>1, <1>3 DEF Doomed
<1>4. \A d \in Dir : \A r : /\ {r} \cap Serving(d) \in SUBSET Server
                            /\ \A q \in {r} \cap Serving(d) : ps[d][q] # "free"
  BY DEF Serving, Alive
<1>5. ASSUME NEW d \in Dir, Reconnect(d) \/ Break(d)
      PROVE  Doomed'
  BY <1>3, <1>4, <1>5 DEF Reconnect, Break, Close, serverVars
<1>6. ASSUME NEW d \in Dir, Connect(d)
      PROVE  Doomed'
  <2>1. PICK r \in Server :
              /\ ps[d][r] = "free"
              /\ ps' = [ps EXCEPT ![d][r] = IF slot[d] # None THEN "refused"
                                            ELSE IF d = "req" THEN "registered" ELSE "live"]
    BY <1>1, <1>6, Connects
  <2>2. PICK s \in State : ps' = [ps EXCEPT ![d][r] = s] /\ s \in {"refused", "registered", "live"}
    BY <2>1 DEF State
  <2>3. /\ ps'[d][r] = s
        /\ \A e \in Dir : \A q \in Server : e # d \/ q # r => ps'[e][q] = ps[e][q]
    BY <1>1, <2>2, StateSet
  <2>4. doomed' = [doomed EXCEPT ![d] = @ \cup ({cur[d]} \cap Serving(d))]
    BY <1>6 DEF Connect, Close
  <2>5. \A e \in Dir : \A q \in Server : ps[e][q] # "free" => ps'[e][q] # "free"
    BY <2>1, <2>2, <2>3
  <2> QED
    BY <1>1, <1>4, <2>4, <2>5 DEF Doomed
<1>7. ASSUME NEW d \in Dir, SenderDies(d)
      PROVE  Doomed'
  <2> DEFINE S == {cur[d]} \cap Serving(d)
             R == {slot[Other(d)]} \ {None}
  <2>1. Other(d) \in Dir /\ Other(d) # d
    BY DEF Other
  <2>2. R \in SUBSET Server /\ \A r \in R : ps[Other(d)][r] # "free"
    BY SMTT(30), <1>1, <2>1 DEF Types, SlotServes
  <2>3. S \in SUBSET Server /\ \A r \in S : ps[d][r] # "free"
    BY <1>4
  <2>4. doomed' = [doomed EXCEPT ![d] = @ \cup S, ![Other(d)] = @ \cup R] /\ ps' = ps
    BY <1>7 DEF SenderDies, serverVars
  <2> HIDE DEF S, R
  <2>5. doomed'[d] = doomed[d] \cup S /\ doomed'[Other(d)] = doomed[Other(d)] \cup R
    BY <1>1, <2>1, <2>4 DEF Doomed
  <2>6. doomed' \in [Dir -> SUBSET Server]
    BY <1>1, <2>1, <2>2, <2>3, <2>4 DEF Doomed
  <2>7. \A e \in Dir : e = d \/ e = Other(d)
    BY <2>1
  <2> QED
    BY <1>1, <2>2, <2>3, <2>4, <2>5, <2>6, <2>7 DEF Doomed
<1>8. ASSUME NEW r \in Server, CheckIn(r) \/ CheckInEarly(r)
      PROVE  Doomed'
  <2>1. PICK s \in State : ps' = [ps EXCEPT !["req"][r] = s] /\ s \in {"exiting", "live"}
    BY <1>8 DEF CheckIn, CheckInEarly, Refused, SetPs, State
  <2>2. /\ ps'["req"][r] = s
        /\ \A e \in Dir : \A q \in Server : e # "req" \/ q # r => ps'[e][q] = ps[e][q]
    BY <1>1, <2>1, StateSet
  <2>3. doomed' = doomed
    BY <1>8 DEF CheckIn, CheckInEarly
  <2> QED
    BY <1>1, <2>1, <2>2, <2>3 DEF Doomed
<1>9. ASSUME NEW d \in Dir, NEW r \in Server, FreeSlot(d, r) \/ Detach(d, r)
      PROVE  Doomed'
  <2>1. PICK s \in State : ps' = [ps EXCEPT ![d][r] = s]
    BY <1>9 DEF FreeSlot, Detach, SetPs, State
  <2>2. \A e \in Dir : \A q \in Server : e # d \/ q # r => ps'[e][q] = ps[e][q]
    BY <1>1, <2>1, StateSet
  <2>3. doomed' = [doomed EXCEPT ![d] = @ \ {r}]
    BY <1>9 DEF FreeSlot, Detach
  <2> QED
    BY <1>1, <2>2, <2>3 DEF Doomed
<1>10. ReplierOnExit => Doomed'
  BY <1>3, <1>4 DEF ReplierOnExit, serverVars
<1>11. ASSUME NEW d \in Dir,
              Transfer(d) \/ Heartbeat(d) \/ Negotiated(d) \/ SenderStarts(d) \/ RequestReconnect(d)
       PROVE  UNCHANGED <<ps, doomed>>
  BY <1>11 DEF Transfer, Heartbeat, Negotiated, SenderStarts, RequestReconnect, serverVars
<1>12. ASSUME NEW d \in Dir, NEW r \in Server,
              HandleMessage(d, r) \/ ReceiveHeartbeat(r) \/ RecreateMqs(r)
       PROVE  UNCHANGED <<ps, doomed>>
  BY <1>12 DEF HandleMessage, ReceiveHeartbeat, RecreateMqs
<1>13. Answer \/ ReplierDies \/ ReplierStarts => UNCHANGED <<ps, doomed>>
  BY DEF Answer, ReplierDies, ReplierStarts, serverVars
<1>14. SubscriberStep \/ SubscriberDies => UNCHANGED <<ps, doomed>>
  BY DEF SubscriberStep, SubscriberDies, Subscribe, Reattach, Begin, GetSendconnCnt,
         PushRequest, GatherMessage, GatherDetached, GatherTimeout, subOnly
<1>15. UNCHANGED vars => UNCHANGED <<ps, doomed>>
  BY DEF vars
<1>16. ASSUME NEW d \in Dir, SenderStep(d)
       PROVE  Doomed'
  BY <1>2, <1>5, <1>6, <1>7, <1>11, <1>16 DEF SenderStep, SenderLoop
<1>17. ASSUME NEW d \in Dir, NEW r \in Server, ServerStep(d, r)
       PROVE  Doomed'
  BY <1>2, <1>8, <1>9, <1>12, <1>17 DEF ServerStep
<1>18. ASSUME NEW r \in Server, CheckInEarly(r) \/ ReceiveHeartbeat(r)
       PROVE  Doomed'
  BY <1>2, <1>8, <1>12, <1>18
<1>19. ReplierStep \/ ReplierDies => Doomed'
  BY <1>2, <1>10, <1>13 DEF ReplierStep
<1> QED
  BY <1>2, <1>14, <1>15, <1>16, <1>17, <1>18, <1>19 DEF Next

\* What the server processes and their nodes share.
Shared ==
    /\ ps \in [Dir -> [Server -> State]]
    /\ slot \in [Dir -> Server \cup {None}]
    /\ known \subseteq {"mask", "row"}
    /\ pid \in Server \cup {None} /\ hup \subseteq Server

\* The types of what is shared.
LEMMA SharedKept ==
    ASSUME DInv, [Next]_vars
    PROVE  Shared'
<1> USE LinkAssumption
<1> USE DEF Dir
<1>1. Shared /\ Types
  BY DEF DInv, Types, Shared
<1>2. CASE UNCHANGED <<ps, slot, known, pid, hup>>
  BY <1>1, <1>2 DEF Shared
<1>3. ASSUME NEW d \in Dir, Connect(d)
      PROVE  Shared'
  <2>1. PICK r \in Server :
              /\ ps' = [ps EXCEPT ![d][r] = IF slot[d] # None THEN "refused"
                                            ELSE IF d = "req" THEN "registered" ELSE "live"]
              /\ slot' = [slot EXCEPT ![d] = IF @ = None THEN r ELSE @]
    BY <1>1, <1>3, Connects
  <2>2. PICK s \in State : ps' = [ps EXCEPT ![d][r] = s]
    BY <2>1 DEF State
  <2>3. ps' \in [Dir -> [Server -> State]]
    BY <1>1, <2>2, StateSet
  <2>4. slot' \in [Dir -> Server \cup {None}]
    BY <1>1, <2>1 DEF Shared
  <2>5. UNCHANGED <<known, pid, hup>>
    BY <1>3 DEF Connect
  <2> QED
    BY <1>1, <2>3, <2>4, <2>5 DEF Shared
<1>4. ASSUME NEW r \in Server, CheckIn(r) \/ CheckInEarly(r)
      PROVE  Shared'
  <2>1. PICK s \in State : ps' = [ps EXCEPT !["req"][r] = s]
    BY <1>4 DEF CheckIn, CheckInEarly, Refused, SetPs, State
  <2>2. ps' \in [Dir -> [Server -> State]]
    BY <1>1, <2>1, StateSet
  <2>3. slot' \in [Dir -> Server \cup {None}]
    BY <1>1, <1>4 DEF Shared, CheckIn, CheckInEarly, Refused
  <2>4. known' \in {known, known \cup {"mask"}} /\ pid' \in {pid, r} /\ hup' = hup
    BY <1>4 DEF CheckIn, CheckInEarly, Refused
  <2> QED
    BY <1>1, <2>2, <2>3, <2>4 DEF Shared
<1>5. ASSUME NEW d \in Dir, NEW r \in Server, FreeSlot(d, r) \/ Detach(d, r)
      PROVE  Shared'
  <2>1. PICK s \in State : ps' = [ps EXCEPT ![d][r] = s]
    BY <1>5 DEF FreeSlot, Detach, SetPs, State
  <2>2. ps' \in [Dir -> [Server -> State]]
    BY <1>1, <2>1, StateSet
  <2>3. slot' \in [Dir -> Server \cup {None}]
    BY <1>1, <1>5 DEF Shared, FreeSlot, Detach
  <2>4. known' \in {known, {}} /\ pid' \in {pid, None} /\ hup' \subseteq hup
    BY <1>5 DEF FreeSlot, Detach
  <2> QED
    BY <1>1, <2>2, <2>3, <2>4 DEF Shared
<1>6. ASSUME NEW r \in Server, ReceiveHeartbeat(r) \/ RecreateMqs(r)
      PROVE  Shared'
  BY <1>1, <1>6 DEF Shared, ReceiveHeartbeat, RecreateMqs
<1>7. Reattach => Shared'
  <2>1. slot["rep"] \in Server \cup {None}
    BY <1>1 DEF Shared
  <2>2. Reattach => /\ UNCHANGED <<ps, slot, known, pid>>
                    /\ hup' = hup \/ (slot["rep"] # None /\ hup' = hup \cup {slot["rep"]})
    BY DEF Reattach, subOnly
  <2> QED
    BY <1>1, <2>1, <2>2 DEF Shared
<1>8. ASSUME NEW d \in Dir, Reconnect(d) \/ Transfer(d) \/ Heartbeat(d) \/ Negotiated(d)
                            \/ SenderDies(d) \/ SenderStarts(d) \/ RequestReconnect(d) \/ Break(d)
      PROVE  UNCHANGED <<ps, slot, known, pid, hup>>
  BY <1>8 DEF Reconnect, Transfer, Heartbeat, Negotiated, SenderDies, SenderStarts,
              RequestReconnect, Break, serverVars
<1>9. ASSUME NEW d \in Dir, NEW r \in Server, HandleMessage(d, r)
      PROVE  UNCHANGED <<ps, slot, known, pid, hup>>
  BY <1>9 DEF HandleMessage
<1>10. ReplierStep \/ ReplierDies => UNCHANGED <<ps, slot, known, pid, hup>>
  BY DEF ReplierStep, Answer, ReplierDies, ReplierOnExit, ReplierStarts, serverVars
<1>11. \/ Subscribe \/ Begin \/ GetSendconnCnt \/ PushRequest \/ GatherMessage
       \/ GatherDetached \/ GatherTimeout \/ SubscriberDies
       => UNCHANGED <<ps, slot, known, pid, hup>>
  BY DEF SubscriberDies, Subscribe, Begin, GetSendconnCnt,
         PushRequest, GatherMessage, GatherDetached, GatherTimeout, subOnly
<1>12. UNCHANGED vars => UNCHANGED <<ps, slot, known, pid, hup>>
  BY DEF vars
<1>13. ASSUME NEW d \in Dir, SenderStep(d)
       PROVE  Shared'
  BY <1>2, <1>3, <1>8, <1>13 DEF SenderStep, SenderLoop
<1>14. ASSUME NEW d \in Dir, NEW r \in Server, ServerStep(d, r)
       PROVE  Shared'
  BY <1>2, <1>4, <1>5, <1>6, <1>9, <1>14 DEF ServerStep
<1>15. SubscriberStep => Shared'
  BY <1>2, <1>7, <1>11 DEF SubscriberStep
<1> QED
  BY <1>2, <1>4, <1>6, <1>10, <1>11, <1>12, <1>13, <1>14, <1>15 DEF Next

\* The subscriber and its rounds.
Rounds == sub \in Subscriber /\ left \in Nat /\ RoundsPaid

\* The number of a tour is that of the last one, or the next and paid for.
LEMMA RoundsKept ==
    ASSUME DInv, [Next]_vars
    PROVE  Rounds'
<1> USE LinkAssumption
<1> USE DEF Dir
<1>1. Rounds /\ Types
  BY DEF DInv, Types, Rounds
<1>2. ASSUME sub' \in Subscriber, sub'.num = sub.num, left' \in Nat, left' <= left
      PROVE  Rounds'
  <2>1. sub.num \in Nat /\ left \in Nat /\ Budget \in Nat /\ sub.num <= Budget - left
    BY <1>1 DEF Rounds, RoundsPaid, Subscriber
  <2>2. sub.num <= Budget - left'
    BY SMTT(30), <1>2, <2>1
  <2> QED
    BY <1>2, <2>2 DEF Rounds, RoundsPaid
<1>3. \A b \in BOOLEAN : /\ [sub EXCEPT !.out = b] \in Subscriber /\ [sub EXCEPT !.out = b].num = sub.num
                         /\ [sub EXCEPT !.dropped = b] \in Subscriber /\ [sub EXCEPT !.dropped = b].num = sub.num
  BY <1>1 DEF Rounds, Subscriber
<1>4. left \in Nat /\ left <= left
  BY SMTT(30), <1>1 DEF Rounds
<1>5. CASE Subscribe
  <2>1. PICK n \in Nat : sub' = [sub EXCEPT !.pc = "attach", !.gen = n] /\ left' = left
    <3>1. sub.gen + 1 \in Nat
      BY SMTT(30), <1>1 DEF Rounds, Subscriber
    <3> QED
      BY <1>5, <3>1 DEF Subscribe
  <2>2. sub' \in Subscriber /\ sub'.num = sub.num
    BY <1>1, <2>1 DEF Rounds, Subscriber, SubPc
  <2> QED
    BY <1>2, <1>4, <2>1, <2>2
<1>6. CASE Reattach
  <2>1. slot["rep"] \in Server \cup {None}
    BY <1>1 DEF Types
  <2>2. \/ sub' = sub
        \/ \E q \in {"ready", "count"} : sub' = [sub EXCEPT !.pc = q]
        \/ \E q \in {"ready", "count"}, a \in Server : sub' = [sub EXCEPT !.pc = q, !.att = a]
    BY <1>6, <2>1 DEF Reattach
  <2>3. \A q \in {"ready", "count"}, a \in Server :
            /\ [sub EXCEPT !.pc = q] \in Subscriber /\ [sub EXCEPT !.pc = q].num = sub.num
            /\ [sub EXCEPT !.pc = q, !.att = a] \in Subscriber
            /\ [sub EXCEPT !.pc = q, !.att = a].num = sub.num
    BY <1>1 DEF Rounds, Subscriber, SubPc
  <2>4. left' = left
    BY <1>6 DEF Reattach
  <2>5. sub' \in Subscriber /\ sub'.num = sub.num
    BY <1>1, <2>2, <2>3 DEF Rounds
  <2> QED
    BY <1>2, <1>4, <2>4, <2>5
<1>7. CASE Begin
  <2>1. PICK n \in {sub.num, sub.num + 1}, q \in {"reattach", "count"} :
            sub' = [sub EXCEPT !.pc = q, !.num = n]
    BY <1>7 DEF Begin
  <2>2. sub.num \in Nat /\ n \in Nat /\ left \in Nat /\ Budget \in Nat /\ sub.num <= Budget - left
    BY SMTT(30), <1>1, <2>1 DEF Rounds, RoundsPaid, Subscriber
  <2>3. left' \in Nat /\ left' = left - 1
    BY SMTT(30), <1>1, <1>7 DEF Begin, Spend, Rounds
  <2>4. sub' \in Subscriber /\ sub'.num = n
    BY <1>1, <2>1, <2>2 DEF Rounds, Subscriber, SubPc
  <2>5. n <= Budget - left'
    BY SMTT(30), <2>1, <2>2, <2>3
  <2> QED
    BY <2>3, <2>4, <2>5 DEF Rounds, RoundsPaid
<1>8. CASE GetSendconnCnt
  <2>1. scnt \in Nat
    BY SMTT(30), <1>1 DEF Types, DEAD
  <2>2. sub' = [sub EXCEPT !.pc = "push", !.saved = scnt] /\ left' = left
    BY <1>8 DEF GetSendconnCnt
  <2>3. sub' \in Subscriber /\ sub'.num = sub.num
    BY <1>1, <2>1, <2>2 DEF Rounds, Subscriber, SubPc
  <2> QED
    BY <1>2, <1>4, <2>2, <2>3
<1>9. Ended \in Subscriber /\ Ended.num = sub.num
  BY <1>1 DEF Rounds, Subscriber, Ended, SubPc, DEAD
<1>10. CASE PushRequest
  <2>1. sub' = Ended \/ (sub' = [sub EXCEPT !.pc = "gather"])
    BY <1>10 DEF PushRequest
  <2>2. [sub EXCEPT !.pc = "gather"] \in Subscriber /\ [sub EXCEPT !.pc = "gather"].num = sub.num
    BY <1>1 DEF Rounds, Subscriber, SubPc
  <2>3. left' = left
    BY <1>10 DEF PushRequest
  <2> QED
    BY <1>2, <1>4, <1>9, <2>1, <2>2, <2>3
<1>11. CASE GatherMessage \/ GatherDetached \/ GatherTimeout
  <2>1. \/ sub' = sub
        \/ sub' = [sub EXCEPT !.pc = "attach", !.att = None, !.saved = DEAD, !.dropped = FALSE]
        \/ sub' = [sub EXCEPT !.pc = "ready", !.saved = DEAD, !.dropped = FALSE]
    BY <1>11 DEF GatherMessage, GatherDetached, GatherTimeout
  <2>2. left' = left
    BY <1>11 DEF GatherMessage, GatherDetached, GatherTimeout
  <2>3. sub' \in Subscriber /\ sub'.num = sub.num
    <3>1. CASE sub' = sub
      BY <1>1, <3>1 DEF Rounds
    <3>2. CASE sub' = [sub EXCEPT !.pc = "attach", !.att = None, !.saved = DEAD, !.dropped = FALSE]
      BY <1>1, <3>2 DEF Rounds, Subscriber, SubPc, DEAD
    <3>3. CASE sub' = [sub EXCEPT !.pc = "ready", !.saved = DEAD, !.dropped = FALSE]
      BY <1>1, <3>3 DEF Rounds, Subscriber, SubPc, DEAD
    <3> QED
      BY <2>1, <3>1, <3>2, <3>3
  <2> QED
    BY <1>2, <1>4, <2>2, <2>3
<1>12. CASE SubscriberDies
  <2>1. sub' = Ended /\ left' \in Nat /\ left' <= left
    BY SMTT(30), <1>1, <1>12 DEF SubscriberDies, Fault, Spend, Rounds
  <2> QED
    BY <1>2, <1>9, <2>1
<1>13. ASSUME NEW d \in Dir, SenderStep(d)
       PROVE  Rounds'
  <2>1. left' \in Nat /\ left' <= left
    BY SMTT(30), <1>1, <1>13 DEF SenderStep, SenderLoop, Reconnect, Transfer, Heartbeat, Connect,
           Negotiated, SenderDies, SenderStarts, RequestReconnect, Break, Spend, Fault, Rounds
  <2>2. sub' = sub \/ (sub' = [sub EXCEPT !.out = FALSE]) \/ (sub' = [sub EXCEPT !.dropped = TRUE])
    BY <1>13 DEF SenderStep, SenderLoop, Reconnect, Transfer, Heartbeat, Connect, Negotiated,
                 SenderDies, SenderStarts, RequestReconnect, Break, peerVars
  <2>3. sub' \in Subscriber /\ sub'.num = sub.num
    BY <1>1, <1>3, <2>2 DEF Rounds
  <2> QED
    BY <1>2, <2>1, <2>3
<1>14. ASSUME NEW d \in Dir, NEW r \in Server, ServerStep(d, r)
       PROVE  sub' = sub /\ left' = left
  BY <1>14 DEF ServerStep, HandleMessage, FreeSlot, Detach, CheckIn, RecreateMqs, peerVars
<1>15. ASSUME NEW r \in Server, CheckInEarly(r) \/ ReceiveHeartbeat(r)
       PROVE  sub' = sub /\ left' \in Nat /\ left' <= left
  BY SMTT(30), <1>1, <1>15 DEF CheckInEarly, ReceiveHeartbeat, peerVars, Fault, Spend, Rounds
<1>16. ReplierStep \/ ReplierDies => sub' = sub /\ left' \in Nat /\ left' <= left
  BY SMTT(30), <1>1 DEF ReplierStep, Answer, ReplierDies, ReplierOnExit, ReplierStarts, Fault, Spend, Rounds
<1>17. UNCHANGED vars => sub' = sub /\ left' = left
  BY DEF vars
<1>18. SubscriberStep => Rounds'
  BY <1>5, <1>6, <1>7, <1>8, <1>10, <1>11 DEF SubscriberStep
<1>19. ASSUME sub' = sub, left' \in Nat, left' <= left
       PROVE  Rounds'
  BY <1>1, <1>2, <1>19 DEF Rounds
<1> QED
  BY <1>4, <1>12, <1>13, <1>14, <1>15, <1>16, <1>17, <1>18, <1>19 DEF Next

----------------------------------------------------------------------------

\* The invariant holds on connected nodes.
LEMMA InitDInv == Init => DInv
<1> SUFFICES ASSUME Init PROVE DInv
  OBVIOUS
<1> USE LinkAssumption
<1> USE DEF Dir
<1> DEFINE r == CHOOSE r \in Server : TRUE
<1>1. r \in Server
  OBVIOUS
<1>2. /\ conn = [d \in Dir |-> "Active"]
      /\ cur = [d \in Dir |-> r]
      /\ ps = [d \in Dir |-> [q \in Server |-> IF q = r THEN "live" ELSE "free"]]
      /\ slot = [d \in Dir |-> r]
      /\ pid = r
      /\ known = {"mask", "row"}
      /\ cnt = 1
      /\ scnt = 1
      /\ doomed = [d \in Dir |-> {}]
      /\ hup = {}
      /\ sub = [pc |-> "start", gen |-> 0, att |-> None, saved |-> DEAD, num |-> InvalidGenNum,
                dropped |-> FALSE, out |-> TRUE]
      /\ left = Budget
  BY DEF Init
<1> HIDE DEF r
<1>3. sub \in Subscriber
  BY <1>2 DEF Subscriber, SubPc, DEAD, InvalidGenNum
<1>4. Types
  BY SMTT(30), <1>1, <1>2, <1>3 DEF Types, State, DEAD
<1>5. RoundsPaid
  BY SMTT(30), <1>2 DEF RoundsPaid, InvalidGenNum
<1>6. SlotServes
  BY <1>1, <1>2 DEF SlotServes
<1>7. Ends
  BY <1>1, <1>2 DEF Ends
<1>8. GoneIsDisconnected
  BY <1>1, <1>2 DEF GoneIsDisconnected
<1> QED
  BY <1>4, <1>5, <1>6, <1>7, <1>8 DEF DInv

\* Every step keeps the invariant.
LEMMA NextDInv == DInv /\ [Next]_vars => DInv'
<1> SUFFICES ASSUME DInv, [Next]_vars PROVE DInv'
  OBVIOUS
<1>1. Conns' /\ Doomed' /\ Shared' /\ Rounds'
  BY ConnsKept, DoomedKept, SharedKept, RoundsKept
<1>2. Types'
  BY <1>1 DEF Types, Conns, Doomed, Shared, Rounds
<1>3. RoundsPaid'
  BY <1>1 DEF Rounds
<1>4. Ends'
  BY <1>1 DEF Ends, Alive, Conns, Doomed
<1>5. SlotServes'
  BY SlotKept
<1>6. GoneIsDisconnected'
  BY DisconnectedKept
<1> QED
  BY <1>2, <1>3, <1>4, <1>5, <1>6 DEF DInv

\* The link keeps its invariant: every direction has at most one process that
\* serves it, the one in its slot, and the mask goes with it.
THEOREM LinkInvariant == Spec => []DInv
BY InitDInv, NextDInv, PTL DEF Spec

\* The types of dmq.c's shared and local state, its counter of connections,
\* and no round that was not paid for.
THEOREM LinkTypes == Spec => []TypeOK
<1>1. DInv => TypeOK
  BY SMTT(30), LinkAssumption DEF DInv, Types, Ends, RoundsPaid, TypeOK, State, Dir, DEAD, Subscriber
<1> QED
  BY <1>1, LinkInvariant, PTL

\* Two receivers of dmq_receiver_loop never serve one sender.
THEOREM ReceiversAlone == Spec => []OneReceiver
<1>1. DInv => OneReceiver
  BY SMTT(30) DEF DInv, SlotServes, OneReceiver
<1> QED
  BY <1>1, LinkInvariant, PTL

\* When every receiver of a sender has ended, with its stop hook, nothing of
\* the sender is left in dmq_receivers_mask or connectivity_matrix, in whatever
\* order the hooks of old and new receivers ran.
THEOREM MaskOutlivesNone == Spec => []GoneIsDisconnected
<1>1. DInv => GoneIsDisconnected
  BY DEF DInv
<1> QED
  BY <1>1, LinkInvariant, PTL
=============================================================================
