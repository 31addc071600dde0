------------------------------ MODULE DmqLink ------------------------------
(***************************************************************************)
(* A request and its answer over dmq (dmq.c): a subscriber of one node,    *)
(* the campaigner for instance, asks the replier of another and gathers    *)
(* the answer.  Requests ("req") go from the dmq sender of the first node  *)
(* to a dmq receiver of the second, answers ("rep") the other way.  A      *)
(* direction d has a destination of the sender, the connection it makes    *)
(* and the server processes that serve, or served, a connection.           *)
(*                                                                         *)
(* Whatever breaks, the subscriber must not wait for ever: it counts on    *)
(* the counter of its send connection and on its queue being detached.     *)
(***************************************************************************)
EXTENDS Integers, Sequences

CONSTANTS
    Server,       \* the server processes
    Budget,       \* bound: requests and faults, the death of a sender counting twice
    MaxCount,     \* reconnections while the last receiver is still there
    None          \* no server process

ASSUME LinkAssumption ==
    /\ Server # {} /\ None \notin Server
    /\ Budget \in Nat

VARIABLES
    reconnect,   \* reconnect[d]: reconnect_requested
    conn,        \* conn[d]: DmqConnState, or "Down": there is no dmq sender
    cur,         \* cur[d]: the process at the other end of pgconn
    cnt,         \* sconn_cnt of dmq_sender_main, of the asking node
    scnt,        \* sconn_cnt of its dmq_state
    outq,        \* outq[d]: what was pushed and the sender has not taken
    ps,          \* ps[d][r]: state of process r
    doomed,      \* doomed[d]: processes with EOF, timeout or SIGTERM to see
    net,         \* net[d][r]: sent to r, not read by it
    slot,        \* slot[d]: the process registered under the sender's name
    pid,         \* dmq_receiver_pid of the asking node, at the replier's
    known,       \* what the replier's node knows of it: that it is connected
                 \* (dmq_receivers_mask), whom it sees (connectivity_matrix)
    replier,     \* [st, q, out]: state, its queues, whether its mq_outh is good
    mq,          \* mq[r]: queue of receiver r to the subscriber
    hup,         \* receivers asked to create queues
    sub,         \* the subscriber
    left         \* of the budget

vars == <<reconnect, conn, cur, cnt, scnt, outq, ps, doomed, net, slot, pid, known, replier, mq,
          hup, sub, left>>

Dir == {"req", "rep"}
Other(d) == IF d = "req" THEN "rep" ELSE "req"

\* DMQSCONN_DEAD
DEAD == 0

InvalidGenNum == 0

NoRequests == [r \in Server |-> <<>>]
NoQueue == [gen |-> 0, msgs |-> <<>>, detached |-> FALSE]

senderVars == <<reconnect, conn, cur, cnt, scnt, outq>>
serverVars == <<ps, slot, pid, known, mq, hup>>
peerVars == <<replier, sub>>

\* The nodes are connected.
Init ==
    LET r == CHOOSE r \in Server : TRUE IN
        /\ conn = [d \in Dir |-> "Active"]
        /\ cur = [d \in Dir |-> r]
        /\ ps = [d \in Dir |-> [q \in Server |-> IF q = r THEN "live" ELSE "free"]]
        /\ slot = [d \in Dir |-> r]
        /\ pid = r
        /\ known = {"mask", "row"}
        /\ reconnect = [d \in Dir |-> FALSE]
        /\ cnt = 1
        /\ scnt = 1
        /\ outq = [d \in Dir |-> <<>>]
        /\ doomed = [d \in Dir |-> {}]
        /\ net = [d \in Dir |-> [q \in Server |-> <<>>]]
        /\ replier = [st |-> "up", q |-> NoRequests, out |-> TRUE]
        /\ mq = [q \in Server |-> NoQueue]
        /\ hup = {}
        /\ sub = [pc |-> "start", gen |-> 0, att |-> None, saved |-> DEAD, num |-> InvalidGenNum,
                  dropped |-> FALSE, out |-> TRUE]
        /\ left = Budget

\* The first of the budget is spent on a request.
Spend(n) == left >= n /\ left' = left - n
Fault == left < Budget /\ Spend(1)

\* Processes that have not ended, and those that have not begun to.
Alive(d) == {r \in Server : ps[d][r] # "free"}
Serving(d) == {r \in Alive(d) : ps[d][r] # "exiting"}

----------------------------------------------------------------------------
(* dmq_sender_main *)

\* PQfinish, and the state after any failure of an active connection.
Disconnect(d) ==
    /\ conn' = [conn EXCEPT ![d] = "Idle"]
    /\ scnt' = IF d = "req" THEN DEAD ELSE scnt

Close(d) == doomed' = [doomed EXCEPT ![d] = @ \cup ({cur[d]} \cap Serving(d))]

\* A connection whose other end is going, gone, or has refused to serve.
Fails(d) == cur[d] \in doomed[d] \/ ps[d][cur[d]] \in {"free", "refused", "exiting"}

\* SIGHUP with reconnect_requested.
Reconnect(d) ==
    /\ conn[d] # "Down" /\ reconnect[d]
    /\ reconnect' = [reconnect EXCEPT ![d] = FALSE]
    /\ Close(d)
    /\ cur' = [cur EXCEPT ![d] = None]
    /\ Disconnect(d)
    /\ UNCHANGED <<cnt, outq, net, serverVars, peerVars, left>>

\* The answer that is waited for is dropped though its receiver is there: the
\* sender has not yet looked at the receiver's answer to the handshake.
DropsAnswer(d) ==
    /\ d = "rep" /\ conn[d] = "Negotiating" /\ ps[d][cur[d]] = "live"
    /\ sub.pc = "gather" /\ Head(outq[d]) = sub.num

\* A message taken from a backend's queue is sent if the connection is active
\* and dropped otherwise.
Transfer(d) ==
    /\ conn[d] # "Down" /\ outq[d] # <<>>
    /\ outq' = [outq EXCEPT ![d] = Tail(@)]
    /\ sub' = IF DropsAnswer(d) THEN [sub EXCEPT !.dropped = TRUE] ELSE sub
    /\ IF conn[d] = "Active"
       THEN \/ /\ Fails(d)
               /\ Disconnect(d)
               /\ UNCHANGED net
            \/ /\ ps[d][cur[d]] # "refused"
               /\ net' = [net EXCEPT ![d][cur[d]] =
                            IF ps[d][cur[d]] \in {"registered", "live"}
                            THEN Append(@, Head(outq[d])) ELSE @]
               /\ UNCHANGED <<conn, scnt>>
       ELSE UNCHANGED <<conn, scnt, net>>
    /\ UNCHANGED <<reconnect, cur, cnt, doomed, serverVars, replier, left>>

\* The timer: the heartbeat of an active connection finds it broken.
Heartbeat(d) ==
    /\ conn[d] = "Active" /\ Fails(d)
    /\ Disconnect(d)
    /\ UNCHANGED <<reconnect, cur, cnt, outq, doomed, net, serverVars, peerVars, left>>

\* The names of new server processes do not matter.
Fresh(d) == Server \ (Alive(d) \cup IF d = "rep" THEN {sub.att} ELSE {})

\* Mutant of Connect: the name is not looked up.
ConnectAnyway(d) ==
    /\ conn[d] = "Idle"
    /\ d = "req" /\ cnt >= MaxCount => slot[d] = None /\ replier.st = "up"
    /\ Fresh(d) # {}
    /\ LET r == CHOOSE r \in Fresh(d) : TRUE IN
        /\ ps' = [ps EXCEPT ![d][r] = IF d = "req" THEN "registered" ELSE "live"]
        /\ slot' = [slot EXCEPT ![d] = r]
        /\ mq' = IF d = "rep" THEN [mq EXCEPT ![r] = NoQueue] ELSE mq
        /\ cur' = [cur EXCEPT ![d] = r]
    /\ Close(d)
    /\ conn' = [conn EXCEPT ![d] = "Negotiating"]
    /\ UNCHANGED <<reconnect, cnt, scnt, outq, net, pid, known, hup, peerVars, left>>

\* The timer and PQconnectPoll, Idle --> Connecting --> Negotiating.  A server
\* process gets the query and, in dmq_receiver_loop, takes a slot under the
\* name of the sender, or refuses if another has it.  An attempt that fails
\* or times out ends in Idle, where it began.
Connect(d) ==
    /\ conn[d] = "Idle"
    /\ d = "req" /\ cnt >= MaxCount => slot[d] = None /\ replier.st = "up"
    /\ Fresh(d) # {}
    /\ LET r == CHOOSE r \in Fresh(d) : TRUE IN
        /\ ps' = [ps EXCEPT ![d][r] = IF slot[d] # None THEN "refused"
                                      ELSE IF d = "req" THEN "registered" ELSE "live"]
        /\ slot' = [slot EXCEPT ![d] = IF @ = None THEN r ELSE @]
        /\ mq' = IF d = "rep" THEN [mq EXCEPT ![r] = NoQueue] ELSE mq
        /\ cur' = [cur EXCEPT ![d] = r]
    /\ Close(d)
    /\ conn' = [conn EXCEPT ![d] = "Negotiating"]
    /\ UNCHANGED <<reconnect, cnt, scnt, outq, net, pid, known, hup, peerVars, left>>

\* An answer to the query, of whatever kind, makes the connection active.
Negotiated(d) ==
    /\ conn[d] = "Negotiating"
    /\ IF ps[d][cur[d]] \in {"registered", "live", "refused"}
       THEN /\ conn' = [conn EXCEPT ![d] = "Active"]
            /\ IF d = "req" THEN cnt' = cnt + 1 /\ scnt' = cnt + 1 ELSE UNCHANGED <<cnt, scnt>>
       ELSE /\ Fails(d)
            /\ conn' = [conn EXCEPT ![d] = "Idle"]
            /\ UNCHANGED <<cnt, scnt>>
    /\ UNCHANGED <<reconnect, cur, outq, doomed, net, serverVars, peerVars, left>>

\* Mutant of SenderDies: the receivers of the node live on.
SenderDiesAlone(d) ==
    /\ conn[d] # "Down" /\ left < Budget /\ Spend(2)
    /\ conn' = [conn EXCEPT ![d] = "Down"]
    /\ outq' = [outq EXCEPT ![d] = <<>>]
    /\ doomed' = [doomed EXCEPT ![d] = @ \cup ({cur[d]} \cap Serving(d))]
    /\ sub' = IF d = "req" THEN [sub EXCEPT !.out = FALSE] ELSE sub
    /\ replier' = IF d = "rep" THEN [replier EXCEPT !.out = FALSE] ELSE replier
    /\ UNCHANGED <<reconnect, cur, cnt, scnt, net, serverVars>>

\* The sender process ends; dmq_sender_at_exit takes the receivers of its node
\* with it.  The queues to the sender are gone for who had attached to them.
SenderDies(d) ==
    /\ conn[d] # "Down" /\ left < Budget /\ Spend(2)
    /\ conn' = [conn EXCEPT ![d] = "Down"]
    /\ outq' = [outq EXCEPT ![d] = <<>>]
    /\ doomed' = [doomed EXCEPT ![d] = @ \cup ({cur[d]} \cap Serving(d)),
                                ![Other(d)] = @ \cup ({slot[Other(d)]} \ {None})]
    /\ sub' = IF d = "req" THEN [sub EXCEPT !.out = FALSE] ELSE sub
    /\ replier' = IF d = "rep" THEN [replier EXCEPT !.out = FALSE] ELSE replier
    /\ UNCHANGED <<reconnect, cur, cnt, scnt, net, serverVars>>

\* It is started again and reads the destinations.
SenderStarts(d) ==
    /\ conn[d] = "Down"
    /\ Disconnect(d)
    /\ cur' = [cur EXCEPT ![d] = None]
    /\ cnt' = IF d = "req" THEN 0 ELSE cnt
    /\ reconnect' = [reconnect EXCEPT ![d] = FALSE]    \* nobody signals it again
    /\ UNCHANGED <<outq, doomed, net, serverVars, peerVars, left>>

\* dmq_destination_reconnect: a pool worker died before it answered.
RequestReconnect(d) ==
    /\ ~reconnect[d] /\ Fault
    /\ reconnect' = [reconnect EXCEPT ![d] = TRUE]
    /\ UNCHANGED <<conn, cur, cnt, scnt, outq, doomed, net, serverVars, peerVars>>

\* The network: a connection breaks, or its receiver times out.
Break(d) ==
    /\ cur[d] \in Serving(d) \ doomed[d] /\ Fault
    /\ Close(d)
    /\ UNCHANGED <<senderVars, net, serverVars, peerVars>>

SenderLoop(d) ==
    Reconnect(d) \/ Transfer(d) \/ Heartbeat(d) \/ Connect(d) \/ Negotiated(d) \/ SenderStarts(d)

SenderStep(d) == SenderLoop(d) \/ SenderDies(d) \/ RequestReconnect(d) \/ Break(d)

----------------------------------------------------------------------------
(* dmq_receiver_loop *)

SetPs(d, r, s) == ps' = [ps EXCEPT ![d][r] = s]

\* FATAL, or an error while the protocol is in the middle of a message: the
\* process ends and frees its slot.
Refused(r) == SetPs("req", r, "exiting") /\ slot' = [slot EXCEPT !["req"] = None] /\ UNCHANGED known

\* dmq_receiver_start_hook: the node is not known, or its monitor not loaded.
CheckInEarly(r) ==
    /\ ps["req"][r] = "registered" /\ Fault
    /\ Refused(r)
    /\ UNCHANGED <<senderVars, doomed, net, pid, mq, hup, peerVars>>

\* It needs the replier, and nobody may have the bit in the mask.
CheckIn(r) ==
    /\ ps["req"][r] = "registered"
    /\ pid' = r
    /\ IF replier.st = "down" \/ "mask" \in known
       THEN Refused(r)
       ELSE SetPs("req", r, "live") /\ known' = known \cup {"mask"} /\ UNCHANGED slot
    /\ UNCHANGED <<senderVars, doomed, net, mq, hup, peerVars, left>>

\* dmq_receiver_heartbeat_hook
ReceiveHeartbeat(r) ==
    /\ ps["req"][r] = "live" /\ "row" \notin known
    /\ known' = known \cup {"row"}
    /\ UNCHANGED <<senderVars, ps, doomed, net, slot, pid, mq, hup, peerVars, left>>

\* dmq_receiver_recreate_mq: the queue to the subscriber, if it is not good.
WithQueue(r) == IF mq[r].gen = sub.gen THEN mq[r] ELSE [NoQueue EXCEPT !.gen = sub.gen]

Subscribed == sub.pc # "start"

\* dmq_handle_message
HandleMessage(d, r) ==
    /\ ps[d][r] = "live" /\ net[d][r] # <<>>
    /\ net' = [net EXCEPT ![d][r] = Tail(@)]
    /\ LET m == Head(net[d][r])
       IN  IF d = "req"
           THEN /\ replier' = IF replier.st = "up" THEN [replier EXCEPT !.q[r] = Append(@, m)]
                              ELSE replier
                /\ UNCHANGED mq
           ELSE /\ mq' = IF Subscribed
                         THEN [mq EXCEPT ![r] = [WithQueue(r) EXCEPT !.msgs = Append(@, m)]]
                         ELSE mq
                /\ UNCHANGED replier
    /\ UNCHANGED <<senderVars, ps, doomed, slot, pid, known, hup, sub, left>>

\* SIGHUP: dmq_receiver_recreate_mqs
RecreateMqs(r) ==
    /\ r \in hup /\ ps["rep"][r] = "live"
    /\ hup' = hup \ {r}
    /\ mq' = IF Subscribed THEN [mq EXCEPT ![r] = WithQueue(r)] ELSE mq
    /\ UNCHANGED <<senderVars, ps, doomed, net, slot, pid, known, peerVars, left>>

\* The process ends.  dmq_receiver_at_exit frees the slot ...
FreeSlot(d, r) ==
    /\ r \in doomed[d] /\ ps[d][r] # "exiting"
    /\ SetPs(d, r, IF slot[d] = r THEN "exiting" ELSE "free")
    /\ slot' = [slot EXCEPT ![d] = IF @ = r THEN None ELSE @]
    /\ doomed' = [doomed EXCEPT ![d] = @ \ {r}]
    /\ UNCHANGED <<senderVars, net, pid, known, mq, hup, peerVars, left>>

\* Mutant of Detach: the mask keeps the bit.
DetachQuietly(d, r) ==
    /\ ps[d][r] = "exiting"
    /\ SetPs(d, r, "free")
    /\ doomed' = [doomed EXCEPT ![d] = @ \ {r}]
    /\ net' = [net EXCEPT ![d][r] = <<>>]
    /\ hup' = IF d = "rep" THEN hup \ {r} ELSE hup
    /\ IF d = "req"
       THEN /\ pid' = None
            /\ replier' \in {replier, [replier EXCEPT !.q[r] = <<>>]}
            /\ UNCHANGED <<known, mq>>
       ELSE /\ mq' = IF sub.att = r THEN [mq EXCEPT ![r].detached = TRUE]
                     ELSE [mq EXCEPT ![r] = NoQueue]
            /\ UNCHANGED <<pid, known, replier>>
    /\ UNCHANGED <<senderVars, slot, sub, left>>

\* ... calls dmq_receiver_stop_hook, and the queues are detached: who has
\* attached may still read what is there.
Detach(d, r) ==
    /\ ps[d][r] = "exiting"
    /\ SetPs(d, r, "free")
    /\ doomed' = [doomed EXCEPT ![d] = @ \ {r}]
    /\ net' = [net EXCEPT ![d][r] = <<>>]
    /\ hup' = IF d = "rep" THEN hup \ {r} ELSE hup
    /\ IF d = "req"
       THEN /\ pid' = None
            /\ known' = {}
            /\ replier' \in {replier, [replier EXCEPT !.q[r] = <<>>]}
            /\ UNCHANGED mq
       ELSE /\ mq' = IF sub.att = r THEN [mq EXCEPT ![r].detached = TRUE]
                     ELSE [mq EXCEPT ![r] = NoQueue]
            /\ UNCHANGED <<pid, known, replier>>
    /\ UNCHANGED <<senderVars, slot, sub, left>>

ServerStep(d, r) ==
    \/ HandleMessage(d, r) \/ FreeSlot(d, r) \/ Detach(d, r)
    \/ d = "req" /\ CheckIn(r)
    \/ d = "rep" /\ RecreateMqs(r)

----------------------------------------------------------------------------
(* The replier *)

CanPush(p, d) == p.out /\ conn[d] # "Down"

\* check_status_requests: a request is answered; an error of dmq_push_buffer
\* ends the process.
Answer ==
    /\ replier.st = "up"
    /\ \E r \in Server :
        /\ replier.q[r] # <<>>
        /\ IF CanPush(replier, "rep")
           THEN /\ outq' = [outq EXCEPT !["rep"] = Append(@, Head(replier.q[r]))]
                /\ replier' = [replier EXCEPT !.q[r] = Tail(@)]
           ELSE /\ replier' = [replier EXCEPT !.st = "unsubscribed", !.q = NoRequests]
                /\ UNCHANGED outq
    /\ UNCHANGED <<reconnect, conn, cur, cnt, scnt, doomed, net, serverVars, sub, left>>

\* The exit callbacks of the replier: the subscription goes ...
ReplierDies ==
    /\ replier.st = "up" /\ Fault
    /\ replier' = [replier EXCEPT !.st = "unsubscribed", !.q = NoRequests]
    /\ UNCHANGED <<senderVars, doomed, net, serverVars, sub>>

\* ... and ReplierOnExit ends the receivers, and keeps new ones out.
ReplierOnExit ==
    /\ replier.st = "unsubscribed"
    /\ replier' = [replier EXCEPT !.st = "down"]
    /\ doomed' = [doomed EXCEPT !["req"] = @ \cup ({pid} \cap Serving("req"))]
    /\ UNCHANGED <<senderVars, net, serverVars, sub, left>>

\* ReplierMain subscribes and sets replier_loaded.
ReplierStarts ==
    /\ replier.st = "down"
    /\ replier' = [st |-> "up", q |-> NoRequests, out |-> TRUE]
    /\ UNCHANGED <<senderVars, doomed, net, serverVars, sub, left>>

ReplierStep == Answer \/ ReplierOnExit \/ ReplierStarts

----------------------------------------------------------------------------
(* The subscriber *)

subOnly == <<reconnect, conn, cur, cnt, scnt, doomed, net, ps, slot, pid, known, mq, replier>>

\* dmq_stream_subscribe, for the first time in this process.  The process is
\* there when the sender is: the generations are bounded by the faults.
Subscribe ==
    /\ sub.pc = "start" /\ conn["req"] # "Down"
    /\ sub' = [sub EXCEPT !.pc = "attach", !.gen = @ + 1]
    /\ UNCHANGED <<subOnly, outq, hup, left>>

\* dmq_reattach_shm_mq: there is no receiver, or it has a queue for us, or it
\* is asked to create one and we sleep.
Reattach ==
    /\ sub.pc \in {"attach", "reattach"}
    /\ LET r == slot["rep"]
           next == IF sub.pc = "attach" THEN "ready" ELSE "count"
       IN  IF r = None
           THEN sub' = [sub EXCEPT !.pc = next] /\ UNCHANGED hup
           ELSE IF mq[r].gen = sub.gen
           THEN sub' = [sub EXCEPT !.pc = next, !.att = r] /\ UNCHANGED hup
           ELSE hup' = hup \cup {r} /\ UNCHANGED sub
    /\ UNCHANGED <<subOnly, outq, left>>

\* CampaignMyself and CampaignTour: a tour repeats the number of the last vote,
\* if that was for the same members, or takes the next one.
\* dmq_reattach_receivers ...
Begin ==
    /\ sub.pc = "ready" /\ Spend(1)
    /\ \E n \in {sub.num, sub.num + 1} \ {InvalidGenNum} :
        sub' = [sub EXCEPT !.pc = IF sub.att = None THEN "reattach" ELSE "count", !.num = n]
    /\ UNCHANGED <<subOnly, outq, hup>>

\* ... dmq_get_sendconn_cnt ...
GetSendconnCnt ==
    /\ sub.pc = "count"
    /\ sub' = [sub EXCEPT !.pc = "push", !.saved = scnt]
    /\ UNCHANGED <<subOnly, outq, hup, left>>

\* The process ends and another takes its place.
Ended == [sub EXCEPT !.pc = "start", !.att = None, !.saved = DEAD, !.dropped = FALSE,
                        !.out = TRUE]

\* ... and the request is pushed; an error ends the campaigner.
PushRequest ==
    /\ sub.pc = "push"
    /\ IF CanPush(sub, "req")
       THEN /\ sub' = [sub EXCEPT !.pc = "gather"]
            /\ outq' = [outq EXCEPT !["req"] = Append(@, sub.num)]
       ELSE sub' = Ended /\ UNCHANGED outq
    /\ UNCHANGED <<subOnly, hup, left>>

\* CampaignerGatherHook: an answer of an earlier tour of this number will do.
MsgOk(m) == m = sub.num

\* gather, with the answer it waits for.
GatherMessage ==
    /\ sub.pc = "gather" /\ sub.att # None
    /\ LET q == mq[sub.att].msgs
       IN  /\ q # <<>>
           /\ mq' = [mq EXCEPT ![sub.att].msgs = Tail(q)]
           /\ sub' = IF MsgOk(Head(q))
                     THEN [sub EXCEPT !.pc = "ready", !.saved = DEAD, !.dropped = FALSE] ELSE sub
    /\ UNCHANGED <<senderVars, doomed, net, ps, slot, pid, known, hup, replier, left>>

\* dmq_pop_nb finds no queue, or its end: the sender is given up.
GatherDetached ==
    /\ sub.pc = "gather"
    /\ sub.att # None => mq[sub.att].msgs = <<>> /\ mq[sub.att].detached
    /\ sub' = [sub EXCEPT !.pc = "attach", !.att = None, !.saved = DEAD, !.dropped = FALSE]
    /\ UNCHANGED <<subOnly, outq, hup, left>>

\* Nothing came for a while: dmq_purge_failed_participants.
GatherTimeout ==
    /\ sub.pc = "gather" /\ sub.att # None
    /\ mq[sub.att].msgs = <<>> /\ ~mq[sub.att].detached
    /\ sub.saved = DEAD \/ sub.saved # scnt
    /\ sub' = [sub EXCEPT !.pc = "ready", !.saved = DEAD, !.dropped = FALSE]
    /\ UNCHANGED <<subOnly, outq, hup, left>>

SubscriberDies ==
    /\ sub.pc # "start" /\ Fault
    /\ sub' = Ended
    /\ UNCHANGED <<subOnly, outq, hup>>

SubscriberStep ==
    \/ Subscribe \/ Reattach \/ Begin \/ GetSendconnCnt \/ PushRequest \/ GatherMessage
    \/ GatherDetached \/ GatherTimeout

----------------------------------------------------------------------------

Next ==
    \/ \E d \in Dir : SenderStep(d) \/ \E r \in Server : ServerStep(d, r)
    \/ \E r \in Server : CheckInEarly(r) \/ ReceiveHeartbeat(r)
    \/ ReplierStep \/ ReplierDies
    \/ SubscriberStep \/ SubscriberDies

\* Every process goes on.
Fairness ==
    /\ \A d \in Dir : WF_vars(SenderLoop(d)) /\ \A r \in Server : WF_vars(ServerStep(d, r))
    /\ WF_vars(ReplierStep)
    /\ WF_vars(SubscriberStep)

Spec == Init /\ [][Next]_vars /\ Fairness

----------------------------------------------------------------------------

\* The types of the link; the shared counter of a connection never shows more
\* connections than its sender has made.
TypeOK ==
    /\ conn \in [Dir -> {"Idle", "Negotiating", "Active", "Down"}]
    /\ ps \in [Dir -> [Server -> {"free", "registered", "live", "refused", "exiting"}]]
    /\ \A d \in Dir :
        /\ slot[d] \in Server \cup {None} /\ cur[d] \in Server \cup {None}
        /\ conn[d] \in {"Negotiating", "Active"} => cur[d] # None
        /\ doomed[d] \subseteq Alive(d)
    /\ cnt \in Nat /\ scnt \in {DEAD} \cup 1 .. cnt
    /\ known \subseteq {"mask", "row"}
    /\ pid \in Server \cup {None} /\ hup \subseteq Server
    /\ sub.att \in Server \cup {None} /\ sub.num \in 0 .. Budget - left

\* Two processes never serve one sender at the same time, however long the old
\* one takes to die: no message is handled twice.
OneReceiver ==
    \A d \in Dir : \A r, q \in Server :
        {ps[d][r], ps[d][q]} \subseteq {"registered", "live"} => r = q

\* The connectivity a node goes by in elections: a sender counts as connected,
\* or as seeing anybody, only while a receiver serves it or has not told yet
\* that it went; nothing of it outlives its receivers.
GoneIsDisconnected ==
    (\A r \in Server : ps["req"][r] \notin {"live", "exiting"}) => known = {}

\* A receiver that serves is the one its node knows of: its pid is there for
\* the replier to end it, and its bit is set.  state.c says of its check of the
\* bit that "without check old dying receiver might clear bit set by new one".
ServingIsKnown == \A r \in Server : ps["req"][r] = "live" => pid = r /\ "mask" \in known

\* dmq.c of its counters: "it saves from infinite waiting for reply".  A
\* subscriber that attaches or gathers comes to an end of it, unless its answer
\* was dropped between the handshake and the sender's look at it, or the
\* receiver of its requests is one that its node does not know of.
WaitEnds ==
    sub.pc \in {"attach", "reattach", "gather"}
        ~> (sub.pc \in {"start", "ready", "count"} \/ sub.dropped \/ ~ServingIsKnown)
=============================================================================
