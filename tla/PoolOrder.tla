------------------------------ MODULE PoolOrder ------------------------------
(***************************************************************************)
(* What the apply pool of a sender promises, whatever its queue, its list  *)
(* and its workers do: every message is applied once, the ordered ones in  *)
(* their place, and a restart goes back to the last syncpoint and no       *)
(* further.                                                                *)
(***************************************************************************)
EXTENDS Integers, Sequences

CONSTANT Stream    \* the messages: a sequence of records with a kind

VARIABLES
    st,      \* st[i]: "new", "done" or, when its worker died, "lost"
    floor    \* the last syncpoint registered

vars == <<st, floor>>

Msg == DOMAIN Stream

Init == st = [i \in Msg |-> "new"] /\ floor = 0

\* The receiver does these itself: nothing after them starts before them.
Own(i) == Stream[i].kind \in {"S", "V", "B"}

\* These wait for all that was sent before them.
Ordered(i) == Stream[i].kind \in {"S", "V", "AP"}

Over(i) == st[i] # "new"

\* Message i gets its turn.
Turn(i) ==
    /\ st[i] = "new"
    /\ \A j \in 1 .. i - 1 : Own(j) => Over(j)

\* Message i is applied; a syncpoint is registered.
Apply(i) ==
    /\ Turn(i)
    /\ Ordered(i) => \A j \in 1 .. i - 1 : Over(j)
    /\ st' = [st EXCEPT ![i] = "done"]
    /\ floor' = IF Stream[i].kind = "S" THEN i ELSE floor

\* The worker of message i dies before it is applied.
Lose(i) ==
    /\ Turn(i) /\ ~Own(i)
    /\ st' = [st EXCEPT ![i] = "lost"]
    /\ UNCHANGED floor

\* What is after the syncpoint comes again, unless it is logged.
Restart ==
    /\ \E kept \in SUBSET {i \in Msg : st[i] = "done"} :
          st' = [i \in Msg |-> IF i <= floor \/ i \in kept THEN st[i] ELSE "new"]
    /\ UNCHANGED floor

Next == Restart \/ \E i \in Msg : Apply(i) \/ Lose(i)

Spec == Init /\ [][Next]_vars
=============================================================================
