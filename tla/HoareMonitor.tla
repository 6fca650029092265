---------------------------- MODULE HoareMonitor ----------------------------
(* What a monitor with signal-and-wait promises its threads, for one         *)
(* condition: at most one of them is inside, whoever leaves or waits hands   *)
(* the monitor over, to a thread that signalled before one that enters, and  *)
(* a signal gives it to a waiting thread at once.                            *)
CONSTANT Thread

VARIABLES
    inside,     \* the thread in the monitor, as a set
    entering, urgent, waiting

vars == <<inside, entering, urgent, waiting>>

Init ==
    /\ inside = {}
    /\ entering = {}
    /\ urgent = {}
    /\ waiting = {}

Idle(t) == t \notin inside \cup entering \cup urgent \cup waiting

Enter(t) ==
    /\ Idle(t)
    /\ IF inside = {}
       THEN entering = {} /\ urgent = {} /\ inside' = {t} /\ UNCHANGED entering
       ELSE entering' = entering \cup {t} /\ UNCHANGED inside
    /\ UNCHANGED <<urgent, waiting>>

HandOn ==
    \/ \E u \in urgent :
          /\ inside' = {u}
          /\ urgent' = urgent \ {u}
          /\ UNCHANGED entering
    \/ \E e \in entering :
          /\ urgent = {}
          /\ inside' = {e}
          /\ entering' = entering \ {e}
          /\ UNCHANGED urgent
    \/ /\ urgent = {} /\ entering = {}
       /\ inside' = {}
       /\ UNCHANGED <<entering, urgent>>

Leave(t) == inside = {t} /\ HandOn /\ UNCHANGED waiting

Wait(t) == inside = {t} /\ HandOn /\ waiting' = waiting \cup {t}

Signal(t) ==
    /\ inside = {t}
    /\ \E w \in waiting :
          /\ inside' = {w}
          /\ waiting' = waiting \ {w}
          /\ urgent' = urgent \cup {t}
    /\ UNCHANGED entering

Next == \E t \in Thread : Enter(t) \/ Leave(t) \/ Wait(t) \/ Signal(t)

Spec == Init /\ [][Next]_vars
=============================================================================
