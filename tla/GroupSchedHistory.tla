------------------------- MODULE GroupSchedHistory -------------------------
(* The group scheduler with a history variable, to state what its design     *)
(* says about whole scheduling cycles.                                       *)
EXTENDS GroupSched

VARIABLE taken      \* the entries given to cores since the last build

hvars == <<vars, taken>>

HInit == Init /\ taken = <<>>

Picks(c)  == pc[c] = "pick" /\ pc'[c] = "advance"
Builds(c) == pc[c] = "place" /\ pc'[c] = "procs"

History ==
    taken' = IF \E c \in CPU : Builds(c) THEN <<>>
             ELSE IF \E c \in CPU : Picks(c)
             THEN Append(taken, chosen'[CHOOSE c \in CPU : Picks(c)])
             ELSE taken

HNext == Next /\ History

HSpec == HInit /\ [][HNext]_hvars

FairHSpec == HSpec /\ Fairness

(* partA.design.txt, requirements 2 and 3: a schedule is thrown away only    *)
(* when each of its entries was given to a core, in order and once.          *)
EachEntryGivenOnce ==
    [][(\E c \in CPU : Builds(c)) => taken = processschedule]_hvars
=============================================================================
