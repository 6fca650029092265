------------------------------ MODULE CpuAlloc ------------------------------
(* What the process table and the schedulers of the cores promise together   *)
(* (a3/xv6-riscv/kernel/proc.c), without a lock or a schedule: which process *)
(* may be on which core, and when its slot of proc[] may change hands.       *)
EXTENDS Integers

CONSTANTS CPU, Nobody, NPROC

VARIABLES state, core

Proc == 1..NPROC

Init ==
    /\ state = [p \in Proc |-> IF p = 1 THEN "RUNNABLE" ELSE "UNUSED"]
    /\ core = [c \in CPU |-> Nobody]

(* No core has p: its registers are saved and its kernel stack is unused.    *)
Off(p) == \A c \in CPU : core[c] # p

Become(p, from, to) == state[p] = from /\ state' = [state EXCEPT ![p] = to]

(* A free core starts p.                                                     *)
Start(c, p) ==
    /\ core[c] = Nobody
    /\ Off(p)
    /\ Become(p, "RUNNABLE", "RUNNING")
    /\ core' = [core EXCEPT ![c] = p]

(* The process on a core gives it up; it still occupies the core.            *)
Leave(c, s) ==
    /\ core[c] # Nobody
    /\ Become(core[c], "RUNNING", s)
    /\ UNCHANGED core

(* The core has switched away from a process that gave it up.                *)
Free(c) ==
    /\ core[c] # Nobody
    /\ state[core[c]] # "RUNNING"
    /\ core' = [core EXCEPT ![c] = Nobody]
    /\ UNCHANGED state

Create(p)  == Become(p, "UNUSED", "USED") /\ Off(p) /\ UNCHANGED core
Publish(p) == Become(p, "USED", "RUNNABLE") /\ UNCHANGED core
Wake(p)    == Become(p, "SLEEPING", "RUNNABLE") /\ Off(p) /\ UNCHANGED core
Bury(p)    == Become(p, "ZOMBIE", "UNUSED") /\ Off(p) /\ UNCHANGED core

Next ==
    \/ \E c \in CPU :
          \/ \E p \in Proc : Start(c, p)
          \/ \E s \in {"RUNNABLE", "SLEEPING", "ZOMBIE"} : Leave(c, s)
          \/ Free(c)
    \/ \E p \in Proc : Create(p) \/ Publish(p) \/ Wake(p) \/ Bury(p)

Spec == Init /\ [][Next]_<<state, core>>
=============================================================================
