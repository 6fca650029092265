---------------------------- MODULE AtomicStore ----------------------------
(* What the log promises the file system (a3/xv6-riscv/kernel/log.c): system *)
(* calls write blocks in memory, and all that they wrote reaches the store   *)
(* in one step, when none of them is active; a crash loses what did not.     *)
(* The call that ends last returns only after that.                          *)
CONSTANTS Proc, Block, Data

VARIABLES
    store,      \* what a restart finds
    mem,        \* what the running system reads
    active,     \* the processes between begin_op() and end_op()
    ending      \* the process whose end_op() commits, as a set

vars == <<store, mem, active, ending>>

Init ==
    /\ store \in [Block -> Data]
    /\ mem = store
    /\ active = {}
    /\ ending = {}

Begin(p) ==
    /\ ending = {} /\ p \notin active
    /\ active' = active \cup {p}
    /\ UNCHANGED <<store, mem, ending>>

Write(p, b, v) ==
    /\ p \in active
    /\ mem' = [mem EXCEPT ![b] = v]
    /\ UNCHANGED <<store, active, ending>>

End(p) ==
    /\ p \in active
    /\ active' = active \ {p}
    /\ ending' = IF active' = {} THEN {p} ELSE {}
    /\ UNCHANGED <<store, mem>>

Commit ==
    /\ ending # {}
    /\ store' = mem
    /\ UNCHANGED <<mem, active, ending>>

Return ==
    /\ ending # {} /\ store = mem
    /\ ending' = {}
    /\ UNCHANGED <<store, mem, active>>

Crash ==
    /\ mem' = store
    /\ active' = {}
    /\ ending' = {}
    /\ UNCHANGED store

Next ==
    \/ \E p \in Proc :
          \/ Begin(p) \/ End(p)
          \/ \E b \in Block, v \in Data : Write(p, b, v)
    \/ Commit \/ Return \/ Crash

Spec == Init /\ [][Next]_vars
=============================================================================
