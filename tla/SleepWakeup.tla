---------------------------- MODULE SleepWakeup -----------------------------
(* sleep(), wakeup() and kill() of xv6 (a3/xv6-riscv/kernel/proc.c) under    *)
(* the spinlocks they take.  A spinlock that is held is a value of the       *)
(* state; who wants it waits for it to be free.  Any process that may run is *)
(* picked by some core.                                                      *)
EXTENDS Naturals, FiniteSets

CONSTANTS
    Proc,
    Lock,       \* the locks that are given up while asleep
    Free        \* nobody: not a process and not a channel

SleepWakeupAssumption == Free \notin Proc

VARIABLES
    state, chan, killed,    \* struct proc
    plock,                  \* who holds the p->lock of each process
    held                    \* who holds each lock

sleepVars == <<state, chan, killed, plock, held>>

acquire(p, l) == held[l] = Free /\ held' = [held EXCEPT ![l] = p]
release(p, l) == held[l] = p /\ held' = [held EXCEPT ![l] = Free]

(* acquire(&p->lock), and give up the lock of the caller.                    *)
(* Mutant: the lock is given up before p->lock is taken.                     *)
GiveUpFirst(p, l) ==
    /\ release(p, l)
    /\ UNCHANGED <<state, chan, killed, plock>>

GiveUp(p, l) ==
    /\ plock[p] = Free
    /\ plock' = [plock EXCEPT ![p] = p]
    /\ release(p, l)
    /\ UNCHANGED <<state, chan, killed>>

(* Asleep on c: the scheduler, that runs instead, frees p->lock.             *)
FallAsleep(p, c) ==
    /\ plock[p] \in {p, Free}
    /\ state' = [state EXCEPT ![p] = "SLEEPING"]
    /\ chan' = [chan EXCEPT ![p] = c]
    /\ plock' = [plock EXCEPT ![p] = Free]
    /\ UNCHANGED <<killed, held>>

(* A core picks p, and p tidies up.                                          *)
RunAgain(p) ==
    /\ state[p] = "RUNNABLE" /\ plock[p] = Free
    /\ state' = [state EXCEPT ![p] = "RUNNING"]
    /\ chan' = [chan EXCEPT ![p] = Free]
    /\ UNCHANGED <<killed, plock, held>>

Sleeps(q, c) == state[q] = "SLEEPING" /\ chan[q] = c

(* wakeup(c) called by p takes every p->lock on its way.  It is one step, as *)
(* its callers hold the lock without which nobody falls asleep on c.         *)
CanWake(p) == \A q \in Proc \ {p} : plock[q] = Free
Awake(p, c) ==
    [q \in Proc |-> IF q # p /\ Sleeps(q, c) THEN "RUNNABLE" ELSE state[q]]
wakeup(p, c) == CanWake(p) /\ state' = Awake(p, c)

(* What kill() does to the process it found.                                 *)
Kill(q) ==
    /\ plock[q] = Free
    /\ killed' = [killed EXCEPT ![q] = TRUE]
    /\ state' = [state EXCEPT ![q] =
                    IF @ = "SLEEPING" THEN "RUNNABLE" ELSE @]
    /\ UNCHANGED <<chan, plock, held>>
=============================================================================
