----------------------------- MODULE SleepLock ------------------------------
(* The sleep-locks of xv6 (a3/xv6-riscv/kernel/sleeplock.c), and processes   *)
(* that take one again and again.                                            *)
EXTENDS SleepWakeup

SleepLockAssumption == Lock = {"lk"}

VARIABLES
    locked, pid,    \* struct sleeplock; pid is the process itself, or Free
    pc

vars == <<sleepVars, locked, pid, pc>>

initsleeplock ==
    /\ state = [p \in Proc |-> "RUNNING"]
    /\ chan = [p \in Proc |-> Free]
    /\ killed = [p \in Proc |-> FALSE]
    /\ plock = [p \in Proc |-> Free]
    /\ held = [l \in Lock |-> Free]
    /\ locked = FALSE
    /\ pid = Free
    /\ pc = [p \in Proc |-> "out"]

At(p, where) == state[p] = "RUNNING" /\ pc[p] = where
Go(p, where) == pc' = [pc EXCEPT ![p] = where]

(* acquire(&lk->lk), at first, at the end of sleep() and to release.         *)
TakeLk(p, from, to) ==
    /\ At(p, from)
    /\ acquire(p, "lk")
    /\ Go(p, to)
    /\ UNCHANGED <<state, chan, killed, plock, locked, pid>>

(* Mutant: taken whoever has it.                                             *)
TakeAnyway(p) ==
    /\ At(p, "test")
    /\ locked' = TRUE /\ pid' = p
    /\ release(p, "lk")
    /\ Go(p, "in")
    /\ UNCHANGED <<state, chan, killed, plock>>

Take(p) ==
    /\ At(p, "test") /\ ~locked
    /\ locked' = TRUE /\ pid' = p
    /\ release(p, "lk")
    /\ Go(p, "in")
    /\ UNCHANGED <<state, chan, killed, plock>>

WaitForIt(p) ==
    /\ At(p, "test") /\ locked
    /\ GiveUp(p, "lk")
    /\ Go(p, "falls asleep")
    /\ UNCHANGED <<locked, pid>>

SleepOnIt(p) ==
    /\ At(p, "falls asleep")
    /\ FallAsleep(p, "lk")
    /\ Go(p, "asleep")
    /\ UNCHANGED <<locked, pid>>

Wakes(p) ==
    RunAgain(p) /\ UNCHANGED <<locked, pid, pc>>

(* Mutant: nobody is woken.                                                  *)
releasesleepSilent(p) ==
    /\ At(p, "releases")
    /\ locked' = FALSE /\ pid' = Free
    /\ release(p, "lk")
    /\ Go(p, "out")
    /\ UNCHANGED <<state, chan, killed, plock>>

releasesleep(p) ==
    /\ At(p, "releases")
    /\ locked' = FALSE /\ pid' = Free
    /\ wakeup(p, "lk")
    /\ release(p, "lk")
    /\ Go(p, "out")
    /\ UNCHANGED <<chan, killed, plock>>

(* A killed process wakes, and waits again: acquiresleep() does not look.    *)
Killed(q) ==
    /\ ~killed[q]
    /\ Kill(q)
    /\ UNCHANGED <<locked, pid, pc>>

Steps(p) ==
    \/ TakeLk(p, "asleep", "test") \/ Take(p)
    \/ WaitForIt(p) \/ SleepOnIt(p) \/ Wakes(p)
    \/ TakeLk(p, "in", "releases") \/ releasesleep(p)

Next ==
    \E p \in Proc : TakeLk(p, "out", "test") \/ Steps(p) \/ Killed(p)

Spec == initsleeplock /\ [][Next]_vars

(* A process in acquiresleep() or with the lock goes on, and gets a spinlock *)
(* that is free again and again.                                             *)
Fairness == \A p \in Proc : SF_vars(Steps(p))
FairSpec == Spec /\ Fairness

(***************************************************************************)
(* Properties.                                                             *)
(***************************************************************************)

(* Every variable has its type, and pid is set while the lock is.            *)
TypeOK ==
    /\ state \in [Proc -> {"RUNNING", "RUNNABLE", "SLEEPING"}]
    /\ chan \in [Proc -> {"lk", Free}]
    /\ plock \in [Proc -> Proc \cup {Free}]
    /\ held \in [Lock -> Proc \cup {Free}]
    /\ locked \in BOOLEAN
    /\ pid \in Proc \cup {Free} /\ (locked <=> pid # Free)

(* One process has the sleep-lock, and it is marked as the one, whoever is   *)
(* woken or killed meanwhile.                                                *)
OneHolder ==
    LET inside == {p \in Proc : pc[p] \in {"in", "releases"}}
    IN  IF locked THEN inside = {pid} ELSE inside = {}

(* Nobody sleeps for a sleep-lock that is free.                              *)
NoSleeperMissed ==
    held["lk"] = Free /\ ~locked =>
        \A p \in Proc : state[p] # "SLEEPING" /\ pc[p] # "falls asleep"

(* Who sleeps for the lock runs again.                                       *)
SleeperWakes ==
    \A p \in Proc : state[p] = "SLEEPING" ~> state[p] = "RUNNING"
=============================================================================
