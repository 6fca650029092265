------------------------------ MODULE ProcLife ------------------------------
(* The life of processes in xv6 (a3/xv6-riscv/kernel/proc.c): fork(),        *)
(* exit(), wait(), kill() and what passes the children of a process that     *)
(* ends to init.  Spinlocks are those of SleepWakeup; a section under one    *)
(* p->lock that takes no other lock is one step.                             *)
EXTENDS SleepWakeup

CONSTANTS
    MaxPid,     \* bounds of this model: process ids given out,
    MaxKilled   \* and ids that kill() is called with

ProcLifeAssumption ==
    /\ Proc = 0..(Cardinality(Proc) - 1)    \* the slots of proc[]
    /\ Lock = {"wait_lock"}
    /\ MaxPid \in Nat \ {0} /\ MaxKilled \in Nat

initproc == 0

VARIABLES
    pid, parent,
    nextpid,
    pc,         \* per process, where it is in its call
    child,      \* of fork(), the new process
    scan,       \* the next slot of a loop over proc[]
    havekids,   \* of wait()
    asked       \* the ids kill() was called with

table == <<pid, parent, nextpid>>
locals == <<child, scan, havekids>>
vars == <<sleepVars, table, pc, locals, asked>>

Init ==
    /\ state = [p \in Proc |-> IF p = initproc THEN "RUNNABLE" ELSE "UNUSED"]
    /\ pid = [p \in Proc |-> IF p = initproc THEN 1 ELSE 0]
    /\ parent = [p \in Proc |-> Free]
    /\ chan = [p \in Proc |-> Free]
    /\ killed = [p \in Proc |-> FALSE]
    /\ plock = [p \in Proc |-> Free]
    /\ held = [l \in Lock |-> Free]
    /\ nextpid = 2
    /\ pc = [p \in Proc |-> IF p = initproc THEN "user" ELSE "off"]
    /\ child = [p \in Proc |-> p]
    /\ scan = [p \in Proc |-> 0]
    /\ havekids = [p \in Proc |-> FALSE]
    /\ asked = {}

At(p, where) == state[p] = "RUNNING" /\ pc[p] = where
Go(p, where) == pc' = [pc EXCEPT ![p] = where]

(* It comes to a system call: usertrap() ends a killed process before it.    *)
Calls(p) == At(p, "user") /\ ~killed[p]

(***************************************************************************)
(* fork().                                                                 *)
(***************************************************************************)

(* Mutant: the next id stays the same.                                       *)
allocprocSamePid(p, np) ==
    /\ Calls(p) /\ nextpid <= MaxPid
    /\ state[np] = "UNUSED" /\ plock[np] = Free
    /\ state' = [state EXCEPT ![np] = "USED"]
    /\ pid' = [pid EXCEPT ![np] = nextpid]
    /\ child' = [child EXCEPT ![p] = np]
    /\ Go(p, "fork")
    /\ UNCHANGED <<chan, killed, plock, held, parent, nextpid, scan, havekids,
                   asked>>

(* allocproc() and what fork() does with the lock of the new process.        *)
allocproc(p, np) ==
    /\ Calls(p) /\ nextpid <= MaxPid
    /\ state[np] = "UNUSED" /\ plock[np] = Free
    /\ state' = [state EXCEPT ![np] = "USED"]
    /\ pid' = [pid EXCEPT ![np] = nextpid]
    /\ nextpid' = nextpid + 1
    /\ child' = [child EXCEPT ![p] = np]
    /\ Go(p, "fork")
    /\ UNCHANGED <<chan, killed, plock, held, parent, scan, havekids, asked>>

SetParent(p) ==
    /\ At(p, "fork")
    /\ held["wait_lock"] = Free
    /\ parent' = [parent EXCEPT ![child[p]] = p]
    /\ Go(p, "forked")
    /\ UNCHANGED <<sleepVars, pid, nextpid, locals, asked>>

StartChild(p) ==
    /\ At(p, "forked") /\ plock[child[p]] = Free
    /\ state' = [state EXCEPT ![child[p]] = "RUNNABLE"]
    /\ pc' = [pc EXCEPT ![p] = "user", ![child[p]] = "user"]
    /\ UNCHANGED <<chan, killed, plock, held, table, locals, asked>>

(***************************************************************************)
(* exit().                                                                 *)
(***************************************************************************)

(* The call itself, or the end of a killed process.  Init does not exit.     *)
ExitLocks(p) ==
    /\ At(p, "user") /\ p # initproc
    /\ acquire(p, "wait_lock")
    /\ scan' = [scan EXCEPT ![p] = 0]
    /\ Go(p, "reparent")
    /\ UNCHANGED <<state, chan, killed, plock, table, child, havekids, asked>>

(* Mutant: the children keep their parent.                                   *)
reparentNobody(p) ==
    /\ At(p, "reparent") /\ scan[p] \in Proc
    /\ scan' = [scan EXCEPT ![p] = @ + 1]
    /\ UNCHANGED <<sleepVars, table, pc, child, havekids, asked>>

reparent(p) ==
    /\ At(p, "reparent") /\ scan[p] \in Proc
    /\ IF parent[scan[p]] = p
       THEN /\ parent' = [parent EXCEPT ![scan[p]] = initproc]
            /\ wakeup(p, initproc)
       ELSE UNCHANGED <<parent, state>>
    /\ scan' = [scan EXCEPT ![p] = @ + 1]
    /\ UNCHANGED <<chan, killed, plock, held, pid, nextpid, pc, child,
                   havekids, asked>>

(* Mutant: the parent is not woken.                                          *)
WakeParentSilent(p) ==
    /\ At(p, "reparent") /\ scan[p] \notin Proc
    /\ Go(p, "exit")
    /\ UNCHANGED <<sleepVars, table, locals, asked>>

WakeParent(p) ==
    /\ At(p, "reparent") /\ scan[p] \notin Proc
    /\ wakeup(p, parent[p])
    /\ Go(p, "exit")
    /\ UNCHANGED <<chan, killed, plock, held, table, locals, asked>>

(* It keeps its own lock until the scheduler runs on this core.              *)
BecomeZombie(p) ==
    /\ At(p, "exit") /\ plock[p] = Free
    /\ plock' = [plock EXCEPT ![p] = p]
    /\ state' = [state EXCEPT ![p] = "ZOMBIE"]
    /\ release(p, "wait_lock")
    /\ Go(p, "switch")
    /\ UNCHANGED <<chan, killed, table, locals, asked>>

SwitchAway(p) ==
    /\ pc[p] = "switch" /\ plock[p] = p
    /\ plock' = [plock EXCEPT ![p] = Free]
    /\ Go(p, "off")
    /\ UNCHANGED <<state, chan, killed, held, table, locals, asked>>

(***************************************************************************)
(* wait().                                                                 *)
(***************************************************************************)

(* Init calls it while it has a child: its shell is one.                     *)
WaitLocks(p) ==
    /\ \/ Calls(p) /\ (p = initproc => \E q \in Proc : parent[q] = p)
       \/ At(p, "woken")
    /\ acquire(p, "wait_lock")
    /\ scan' = [scan EXCEPT ![p] = 0]
    /\ havekids' = [havekids EXCEPT ![p] = FALSE]
    /\ Go(p, "wait")
    /\ UNCHANGED <<state, chan, killed, plock, table, child, asked>>

NextSlot(p) == scan' = [scan EXCEPT ![p] = @ + 1]
Looks(p) == At(p, "wait") /\ scan[p] \in Proc

SkipSlot(p) ==
    /\ Looks(p) /\ parent[scan[p]] # p
    /\ NextSlot(p)
    /\ UNCHANGED <<sleepVars, table, pc, child, havekids, asked>>

SeeChild(p) ==
    /\ Looks(p) /\ parent[scan[p]] = p
    /\ plock[scan[p]] = Free /\ state[scan[p]] # "ZOMBIE"
    /\ havekids' = [havekids EXCEPT ![p] = TRUE]
    /\ NextSlot(p)
    /\ UNCHANGED <<sleepVars, table, pc, child, asked>>

(* Mutant: the lock of the child is not taken.                               *)
ReapUnlocked(p) ==
    /\ Looks(p) /\ parent[scan[p]] = p
    /\ state[scan[p]] = "ZOMBIE"
    /\ state' = [state EXCEPT ![scan[p]] = "UNUSED"]
    /\ chan' = [chan EXCEPT ![scan[p]] = Free]
    /\ killed' = [killed EXCEPT ![scan[p]] = FALSE]
    /\ pid' = [pid EXCEPT ![scan[p]] = 0]
    /\ parent' = [parent EXCEPT ![scan[p]] = Free]
    /\ release(p, "wait_lock")
    /\ Go(p, "user")
    /\ UNCHANGED <<plock, nextpid, locals, asked>>

(* freeproc() of a child that ended.                                         *)
Reap(p) ==
    /\ Looks(p) /\ parent[scan[p]] = p
    /\ plock[scan[p]] = Free /\ state[scan[p]] = "ZOMBIE"
    /\ state' = [state EXCEPT ![scan[p]] = "UNUSED"]
    /\ chan' = [chan EXCEPT ![scan[p]] = Free]
    /\ killed' = [killed EXCEPT ![scan[p]] = FALSE]
    /\ pid' = [pid EXCEPT ![scan[p]] = 0]
    /\ parent' = [parent EXCEPT ![scan[p]] = Free]
    /\ release(p, "wait_lock")
    /\ Go(p, "user")
    /\ UNCHANGED <<plock, nextpid, locals, asked>>

(* copyout() of its status fails: the call does, and the child stays.  Init  *)
(* asks for no status.                                                       *)
ReapFails(p) ==
    /\ Looks(p) /\ parent[scan[p]] = p /\ p # initproc
    /\ plock[scan[p]] = Free /\ state[scan[p]] = "ZOMBIE"
    /\ release(p, "wait_lock")
    /\ Go(p, "user")
    /\ UNCHANGED <<state, chan, killed, plock, table, locals, asked>>

Scanned(p) == At(p, "wait") /\ scan[p] \notin Proc

NoReasonToWait(p) ==
    /\ Scanned(p) /\ (~havekids[p] \/ killed[p])
    /\ havekids[p] => plock[p] = Free
    /\ release(p, "wait_lock")
    /\ Go(p, "user")
    /\ UNCHANGED <<state, chan, killed, plock, table, locals, asked>>

(* killed() said no.                                                         *)
DecideToSleep(p) ==
    /\ Scanned(p) /\ havekids[p] /\ ~killed[p] /\ plock[p] = Free
    /\ Go(p, "sleep")
    /\ UNCHANGED <<sleepVars, table, locals, asked>>

GoToSleep(p) ==
    /\ At(p, "sleep")
    /\ GiveUp(p, "wait_lock")
    /\ Go(p, "falls asleep")
    /\ UNCHANGED <<table, locals, asked>>

WaitSleeps(p) ==
    /\ At(p, "falls asleep")
    /\ FallAsleep(p, p)
    /\ Go(p, "woken")
    /\ UNCHANGED <<table, locals, asked>>

(***************************************************************************)
(* kill(), and the scheduler.                                              *)
(***************************************************************************)

(* kill(n) for the id of a process, or for 0, which unused slots have.  Init *)
(* is spared.                                                                *)
kill(p, q) ==
    /\ Calls(p) /\ q # initproc
    /\ ~killed[q] /\ Cardinality(asked \cup {pid[q]}) <= MaxKilled
    /\ Kill(q)
    /\ asked' = asked \cup {pid[q]}
    /\ UNCHANGED <<table, pc, locals>>

scheduler(p) ==
    RunAgain(p) /\ UNCHANGED <<table, pc, locals, asked>>

Waits(p) ==
    \/ SkipSlot(p) \/ SeeChild(p) \/ Reap(p) \/ ReapFails(p)
    \/ NoReasonToWait(p) \/ DecideToSleep(p) \/ GoToSleep(p) \/ WaitSleeps(p)

Exits(p) ==
    reparent(p) \/ WakeParent(p) \/ BecomeZombie(p) \/ SwitchAway(p)

Next ==
    \E p \in Proc :
        \/ \E q \in Proc : allocproc(p, q) \/ kill(p, q)
        \/ SetParent(p) \/ StartChild(p)
        \/ ExitLocks(p) \/ Exits(p)
        \/ WaitLocks(p) \/ Waits(p)
        \/ scheduler(p)

Spec == Init /\ [][Next]_vars

(* A process goes on in the kernel and gets a spinlock that is free again    *)
(* and again; a killed one exits; init waits.                                *)
MustGoOn(p) ==
    \/ SetParent(p) \/ StartChild(p) \/ Exits(p) \/ Waits(p) \/ scheduler(p)
    \/ (p = initproc \/ pc[p] = "woken") /\ WaitLocks(p)
    \/ killed[p] /\ ExitLocks(p)

Fairness == \A p \in Proc : SF_vars(MustGoOn(p))
FairSpec == Spec /\ Fairness

(***************************************************************************)
(* Properties.                                                             *)
(***************************************************************************)

(* Every variable has its type.                                              *)
TypeOK ==
    /\ state \in [Proc -> {"UNUSED", "USED", "RUNNABLE", "RUNNING", "SLEEPING",
                           "ZOMBIE"}]
    /\ chan \in [Proc -> Proc \cup {Free}]
    /\ parent \in [Proc -> Proc \cup {Free}]
    /\ plock \in [Proc -> Proc \cup {Free}]
    /\ held \in [Lock -> Proc \cup {Free}]
    /\ pid \in [Proc -> 0..MaxPid]
    /\ scan \in [Proc -> 0..Cardinality(Proc)]

Lives == {"RUNNABLE", "RUNNING", "SLEEPING"}

(* A process that lives or waits to be reaped has a parent that can reap it: *)
(* children are passed to init before their parent is gone, and no fork()    *)
(* adds one behind the back of exit().                                       *)
EveryoneHasParent ==
    held["wait_lock"] = Free =>
        \A q \in Proc \ {initproc} :
            state[q] \in Lives \cup {"ZOMBIE"} =>
                parent[q] # Free /\ state[parent[q]] \in Lives

(* A slot is free only if nothing runs on its kernel stack.                  *)
UnusedIsOff ==
    \A q \in Proc : state[q] = "UNUSED" => pc[q] = "off" /\ plock[q] = Free

(* Two processes do not have the same id, and an unused slot has none.       *)
PidsDiffer ==
    \A q, r \in Proc :
        /\ q # r /\ pid[q] = pid[r] => pid[q] = 0
        /\ pid[q] = 0 <=> state[q] = "UNUSED"

(* No parent sleeps in wait() while a child of it waits to be reaped.        *)
NoZombieMissed ==
    held["wait_lock"] = Free =>
        \A p \in Proc :
            state[p] = "SLEEPING" \/ pc[p] = "falls asleep" =>
                ~\E q \in Proc : parent[q] = p /\ state[q] = "ZOMBIE"

(* What init has to reap is reaped.                                          *)
OrphansReaped ==
    \A q \in Proc :
        state[q] = "ZOMBIE" /\ parent[q] = initproc ~> state[q] = "UNUSED"

(* A process is killed only if kill() was called with its id.                *)
KilledWasAsked ==
    \A q \in Proc :
        state[q] # "UNUSED" /\ killed[q] => pid[q] \in asked

(* A killed process does not sleep in wait().                                *)
KilledIsWoken == \A q \in Proc : killed[q] => state[q] # "SLEEPING"
=============================================================================
