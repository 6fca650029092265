----------------------------- MODULE SemMonitor -----------------------------
(* The monitor of assignment 2 (a2_phase2/Monitor.c): signal-and-wait made   *)
(* of semaphores.  Another thread may run at every P() and V(); what is in   *)
(* between is one step.                                                      *)
EXTENDS Semaphore, CursorList, FiniteSets

CONSTANTS Thread, Cond

SemMonitorAssumption == Cond \cap {"mutex", "urgent"} = {}

VARIABLES
    monList,        \* per condition, the number of waiting threads
    condVar,        \* per condition, the list of waiting threads
    urgentNum,
    stage,          \* per thread, how far its call of the monitor is
    on              \* per thread, the condition of its last call

monitor == <<semaphore, monList, condVar, urgentNum, stage, on>>

MonInit(anyCond) ==
    /\ semaphore = [s \in Cond \cup {"mutex", "urgent"} |->
                       NewSem(IF s = "mutex" THEN 1 ELSE 0)]
    /\ monList = [c \in Cond |-> 0]
    /\ condVar = [c \in Cond |-> EmptyList]
    /\ urgentNum = 0
    /\ stage = [t \in Thread |-> "out"]
    /\ on = [t \in Thread |-> anyCond]

Becomes(t, s) == stage' = [stage EXCEPT ![t] = s]
At(t, s) == stage[t] = s /\ ~Blocked(t)
Inside(t) == At(t, "inside")

(* Mutant: the mutex is given up even if a thread that signalled waits.      *)
HandOnMutexOnly == V("mutex")

HandOn == IF urgentNum > 0 THEN V("urgent") ELSE V("mutex")

(* ListRemove() does nothing to an empty list.                               *)
Removed(l) == IF IsEmpty(l) THEN l ELSE ListRemove(l)

MonEnter(t) ==
    /\ At(t, "out")
    /\ P(t, "mutex")
    /\ Becomes(t, "inside")
    /\ UNCHANGED <<monList, condVar, urgentNum, on>>

MonLeave(t) ==
    /\ Inside(t)
    /\ HandOn
    /\ Becomes(t, "out")
    /\ UNCHANGED <<monList, condVar, urgentNum, on>>

(* MonWait(), up to V(): the monitor is handed on.                           *)
MonWait(t, c) ==
    /\ Inside(t)
    /\ condVar' = [condVar EXCEPT ![c] = ListAppend(@, t)]
    /\ monList' = [monList EXCEPT ![c] = @ + 1]
    /\ HandOn
    /\ on' = [on EXCEPT ![t] = c]
    /\ Becomes(t, "wait")
    /\ UNCHANGED urgentNum

WaitP(t) ==
    /\ At(t, "wait")
    /\ P(t, on[t])
    /\ Becomes(t, "woken")
    /\ UNCHANGED <<monList, condVar, urgentNum, on>>

(* Mutant: the number of waiting threads is not lowered.                     *)
WaitReturnsCounted(t) ==
    /\ At(t, "woken")
    /\ condVar' = [condVar EXCEPT ![on[t]] = Removed(@)]
    /\ Becomes(t, "inside")
    /\ UNCHANGED <<semaphore, monList, urgentNum, on>>

WaitReturns(t) ==
    /\ At(t, "woken")
    /\ condVar' = [condVar EXCEPT ![on[t]] = Removed(@)]
    /\ monList' = [monList EXCEPT ![on[t]] = @ - 1]
    /\ Becomes(t, "inside")
    /\ UNCHANGED <<semaphore, urgentNum, on>>

(* MonSignal() with a thread waiting, up to V(); else it does nothing.       *)
MonSignal(t, c) ==
    /\ Inside(t) /\ monList[c] > 0
    /\ urgentNum' = urgentNum + 1
    /\ condVar' = [condVar EXCEPT ![c] = Removed(@)]
    /\ V(c)
    /\ on' = [on EXCEPT ![t] = c]
    /\ Becomes(t, "signal")
    /\ UNCHANGED monList

(* Mutant: who signals does not wait until the woken thread left.            *)
SignalGoesOn(t) ==
    /\ At(t, "signal")
    /\ Becomes(t, "urgent")
    /\ UNCHANGED <<semaphore, monList, condVar, urgentNum, on>>

SignalP(t) ==
    /\ At(t, "signal")
    /\ P(t, "urgent")
    /\ Becomes(t, "urgent")
    /\ UNCHANGED <<monList, condVar, urgentNum, on>>

(* Mutant: urgentNum is not lowered.                                         *)
SignalReturnsCounted(t) ==
    /\ At(t, "urgent")
    /\ Becomes(t, "inside")
    /\ UNCHANGED <<semaphore, monList, condVar, urgentNum, on>>

SignalReturns(t) ==
    /\ At(t, "urgent")
    /\ urgentNum' = urgentNum - 1
    /\ Becomes(t, "inside")
    /\ UNCHANGED <<semaphore, monList, condVar, on>>

(* The steps of a thread within MonWait() and MonSignal().                   *)
Goes(t) == WaitP(t) \/ WaitReturns(t) \/ SignalP(t) \/ SignalReturns(t)

(***************************************************************************)
(* Properties.                                                             *)
(***************************************************************************)

(* Every variable has its type.                                              *)
MonitorTypeOK ==
    /\ \A s \in DOMAIN semaphore : /\ semaphore[s].count \in 0..1
                                   /\ semaphore[s].queue \in Seq(Thread)
    /\ monList \in [Cond -> 0..Cardinality(Thread)]
    /\ urgentNum \in 0..Cardinality(Thread)
    /\ on \in [Thread -> Cond]

(* The threads that have the monitor: no P() keeps them and they are not     *)
(* on the way to one.                                                        *)
Owners == {t \in Thread : \E s \in {"inside", "woken", "urgent"} : At(t, s)}

(* The monitor is one unit, in a semaphore or with the thread inside: it is  *)
(* never lost and never doubled, wherever the threads are between their P()s *)
(* and V()s.                                                                 *)
OneUnit ==
    LET there == {s \in DOMAIN semaphore : semaphore[s].count > 0}
    IN  Cardinality(Owners) + Cardinality(there) = 1

(* urgentNum is the number of threads that signalled and did not return.     *)
UrgentCounted ==
    urgentNum = Cardinality({t \in Thread : stage[t] \in {"signal", "urgent"}})

(* A signal is not lost: monList is the number of threads that wait, to      *)
(* which those are added that were woken and did not return.                 *)
WaitersCounted ==
    \A c \in Cond :
        monList[c] =
            Cardinality({t \in Thread : stage[t] \in {"wait", "woken"}
                                        /\ on[t] = c})

(* The list of a condition holds the threads that wait on it.                *)
ListHoldsWaiters ==
    \A t \in Thread :
        stage[t] = "woken" /\ Blocked(t) => t \in ToSet(condVar[on[t]].items)
=============================================================================
