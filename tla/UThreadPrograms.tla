--------------------------- MODULE UThreadPrograms ---------------------------
(* Any program on the user threads: main makes its mutexes and its threads,  *)
(* then schedules; a thread yields, creates threads, frees itself, and locks *)
(* and unlocks mutexes, one at a time.                                       *)
EXTENDS UThreads

CONSTANT Mutex          \* the mutexes that main creates

VARIABLES
    pc,                 \* "runs", or the mutex the thread is in mtx_lock() for
    holds               \* the mutex it has locked, or "none"

vars == <<uthreadVars, pc, holds>>

ASSUME ProgramAssumption == Mutex \cap {"runs", "none"} = {}

(* mtx_create(0) for every mutex.                                            *)
Init ==
    /\ thread_init
    /\ mutexes = [id \in 0..(NUM_MUTEX - 1) |-> FALSE]
    /\ pc = [t \in Thread |-> "runs"]
    /\ holds = [t \in Thread |-> "none"]

Id(m) == mtx_create

Create(t) ==
    /\ Current(t) /\ pc[t] = "runs"
    /\ NoThreadToCreate \/ \E u \in Thread : thread_create(u)
    /\ UNCHANGED <<mutexes, pc, holds>>

(* main calls thread_schedule(), and thread_schedule() does not return.      *)
MainSchedules ==
    /\ Current(main)
    /\ thread_schedule(state)
    /\ UNCHANGED <<mutexes, pc, holds>>

Yield(t) ==
    /\ Current(t) /\ t # main /\ pc[t] = "runs"
    /\ thread_yield
    /\ UNCHANGED <<mutexes, pc, holds>>

FreeItself(t) ==
    /\ Current(t) /\ t # main /\ pc[t] = "runs" /\ holds[t] = "none"
    /\ thread_free
    /\ UNCHANGED <<mutexes, pc, holds>>

CallLock(t, m) ==
    /\ Current(t) /\ t # main /\ pc[t] = "runs" /\ holds[t] = "none"
    /\ pc' = [pc EXCEPT ![t] = m]
    /\ UNCHANGED <<uthreadVars, holds>>

Lock(t, m) ==
    /\ Current(t) /\ pc[t] = m
    /\ mtx_lock(Id(m))
    /\ pc' = [pc EXCEPT ![t] = "runs"]
    /\ holds' = [holds EXCEPT ![t] = m]
    /\ UNCHANGED <<state, current_thread, exited>>

Spin(t, m) ==
    Current(t) /\ pc[t] = m /\ SpinOn(Id(m)) /\ UNCHANGED <<pc, holds>>

Unlock(t, m) ==
    /\ Current(t) /\ pc[t] = "runs" /\ holds[t] = m
    /\ mtx_unlocked(Id(m))
    /\ holds' = [holds EXCEPT ![t] = "none"]
    /\ UNCHANGED <<state, current_thread, exited, pc>>

Locks(t) ==
    \E m \in Mutex : CallLock(t, m) \/ Lock(t, m) \/ Spin(t, m) \/ Unlock(t, m)

Next ==
    \/ MainSchedules
    \/ \E t \in Thread : Create(t) \/ Yield(t) \/ FreeItself(t) \/ Locks(t)

Spec == Init /\ [][Next]_vars

(* A program does not stop between two calls, and calls thread_yield()      *)
(* again and again.                                                          *)
Switches == MainSchedules \/ \E t \in Thread : Yield(t)
GoesOn == Switches \/ \E t \in Thread : Locks(t)

Fairness == WF_vars(GoesOn) /\ SF_vars(Switches)

FairSpec == Spec /\ Fairness

(***************************************************************************)
(* Properties.                                                             *)
(***************************************************************************)

(* Every variable has its type.                                              *)
TypeOK ==
    /\ state \in [Thread -> {"FREE", "RUNNING", "RUNNABLE"}]
    /\ current_thread \in Thread
    /\ exited \in BOOLEAN
    /\ mutexes \in [0..(NUM_MUTEX - 1) -> BOOLEAN]
    /\ pc \in [Thread -> Mutex \cup {"runs"}]
    /\ holds \in [Thread -> Mutex \cup {"none"}]

(* Only RUNNABLE threads are looked for, so a thread that is RUNNING without *)
(* being the one that runs never runs again: this is so of main alone.       *)
NoThreadLost ==
    \A t \in Thread :
        state[t] = "RUNNING" => t = current_thread \/ t = main

(* Whoever yields in between, one thread at most is between mtx_lock() and   *)
(* mtx_unlocked(), and no thread is gone with a mutex.                       *)
OneHolder ==
    /\ \A t, u \in Thread : holds[t] # "none" /\ holds[u] # "none" => t = u
    /\ \A t \in Thread : holds[t] # "none" => state[t] # "FREE"

(* A thread that spins on a mutex waits for a thread that has this mutex.    *)
SpinsForHolder ==
    \A t \in Thread, m \in Mutex :
        Current(t) /\ pc[t] = m /\ IsLocked(Id(m)) =>
            \E u \in Thread : holds[u] = m

(* A switch brings every thread that is ready and was not running nearer to  *)
(* its turn, so none is passed over more than MAX_THREAD times, whatever is  *)
(* created and freed meanwhile.                                              *)
NearsTurn ==
    [][\A t \in Thread :
         /\ state[t] = "RUNNABLE" /\ t # current_thread
         /\ current_thread' # current_thread
         => t = current_thread'
            \/ Distance(current_thread', t) < Distance(current_thread, t)]_vars

(* A thread that is ready runs, unless the process exits.                    *)
ReadyRuns ==
    \A t \in Thread :
        state[t] = "RUNNABLE" ~> current_thread = t \/ exited
=============================================================================
