------------------------------ MODULE UThreads ------------------------------
(* The user threads of one xv6 process and their mutexes                     *)
(* (a2_phase2/xv6-riscv/user/uthread.c, mtx.c).  A thread runs until it      *)
(* gives the processor up, so what it does in between is one step.           *)
EXTENDS Integers

CONSTANTS
    MAX_THREAD,
    NUM_MUTEX

ASSUME UThreadsAssumption ==
    MAX_THREAD \in Nat \ {0} /\ NUM_MUTEX \in Nat \ {0}

Thread == 0..(MAX_THREAD - 1)
main == 0

VARIABLES
    state,              \* FREE, RUNNING or RUNNABLE
    current_thread,
    exited,             \* the process has called exit()
    mutexes             \* the lock of each

uthreadVars == <<state, current_thread, exited, mutexes>>

thread_init ==
    /\ state = [t \in Thread |-> IF t = main THEN "RUNNING" ELSE "FREE"]
    /\ current_thread = main
    /\ exited = FALSE

Current(t) == ~exited /\ current_thread = t

(* How far the search that begins behind thread c walks to t: c is last.     *)
Distance(c, t) == IF t > c THEN t - c ELSE t - c + MAX_THREAD

Runnable(states) == {t \in Thread : states[t] = "RUNNABLE"}

(* The next thread is the first one; it stays RUNNABLE if it runs already.   *)
SwitchTo(t, states) ==
    /\ current_thread' = t
    /\ state' = IF t = current_thread
                THEN states ELSE [states EXCEPT ![t] = "RUNNING"]
    /\ UNCHANGED exited

IsFirst(t, candidates) ==
    /\ t \in candidates
    /\ \A u \in candidates :
          Distance(current_thread, t) <= Distance(current_thread, u)

NoneRunnable(states) ==
    /\ Runnable(states) = {}
    /\ exited' = TRUE /\ state' = states
    /\ UNCHANGED current_thread

(* Mutant: the search begins at the first thread.                            *)
thread_scheduleLowest(states) ==
    \/ \E t \in Runnable(states) :
          (\A u \in Runnable(states) : t <= u) /\ SwitchTo(t, states)
    \/ NoneRunnable(states)

(* thread_schedule() when the states are as the caller has set them.         *)
thread_schedule(states) ==
    \/ \E t \in Runnable(states) :
          IsFirst(t, Runnable(states)) /\ SwitchTo(t, states)
    \/ NoneRunnable(states)

thread_yield ==
    thread_schedule([state EXCEPT ![current_thread] = "RUNNABLE"])

thread_free ==
    thread_schedule([state EXCEPT ![current_thread] = "FREE"])

(* The lowest free thread starts; without one the process exits.             *)
thread_create(t) ==
    /\ state[t] = "FREE" /\ \A u \in Thread : state[u] = "FREE" => t <= u
    /\ state' = [state EXCEPT ![t] = "RUNNABLE"]
    /\ UNCHANGED <<current_thread, exited>>

NoThreadToCreate ==
    /\ \A t \in Thread : state[t] # "FREE"
    /\ exited' = TRUE
    /\ UNCHANGED <<state, current_thread>>

(* What mtx_create() returns: the counter is a local variable.               *)
mtx_create == 0

IsLocked(id) == mutexes[id]

(* Mutant: the mutex is taken as it is found.                                *)
mtx_lockAnyway(id) ==
    mutexes' = [mutexes EXCEPT ![id] = TRUE]

(* mtx_lock() when the test of its loop fails.                               *)
mtx_lock(id) ==
    ~IsLocked(id) /\ mutexes' = [mutexes EXCEPT ![id] = TRUE]

(* and when it does not: the thread yields and tests again.                  *)
SpinOn(id) == IsLocked(id) /\ thread_yield /\ UNCHANGED mutexes

mtx_unlocked(id) == mutexes' = [mutexes EXCEPT ![id] = FALSE]
=============================================================================
