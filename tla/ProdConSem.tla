----------------------------- MODULE ProdConSem -----------------------------
(* The producer and consumer with semaphores (prod-con-sem.c, sem.c).        *)
EXTENDS ProdCon

VARIABLES
    sem,        \* the value of each semaphore
    i           \* the loop counter of a thread

vars == <<prodconVars, sem, i>>

NUM_SEM == 5
noMutex == -1       \* the mutex of sem.c: what is in memory before mutexes

(* What sem_create() returns: its loop ends at the first semaphore.          *)
sem_create == 0

mtx == sem_create
full == sem_create
empty == sem_create

(* main() has set its semaphores: the last was the mutex, with a 1.          *)
Init ==
    /\ ProdConInit
    /\ \E word \in BOOLEAN :
          mutexes = [id \in noMutex..(NUM_MUTEX - 1) |->
                        id = noMutex /\ word]
    /\ buffSize = 0
    /\ sem = [s \in 0..(NUM_SEM - 1) |-> IF s = sem_create THEN 1 ELSE 0]
    /\ i = [t \in {prod, con} |-> 0]

(* If noMutex looks locked the first sem_create() of main() yields, before   *)
(* there is a current thread, and the process is killed.                     *)
MainIsKilled ==
    /\ At(main, "prod") /\ IsLocked(noMutex)
    /\ exited' = TRUE
    /\ UNCHANGED <<state, current_thread, mutexes, buffMax, buffSize, pc, sem, i>>

Starts ==
    ~IsLocked(noMutex) /\ Main /\ UNCHANGED <<sem, i>>

(* P() and V() on two semaphores.  No thread yields in them, so that         *)
(* mutexes[noMutex] is unlocked again; and P() does not wait.                *)
PBoth(s, u) == sem' = [[sem EXCEPT ![s] = @ - 1] EXCEPT ![u] = @ - 1]
VBoth(s, u) == sem' = [[sem EXCEPT ![s] = @ + 1] EXCEPT ![u] = @ + 1]

Begins(t) ==
    /\ YieldTo(t, "created", "loop")
    /\ UNCHANGED <<mutexes, buffMax, buffSize, sem, i>>

Enter(t) ==
    /\ i[t] < buffMax
    /\ PBoth(IF t = prod THEN empty ELSE full, mtx)
    /\ YieldTo(t, "loop", "inside")
    /\ UNCHANGED <<mutexes, buffMax, buffSize, i>>

(* Mutants: the producer is asleep while the consumer goes on; and a thread  *)
(* that is done is gone.                                                     *)
ChangeInTurn(t) ==
    /\ At(t, "inside")
    /\ buffSize' = IF t = prod THEN buffSize + 1 ELSE buffSize - 1
    /\ VBoth(mtx, IF t = prod THEN full ELSE empty)
    /\ i' = [i EXCEPT ![t] = @ + 1]
    /\ (IF t = con THEN thread_yield
                   ELSE UNCHANGED <<state, current_thread, exited>>)
    /\ Go(t, "loop")
    /\ UNCHANGED <<mutexes, buffMax>>
ReturnGone(t) ==
    /\ i[t] >= buffMax
    /\ At(t, "loop") /\ thread_free
    /\ UNCHANGED <<pc, mutexes, buffMax, buffSize, sem, i>>

Change(t) ==
    /\ YieldTo(t, "inside", "loop")
    /\ buffSize' = IF t = prod THEN buffSize + 1 ELSE buffSize - 1
    /\ VBoth(mtx, IF t = prod THEN full ELSE empty)
    /\ i' = [i EXCEPT ![t] = @ + 1]
    /\ UNCHANGED <<mutexes, buffMax>>

(* The function returns to where thread_create() set ra: to its beginning.   *)
Return(t) ==
    /\ i[t] >= buffMax
    /\ YieldTo(t, "loop", "loop")
    /\ i' = [i EXCEPT ![t] = 0]
    /\ UNCHANGED <<mutexes, buffMax, buffSize, sem>>

Next ==
    \/ MainIsKilled \/ Starts
    \/ \E t \in {prod, con} : Begins(t) \/ Enter(t) \/ Change(t) \/ Return(t)

Spec == Init /\ [][Next]_vars

(* The process goes on running.                                              *)
Fairness == WF_vars(Next)
FairSpec == Spec /\ Fairness

(* Unless main() is killed at once both work again and again: who has done   *)
(* its part begins anew.                                                     *)
BothGoOn == IsLocked(noMutex) \/ BothWork
=============================================================================
