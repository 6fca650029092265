----------------------------- MODULE ProdConMtx -----------------------------
(* The producer and consumer with a mutex (prod-con-mtx.c).                  *)
EXTENDS ProdCon

vars == prodconVars

mtx == mtx_create

Init ==
    /\ ProdConInit
    /\ mutexes = [id \in 0..(NUM_MUTEX - 1) |-> FALSE]
    /\ buffSize \in 0..buffMax

Begins(t) ==
    YieldTo(t, "created", "lock") /\ UNCHANGED <<mutexes, buffMax, buffSize>>

Lock(t) ==
    /\ At(t, "lock") /\ mtx_lock(mtx)
    /\ Go(t, "test")
    /\ UNCHANGED <<state, current_thread, exited, buffMax, buffSize>>

Spin(t) ==
    /\ At(t, "lock") /\ SpinOn(mtx)
    /\ UNCHANGED <<buffMax, buffSize, pc>>

(* Mutants: the producer looks for a place, and the consumer for an item,    *)
(* with an error of one.                                                     *)
MayChangeOneMore(t) == IF t = prod THEN buffSize <= buffMax ELSE buffSize > 1
MayChangeFirst(t) == IF t = prod THEN buffSize < 1 ELSE buffSize > 1

MayChange(t) == IF t = prod THEN buffSize < buffMax ELSE buffSize > 1

(* It yields with the mutex.                                                 *)
TestsYes(t) ==
    /\ MayChange(t)
    /\ YieldTo(t, "test", "inside")
    /\ UNCHANGED <<mutexes, buffMax, buffSize>>

TestsNo(t) ==
    /\ ~MayChange(t)
    /\ YieldTo(t, "test", "lock") /\ mtx_unlocked(mtx)
    /\ UNCHANGED <<buffMax, buffSize>>

Change(t) ==
    /\ At(t, "inside")
    /\ buffSize' = IF t = prod THEN buffSize + 1 ELSE buffSize - 1
    /\ mtx_unlocked(mtx) /\ Go(t, "lock")
    /\ UNCHANGED <<state, current_thread, exited, buffMax>>

Next ==
    \/ Main
    \/ \E t \in {prod, con} :
          \/ Begins(t) \/ Lock(t) \/ Spin(t)
          \/ TestsYes(t) \/ TestsNo(t) \/ Change(t)

Spec == Init /\ [][Next]_vars

(* The process goes on running.                                              *)
Fairness == WF_vars(Next)
FairSpec == Spec /\ Fairness

(* The consumer goes away without an item only if there is none.             *)
LeavesEmpty ==
    [][pc[con] = "test" /\ pc'[con] = "lock" => buffSize = 0]_vars
=============================================================================
