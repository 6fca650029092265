------------------------------ MODULE ProdCon -------------------------------
(* What the two programs with a producer and a consumer on the user threads  *)
(* have in common (a2_phase2/xv6-riscv/user/prod-con-mtx.c, prod-con-sem.c). *)
EXTENDS UThreads

CONSTANT BuffMaxs       \* the buffer sizes that are tried

ProdConAssumption == BuffMaxs \subseteq Nat \ {0} /\ MAX_THREAD > 2

prod == 1
con == 2

VARIABLES
    buffMax, buffSize,
    pc                  \* where a thread is in main(), prod() or con()

prodconVars == <<uthreadVars, buffMax, buffSize, pc>>

At(t, where) == Current(t) /\ pc[t] = where
Go(t, where) == pc' = [pc EXCEPT ![t] = where]

(* main() when buffMax and buffSize have passed its tests.                   *)
ProdConInit ==
    /\ thread_init
    /\ buffMax \in BuffMaxs
    /\ pc = [t \in Thread |-> IF t = main THEN "prod" ELSE "created"]

Create(t, from, to) ==
    At(main, from) /\ thread_create(t) /\ Go(main, to)

(* main() creates its threads and schedules.                                 *)
Main ==
    /\ \/ Create(prod, "prod", "con")
       \/ Create(con, "con", "schedule")
       \/ At(main, "schedule") /\ thread_schedule(state) /\ UNCHANGED pc
    /\ UNCHANGED <<mutexes, buffMax, buffSize>>

YieldTo(t, from, to) == At(t, from) /\ thread_yield /\ Go(t, to)

(***************************************************************************)
(* Properties.                                                             *)
(***************************************************************************)

(* There is never less than nothing in the buffer, or more than it holds:    *)
(* the test of the producer or consumer still holds after its yield.         *)
BufferBounds == buffSize \in 0..buffMax

(* What the producer and the consumer do with the buffer is a critical       *)
(* section, although each yields in it.                                      *)
SectionLocked == ~(pc[prod] = "inside" /\ pc[con] = "inside")

(* The producer produces and the consumer consumes again and again.          *)
BothWork == \A t \in {prod, con} : []<>(pc[t] = "inside")
=============================================================================
