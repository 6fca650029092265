--------------------------- MODULE UThreadProofs ----------------------------
(* The user threads of UThreadPrograms, for any number of threads and any    *)
(* program, and the producers and consumers, for any size of their buffer.   *)
EXTENDS ProgramsLive, TLAPS

(* The thread that runs was not freed, a thread in mtx_lock() has no mutex,  *)
(* and the mutex of whoever has one is locked.                               *)
MutexIsTrue ==
    /\ exited \/ state[current_thread] # "FREE"
    /\ \A t \in Thread :
          /\ pc[t] # "runs" => holds[t] = "none"
          /\ holds[t] # "none" => IsLocked(mtx_create)

IInv == TypeOK /\ NoThreadLost /\ OneHolder /\ MutexIsTrue

(* The slot of every mutex is one of the array.                              *)
LEMMA IdIsIndex == mtx_create \in 0..(NUM_MUTEX - 1)
BY UThreadsAssumption DEF mtx_create

(* mtx_lock() and mtx_unlocked() set the one slot there is.                  *)
LEMMA MutexSet ==
    ASSUME mutexes \in [0..(NUM_MUTEX - 1) -> BOOLEAN], NEW b \in BOOLEAN,
           mutexes' = [mutexes EXCEPT ![mtx_create] = b]
    PROVE  /\ mutexes' \in [0..(NUM_MUTEX - 1) -> BOOLEAN]
           /\ mutexes'[mtx_create] = b
BY IdIsIndex

(* The states that the callers of thread_schedule() have: those of the       *)
(* current thread may be other ones.                                         *)
ChangedTo(states, new) ==
    /\ new \in {"FREE", "RUNNING", "RUNNABLE"}
    /\ states = [state EXCEPT ![current_thread] = new]
    /\ new = "RUNNING" => current_thread = main

(* thread_schedule() loses no thread, frees none, and lets run one that is   *)
(* not free; a thread it does not choose comes nearer to its turn.           *)
LEMMA ScheduleKeeps ==
    ASSUME TypeOK, NoThreadLost, NEW states, NEW new, ChangedTo(states, new),
           thread_schedule(states)
    PROVE  /\ state' \in [Thread -> {"FREE", "RUNNING", "RUNNABLE"}]
           /\ current_thread' \in Thread /\ exited' \in BOOLEAN
           /\ NoThreadLost'
           /\ exited' \/ state'[current_thread'] # "FREE"
           /\ \A t \in Thread :
                 state'[t] = "FREE" => state[t] = "FREE"
                                       \/ (t = current_thread /\ new = "FREE")
<1>1. /\ states \in [Thread -> {"FREE", "RUNNING", "RUNNABLE"}]
      /\ states[current_thread] = new
      /\ \A t \in Thread : t # current_thread => states[t] = state[t]
      /\ new = "RUNNING" => current_thread = main
    BY DEF TypeOK, ChangedTo
<1>2. /\ \A t \in Thread :
            states[t] = "FREE" => state[t] = "FREE"
                                  \/ (t = current_thread /\ new = "FREE")
      /\ \A t \in Thread : states[t] = "RUNNING" => t = main
    <2>1. ASSUME NEW t \in Thread
          PROVE  /\ states[t] = "FREE" => state[t] = "FREE"
                                          \/ (t = current_thread /\ new = "FREE")
                 /\ states[t] = "RUNNING" => t = main
        <3>1. CASE t = current_thread
            BY <1>1, <3>1
        <3>2. CASE t # current_thread
            BY <1>1, <3>2 DEF NoThreadLost
        <3> QED
            BY <3>1, <3>2
    <2> QED
        BY <2>1
<1>3. CASE NoneRunnable(states)
    <2>1. state' = states /\ exited' /\ current_thread' = current_thread
        BY <1>3 DEF NoneRunnable
    <2> QED
        BY <1>1, <1>2, <2>1 DEF TypeOK, NoThreadLost
<1>4. ASSUME NEW t \in Runnable(states), SwitchTo(t, states)
      PROVE  /\ state' \in [Thread -> {"FREE", "RUNNING", "RUNNABLE"}]
             /\ current_thread' \in Thread /\ exited' \in BOOLEAN
             /\ NoThreadLost'
             /\ exited' \/ state'[current_thread'] # "FREE"
             /\ \A u \in Thread :
                   state'[u] = "FREE" => state[u] = "FREE"
                                         \/ (u = current_thread /\ new = "FREE")
    <2>1. t \in Thread /\ states[t] = "RUNNABLE"
        BY <1>4 DEF Runnable
    <2>2. current_thread' = t /\ exited' = exited
        BY <1>4 DEF SwitchTo
    <2>3. /\ state' \in [Thread -> {"FREE", "RUNNING", "RUNNABLE"}]
          /\ state'[t] # "FREE"
          /\ \A u \in Thread : u # t => state'[u] = states[u]
        BY <1>1, <1>4, <2>1 DEF SwitchTo
    <2>4. NoThreadLost'
        BY <1>2, <2>2, <2>3 DEF NoThreadLost
    <2> QED
        BY <1>2, <2>1, <2>2, <2>3, <2>4 DEF TypeOK
<1> QED
    BY <1>3, <1>4 DEF thread_schedule

(* Each call of thread_schedule() has such states.                           *)
LEMMA CallersChange ==
    ASSUME TypeOK
    PROVE  /\ ChangedTo([state EXCEPT ![current_thread] = "RUNNABLE"], "RUNNABLE")
           /\ ChangedTo([state EXCEPT ![current_thread] = "FREE"], "FREE")
           /\ Current(main) /\ state[main] # "FREE"
              => \E new : ChangedTo(state, new) /\ new # "FREE"
<1>1. /\ ChangedTo([state EXCEPT ![current_thread] = "RUNNABLE"], "RUNNABLE")
      /\ ChangedTo([state EXCEPT ![current_thread] = "FREE"], "FREE")
    BY DEF ChangedTo
<1>2. ASSUME Current(main), state[main] # "FREE"
      PROVE  ChangedTo(state, state[main]) /\ state[main] # "FREE"
    BY <1>2, UThreadsAssumption DEF ChangedTo, Current, TypeOK
<1> QED
    BY <1>1, <1>2

LEMMA InitHolds == Init => IInv
<1>1. main \in Thread
    BY UThreadsAssumption DEF Thread, main
<1> QED
    BY <1>1, ProgramAssumption
    DEF Init, thread_init, IInv, TypeOK, NoThreadLost, OneHolder, MutexIsTrue

(* A yield, alone or in the loop of mtx_lock().                              *)
LEMMA YieldKeeps ==
    ASSUME IInv, thread_yield, UNCHANGED <<mutexes, pc, holds>>
    PROVE  IInv'
<1>1. /\ state' \in [Thread -> {"FREE", "RUNNING", "RUNNABLE"}]
      /\ current_thread' \in Thread /\ exited' \in BOOLEAN
      /\ NoThreadLost'
      /\ exited' \/ state'[current_thread'] # "FREE"
      /\ \A t \in Thread : state'[t] = "FREE" => state[t] = "FREE"
    BY CallersChange, ScheduleKeeps DEF IInv, thread_yield
<1> QED
    BY <1>1 DEF IInv, TypeOK, OneHolder, MutexIsTrue, IsLocked

(* Every action keeps the invariant.                                         *)
LEMMA NextKeeps == IInv /\ [Next]_vars => IInv'
<1> SUFFICES ASSUME IInv, [Next]_vars
             PROVE  IInv'
    OBVIOUS
<1>1. CASE MainSchedules
    <2>1. state[main] # "FREE"
        BY <1>1 DEF IInv, MutexIsTrue, MainSchedules, Current
    <2>2. PICK new : ChangedTo(state, new) /\ new # "FREE"
        BY <1>1, <2>1, CallersChange DEF IInv, MainSchedules
    <2>3. /\ state' \in [Thread -> {"FREE", "RUNNING", "RUNNABLE"}]
          /\ current_thread' \in Thread /\ exited' \in BOOLEAN
          /\ NoThreadLost'
          /\ exited' \/ state'[current_thread'] # "FREE"
          /\ \A t \in Thread : state'[t] = "FREE" => state[t] = "FREE"
        BY <1>1, <2>2, ScheduleKeeps DEF IInv, MainSchedules
    <2> QED
        BY <1>1, <2>3
        DEF MainSchedules, IInv, TypeOK, OneHolder, MutexIsTrue, IsLocked
<1>2. ASSUME NEW t \in Thread, Create(t)
      PROVE  IInv'
    <2>1. CASE NoThreadToCreate
        BY <1>2, <2>1 DEF Create, NoThreadToCreate, IInv, TypeOK, NoThreadLost,
                          OneHolder, MutexIsTrue, IsLocked
    <2>2. ASSUME NEW u \in Thread, thread_create(u)
          PROVE  IInv'
        BY <1>2, <2>2 DEF Create, thread_create, IInv, TypeOK, NoThreadLost,
                          OneHolder, MutexIsTrue, IsLocked
    <2> QED
        BY <1>2, <2>1, <2>2 DEF Create
<1>3. ASSUME NEW t \in Thread, Yield(t)
      PROVE  IInv'
    BY <1>3, YieldKeeps DEF Yield
<1>4. ASSUME NEW t \in Thread, FreeItself(t)
      PROVE  IInv'
    <2>1. /\ state' \in [Thread -> {"FREE", "RUNNING", "RUNNABLE"}]
          /\ current_thread' \in Thread /\ exited' \in BOOLEAN
          /\ NoThreadLost'
          /\ exited' \/ state'[current_thread'] # "FREE"
          /\ \A u \in Thread : state'[u] = "FREE" => state[u] = "FREE" \/ u = t
        BY <1>4, CallersChange, ScheduleKeeps
        DEF IInv, FreeItself, thread_free, Current
    <2> QED
        BY <1>4, <2>1
        DEF FreeItself, IInv, TypeOK, OneHolder, MutexIsTrue, IsLocked
<1>5. ASSUME NEW t \in Thread, NEW m \in Mutex, CallLock(t, m)
      PROVE  IInv'
    BY <1>5 DEF CallLock, IInv, TypeOK, NoThreadLost, OneHolder, MutexIsTrue,
                IsLocked, uthreadVars
<1>6. ASSUME NEW t \in Thread, NEW m \in Mutex, Lock(t, m)
      PROVE  IInv'
    <2>1. /\ ~mutexes[mtx_create]
          /\ mutexes' = [mutexes EXCEPT ![mtx_create] = TRUE]
        BY <1>6 DEF Lock, mtx_lock, IsLocked, Id
    <2>2. \A u \in Thread : holds[u] = "none"
        BY <2>1 DEF IInv, MutexIsTrue, IsLocked
    <2>3. /\ mutexes' \in [0..(NUM_MUTEX - 1) -> BOOLEAN]
          /\ mutexes'[mtx_create]
        BY <2>1, MutexSet DEF IInv, TypeOK
    <2>4. state[t] # "FREE"
        BY <1>6 DEF Lock, Current, IInv, MutexIsTrue
    <2> QED
        BY <1>6, <2>2, <2>3, <2>4 DEF Lock, IInv, TypeOK, NoThreadLost, OneHolder,
                                      MutexIsTrue, IsLocked
<1>7. ASSUME NEW t \in Thread, NEW m \in Mutex, Spin(t, m)
      PROVE  IInv'
    BY <1>7, YieldKeeps DEF Spin, SpinOn
<1>8. ASSUME NEW t \in Thread, NEW m \in Mutex, Unlock(t, m)
      PROVE  IInv'
    <2>1. holds[t] # "none" /\ mutexes' = [mutexes EXCEPT ![mtx_create] = FALSE]
        BY <1>8, ProgramAssumption DEF Unlock, mtx_unlocked, Id
    <2>2. \A u \in Thread : u # t => holds[u] = "none"
        BY <2>1 DEF IInv, OneHolder
    <2>3. mutexes' \in [0..(NUM_MUTEX - 1) -> BOOLEAN]
        BY <2>1, MutexSet DEF IInv, TypeOK
    <2> QED
        BY <1>8, <2>2, <2>3 DEF Unlock, IInv, TypeOK, NoThreadLost, OneHolder,
                                MutexIsTrue, IsLocked
<1>9. CASE UNCHANGED vars
    BY <1>9 DEF vars, uthreadVars, IInv, TypeOK, NoThreadLost, OneHolder,
                MutexIsTrue, IsLocked
<1> QED
    BY <1>1, <1>2, <1>3, <1>4, <1>5, <1>6, <1>7, <1>8, <1>9 DEF Next, Locks

LEMMA Invariance == Spec => []IInv
<1> QED
    BY InitHolds, NextKeeps, PTL DEF Spec

(* Every variable keeps its type.                                            *)
THEOREM TypeCorrect == Spec => []TypeOK
<1>1. IInv => TypeOK
    BY DEF IInv
<1> QED
    BY <1>1, Invariance, PTL

(* No thread but main is left RUNNING, in which state it would never run     *)
(* again.                                                                    *)
THEOREM ThreadsKept == Spec => []NoThreadLost
<1>1. IInv => NoThreadLost
    BY DEF IInv
<1> QED
    BY <1>1, Invariance, PTL

(* The mutex gives mutual exclusion whatever yields happen meanwhile.        *)
THEOREM MutualExclusion == Spec => []OneHolder
<1>1. IInv => OneHolder
    BY DEF IInv
<1> QED
    BY <1>1, Invariance, PTL

(* Who stands behind the chosen thread is nearer to it than to the thread    *)
(* that ran.                                                                 *)
LEMMA DistanceFalls ==
    ASSUME NEW c \in Thread, NEW t \in Thread, NEW u \in Thread,
           t # c, u # c, u # t, Distance(c, t) <= Distance(c, u)
    PROVE  Distance(t, u) < Distance(c, u)
<1> USE UThreadsAssumption DEF Thread
<1>1. CASE u > c
    BY <1>1 DEF Distance
<1>2. CASE u < c
    BY <1>2 DEF Distance
<1> QED
    BY <1>1, <1>2

(* What NearsTurn says of one step.                                          *)
Nears ==
    \A t \in Thread :
         /\ state[t] = "RUNNABLE" /\ t # current_thread
         /\ current_thread' # current_thread
         => t = current_thread'
            \/ Distance(current_thread', t) < Distance(current_thread, t)

LEMMA ScheduleNears ==
    ASSUME TypeOK, NEW states, NEW new, ChangedTo(states, new),
           thread_schedule(states)
    PROVE  Nears
<1>1. SUFFICES ASSUME NEW u \in Thread, state[u] = "RUNNABLE",
                      u # current_thread, current_thread' # current_thread,
                      u # current_thread'
               PROVE  Distance(current_thread', u) < Distance(current_thread, u)
    BY DEF Nears
<1>2. u \in Runnable(states)
    BY <1>1 DEF Runnable, ChangedTo, TypeOK
<1>3. PICK t \in Runnable(states) :
          IsFirst(t, Runnable(states)) /\ SwitchTo(t, states)
    BY <1>1 DEF thread_schedule, NoneRunnable
<1>4. t \in Thread /\ current_thread' = t
    BY <1>3 DEF Runnable, SwitchTo
<1>5. Distance(current_thread, t) <= Distance(current_thread, u)
    BY <1>2, <1>3 DEF IsFirst
<1> QED
    BY <1>1, <1>4, <1>5, DistanceFalls DEF TypeOK

(* No thread that is ready is passed over.                                   *)
THEOREM RoundRobin == Spec => NearsTurn
<1>1. IInv /\ [Next]_vars => [Nears]_vars
    <2> SUFFICES ASSUME IInv, Next
                 PROVE  Nears
        OBVIOUS
    <2>1. TypeOK
        BY DEF IInv
    <2>2. CASE MainSchedules
        <3>1. state[main] # "FREE"
            BY <2>2 DEF IInv, MutexIsTrue, MainSchedules, Current
        <3>2. PICK new : ChangedTo(state, new)
            BY <2>1, <2>2, <3>1, CallersChange DEF MainSchedules
        <3> QED
            BY <2>1, <2>2, <3>2, ScheduleNears DEF MainSchedules
    <2>3. CASE thread_yield \/ thread_free
        BY <2>1, <2>3, CallersChange, ScheduleNears
        DEF thread_yield, thread_free
    <2>4. CASE UNCHANGED current_thread
        BY <2>4 DEF Nears
    <2>5. MainSchedules \/ thread_yield \/ thread_free \/ UNCHANGED current_thread
        BY DEF Next, Create, NoThreadToCreate, thread_create, Yield, FreeItself,
               Locks, CallLock, Lock, Spin, SpinOn, Unlock, uthreadVars
    <2> QED
        BY <2>2, <2>3, <2>4, <2>5
<1>2. NearsTurn <=> [][Nears]_vars
    BY DEF NearsTurn, Nears
<1> QED
    BY <1>1, <1>2, Invariance, PTL DEF Spec

-----------------------------------------------------------------------------
(* The producer and the consumer with a mutex.  Whoever is between its test  *)
(* and its change has the mutex, and the result of the test.                 *)

InSection(t) == pc[t] \in {"test", "inside"}

MtxInv ==
    /\ DOMAIN pc = Thread /\ DOMAIN mutexes = 0..(NUM_MUTEX - 1)
    /\ buffMax \in Nat /\ buffSize \in 0..buffMax
    /\ \A t \in {1, 2} :
          /\ InSection(t) => mutexes[0]
          /\ pc[t] = "inside" => Mtx!MayChange(t)
    /\ ~(InSection(1) /\ InSection(2))

LEMMA Indexes ==
    /\ 0 \in Thread /\ 1 \in Thread /\ 2 \in Thread
    /\ 0 \in 0..(NUM_MUTEX - 1)
    /\ Mtx!Thread = Thread /\ Sem!Thread = Thread
BY UThreadsAssumption, ProdConsAssumption
DEF Thread, Mtx!ProdConAssumption, Mtx!Thread, Sem!Thread

LEMMA MtxInitHolds == Mtx!Init => MtxInv
BY Indexes, ProdConsAssumption
DEF Mtx!Init, Mtx!ProdConInit, Mtx!ProdConAssumption, Mtx!prod, Mtx!con,
    Mtx!main, MtxInv, InSection

LEMMA MtxKeeps == MtxInv /\ Mtx!Next => MtxInv'
<1> SUFFICES ASSUME MtxInv, Mtx!Next
             PROVE  MtxInv'
    OBVIOUS
<1> USE DEF Mtx!At, Mtx!Go, Mtx!YieldTo, Mtx!MayChange, Mtx!prod, Mtx!con,
            MtxInv, InSection
<1>1. CASE Mtx!Main
    <2>1. /\ UNCHANGED <<mutexes, buffMax, buffSize>>
          /\ \E to : pc' = [pc EXCEPT ![0] = to] \/ pc' = pc
        BY <1>1 DEF Mtx!Main, Mtx!Create, Mtx!main
    <2>2. DOMAIN pc' = DOMAIN pc /\ pc'[1] = pc[1] /\ pc'[2] = pc[2]
        BY <2>1, Indexes
    <2> QED BY <2>1, <2>2
<1>2. ASSUME NEW t \in {1, 2}, Mtx!Begins(t)
      PROVE  MtxInv'
    BY <1>2, Indexes DEF Mtx!Begins
<1>3. ASSUME NEW t \in {1, 2}, Mtx!Lock(t)
      PROVE  MtxInv'
    <2>1. /\ ~mutexes[0] /\ mutexes' = [mutexes EXCEPT ![0] = TRUE]
          /\ pc' = [pc EXCEPT ![t] = "test"]
          /\ UNCHANGED <<buffMax, buffSize>>
        BY <1>3 DEF Mtx!Lock, Mtx!mtx, Mtx!mtx_create, Mtx!mtx_lock, Mtx!IsLocked
    <2> QED BY <2>1, Indexes
<1>4. ASSUME NEW t \in {1, 2}, Mtx!Spin(t)
      PROVE  MtxInv'
    BY <1>4 DEF Mtx!Spin, Mtx!SpinOn
<1>5. ASSUME NEW t \in {1, 2}, Mtx!TestsYes(t)
      PROVE  MtxInv'
    BY <1>5, Indexes DEF Mtx!TestsYes
<1>6. ASSUME NEW t \in {1, 2}, Mtx!TestsNo(t) \/ Mtx!Change(t)
      PROVE  MtxInv'
    <2>1. /\ InSection(t) /\ pc' = [pc EXCEPT ![t] = "lock"]
          /\ mutexes' = [mutexes EXCEPT ![0] = FALSE]
          /\ buffMax' = buffMax /\ buffSize' \in 0..buffMax
        <3>1. CASE Mtx!TestsNo(t)
            BY <1>6, <3>1 DEF Mtx!TestsNo, Mtx!mtx, Mtx!mtx_create, Mtx!mtx_unlocked
        <3>2. CASE Mtx!Change(t)
            <4>1. pc[t] = "inside" /\ Mtx!MayChange(t)
                BY <1>6, <3>2 DEF Mtx!Change
            <4>2. buffSize' = IF t = 1 THEN buffSize + 1 ELSE buffSize - 1
                BY <3>2 DEF Mtx!Change
            <4> QED BY <1>6, <3>2, <4>1, <4>2
                    DEF Mtx!Change, Mtx!mtx, Mtx!mtx_create, Mtx!mtx_unlocked
        <3> QED BY <1>6, <3>1, <3>2
    <2> QED BY <2>1, Indexes
<1> QED BY <1>1, <1>2, <1>3, <1>4, <1>5, <1>6 DEF Mtx!Next

-----------------------------------------------------------------------------
(* The producer and the consumer with semaphores, in which P() never waits.  *)
(* They have the processor in turns, and the consumer is one step behind.    *)

(* Where the producer is, with its counter, when the consumer is at c with   *)
(* the counter k; only one of them then has changed the buffer.              *)
Ahead(c, k) ==
    \/ /\ c = "created" /\ pc[1] = "loop" /\ i[1] = k /\ buffSize = 0
    \/ /\ c = "loop" /\ k < buffMax
       /\ pc[1] = "inside" /\ i[1] = k /\ buffSize = 0
    \/ /\ c = "loop" /\ k >= buffMax
       /\ pc[1] = "loop" /\ i[1] = 0 /\ buffSize = 0
    \/ /\ c = "inside" /\ pc[1] = "loop" /\ i[1] = k + 1 /\ buffSize = 1

Ready(t) == Runnable(state) = {t}
(* main() has created none of them, one, or both.                            *)
Created ==
    \/ pc[0] = "prod" /\ \A t \in Thread \ {0} : state[t] = "FREE"
    \/ /\ pc[0] = "con" /\ state[1] = "RUNNABLE"
       /\ \A t \in Thread \ {0, 1} : state[t] = "FREE"
    \/ pc[0] = "schedule" /\ Runnable(state) = {1, 2}

SemInv ==
    /\ DOMAIN pc = Thread /\ DOMAIN state = Thread
    /\ i \in [{1, 2} -> Nat]
    /\ buffMax \in Nat \ {0} /\ buffSize \in 0..1
    /\ ~exited =>
          \/ /\ current_thread = 0 /\ state[0] = "RUNNING" /\ Created
             /\ pc[1] = "created" /\ pc[2] = "created"
             /\ i[1] = i[2] /\ buffSize = 0
          \/ /\ current_thread = 1 /\ state[1] = "RUNNING" /\ Ready(2)
             /\ pc[1] = pc[2] /\ i[1] = i[2] /\ buffSize = 0
          \/ /\ current_thread = 2 /\ state[2] = "RUNNING" /\ Ready(1)
             /\ Ahead(pc[2], i[2])

(* The one thread that is ready follows on the one that yields.              *)
LEMMA TurnOver ==
    ASSUME NEW t \in {1, 2}, NEW u \in {1, 2}, u # t, DOMAIN state = Thread,
           current_thread = t, state[t] = "RUNNING", Ready(u), Sem!thread_yield
    PROVE  /\ current_thread' = u /\ exited' = exited
           /\ DOMAIN state' = Thread /\ state'[u] = "RUNNING" /\ Ready(t)'
<1> DEFINE states == [state EXCEPT ![t] = "RUNNABLE"]
<1>1. Sem!Runnable(states) = {t, u}
    BY Indexes DEF Ready, Runnable, Sem!Runnable
<1>2. Sem!Distance(t, u) < Sem!Distance(t, t)
    BY UThreadsAssumption, ProdConsAssumption
    DEF Sem!Distance, Sem!ProdConAssumption
<1>3. Sem!IsFirst(u, {t, u}) /\ ~Sem!IsFirst(t, {t, u})
    <2>1. Sem!Distance(t, u) \in Int /\ Sem!Distance(t, t) \in Int
        BY UThreadsAssumption DEF Sem!Distance
    <2> QED BY <1>2, <2>1 DEF Sem!IsFirst
<1>4. Sem!SwitchTo(u, states)
    <2>1. Sem!thread_schedule(states)
        BY DEF Sem!thread_yield
    <2> QED BY <1>1, <1>3, <2>1 DEF Sem!thread_schedule, Sem!NoneRunnable
<1>5. /\ current_thread' = u /\ exited' = exited
      /\ state' = [states EXCEPT ![u] = "RUNNING"]
    BY <1>4 DEF Sem!SwitchTo
<1>6. DOMAIN state' = Thread /\ state'[u] = "RUNNING"
    BY <1>5, Indexes
<1>7. \A x \in Thread : state'[x] = "RUNNABLE" <=> x = t
    BY <1>5, Indexes DEF Ready, Runnable
<1> QED BY <1>5, <1>6, <1>7, Indexes DEF Ready, Runnable

LEMMA SemInitHolds == Sem!Init => SemInv
<1> SUFFICES ASSUME Sem!Init
             PROVE  SemInv
    OBVIOUS
<1>1. /\ state = [t \in Thread |-> IF t = 0 THEN "RUNNING" ELSE "FREE"]
      /\ pc = [t \in Thread |-> IF t = 0 THEN "prod" ELSE "created"]
      /\ current_thread = 0 /\ ~exited
    BY Indexes DEF Sem!Init, Sem!ProdConInit, Sem!thread_init, Sem!main
<1>2. /\ buffMax \in Nat \ {0} /\ buffSize = 0
      /\ i = [t \in {1, 2} |-> 0]
    BY ProdConsAssumption
    DEF Sem!Init, Sem!ProdConInit, Sem!ProdConAssumption, Sem!prod, Sem!con
<1> QED BY <1>1, <1>2, Indexes DEF SemInv, Created

LEMMA SemKeeps == SemInv /\ Sem!Next => SemInv'
<1> SUFFICES ASSUME SemInv, Sem!Next
             PROVE  SemInv'
    OBVIOUS
<1>1. CASE Sem!MainIsKilled
    BY <1>1 DEF Sem!MainIsKilled, SemInv
<1>2. CASE Sem!Starts
    <2>1. /\ UNCHANGED <<buffMax, buffSize, i>> /\ Sem!Main
          /\ ~exited /\ current_thread = 0
          /\ state[0] = "RUNNING" /\ Created
          /\ pc[1] = "created" /\ pc[2] = "created"
          /\ i[1] = i[2] /\ buffSize = 0
        BY <1>2 DEF Sem!Starts, Sem!Main, Sem!Create, Sem!At, Sem!Current,
                    Sem!main, SemInv
    <2>2. CASE Sem!Create(1, "prod", "con")
        <3>1. /\ pc[0] = "prod" /\ pc' = [pc EXCEPT ![0] = "con"]
              /\ state' = [state EXCEPT ![1] = "RUNNABLE"]
              /\ UNCHANGED <<current_thread, exited>>
            BY <2>2 DEF Sem!Create, Sem!At, Sem!Go, Sem!thread_create, Sem!main
        <3> QED BY <2>1, <3>1, Indexes DEF SemInv, Created
    <2>3. CASE Sem!Create(2, "con", "schedule")
        <3>1. /\ pc[0] = "con" /\ pc' = [pc EXCEPT ![0] = "schedule"]
              /\ state' = [state EXCEPT ![2] = "RUNNABLE"]
              /\ UNCHANGED <<current_thread, exited>>
            BY <2>3 DEF Sem!Create, Sem!At, Sem!Go, Sem!thread_create, Sem!main
        <3>2. \A x \in Thread : state'[x] = "RUNNABLE" <=> x \in {1, 2}
            BY <2>1, <3>1, Indexes DEF SemInv, Created
        <3>3. Created'
            BY <2>1, <3>1, <3>2, Indexes DEF SemInv, Created, Runnable
        <3> QED BY <2>1, <3>1, <3>3, Indexes DEF SemInv
    <2>4. CASE Sem!At(0, "schedule") /\ Sem!thread_schedule(state) /\ UNCHANGED pc
        <3>1. Runnable(state) = {1, 2} /\ Sem!Runnable(state) = {1, 2}
            BY <2>1, <2>4, Indexes DEF Created, Sem!At, Runnable, Sem!Runnable
        <3>2. Sem!Distance(0, 1) = 1 /\ Sem!Distance(0, 2) = 2
            BY DEF Sem!Distance
        <3>3. Sem!IsFirst(1, {1, 2}) /\ ~Sem!IsFirst(2, {1, 2})
            BY <2>1, <3>2 DEF Sem!IsFirst
        <3>4. Sem!SwitchTo(1, state)
            BY <2>4, <3>1, <3>3 DEF Sem!thread_schedule, Sem!NoneRunnable
        <3>5. /\ current_thread' = 1 /\ exited' = exited
              /\ state' = [state EXCEPT ![1] = "RUNNING"]
            BY <2>1, <3>4 DEF Sem!SwitchTo
        <3>6. \A x \in Thread : state'[x] = "RUNNABLE" <=> x = 2
            BY <3>1, <3>5, Indexes DEF SemInv, Runnable
        <3>7. Ready(2)' /\ state'[1] = "RUNNING" /\ DOMAIN state' = Thread
            BY <3>5, <3>6, Indexes DEF SemInv, Ready, Runnable
        <3> QED BY <2>1, <2>4, <3>5, <3>7 DEF SemInv
    <2> QED BY <2>1, <2>2, <2>3, <2>4
            DEF Sem!Main, Sem!prod, Sem!con, Sem!main
<1>3. ASSUME NEW t \in {1, 2},
             Sem!Begins(t) \/ Sem!Enter(t) \/ Sem!Change(t) \/ Sem!Return(t)
      PROVE  SemInv'
    <2>1. ~exited /\ current_thread = t /\ Sem!thread_yield /\ buffMax' = buffMax
        BY <1>3 DEF Sem!Begins, Sem!Enter, Sem!Change, Sem!Return, Sem!YieldTo,
                    Sem!At, Sem!Current
    <2>2. \/ /\ pc[t] = "created" /\ pc' = [pc EXCEPT ![t] = "loop"]
             /\ UNCHANGED <<buffSize, i>>
          \/ /\ pc[t] = "loop" /\ i[t] < buffMax
             /\ pc' = [pc EXCEPT ![t] = "inside"]
             /\ UNCHANGED <<buffSize, i>>
          \/ /\ pc[t] = "loop" /\ i[t] >= buffMax
             /\ pc' = [pc EXCEPT ![t] = "loop"]
             /\ buffSize' = buffSize /\ i' = [i EXCEPT ![t] = 0]
          \/ /\ pc[t] = "inside" /\ pc' = [pc EXCEPT ![t] = "loop"]
             /\ i' = [i EXCEPT ![t] = @ + 1]
             /\ buffSize' = IF t = 1 THEN buffSize + 1 ELSE buffSize - 1
        BY <1>3 DEF Sem!Begins, Sem!Enter, Sem!Change, Sem!Return, Sem!YieldTo,
                    Sem!At, Sem!Go, Sem!prod
    <2>3. CASE t = 1
        <3>1. state[1] = "RUNNING" /\ Ready(2) /\ pc[1] = pc[2] /\ i[1] = i[2]
              /\ buffSize = 0
            BY <2>1, <2>3 DEF SemInv
        <3>2. /\ current_thread' = 2 /\ ~exited' /\ DOMAIN state' = Thread
              /\ state'[2] = "RUNNING" /\ Ready(1)'
            BY <2>1, <2>3, <3>1, TurnOver DEF SemInv
        <3>3. Ahead(pc[2], i[2])' /\ buffSize' \in 0..1
            BY <2>1, <2>2, <2>3, <3>1, Indexes DEF SemInv, Ahead
        <3> QED BY <2>1, <2>2, <3>2, <3>3 DEF SemInv
    <2>4. CASE t = 2
        <3>1. state[2] = "RUNNING" /\ Ready(1) /\ Ahead(pc[2], i[2])
            BY <2>1, <2>4 DEF SemInv
        <3>2. /\ current_thread' = 1 /\ ~exited' /\ DOMAIN state' = Thread
              /\ state'[1] = "RUNNING" /\ Ready(2)'
            BY <2>1, <2>4, <3>1, TurnOver DEF SemInv
        <3>3. pc'[1] = pc'[2] /\ i'[1] = i'[2] /\ buffSize' = 0
            BY <2>1, <2>2, <2>4, <3>1, Indexes DEF SemInv, Ahead
        <3> QED BY <2>1, <2>2, <3>2, <3>3 DEF SemInv
    <2> QED BY <2>3, <2>4
<1> QED BY <1>1, <1>2, <1>3 DEF Sem!Next, Sem!prod, Sem!con

-----------------------------------------------------------------------------
ProdConInv ==
    /\ part = "mtx" => MtxInv
    /\ part = "sem" => SemInv

(* The buffer of the producer and the consumer is never below nothing or     *)
(* above its size, with mutexes and with semaphores that never wait, for any *)
(* size, and with the mutex nobody changes it between another's test and     *)
(* change (prod() and con()).                                                *)
THEOREM BufferKept == LiveSpec => []BufferBounds
<1>1. LiveInit => ProdConInv
    BY MtxInitHolds, SemInitHolds DEF LiveInit, ThreadInit, ProdConInv
<1>2. ProdConInv /\ [LiveNext]_liveVars => ProdConInv'
    <2> SUFFICES ASSUME ProdConInv, [LiveNext]_liveVars
                 PROVE  ProdConInv'
        OBVIOUS
    <2>1. CASE UNCHANGED threadVars /\ part' = part
        <3>1. UNCHANGED <<pc, mutexes, state, current_thread, exited, buffMax,
                          buffSize, i>>
            BY <2>1 DEF threadVars, semVars, mtxVars, uthreadVars
        <3>2. MtxInv => MtxInv'
            BY <3>1 DEF MtxInv, InSection, Mtx!MayChange
        <3>3. SemInv => SemInv'
            BY <3>1 DEF SemInv, Created, Ready, Runnable, Ahead
        <3> QED BY <2>1, <3>2, <3>3 DEF ProdConInv
    <2>2. CASE ThreadStep /\ part' = part
        BY <2>2, MtxKeeps, SemKeeps DEF ThreadStep, ProdConInv
    <2> QED BY <2>1, <2>2
            DEF LiveNext, MonitorStep, RwStep, ChatStep, liveVars
<1>3. ProdConInv => BufferBounds
    BY DEF ProdConInv, BufferBounds, Mtx!BufferBounds, Mtx!SectionLocked, MtxInv,
           InSection, Mtx!prod, Mtx!con, SemInv
<1> QED BY <1>1, <1>2, <1>3, PTL DEF LiveSpec
=============================================================================
