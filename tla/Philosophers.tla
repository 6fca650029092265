---------------------------- MODULE Philosophers ----------------------------
(* The dining philosophers of assignment 2 (a2_phase2/                       *)
(* dining-philosopher-monitor.c, dining-philosopher.c).  Another thread may  *)
(* run at every P() and V(); what is in between is one step.                 *)
EXTENDS Semaphore, FiniteSets

CONSTANTS
    philNum,
    MaxUnits        \* bound of this model: units in sem[p]

PhilosophersAssumption == philNum \in Nat \ {0, 1} /\ MaxUnits \in Nat

Phil == 0..(philNum - 1)
mutex == philNum    \* its name among the semaphores; sem[p] is p

VARIABLES
    state,      \* THINKING, HUNGRY or EATING
    pc          \* where a philosopher is in Philosopher()

vars == <<semaphore, state, pc>>

init ==
    /\ semaphore = [s \in Phil \cup {mutex} |->
                       NewSem(IF s = mutex THEN 1 ELSE 0)]
    /\ state = [p \in Phil |-> "THINKING"]
    /\ pc = [p \in Phil |-> "thinks"]

left(p) == (p + philNum - 1) % philNum
right(p) == (p + 1) % philNum

At(p, where) == pc[p] = where /\ ~Blocked(p)
Go(p, where) == pc' = [pc EXCEPT ![p] = where]

(* The philosopher is hungry and its left neighbour (tested twice, and not   *)
(* the right one) is not eating.                                             *)
Ready(p, states) == states[p] = "HUNGRY" /\ states[left(p)] # "EATING"

(* checkIfReady(q), called by p, in the states as p has set them.            *)
checkIfReady(p, q, states, next) ==
    /\ Go(p, next)
    /\ IF Ready(q, states)
       THEN /\ semaphore[q].count < MaxUnits
            /\ state' = [states EXCEPT ![q] = "EATING"]
            /\ V(q)
       ELSE state' = states /\ UNCHANGED semaphore

Enter(p, from, to) ==
    At(p, from) /\ P(p, mutex) /\ Go(p, to) /\ UNCHANGED state

getChopstick(p) ==
    /\ At(p, "get")
    /\ checkIfReady(p, p, [state EXCEPT ![p] = "HUNGRY"], "got?")

(* It waits with the mutex.                                                  *)
WaitForChopstick(p) ==
    /\ At(p, "got?")
    /\ IF state[p] = "EATING" THEN UNCHANGED semaphore ELSE P(p, p)
    /\ Go(p, "got")
    /\ UNCHANGED state

Leave(p, from, to) ==
    At(p, from) /\ V(mutex) /\ Go(p, to) /\ UNCHANGED state

putChopstick(p) ==
    /\ At(p, "put")
    /\ checkIfReady(p, left(p), [state EXCEPT ![p] = "THINKING"], "put right")

(* Mutant: a right neighbour that is not ready is given the mutex already.   *)
CheckRightLeaves(p) ==
    /\ At(p, "put right")
    /\ V(mutex)
    /\ Go(p, "leave")
    /\ UNCHANGED state

CheckRight(p) ==
    /\ At(p, "put right")
    /\ checkIfReady(p, right(p), state, "leave")

Philosopher(p) ==
    \/ Enter(p, "thinks", "get") \/ getChopstick(p) \/ WaitForChopstick(p)
    \/ Leave(p, "got", "eats")
    \/ Enter(p, "eats", "put") \/ putChopstick(p) \/ CheckRight(p)
    \/ Leave(p, "leave", "thinks")

Next == \E p \in Phil : Philosopher(p)

Spec == init /\ [][Next]_vars

(* Every philosopher goes on when it can; thinking and eating end.           *)
FairSpec == Spec /\ \A p \in Phil : WF_vars(Philosopher(p))

(***************************************************************************)
(* Properties.                                                             *)
(***************************************************************************)

(* Every variable has its type.                                              *)
TypeOK ==
    /\ semaphore[mutex].count \in 0..1
    /\ \A p \in Phil : semaphore[p].count \in 0..MaxUnits
    /\ state \in [Phil -> {"THINKING", "HUNGRY", "EATING"}]

Holds(p) == At(p, "get") \/ pc[p] \in {"got?", "got"}
            \/ At(p, "put") \/ pc[p] \in {"put right", "leave"}

(* The states are read and changed by one philosopher at a time, one that    *)
(* waits for its chopsticks included: the mutex is never free meanwhile.     *)
OneHoldsMutex ==
    Cardinality({p \in Phil : Holds(p)}) + semaphore[mutex].count = 1

(* No two neighbours eat at the same time.                                   *)
NeighboursApart == \A p \in Phil : ~(pc[p] = "eats" /\ pc[right(p)] = "eats")

(* Who has chopsticks is marked as eating.                                   *)
EatersMarked == \A p \in Phil : pc[p] = "eats" => state[p] = "EATING"

(* A philosopher that gets hungry eats in the end.                           *)
HungryEats == \A p \in Phil : pc[p] = "get" ~> pc[p] = "eats"
=============================================================================
