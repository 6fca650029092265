------------------------------ MODULE MemManage -----------------------------
(* The memory manager of assignment 4 (a4/partA/mem-management.c): first-fit *)
(* and best-fit allocation in the procedures of one monitor, and the threads *)
(* of mem-manage-sim.c that call them.  The monitor is that of HoareMonitor, *)
(* which RttMonitor implements; as there, its two conditions have one list,  *)
(* for the number of the condition is lost.  What a thread does inside until *)
(* it waits, signals or leaves is one step: no other thread is inside.       *)
(* The statistics are left out.                                              *)
EXTENDS Naturals, CursorList, FiniteSetsExt

CONSTANTS
    FFThread, BFThread, \* the threads of each algorithm
    MEM_AVAILABLE,      \* addresses 0 .. MEM_AVAILABLE - 1
    SizesFF, SizesBF,   \* the sizes that are asked for
    numIterations,
    DoFree              \* what doFree[][] may hold

MemAssumption ==
    /\ FFThread \cap BFThread = {}
    /\ Cardinality(FFThread) = Cardinality(BFThread)
    /\ MEM_AVAILABLE \in Nat \ {0} /\ numIterations \in Nat \ {0}
    /\ SizesFF \cup SizesBF \subseteq Nat \ {0}
    /\ DoFree \subseteq BOOLEAN

Thread == FFThread \cup BFThread
Alg == {"FF", "BF"}
AlgOf(t) == IF t \in FFThread THEN "FF" ELSE "BF"
SizesOf(t) == IF t \in FFThread THEN SizesFF ELSE SizesBF

VARIABLES
    inside, entering, urgent, waiting,  \* the monitor
    condition,      \* the threads in waiting, the first to be woken first
    freeMem, allocateMem,   \* per algorithm, lists of blocks
    numWaiting,     \* numFfWaitingThreads, numBfWaitingThreads
    threadsLeft,
    doing,          \* per thread, the call it is in and how far it is
    size,           \* per thread, the argument of the call
    addrs,          \* per thread, allocatedAddrs[] without the NULLs
    iteration,
    deadlocked      \* the algorithms for which errx() ended the program

monitor == <<inside, entering, urgent, waiting, condition>>
memory == <<freeMem, allocateMem>>
thread == <<size, addrs, iteration>>
vars == <<monitor, memory, numWaiting, threadsLeft, doing, thread, deadlocked>>

Monitor == INSTANCE HoareMonitor

Block(start, length) == [start |-> start, size |-> length]
Limit(b) == b.start + b.size

(* Initialize().                                                             *)
Init ==
    /\ Monitor!Init /\ condition = <<>>
    /\ freeMem = [a \in Alg |->
                     ListPrepend(EmptyList, Block(0, MEM_AVAILABLE))]
    /\ allocateMem = [a \in Alg |-> EmptyList]
    /\ numWaiting = [a \in Alg |-> 0]
    /\ threadsLeft = [a \in Alg |-> Cardinality(FFThread)]
    /\ doing = [t \in Thread |-> "next"]
    /\ size = [t \in Thread |-> 0]
    /\ addrs = [t \in Thread |-> {}]
    /\ iteration = [t \in Thread |-> 0]
    /\ deadlocked = {}

Do(t, what) == doing' = [doing EXCEPT ![t] = what]
At(t, what) == deadlocked = {} /\ doing[t] = what
Inside(t, what) == At(t, what) /\ inside = {t}

RttMonEnter(t) == Monitor!Enter(t) /\ UNCHANGED condition
RttMonLeave(t) == Monitor!Leave(t) /\ UNCHANGED condition
RttMonWait(t) == Monitor!Wait(t) /\ condition' = Append(condition, t)

(* Either condition: the thread that waited longest, if any, goes on.        *)
RttMonSignal(t) ==
    IF waiting = {} THEN UNCHANGED monitor
    ELSE /\ Monitor!Signal(t)
         /\ inside' = {Head(condition)}
         /\ condition' = Tail(condition)

(***************************************************************************)
(* FfMalloc() and BfMalloc().                                              *)
(***************************************************************************)

Fits(a, n) ==
    LET blocks == freeMem[a].items
    IN  {i \in DOMAIN blocks : blocks[i].size >= n}

(* Best fit takes the smallest at first, and the first one after a wait.     *)
Choice(t) ==
    LET a == AlgOf(t)
        fits == Fits(a, size[t])
        blocks == freeMem[a].items
        smallest == {i \in fits : \A j \in fits : blocks[i].size <= blocks[j].size}
    IN  IF a = "BF" /\ doing[t] = "malloc" THEN Min(smallest) ELSE Min(fits)

(* Mutant: the block that is used up is looked for at the cursor.            *)
TakeAtCurser(l, i, n) ==
    LET b == l.items[i]
    IN  IF b.size = n THEN ListRemove(ListLast(l))
        ELSE [l EXCEPT !.items[i] = Block(b.start + n, b.size - n)]

(* The list of free blocks when n bytes were taken from block i.             *)
Take(l, i, n) ==
    LET b == l.items[i]
    IN  IF b.size = n THEN ListRemove(MoveTo(l, i))
        ELSE [l EXCEPT !.items[i] = Block(b.start + n, b.size - n)]

Malloc(t) ==
    /\ At(t, "next") /\ iteration[t] < numIterations
    /\ \E n \in SizesOf(t) : size' = [size EXCEPT ![t] = n]
    /\ iteration' = [iteration EXCEPT ![t] = @ + 1]
    /\ RttMonEnter(t)
    /\ Do(t, "malloc")
    /\ UNCHANGED <<memory, numWaiting, threadsLeft, addrs, deadlocked>>

(* Mutant: a thread that was woken stays counted.                            *)
OthersAndWoken(t) == numWaiting[AlgOf(t)]

(* The number of waiting threads once this one counts itself out.            *)
Others(t) ==
    LET a == AlgOf(t)
    IN  IF doing[t] = "woken" THEN numWaiting[a] - 1 ELSE numWaiting[a]

Searching(t) == Inside(t, "malloc") \/ Inside(t, "woken")

Allocate(t) ==
    LET a == AlgOf(t)
        i == Choice(t)
        start == freeMem[a].items[i].start
    IN  /\ Searching(t) /\ Fits(a, size[t]) # {}
        /\ allocateMem' = [allocateMem EXCEPT
                              ![a] = ListAppend(@, Block(start, size[t]))]
        /\ freeMem' = [freeMem EXCEPT ![a] = Take(@, i, size[t])]
        /\ addrs' = [addrs EXCEPT ![t] = @ \cup {start}]
        /\ numWaiting' = [numWaiting EXCEPT ![a] = Others(t)]
        /\ RttMonLeave(t)
        /\ Do(t, "allocated")
        /\ UNCHANGED <<threadsLeft, size, iteration, deadlocked>>

(* Mutant: one counter for both algorithms.                                  *)
AllWaitTogether(t) ==
    LET b == CHOOSE a \in Alg : a # AlgOf(t)
    IN  Others(t) + 1 + numWaiting[b] >= threadsLeft["FF"]

(* What increment_ffwaiting_threads() and its twin compare.                  *)
AllWait(t) == Others(t) + 1 >= threadsLeft["FF"]

NoFit(t) ==
    LET a == AlgOf(t)
    IN  /\ Searching(t) /\ Fits(a, size[t]) = {}
        /\ freeMem' = [freeMem EXCEPT ![a] = ListLast(@)]
        /\ numWaiting' = [numWaiting EXCEPT ![a] = Others(t) + 1]
        /\ UNCHANGED <<allocateMem, threadsLeft, thread>>

WaitForMemory(t) ==
    /\ NoFit(t) /\ ~AllWait(t)
    /\ RttMonWait(t)
    /\ Do(t, "woken")
    /\ UNCHANGED deadlocked

ReportDeadlock(t) ==
    /\ NoFit(t) /\ AllWait(t)
    /\ deadlocked' = {AlgOf(t)}
    /\ UNCHANGED <<monitor, doing>>

(***************************************************************************)
(* FfFree() and BfFree().                                                  *)
(***************************************************************************)

Free(t) ==
    /\ At(t, "allocated") /\ TRUE \in DoFree
    /\ \E p \in addrs[t] : size' = [size EXCEPT ![t] = p]
    /\ RttMonEnter(t)
    /\ Do(t, "free")
    /\ UNCHANGED <<memory, numWaiting, threadsLeft, addrs, iteration, deadlocked>>

Keep(t) ==
    /\ At(t, "allocated") /\ FALSE \in DoFree
    /\ Do(t, "next")
    /\ UNCHANGED <<monitor, memory, numWaiting, threadsLeft, thread, deadlocked>>

(* Mutant: a block is not joined with the free block after it.               *)
JoinBeforeOnly(l) == l

(* The current block takes in the one after it, if that is adjacent.         *)
JoinAfter(l) ==
    LET i == l.curser
        b == l.items[i]
        next == l.items[i + 1]
    IN  IF i < ListCount(l) /\ Limit(b) = next.start
        THEN ListRemove(ListNext(
                 [l EXCEPT !.items[i] = Block(b.start, b.size + next.size)]))
        ELSE l

(* Block b becomes free: it is joined with the block before, or put after it.*)
(* (ListSearch() stands for the loop to the first block that is not before.) *)
Release(l, b) ==
    LET later == {c \in ToSet(l.items) : c.start >= b.start}
        after == ListSearch(ListFirst(l), later)
        before == IF later = {} THEN after ELSE ListPrev(after)
        i == before.curser
        none == IsEmpty(l) \/ (later # {} /\ after.curser = 1)
    IN  JoinAfter(
            IF none THEN ListPrepend(after, b)
            ELSE IF Limit(ListCurr(before)) = b.start
            THEN [before EXCEPT !.items[i] = Block(@.start, @.size + b.size)]
            ELSE ListAdd(before, b))

Deallocate(t) ==
    LET a == AlgOf(t)
        p == size[t]
        found == ListSearch(ListFirst(allocateMem[a]),
                            {b \in ToSet(allocateMem[a].items) : b.start = p})
    IN  /\ Inside(t, "free")
        /\ allocateMem' = [allocateMem EXCEPT ![a] = ListRemove(found)]
        /\ freeMem' = [freeMem EXCEPT ![a] = Release(@, ListCurr(found))]
        /\ addrs' = [addrs EXCEPT ![t] = @ \ {p}]
        /\ RttMonSignal(t)
        /\ Do(t, IF a = "BF" THEN "signal" ELSE "leave")
        /\ UNCHANGED <<numWaiting, threadsLeft, size, iteration, deadlocked>>

(* BfFree() signals the second condition too.                                *)
SignalBF(t) ==
    /\ Inside(t, "signal")
    /\ RttMonSignal(t)
    /\ Do(t, "leave")
    /\ UNCHANGED <<memory, numWaiting, threadsLeft, thread, deadlocked>>

Freed(t) ==
    /\ Inside(t, "leave")
    /\ RttMonLeave(t)
    /\ Do(t, "next")
    /\ UNCHANGED <<memory, numWaiting, threadsLeft, thread, deadlocked>>

(***************************************************************************)
(* Threadend().                                                            *)
(***************************************************************************)

Threadend(t) ==
    /\ At(t, "next") /\ iteration[t] = numIterations
    /\ RttMonEnter(t)
    /\ Do(t, "end")
    /\ UNCHANGED <<memory, numWaiting, threadsLeft, thread, deadlocked>>

Ended(t) ==
    /\ Inside(t, "end")
    /\ threadsLeft' = [threadsLeft EXCEPT ![AlgOf(t)] = @ - 1]
    /\ RttMonLeave(t)
    /\ Do(t, "done")
    /\ UNCHANGED <<memory, numWaiting, thread, deadlocked>>

Step(t) ==
    \/ Malloc(t) \/ Allocate(t) \/ WaitForMemory(t) \/ ReportDeadlock(t)
    \/ Free(t) \/ Keep(t) \/ Deallocate(t) \/ SignalBF(t) \/ Freed(t)
    \/ Threadend(t) \/ Ended(t)

Next == \E t \in Thread : Step(t)

Spec == Init /\ [][Next]_vars

(* The scheduler of RT Threads runs some thread as long as one can go on.    *)
Fairness == WF_vars(Next)
FairSpec == Spec /\ Fairness

(***************************************************************************)
(* Properties.                                                             *)
(***************************************************************************)

(* Every variable has its type.                                              *)
TypeOK ==
    /\ \A a \in Alg : \A l \in {freeMem[a], allocateMem[a]} :
          /\ \A b \in ToSet(l.items) : /\ b.size \in 1..MEM_AVAILABLE
                                       /\ b.start \in 0..(MEM_AVAILABLE - 1)
          /\ l.curser \in 0..ListCount(l)
    /\ \A a \in Alg : /\ threadsLeft[a] \in 0..Cardinality(FFThread)
                      /\ numWaiting[a] \in 0..Cardinality(FFThread)
    /\ ToSet(condition) = waiting /\ IsInjective(condition)
    /\ iteration \in [Thread -> 0..numIterations]
    /\ deadlocked \subseteq Alg

Bytes(b) == b.start..(Limit(b) - 1)

(* Every byte is in one block, free or allocated, after any allocations and  *)
(* frees by any threads; and what is allocated is what the threads have.     *)
MemoryPartitioned ==
    \A a \in Alg :
        LET blocks == freeMem[a].items \o allocateMem[a].items
        IN  /\ UNION {Bytes(blocks[i]) : i \in DOMAIN blocks}
                   = 0..(MEM_AVAILABLE - 1)
            /\ \A i, j \in DOMAIN blocks :
                  i # j => Bytes(blocks[i]) \cap Bytes(blocks[j]) = {}
            /\ {b.start : b \in ToSet(allocateMem[a].items)}
                   = UNION {addrs[t] : t \in {u \in Thread : AlgOf(u) = a}}

(* The free blocks are in the order of their addresses and no two touch:     *)
(* what could be one block is one.                                           *)
FreeBlocksMerged ==
    \A a \in Alg :
        LET blocks == freeMem[a].items
        IN  \A i \in 1..(Len(blocks) - 1) : Limit(blocks[i]) < blocks[i + 1].start

(* The counter of waiting threads is exact whenever the monitor is empty,    *)
(* whoever was woken by whose signal.                                        *)
WaitersCounted ==
    inside = {} =>
        \A a \in Alg :
            numWaiting[a] = Cardinality({t \in waiting : AlgOf(t) = a})

Stuck(t) == doing[t] = "done" \/ t \in waiting

(* First fit reports a deadlock only when every other thread of it has ended *)
(* or waits, so that none is left to free anything.                          *)
FFReportHasNoRunner ==
    "FF" \in deadlocked => \A t \in FFThread : Stuck(t) \/ inside = {t}

(* The same for best fit.                                                    *)
BFReportHasNoRunner ==
    "BF" \in deadlocked => \A t \in BFThread : Stuck(t) \/ inside = {t}

(* A deadlock is reported only when no request that waits would fit.         *)
ReportHasNoFit ==
    \A a \in deadlocked : \A t \in waiting :
        AlgOf(t) = a => Fits(a, size[t]) = {}

(* A deadlock is reported: when all threads of an algorithm that did not end *)
(* wait, the program has stopped.                                            *)
DeadlockDetected ==
    inside = {} /\ deadlocked = {} =>
        \A T \in {FFThread, BFThread} :
            (\A t \in T : Stuck(t)) => \A t \in T : doing[t] = "done"

(* A thread waits only for memory that is not there.                         *)
WaitsForMemoryOnly ==
    inside = {} => \A t \in waiting : Fits(AlgOf(t), size[t]) = {}

(* While each thread frees what it allocates, and best fit never has to wait,*)
(* every thread ends, however often first fit has to wait.                   *)
EveryThreadEnds == <>(\A t \in Thread : doing[t] = "done")
=============================================================================
