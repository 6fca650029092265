------------------------------ MODULE Programs ------------------------------
(* Small instances of the memory manager of assignment 4 and of the list     *)
(* library, beside the programs of RttPrograms.  They have nothing in common *)
(* while they run, so TLC explores one of them at a time.                    *)
EXTENDS RttPrograms

CONSTANT NULL                   \* of ListLib

VARIABLES
    \* MemManage:
    inside, entering, urgent, waiting, condition, freeMem, allocateMem,
    numWaiting, threadsLeft, doing, size, addrs, iteration, deadlocked,
    \* ListLib:
    node, aviableNode, nodeNum, list, aviableList, doubled, given

-----------------------------------------------------------------------------

(* One thread for each algorithm, and three blocks at a time.                *)
Blocks == INSTANCE MemManage WITH
    FFThread <- {"f1"}, BFThread <- {"b1"}, MEM_AVAILABLE <- 4,
    SizesFF <- {1, 2}, SizesBF <- {1, 2}, numIterations <- 3,
    DoFree <- {TRUE, FALSE}

(* Two threads for each, more than the memory has room for.                  *)
Waiting == INSTANCE MemManage WITH
    FFThread <- {"f1", "f2"}, BFThread <- {"b1", "b2"}, MEM_AVAILABLE <- 3,
    SizesFF <- {1, 2}, SizesBF <- {2}, numIterations <- 2, DoFree <- {TRUE}

(* The same with threads that may keep what they have, so that first fit     *)
(* comes to report a deadlock.                                               *)
Keeping == INSTANCE MemManage WITH
    FFThread <- {"f1", "f2"}, BFThread <- {"b1", "b2"}, MEM_AVAILABLE <- 3,
    SizesFF <- {1, 2}, SizesBF <- {2}, numIterations <- 1,
    DoFree <- {TRUE, FALSE}

(* Two lists of the same nodes: explored with all calls and one item, and    *)
(* with two items without the calls that leave too many states behind; what  *)
(* both promise.                                                             *)
AllCalls == {"create", "create more", "create again", "move", "add", "insert",
             "append", "prepend", "remove", "trim", "free", "concat"}

OneItem == INSTANCE ListLib WITH
    MIN_NODES <- 3, MIN_LISTS <- 1, Item <- {"x"}, MaxDebt <- 1,
    Calls <- AllCalls

TwoItems == INSTANCE ListLib WITH
    MIN_NODES <- 3, MIN_LISTS <- 1, Item <- {"x", "y"}, MaxDebt <- 1,
    Calls <- AllCalls \ {"create again", "free"}

Lists == INSTANCE ListLib WITH
    MIN_NODES <- 3, MIN_LISTS <- 1, Item <- {"x", "y"}, MaxDebt <- 1,
    Calls <- AllCalls

ListParts == {"calls", "items"}

ASSUME /\ Blocks!MemAssumption /\ Waiting!MemAssumption
       /\ Keeping!MemAssumption /\ Lists!ListAssumption

-----------------------------------------------------------------------------

memVars == <<inside, entering, urgent, waiting, condition, freeMem, allocateMem,
             numWaiting, threadsLeft, doing, size, addrs, iteration, deadlocked>>
listVars == <<node, aviableNode, nodeNum, list, aviableList, doubled, given>>
vars == <<rttVars, memVars, listVars>>

Init ==
    /\ part \in {"blocks", "waiting", "keeping"} \cup ListParts
                \cup {"rw", "phil", "chat"}
    /\ RttInit
    /\ IF part \in {"waiting", "keeping"} THEN Waiting!Init ELSE Blocks!Init
    /\ Lists!Init

MemStep ==
    /\ \/ part = "blocks" /\ Blocks!Next
       \/ part = "waiting" /\ Waiting!Next
       \/ part = "keeping" /\ Keeping!Next
    /\ UNCHANGED <<rttVars, listVars>>

(* Nothing is promised of calls on lists that an earlier call broke.         *)
ListStep ==
    /\ \/ part = "calls" /\ Lists!Sound /\ OneItem!Next
       \/ part = "items" /\ Lists!Sound /\ TwoItems!Next
    /\ UNCHANGED <<rttVars, memVars>>

RttStep == RttNext /\ UNCHANGED <<memVars, listVars>>

(* Every behaviour satisfies RttSpec: the other steps leave rttVars alone.   *)
Next == MemStep \/ ListStep \/ RttStep

Spec == Init /\ [][Next]_vars

(***************************************************************************)
(* Properties.  Each says what a part promises while it is explored.       *)
(***************************************************************************)

(* After any allocations and frees every byte is in one block, free or       *)
(* allocated, what is allocated is what the threads have, and no two free    *)
(* blocks touch: FFFree() and BFFree() join them on both sides.              *)
MemoryPartitioned ==
    part = "blocks" =>
        /\ Blocks!TypeOK /\ Blocks!MemoryPartitioned /\ Blocks!FreeBlocksMerged

(* Whoever is woken by whose signal, numFfWaitingThreads and                 *)
(* numBfWaitingThreads count those that wait, and first fit reports a        *)
(* deadlock only when no other thread of it is left to free anything (though *)
(* one of them may wait for memory that is there by now: ReportHasNoFit).    *)
MemWaitersCounted ==
    /\ part = "waiting" => Waiting!TypeOK /\ Waiting!WaitersCounted
    /\ part = "keeping" =>
          /\ Keeping!TypeOK /\ Keeping!WaitersCounted
          /\ Keeping!FFReportHasNoRunner

(* As long as no list was broken, a call of the list library loses no node,  *)
(* uses none twice and keeps next and prev in agreement; only ListFree() of  *)
(* a list whose head has a prev, and a second growth of the pool of lists,   *)
(* break one (FreeKeepsOthers, CreateKeepsOthers).                           *)
ListNodes ==
    [][(part \in ListParts) => Lists!TypeOK' /\ Lists!StaysSound]_vars

(* Each call changes the lists as its own call of ListSpec does: items and   *)
(* cursor of its own lists, and no other list, with the exceptions that      *)
(* KeepsPromise names.                                                       *)
ListsImplementSpec ==
    /\ Lists!Abstract!Init
    /\ [][(part \in ListParts) => Lists!KeepsPromise]_vars
=============================================================================
