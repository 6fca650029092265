------------------------------- MODULE CowMem -------------------------------
(* Copy-on-write memory of assignment 3 (kernel/kalloc.c, vm.c, trap.c, and  *)
(* fork(), growproc() and freeproc() of proc.c): processes that share pages  *)
(* after a fork, a count of references for every page, and the free list.    *)
(*                                                                           *)
(* kmem.lock and refCount.lock are held for one statement each, so every     *)
(* change of a count is a step; what follows it in the same function runs    *)
(* with other processors and processes in between.  The order of the free    *)
(* list is left out, as no operation depends on which page it gets.          *)
EXTENDS Integers, FiniteSets

CONSTANTS
    Proc, Page, Data,
    None,       \* no page; also the junk that kfree() fills a page with
    Zero,       \* what a fresh page of a process holds
    First,      \* the process that runs at the start, with one page
    NV,         \* bound of this model: virtual pages of a process
    MaxCount,   \* bound of this model: references that forks count for a page
    SPAN,       \* virtual pages that one page of a page table serves
    Ops         \* what the processes do, of Operations

Operations ==
    {"fork", "store", "copyout", "exit", "sbrk", "bad store", "count"}

CowAssumption ==
    /\ First \in Proc /\ Zero \in Data /\ None \notin Page \cup Data
    /\ NV \in Nat \ {0} /\ SPAN \in Nat \ {0}
    /\ Ops \subseteq Operations
    /\ IsFiniteSet(Proc) /\ IsFiniteSet(Page) /\ Cardinality(Page) > 2

VARIABLES
    free,       \* kmem.freelist
    count,      \* refCount.count
    mem,        \* one word of every page
    pt,         \* pt[p][v]: the page mapped at virtual page v, or None
    writable,   \* the virtual pages with PTE_W
    kpage,      \* the kernel's pages for p: 0 is its trapframe, 1.. its table
    sz,         \* in pages
    at,         \* unused, user, or the kernel function p is in
    va,         \* the virtual page that function works on
    refCount,   \* the local refCount of uvmcow() and copyout()
    child,      \* np in fork()
    expected,   \* expected[p][v]: what p's program wrote or inherited last
    status      \* ok, panic, or wild: kfree() was given a page in use

memory == <<free, count, mem, status>>
space == <<pt, writable, kpage, sz>>
control == <<at, va, refCount, child>>
vars == <<memory, space, control, expected>>

VPage == 0..(NV - 1)
Slot == 0..NV
TableOf(v) == 1 + (v \div SPAN)

Init ==
    LET trapframe == CHOOSE x \in Page : TRUE
        table == CHOOSE x \in Page \ {trapframe} : TRUE
        pg == CHOOSE x \in Page \ {trapframe, table} : TRUE
    IN  /\ status = "ok"
        /\ free = Page \ {trapframe, table, pg}
        /\ count = [x \in Page |-> IF x \in free THEN 0 ELSE 1]
        /\ mem = [x \in Page |-> IF x = pg THEN Zero ELSE None]
        /\ pt = [p \in Proc |-> [v \in VPage |->
                    IF p = First /\ v = 0 THEN pg ELSE None]]
        /\ writable = [p \in Proc |-> IF p = First THEN {0} ELSE {}]
        /\ kpage = [p \in Proc |-> [i \in Slot |->
                       IF p = First /\ i = 0 THEN trapframe
                       ELSE IF p = First /\ i = 1 THEN table ELSE None]]
        /\ sz = [p \in Proc |-> IF p = First THEN 1 ELSE 0]
        /\ at = [p \in Proc |-> IF p = First THEN "user" ELSE "unused"]
        /\ va = [p \in Proc |-> 0]
        /\ refCount = [p \in Proc |-> 0]
        /\ child = [p \in Proc |-> None]
        /\ expected = [p \in Proc |-> [v \in VPage |-> Zero]]

(* The kernel runs, and nobody holds kmem.lock for ever.                     *)
Running == status = "ok" /\ \A p \in Proc : at[p] # "counting"

(* p, in user space, makes the call or the fault that op names.              *)
Calls(p, op) == Running /\ op \in Ops /\ at[p] = "user"

Return(p, where) ==
    /\ at' = [at EXCEPT ![p] = where]
    /\ va' = [va EXCEPT ![p] = 0]
    /\ refCount' = [refCount EXCEPT ![p] = 0]
    /\ UNCHANGED child

Panic ==
    /\ status' = "panic"
    /\ UNCHANGED <<free, count, mem, space, control, expected>>

(***************************************************************************)
(* kalloc() and kfree().                                                   *)
(***************************************************************************)

MappedIn(tables, p) == {tables[p][v] : v \in VPage} \ {None}
KernelPages(p) == {kpage[p][i] : i \in Slot} \ {None}

AnyOf(pages) == IF pages = {} THEN None ELSE CHOOSE pg \in pages : TRUE

(* The pages that the next two calls of kalloc() give, None for none.        *)
Fresh == AnyOf(free)
Fresh2 == AnyOf(free \ {Fresh})

(* Mutant: kalloc() leaves the page on the free list.                        *)
KallocKeepsPage(pages) == pages \subseteq free /\ free' = free

(* kalloc() for each of pages; callers set the count to 1, as it does.       *)
Kalloc(pages) == pages \subseteq free /\ free' = free \ pages

(* kfree() for each of pages, while the page tables become tables: it does   *)
(* not look at the count.  A page that someone still maps is overwritten     *)
(* under its owner and handed out again: nothing is modelled after that.     *)
Kfree(pages, tables) ==
    /\ free' = free \cup pages
    /\ mem' = [x \in Page |-> IF x \in pages THEN None ELSE mem[x]]
    /\ status' =
          IF pages \cap (free \cup UNION {MappedIn(tables, q) : q \in Proc})
             = {}
          THEN status ELSE "wild"

(* freeproc(p): the trapframe, the pages below sz and then the tables.       *)
(* uvmunmap() panics if one of the pages is not mapped.                      *)
Freeproc(p) ==
    LET none == [pt EXCEPT ![p] = [v \in VPage |-> None]]
    IN  /\ \A v \in 0..(sz[p] - 1) : pt[p][v] # None
        /\ Kfree(MappedIn(pt, p) \cup KernelPages(p), none)
        /\ pt' = none
        /\ writable' = [writable EXCEPT ![p] = {}]
        /\ kpage' = [kpage EXCEPT ![p] = [i \in Slot |-> None]]
        /\ sz' = [sz EXCEPT ![p] = 0]

(***************************************************************************)
(* fork() and uvmcopy().                                                   *)
(***************************************************************************)

(* allocproc() for the child; without a page for it fork() returns -1.       *)
Fork(p, q) ==
    /\ Calls(p, "fork")
    /\ at[q] = "unused"
    /\ \A pg \in MappedIn(pt, p) : count[pg] < MaxCount
    /\ Kalloc({Fresh})
    /\ count' = [count EXCEPT ![Fresh] = 1]
    /\ kpage' = [kpage EXCEPT ![q][0] = Fresh]
    /\ at' = [at EXCEPT ![p] = "fork", ![q] = "used"]
    /\ va' = [va EXCEPT ![p] = 0]
    /\ child' = [child EXCEPT ![p] = q]
    /\ UNCHANGED <<mem, status, pt, writable, sz, refCount, expected>>

(* Mutant: the count of the shared page is not raised.                       *)
UvmcopyNoCount(p, q, v) ==
    LET pg == pt[p][v]
        i == TableOf(v)
    IN  /\ IF kpage[q][i] # None
           THEN UNCHANGED <<free, kpage, count>>
           ELSE /\ Kalloc({Fresh})
                /\ kpage' = [kpage EXCEPT ![q][i] = Fresh]
                /\ count' = [count EXCEPT ![Fresh] = 1]
        /\ pt' = [pt EXCEPT ![q][v] = pg]
        /\ writable' = [writable EXCEPT ![p] = @ \ {v}]

(* One turn of uvmcopy(): the page of the parent loses PTE_W, its count goes *)
(* up, and mappages() enters it for the child, with a page for the table if  *)
(* there is none yet.                                                        *)
Uvmcopy(p, q, v) ==
    LET pg == pt[p][v]
        i == TableOf(v)
    IN  /\ IF kpage[q][i] # None
           THEN count' = [count EXCEPT ![pg] = @ + 1] /\ UNCHANGED <<free, kpage>>
           ELSE /\ Kalloc({Fresh})
                /\ kpage' = [kpage EXCEPT ![q][i] = Fresh]
                /\ count' = [count EXCEPT ![pg] = @ + 1, ![Fresh] = 1]
        /\ pt' = [pt EXCEPT ![q][v] = pg]
        /\ writable' = [writable EXCEPT ![p] = @ \ {v}]

ForkEnds(p, how) ==
    /\ at' = [at EXCEPT ![p] = "user", ![child[p]] = how]
    /\ va' = [va EXCEPT ![p] = 0]
    /\ child' = [child EXCEPT ![p] = None]

ForkPage(p) ==
    LET q == child[p]
        v == va[p]
    IN  /\ Running /\ at[p] = "fork" /\ pt[p][v] # None
        /\ Uvmcopy(p, q, v)
        /\ expected' = [expected EXCEPT ![q][v] = expected[p][v]]
        /\ IF v + 1 < sz[p]
           THEN va' = [va EXCEPT ![p] = v + 1] /\ UNCHANGED <<at, sz, child>>
           ELSE /\ sz' = [sz EXCEPT ![q] = sz[p]]
                /\ ForkEnds(p, "user")
        /\ UNCHANGED <<mem, status, refCount>>

(* mappages() fails: uvmcopy() returns with PTE_W cleared and the count      *)
(* raised, and freeproc() of the child, whose sz is still 0, unmaps nothing. *)
ForkFails(p) ==
    LET q == child[p]
        v == va[p]
    IN  /\ Running /\ at[p] = "fork" /\ pt[p][v] # None
        /\ MappedIn(pt, q) = {}
        /\ kpage[q][TableOf(v)] = None /\ free = {}
        /\ count' = [count EXCEPT ![pt[p][v]] = @ + 1]
        /\ writable' = [writable EXCEPT ![p] = @ \ {v}]
        /\ free' = KernelPages(q)
        /\ kpage' = [kpage EXCEPT ![q] = [i \in Slot |-> None]]
        /\ ForkEnds(p, "unused")
        /\ UNCHANGED <<mem, status, pt, sz, refCount, expected>>

(* freewalk() panics if the child has a page by then ("freewalk: leaf"), and *)
(* uvmcopy() if the parent lost one.                                         *)
ForkPanics(p) ==
    /\ Running /\ at[p] = "fork"
    /\ \/ pt[p][va[p]] = None
       \/ /\ MappedIn(pt, child[p]) # {}
          /\ kpage[child[p]][TableOf(va[p])] = None /\ free = {}
    /\ Panic

(***************************************************************************)
(* uvmcow() and copyout().                                                 *)
(***************************************************************************)

WriteTo(p, v, pg, d) ==
    /\ mem' = [mem EXCEPT ![pg] = d]
    /\ expected' = [expected EXCEPT ![p][v] = d]

(* The program, or copyout(), writes to a page with PTE_W.  A process that   *)
(* uvmcow() killed runs on until its next trap.                              *)
Write(p, v, d) ==
    /\ status = "ok" /\ Ops \cap {"store", "copyout"} # {}
    /\ at[p] \in {"user", "killed"}
    /\ v \in writable[p] /\ pt[p][v] # None
    /\ WriteTo(p, v, pt[p][v], d)
    /\ UNCHANGED <<free, count, status, space, control>>

(* A store to a page without PTE_W faults and calls uvmcow(); copyout() does *)
(* the same for itself: the count goes down and PTE_W is set.                *)
Decrement(p, v, op) ==
    LET pg == pt[p][v]
    IN  /\ Calls(p, op)
        /\ pg # None /\ v \notin writable[p]
        /\ count' = [count EXCEPT ![pg] = @ - 1]
        /\ refCount' = [refCount EXCEPT ![p] = count[pg] - 1]
        /\ writable' = [writable EXCEPT ![p] = @ \cup {v}]
        /\ va' = [va EXCEPT ![p] = v]
        /\ at' = [at EXCEPT ![p] = op]
        /\ UNCHANGED <<free, mem, status, pt, kpage, sz, child, expected>>

StoreFault(p, v) == Decrement(p, v, "store")
Copyout(p, v) == Decrement(p, v, "copyout")

(* Mutant: copyout() takes the page in place while one other uses it.        *)
ToCopySameTest(p) == refCount[p] > 1

(* Mutant: uvmcow() copies even when nobody else uses the page.              *)
ToCopyAlways(p) == TRUE

(* uvmcow() copies if more than one reference is left, copyout() if one is.  *)
ToCopy(p) == refCount[p] > (IF at[p] = "store" THEN 1 ELSE 0)

Handling(p) == Running /\ at[p] \in {"store", "copyout"}

(* copyout() goes on to write, to this word of the page or to another; the   *)
(* program stores again on its own.                                          *)
ThenWrite(p, pg, now) ==
    \/ mem' = now /\ UNCHANGED expected
    \/ /\ at[p] = "copyout"
       /\ \E d \in Data :
             /\ mem' = [now EXCEPT ![pg] = d]
             /\ expected' = [expected EXCEPT ![p][va[p]] = d]

TakeInPlace(p) ==
    LET pg == pt[p][va[p]]
    IN  /\ Handling(p) /\ ~ToCopy(p)
        /\ count' = [count EXCEPT ![pg] = 1]
        /\ ThenWrite(p, pg, mem)
        /\ Return(p, "user")
        /\ UNCHANGED <<free, status, space>>

CopyPage(p) ==
    /\ Handling(p) /\ ToCopy(p)
    /\ Kalloc({Fresh})
    /\ count' = [count EXCEPT ![Fresh] = 1]
    /\ ThenWrite(p, Fresh, [mem EXCEPT ![Fresh] = mem[pt[p][va[p]]]])
    /\ pt' = [pt EXCEPT ![p][va[p]] = Fresh]
    /\ Return(p, "user")
    /\ UNCHANGED <<status, writable, kpage, sz>>

(* kalloc() fails: virtual page 0 is unmapped and freed, whichever faulted.  *)
(* uvmcow() has the process killed, copyout() returns -1.                    *)
NoPageToCopy(p) ==
    LET less == [pt EXCEPT ![p][0] = None]
    IN  /\ Handling(p) /\ ToCopy(p) /\ free = {}
        /\ pt[p][0] # None
        /\ Kfree({pt[p][0]}, less)
        /\ pt' = less
        /\ writable' = [writable EXCEPT ![p] = @ \ {0}]
        /\ Return(p, IF at[p] = "store" THEN "killed" ELSE "user")
        /\ UNCHANGED <<count, kpage, sz, expected>>

NoPageToUnmap(p) ==
    /\ Handling(p) /\ ToCopy(p) /\ free = {} /\ pt[p][0] = None
    /\ Panic

(* A store to an address without a page, or to the program's text: uvmcow()  *)
(* panics.                                                                   *)
BadStore(p) == Calls(p, "bad store") /\ Panic

(***************************************************************************)
(* sbrk(), exit() and getNumFreePages().                                   *)
(***************************************************************************)

(* uvmalloc() by one page; if a page is missing nothing is left behind.      *)
Grow(p) ==
    LET v == sz[p]
    IN  /\ Calls(p, "sbrk") /\ v < NV
        /\ IF kpage[p][TableOf(v)] # None
           THEN /\ Kalloc({Fresh})
                /\ count' = [count EXCEPT ![Fresh] = 1]
                /\ UNCHANGED kpage
           ELSE /\ Kalloc({Fresh, Fresh2})
                /\ count' = [count EXCEPT ![Fresh] = 1, ![Fresh2] = 1]
                /\ kpage' = [kpage EXCEPT ![p][TableOf(v)] = Fresh2]
        /\ mem' = [mem EXCEPT ![Fresh] = Zero]
        /\ pt' = [pt EXCEPT ![p][v] = Fresh]
        /\ writable' = [writable EXCEPT ![p] = @ \cup {v}]
        /\ sz' = [sz EXCEPT ![p] = v + 1]
        /\ expected' = [expected EXCEPT ![p][v] = Zero]
        /\ UNCHANGED <<status, control>>

(* uvmdealloc() by one page; programs keep their first.                      *)
Shrink(p) ==
    LET v == sz[p] - 1
        less == [pt EXCEPT ![p][v] = None]
    IN  /\ Calls(p, "sbrk") /\ v > 0
        /\ Kfree({pt[p][v]}, less)
        /\ pt' = less
        /\ writable' = [writable EXCEPT ![p] = @ \ {v}]
        /\ sz' = [sz EXCEPT ![p] = v]
        /\ UNCHANGED <<count, kpage, control, expected>>

(* exit(), and freeproc() when the parent waits; exec() frees the pages it   *)
(* replaces in the same way.                                                 *)
Exit(p) ==
    /\ Running
    /\ at[p] = "killed" \/ (at[p] = "user" /\ "exit" \in Ops)
    /\ Freeproc(p)
    /\ Return(p, "unused")
    /\ UNCHANGED <<count, expected>>

ExitPanics(p) ==
    /\ Running
    /\ at[p] = "killed" \/ (at[p] = "user" /\ "exit" \in Ops)
    /\ \E v \in 0..(sz[p] - 1) : pt[p][v] = None
    /\ Panic

(* The loop moves kmem.freelist and never r: the head of the list is lost,   *)
(* and unless the list was empty the loop does not end.                      *)
GetNumFreePages(p) ==
    /\ Calls(p, "count")
    /\ Kalloc({Fresh})
    /\ at' = [at EXCEPT ![p] = "counting"]
    /\ UNCHANGED <<count, mem, status, space, va, refCount, child, expected>>

Next ==
    \E p \in Proc :
        \/ \E q \in Proc : Fork(p, q)
        \/ ForkPage(p) \/ ForkFails(p) \/ ForkPanics(p)
        \/ \E v \in VPage :
              StoreFault(p, v) \/ Copyout(p, v) \/ \E d \in Data : Write(p, v, d)
        \/ TakeInPlace(p) \/ CopyPage(p) \/ NoPageToCopy(p) \/ NoPageToUnmap(p)
        \/ BadStore(p)
        \/ Grow(p) \/ Shrink(p) \/ Exit(p) \/ ExitPanics(p)
        \/ GetNumFreePages(p)

Spec == Init /\ [][Next]_vars

(* A process in the kernel goes on.                                          *)
FairSpec ==
    /\ Spec
    /\ \A p \in Proc :
          WF_vars(at[p] # "user" /\
                  (ForkPage(p) \/ ForkFails(p) \/ ForkPanics(p)
                   \/ TakeInPlace(p) \/ CopyPage(p) \/ NoPageToCopy(p)
                   \/ NoPageToUnmap(p)))

(***************************************************************************)
(* Properties.  They hold until the kernel panics or runs wild.            *)
(***************************************************************************)

(* Every variable has its type.                                              *)
TypeOK ==
    /\ free \subseteq Page
    /\ count \in [Page -> Int]
    /\ mem \in [Page -> Data \cup {None}]
    /\ pt \in [Proc -> [VPage -> Page \cup {None}]]
    /\ writable \in [Proc -> SUBSET VPage]
    /\ kpage \in [Proc -> [Slot -> Page \cup {None}]]
    /\ sz \in [Proc -> 0..NV]
    /\ at \in [Proc -> {"unused", "used", "user", "killed", "fork", "store",
                        "copyout", "counting"}]
    /\ va \in [Proc -> VPage]
    /\ refCount \in [Proc -> Int]
    /\ child \in [Proc -> Proc \cup {None}]
    /\ expected \in [Proc -> [VPage -> Data]]
    /\ status \in {"ok", "panic", "wild"}

Mappings(pg) == {m \in Proc \X VPage : pt[m[1]][m[2]] = pg}

(* Processes that gave up their reference to pg and still map it.            *)
Leaving(pg) ==
    {p \in Proc : at[p] \in {"store", "copyout"} /\ pt[p][va[p]] = pg}

Holders(pg) == Cardinality(Mappings(pg)) - Cardinality(Leaving(pg))

Used == UNION {MappedIn(pt, p) : p \in Proc}

(* While there is memory and the writes are copyout()'s, every count is the  *)
(* number of page tables that refer to the page, however the calls of        *)
(* several processes interleave between the decrement and the copy.          *)
CountsExact ==
    status = "ok" => \A pg \in Used : count[pg] = Holders(pg)

(* With them no two processes have a page in common that one may write.      *)
WritableIsPrivate ==
    status = "ok" =>
        \A p, q \in Proc : \A v \in writable[p], w \in VPage :
            /\ at[p] \in {"user", "fork"} /\ at[q] \in {"user", "fork"}
            /\ p # q /\ pt[p][v] # None
            => pt[p][v] # pt[q][w]

(* Stores included, while there is memory a count is never too high, so the  *)
(* last process that refers to a page does not copy it and leave it behind:  *)
(* every page is free, or the kernel's, or mapped.                           *)
NoPageLost ==
    status = "ok" =>
        /\ \A pg \in Used : count[pg] <= Holders(pg)
        /\ Page = free \cup Used \cup UNION {KernelPages(p) : p \in Proc}

(* Even when memory runs out, and a fork or a fault fails half way: no page  *)
(* has two uses.  What is free is neither mapped nor the kernel's, and the   *)
(* kernel has every page of its own once.                                    *)
OneUse ==
    status = "ok" =>
        /\ free \cap Used = {}
        /\ \A p \in Proc :
              /\ KernelPages(p) \cap (free \cup Used) = {}
              /\ \A i, j \in Slot :
                    i # j /\ kpage[p][i] # None => kpage[p][i] # kpage[p][j]
              /\ \A q \in Proc : p # q => KernelPages(p) \cap KernelPages(q) = {}

(* Copy-on-write is not seen by the programs: each reads what it wrote last, *)
(* or what it inherited, whatever the others write.                          *)
Isolation ==
    status = "ok" =>
        \A p \in Proc : \A v \in VPage :
            at[p] \in {"user", "fork"} /\ pt[p][v] # None
            => mem[pt[p][v]] = expected[p][v]

(* No page is freed while another process refers to it.                      *)
FreedUnshared == status # "wild"

(* A fork that finds no memory returns; it does not stop the kernel.         *)
ForkReturns == status # "panic"

(* A bad address costs the process its life, not the kernel's.               *)
BadAddressKillsProcess == status # "panic"

(* A process that could not get its copy leaves nothing that stops the       *)
(* kernel later.                                                             *)
ShortageKillsProcess == status # "panic"

(* A call of getNumFreePages() returns.                                      *)
CountReturns == \A p \in Proc : at[p] = "counting" ~> at[p] = "user"
=============================================================================
