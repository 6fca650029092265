# A TLA+ model of the operating-systems assignments

The repository holds the four assignments of an operating-systems course: three
copies of the xv6 kernel for RISC-V (`src/assignments/xv6-riscv`, and the
changed ones of assignments 2 and 3), a list library, programs over the RT
Threads library (a monitor, a memory manager, a chat program), and user-level
threads.  This directory models the parts in which processes, cores or threads
meet, checks the models with TLC on small instances, and proves what matters most
with TLAPS for every instance.

## Inventory

Paths are below `src/assignments/`; `kernel/` is `a3/xv6-riscv/kernel/`.

| Component | State | Operations | What is hard | What makes it correct |
|---|---|---|---|---|
| Group scheduler (`kernel/proc.c:454-611`, `sysproc.c:130`) | `groupshares[]`, `groupschedule[]`, `processschedule[]`, its index and lock, per-core locals | `scheduler`, `schedulegroups`, `scheduleprocesses`, `setshare`, `setprocessgroup` | several cores; a schedule of slots that is stale when used; shares without a lock | one builder, who finishes; picks inside the schedule; each entry given once; no process on two cores; turns alternate and fit the arrays; no starvation |
| Process table (`kernel/proc.c`) | `proc[]`: state, lock, channel, parent, killed; `wait_lock` | `fork`, `exit`, `wait`, `sleep`, `wakeup`, `kill`, `yield` | lock handed over across `swtch()`; lost wakeups; orphans | a slot changes hands only when no core uses its stack; no wakeup is lost; each child is reaped once |
| Copy-on-write memory (`kernel/kalloc.c`, `vm.c`, `trap.c`) | free list, reference counts, page tables | `kalloc`, `kfree`, `uvmcopy`, `uvmcow`, `copyout` | counts against mappings; failure half-way; several cores | a page is free iff nothing maps it; a write is never seen through another process's mapping |
| Log and buffer cache (`kernel/log.c`, `bio.c`) | in-memory and on-disk header, log blocks, cache with pins | `begin_op`, `log_write`, `end_op`, `commit`, recovery | a crash at any disk write; shared transactions; log space | a transaction is on disk wholly or not at all; the log never overflows |
| Spinlocks, sleeplocks, pipes | lock words, ring buffer counters | acquire/release, read/write/close | sleep and wakeup; counters that wrap | no byte lost, nobody sleeps for ever |
| Files, inodes, directories (`fs.c`, `file.c`, `sysfile.c`) | reference and link counts, blocks | open, link, unlink, ... | counts against references; failure half-way | no block in two files |
| Paging, exec, traps, drivers | page tables, device rings | | hardware | |
| Monitor server (`a4/partA/monitor.c`) | `monBusy`, `enterQueue`, `urgentQueue`, `CVlistDict` | messages enter, leave, wait, signal | threads pass through four queues; two threads answered by one message | mutual exclusion; a blocked thread is queued once; hand-over to signallers first; nobody forgotten |
| First-fit/best-fit manager (`a4/partA/mem-management.c`) | free and allocated lists, waiting counts, `threadsLeft` | `FfMalloc`, `BfMalloc`, `FfFree`, `BfFree`, `Threadend` | waits until memory is free; detects deadlock by counting | blocks partition the memory, are sorted and merged; the test for deadlock is exact |
| List library (`a4/partA/list_*.c`) | node pool, free node list, lists with a cursor | `ListAdd`, `ListInsert`, `ListTrim`, `ListFree`, ... | pool at its limit; dangling cursors | each list is a sequence with a cursor; a node is in one list or free |
| Semaphore monitor, readers and writers (`a2_phase2/Monitor.c`, ...) | semaphores, counters, lists | `MonEnter`, ..., `StartRead`, ... | interleaving of semaphore operations | signal-and-wait; no reader beside a writer |
| Dining philosophers (`a2_phase2/dining-philosopher-monitor.c`) | states, semaphores | `getChopstick`, `putChopstick` | waits while holding the mutex | neighbours do not eat together; no deadlock |
| Chat program (`a2_phase2/s_chat.c`) | free and queued buffers, ready flags | messages of four clients | buffers run out; end of file | a message is delivered once and in order; every sender is answered |
| User threads, mutexes, semaphores (`a2_phase2/xv6-riscv/user`) | thread states, locks, counts | `thread_yield`, `mtx_lock`, `P`, `V` | cooperative switching | bounded buffer never over- or underrun |
| Square programs of assignment 1, user programs, mkfs, scripts, earlier copies | | | little shared state | |

Components interact as follows.  A core's `scheduler()` and the process it runs
hand a process lock to each other across `swtch()`; system calls change the
table and the shares under the scheduler.  `trap.c` drives `yield()` and the copy-on-write
fault.  `fs.c` changes blocks inside transactions of `log.c`, which reads
and writes them through `bio.c`.  In assignment 4 the memory manager's
procedures run inside the monitor, which is a thread of its own that they send
messages to, and whose queues are lists of the list library.

`PROJECT.json` lists the hazards of each component at the line where they bite,
with the properties that catch them.  Eight have none, because what can go wrong there
does go wrong: their notes point to *Further instances* below.

## Modules

| Module | What it is |
|---|---|
| `CpuAlloc` | abstract: which process may be on which core, when a slot may change hands |
| `GroupSched` | the scheduler, its system calls and the process table under it; implements `CpuAlloc` |
| `GroupSchedHistory` | `GroupSched` with a history variable: the entries given out in this cycle |
| `HoareMonitor` | abstract: a monitor with signal-and-wait |
| `RttMonitor` | the monitor server of assignment 4 and its callers; implements `HoareMonitor` |
| `AtomicStore` | abstract: what system calls write reaches the store in one step, or is lost |
| `FsLog` | the log, the buffers it depends on, and crashes; implements `AtomicStore` |
| `CowMem` | copy-on-write memory |
| `SleepWakeup` | `sleep()`, `wakeup()`, `kill()` and spinlocks, as a library of actions |
| `SleepLock`, `ProcLife`, `PipeIO` | sleep-locks; the life of processes; a pipe and its files: each over `SleepWakeup` |
| `VirtioDisk` | the disk driver and the device |
| `InodeTable` | inodes in memory and on disk under the calls on files |
| `CursorList` | what a list of the list library is to its users: a sequence with a cursor |
| `ListSpec` | abstract: several such lists, and what each call does to them |
| `ListLib` | the list library over its pools of nodes and LIST structs; its calls implement those of `ListSpec` |
| `MemManage` | first fit, best fit and the simulation's threads inside `HoareMonitor` |
| `Semaphore` | the semaphores assignment 2 runs on (external) |
| `SemMonitor`, `ReaderWriter` | the monitor made of semaphores; readers and writers in it |
| `Philosophers` | the dining philosophers |
| `SChat` | the chat program |
| `UThreads` | user threads and their mutexes |
| `UThreadPrograms` | any program on them |
| `ProdCon`, `ProdConMtx`, `ProdConSem` | the two programs with a producer and a consumer |
| `KernelParts`, `KernelLive` | compose the kernel's modules for checking: safety, and what must come to an end |
| `Programs`, `RttPrograms`, `ProgramsLive` | the same for the programs outside the kernel: `RttPrograms` has those of assignment 2 on RT Threads, `Programs` adds the memory manager and the list library |
| `MCRttMonitor`, `MCFsLog` | symmetry for TLC |
| `GroupSchedProofs`, `RttMonitorProofs`, `FsLogProofs`, `UThreadProofs`, `CowProofs`, `InodeProofs`, `KernelProofs`, `RttProgramsProofs` | theorems |

### GroupSched

The variables keep the names of the code: `state`, `group` and `plock` are
fields of `struct proc`, `cpuproc[c]` is `c->proc`, `left` is the
copy of `groupshares[]` in `schedulegroups()`, `totalshares` and `scan` its `totalshares` and `i`, `slot` and `next` the loop
variables of `scheduleprocesses()`.  `pc[c]` says where the core is: at the top
of `scheduler()`, inside the index lock (`shares`, `total`, `place`, `procs`, `pick`,
`advance`), about to take the lock of the picked process (`dispatch`), on a process
(`run`), or in `sched()` on its way back (`switch`).

A step is one critical section of a `p->lock`, or one read or write of a variable that no
lock protects.  Consequently `schedulegroups()` reads each share in one step for its copy and in another for the total,
`calculateremainingshares()` one share per step, and `setshare()` stores in a step of its own;
`scheduleprocesses()` takes one process lock per step.  A process lock that is held across
`swtch()` is the variable `plock`; a lock taken and released inside a step is a guard.

Simplifications.  `fork()` may take any UNUSED slot where the code takes the first.
A sleeping process may be woken, and a zombie reaped, at any moment: channels,
parents and `kill()` are those of `ProcLife`.  A write past the
end of `groupschedule[]`, which `GroupScheduleFits` below shows to be possible, is
modelled as a longer sequence; what it overwrites is not.  Calls of
`setshare()` with arguments out of range change nothing and are left out.

### RttMonitor

Threads of RT Threads do not preempt each other (`a2_phase2/PartC.design.txt:94`),
so a call up to its `RttSend()` is one step and a message handled by `MonServer()`
another.  `RttSend`, `RttReceive` and `RttReply` are not in the repository: messages
queue at the server in the order of sending (`inbox`) and the sender stays blocked until it is replied to.  `at[t]`
is where the thread is, the queues are those of the code with `urgentCurser`
for the one whose cursor matters: `ListInsert()` puts a signaller before the
cursor, `ListTrim()` takes the tail.  `enterQueue` is a stack, since its cursor is
always at the tail and the server trims it.

`RttMonWait()` and `RttMonSignal()` send 10 bytes, which end before
`condVar`; the server's own `msg->condVar` therefore keeps what `malloc()` left there, a
constant chosen in `Init`.  Values that are no condition, which would index
outside `CVlistDict[]`, and the limit of 500000 nodes of the list library are left out.

### FsLog

`home`, `head` and `logblock` are the disk: the blocks outside the log, the header
(`n` and `block[]` as one sequence) and the log's blocks.  `cache` and `pins` are the
buffer cache, `buf[p]` is the buffer that `p` has locked, `lh`, `outstanding` and `committing`
are fields of `struct log`.  `phase` and `tail` say how far `initlog()` or `commit()` has come;
there is one of each for all processes, because only one process commits, which
`CommitAlone` checks.  `pc[p]` is `in` between `begin_op()` and `end_op()`, `modified` between
changing a buffer and `log_write()`, `begin` when `p` was woken in `begin_op()`.

A step is a critical section of `log.lock` or one write to the disk.  `bwrite()` returns when
the device is done, so a write that returned is durable.  `Crash` is possible in every
state and leaves a block that was being written `Torn`.  The header is at most 124 bytes of
one sector and is not torn.  A panic is a `phase` in which only a restart is left.

Simplifications.  A buffer that nobody refers to may be recycled at any moment, which
covers every LRU order; the limit of `NBUF` buffers, at which `bget()` panics, is left out.
The buffers of the log's own blocks equal those blocks on the disk and have no variable.
Callers keep to `MAXOPBLOCKS` blocks, change a buffer only inside a call and log it before they
end, as `fs.c` and `sysfile.c` do; what the blocks mean is not modelled.

### CowMem

`free` is the free list as a set (no operation depends on the order), `count` is
`refCount.count[]`, `pt[p]` and `writable[p]` are the page table, `kpage` the pages a process
needs for itself.  `at[p]` says where a process is in `fork()`, a page fault, `copyout()`, `exit()`
or `sbrk()`.  `kmem.lock` and `refCount.lock` are held for one statement each, so every change of a
count is a step, and other processes run between it and what follows in the same function.
`expected` is a history variable: what each process last stored.  `NV` bounds the pages of a process, `SPAN` says how many
of them one page of a page table serves, `MaxCount` bounds the references that forks make.

### SleepWakeup, SleepLock, ProcLife

`SleepWakeup` has `held` for the spinlocks that are given up while asleep and `plock[p]` for
`p->lock`; a section under one `p->lock` that takes no other lock is one step.  Which
process runs next is any core's choice.  `ProcLife` has `fork()`, `exit()` with `reparent()`,
`wait()` with its scan slot by slot, and `kill()`.  Slots are `0..n-1` with init in slot 0;
init is never killed, and waits only while it has a child (with none the code panics or sleeps for ever).
`setkilled()` is a kill of oneself.  `fork()` that fails in `uvmcopy()` is left out.
`MaxPid` bounds the process ids given out and `MaxKilled` the ids that `kill()` is called with;
id 0, which unused slots hold, is among them.

### PipeIO

`data`, `nread` and `nwrite` are those of `struct pipe`; the counters are taken modulo
`UINT`, in the code 2^32, a multiple of `PIPESIZE` both there and here.  `sent` and
`received` are history.  A byte is moved per step while the lock is held; `ref` and `ofile` are the
file structures of the two ends, duplicated and closed at any time.
The test-and-set of a spinlock and the counting of `push_off()` are not modelled.

### VirtioDisk

What a process or the handler does until it sleeps, it does under `vdisk_lock`, so it is one step;
that `sleep()` gives the lock up without a gap is checked in the modules over `SleepWakeup`.  The device fetches,
completes and raises interrupts at any time and in any order.  Ring entries that both sides are done
with are forgotten.  `IDX` stands for 2^16, which `NUM` divides.

### InodeTable

One directory with regular files; a process has at most one open file.  `dinode`, `dir` and `bitmap` are the
disk as the calls in progress see it, `stored` is what a restart would find, which by `AtomicStore` is
updated when no call is in progress.  A file's content is a set of blocks.  `ilock()`, `iput()`,
`ialloc()`, `create()` and `unlink()` are taken step by step with `itable.lock` and the locks of the inodes.
`open()` with `O_CREATE` of an existing name is `Open`; lookups that fail change nothing.

### CursorList, ListSpec, ListLib

`ListLib` has the nodes with `next`, `prev` and item, the chain of unused nodes and that of unused
LIST structs, and one action per call of the library.  `ListsImplementSpec` shows that what each call leaves is what
`CursorList` says.  The other modules use lists as `CursorList`.  `listNum` is left out (nothing reads it);
`MaxDebt` bounds how far `nodeNum` may fall below zero.

### MemManage

The procedures run inside `HoareMonitor`, which `RttMonitor` implements; as there, both conditions share one
list because the number of the condition is lost.  What a thread does inside until it waits, signals or
leaves is one step.  Free and allocated blocks are sequences; `addrs[t]` is what a thread may free.
The statistics are left out.

### Semaphore, SemMonitor, ReaderWriter, Philosophers

A semaphore is a count and the threads blocked in `P()`, first come first served.  A step
goes from one `P()` or `V()` to the next; what lies in between is local.
`stage[t]` is how far a thread is in a call of the monitor, `pc[t]` where it is in its
procedure.  `MonSignal()` takes a waiter off `condVar` and so does the waiter it wakes, as in the
code.  The philosophers wait for their chopsticks with the mutex, as in the code, so the program
really can stop; `MaxUnits` bounds the units that `checkIfReady()` piles up in a semaphore.

### SChat

A thread runs until it sleeps or blocks in `RttSend()`; the scheduler of RT Threads is
not in the repository, so any ready thread may be next.  `RttReply()` reaches a thread whose message was received.
`buffers` has the six lists as `CursorList`, `content` what each buffer
holds, `exitFlag` and `ready` of the code.  The pool of list nodes is far from its limit here and left out.

### UThreads and the programs on them

`state`, `current_thread` and `mutexes` keep their names.  A thread runs until it yields, so what lies
in between is one step; a thread function that returns starts again, as its context still
points there.  In `UThreadPrograms` main makes its mutexes and threads and then schedules, as
all programs here do.  `mutexes[-1]`, which `sem.c` reads, is a word with any value.

### KernelParts, KernelLive, Programs, RttPrograms, ProgramsLive

These compose the modules for checking.  The components do not share state except as their
modules say, so a product of all interleavings would show nothing more; `part` is chosen once,
the variables of the other parts keep their initial values, and each
property says what its part promises while that is explored.  `KernelParts` and `RttPrograms` leave the
constants of the parts with theorems open (`KernelAssumption`, `RttProgramsAssumption`), so that the theorems hold for
every size.  Those of `CowMem` and `InodeTable` are proved about these modules themselves and instantiated.  `CowMem`, `InodeTable`, `MemManage` and `ListLib` are instantiated there with fixed sizes.

## Runs

| Run | Instance | Shows |
|---|---|---|
| `sched` | 2 cores, 2 slots, 2 groups, at most 3 shares, one caller with 2 calls, fair | one builder, picks in bounds, entries given once, fair turns, room for the entries, the refinement of `CpuAlloc`, `NoStarvation` |
| `sched_shares` | at most 5 shares, two callers | finding: the shares are more than `MAXGROUPSHARE` |
| `monitor_safety` | 5 threads, 2 conditions | mutual exclusion, queues, refinement of `HoareMonitor` |
| `monitor_conditions` | 2 threads, 2 conditions | finding: a signal wakes a waiter of another condition |
| `fslog_safety` | 2 processes, 3 blocks, 2 contents, `MAXOPBLOCKS` 2, log of 4 | commits alone, room in the log, no lost wakeup, refinement of `AtomicStore` |
| `fslog_too_big` | 2 processes, 3 blocks | finding: `log_write()` panics for calls that `begin_op()` admitted |
| `kernel_parts` | nine parts, see below | counts of copy on write, process table, sleep-locks, pipes, disk requests, inodes |
| `kernel_live` | six parts, fair | sleepers are woken, init reaps, calls return |
| `cow_two_sharers` | 2 processes, 1 page each | finding: the first to store changes the page of the other |
| `inode_orphan` | 2 processes, 2 names, 2 inodes | finding: an inode stays allocated that nobody can reach |
| `programs` | eight parts | memory manager, list library with its refinement of `ListSpec`, readers and writers, philosophers' mutex, chat |
| `programs_live` | six parts, fair | user threads, producer and consumer, entry into both monitors, the chat's messages |

*Scheduler.*  `OneBuilder`, `PickInBounds` and `EachEntryGivenOnce`:
the test of the index, the rebuild, the pick and the increment belong together
although they are separate steps.  `AllocSpec`: no process is on two cores.
`AlternatingTurns`: groups take turns `ABAB..`
as the design requires.  `ScheduleFits`: whatever changes during the scan, `processschedule[]` with its `NPROC * MAXGROUPSHARE` elements is
not overrun as long as `groupschedule[]` is not.  That one may be (`GroupScheduleFits` below), because the shares are read while they
change, and two callers of `setshare()` may leave too many (`SharesFit`, `sched_shares`).
`NoStarvation`: nobody stays runnable for ever in a group that has a share, unless a builder's total was torn: `schedulegroups()` reads each share twice, and
with a store in between its loop may never end (`BuildEnds` below).  `partA.design.txt:29` says that a process that becomes runnable in a cycle
waits for the next; one that slept and woke runs in it through the entry that it left behind.  Such entries are part of the runs.

*Monitor server.*  `MutualExclusion` counts a thread as inside from
the reply that lets it in to the message that gives the monitor up.  `BlockedOnce`: a blocked
thread is in exactly one queue, once.  `HoareSpec`: the server hands over
to signallers before entering threads, and a signal gives the monitor to a waiter at once.
`EveryoneGetsIn`: once threads stop entering and signalling, each pending enter
and signal ends inside.

*Log.*  `StoreSpec` is the one that matters: `store` is what a
recovery would find now, `mem` what a reader finds.  It says that no
crash, and no crash during the recovery from another, leaves half of a transaction; that
eviction never brings back an old block; that the call that ends
last returns when its blocks are safe.  `CommitAlone` is the comment at `log.c:12-16`.
`LogHasRoom` says that the reservation of `begin_op()` covers what active calls may still write, absorption
included.  `NeverTooBig` says that the panic in `log_write()` is out of reach, and fails: `mkfs` makes the log
`LOGSIZE` blocks with its header (`NLOG = LOGSIZE` in the runs, as in `mkfs.c:25`).

*Kernel.*  `CowCounted`: a page's count is the number of page tables with it, also between
`uvmcow()`'s decrement and its copy, while there is memory and writes are those of `copyout()`.  `CowPagesKept`: with exits and `sbrk()` no
page is lost, and when memory runs out half-way no page has two uses.  `ProcTable`: whoever
lives has a living parent, an unused slot holds nothing and runs nothing, ids differ, no parent sleeps beside a
zombie.  `PipeSound`: bytes come out as they went in while the counters overflow, an end is open while a file refers to it, and the
pipe is freed when nobody can be in it.  `NoSleeperMissed`: no wakeup falls between a test and the sleep.
`DiskSound`: requests have three descriptors of their own, the device reads them as submitted, and
`virtio_disk_rw()` returns after its transfer.  `InodesSound`, `InodesStored`: counts, links and blocks, in
memory and after a crash.  `kernel_live`: `SleepersWake`, `OrphansReaped`, `CallsReturn`.

*Programs.*  `MemoryPartitioned`: every byte in one block, free neighbours joined.
`MemWaitersCounted`: the counters are those of the waiting threads, and when first fit reports
a deadlock no other thread of it is left to run (its own request may have come to fit, `ReportHasNoFit` below).  Best fit's report and the end of a thread
do not keep to that (`BFReportHasNoRunner`, `DeadlockDetected` below).  `ListNodes`: a call loses no node and uses none twice if the lists were sound before it,
with two exceptions: the second growth of the pool of lists, and freeing a list whose first node has kept a `prev` of its former list; `CreateKeepsOthers` and `FreeKeepsOthers` below show what they do.
`ListsImplementSpec`: from a sound state each call does to a sequence what that call of `ListSpec` does, with the same exceptions and the cursor after `ListConcat()` (`ConcatTakesCurser` below).
Lists that one of the two calls broke are not explored further: nothing is promised of them.  `FullOnlyWhenFull` and `NodeToTake` below are the two ends of `nodeNum`.  `RwMonitorSound`: the
monitor is one unit that one thread or one semaphore has.  `ReadersOrWriter`: nobody reads beside a
writer, although who waited does not look again.  `OneHoldsMutex`, `ChatSound`: no buffer
lost, each queued message is written once and in order, a writer is taken for ready exactly while it waits.
`programs_live`: `OneHolder` and `NearsTurn` for user threads, `BufferBounds`, `ThreadsGoOn`, `EveryoneGetsIn`,
`QueuedIsWritten`.  `ThreadsGoOn` fails for a buffer of one place with the mutex, which `main()` accepts: `con()` tests `buffSize > 1` (`BothWork` below).

### Bounds

Two cores are enough for every race between cores, since the code treats
all other cores alike.  Two slots and two groups give a schedule with
several entries of one process, entries that go stale through sleep, exit and reuse of
the slot by `fork()`, and a group without a share; three shares make turns uneven.
`MaxCalls = 2` lets a share be lowered and then another raised, also during the reads of a builder; a third call makes `groupschedule[]` too long.
In the monitor two waiters, a signaller that is queued, a second signaller
before the first, and one that enters make five threads; the cursor of `urgentQueue`
leaves the tail from three queued signallers on, which four threads reach.
In `FsLog` two calls fill the log of the smallest size that lets two run at once, and with three blocks one can be
absorbed, one installed and one still to be copied when the machine crashes.  In `kernel_live` the log has room
for one call, so that the other waits in `begin_op()`.

`kernel_parts`: three processes fork one page, so that a count goes up to three; two processes of two pages with 7 pages
find one for every fork, but not for every fault; with 6 (and a table per page, and stores) memory ends
half-way through a fork.  Three slots are init, a parent and a child, of which the parent may end
first; `MaxPid` 4 lets a slot be used again; `MaxKilled` 1 sets `killed` of a process or of an unused
slot.  Three processes want one sleep-lock: one has it, one sleeps, one comes.  A pipe of 2
bytes with `UINT` 4 and `MaxBytes` 4 wraps both its ring and its counters; calls of up to 3 bytes fill it half-way.
Three disk requests want 9 of 8 descriptors; `IDX` 16 wraps
in the run.  Two inodes and one name leave one inode unnamed while open; two names on one inode are linked, with one crash.
`programs`: four addresses hold three blocks in every arrangement with gaps; four threads want more than three addresses, and first fit reports a deadlock when they may keep what they have;

three nodes and a list struct more than `MIN_LISTS` reach both limits of the pools, in one part by all calls on one item, in another by all but two on two items; two readers and two
writers queue in both conditions with a signaller; four philosophers have neighbours that are not each other's; three buffers and
three messages per reader fill and empty a queue.  `programs_live` has main and four threads, two mutexes, and all buffer
sizes the programs can be built with up to 6, but for 1 in `ProdConMtx` (`BothWork` below).

### Fairness

`GroupSched`: a core never stops inside `scheduler()`, and the
timer interrupts every process, so `Yield` is weakly fair; sleep, exit and the system calls are not required to happen.
`RttMonitor`: the server handles its messages (weak fairness); a thread inside
leaves or waits at last (strong fairness, as it may signal in between), since no
procedure of `mem-management.c` signals in a loop.  `EveryoneGetsIn` assumes that threads
stop entering and signalling, as they do after `numIterations`: while others
keep calling, a thread can stay in `enterQueue`, a stack, for ever.

`FsLog`: `initlog()`, `commit()` and a call that has changed a buffer go on
(weak fairness), and every call reaches its `end_op()` (strong fairness, as it may first change
more buffers); no call needs to begin.  `ProcLife`, `SleepLock`, `VirtioDisk` and `InodeTable`: a process that is
in the kernel goes on and gets a lock that is free again and again (strong fairness: the spinlock has no queue,
but `acquire()` tries at every turn and the holder does not sleep with it; a sleep-lock wakes all that wait for it).  The
device answers and interrupts.  Init waits again and a killed process exits; nobody needs to call anything else.
`ReaderWriter`: every thread that can go on does.  `SChat`: no thread of equal priority is kept
from running.  `UThreadPrograms`: the program goes on, and calls `thread_yield()` again and again.
`ProdConMtx`, `ProdConSem`: the process goes on.

In the composed runs a fairness condition is stated for the part that is explored: `part = p /\ A` is never enabled
in another part, so there it demands nothing.  `Explored(p)` only picks the disjunct.

### Deadlock

It is checked in the runs of the scheduler.  Elsewhere stopping is no error of the model: in both monitors all threads may wait for
a condition; the philosophers really deadlock (`HungryEats` below); the chat and the user threads' process end; a kernel that
panicked stays so; with all inodes leaked calls only fail.  In `FsLog` a crash is always possible and the check says
nothing.  What must not stop is said by the liveness properties.

## Further instances

Where a doc or a comment says more than the code does, the property of the left column states the doc and TLC finds it
violated with the module and constants named.  Five such instances are runs; these are kept as a table, since their
configuration is a line each.  Constants not named are as in the run of the same module; the rows of `ListLib` have one item and one list struct at first.
Numbers of processes and pages stand in this order, as in "2, 6".

| Property (module) | Constants | What happens; what is said |
|---|---|---|
| `NothingRunsDuringBuild` (GroupSched) | no calls | another core runs a process while the schedule is built |
| `GroupScheduleFits` (GroupSched) | `MAXGROUPSHARE` 4, `MaxCalls` 3 | shares that change while they are read give more turns than `groupschedule[]` has elements (`proc.c:529`) |
| `BuildEnds` (GroupSched, `FairSpec`) | `MAXGROUPSHARE` 2, `MaxCalls` 1 | a total that was torn is never counted down to zero (`proc.c:518`) |
| `Isolation` (CowMem) | fork, copyout; 2 `Proc`, 6 pages | `copyout()` gives up its reference before it copies (`vm.c:446`) |
| `FreedUnshared` (CowMem) | fork, exit; 2, 6 | `kfree()` frees a page that the parent has (`kalloc.c:68`) |
| `ForkReturns` (CowMem) | fork, sbrk; 2, 7; `NV` 2, `SPAN` 1 | a fork that fails half-way panics in `freewalk()` (`vm.c:346`) |
| `BadAddressKillsProcess` (CowMem) | bad store; 1, 3 | `uvmcow()` panics on an address that is not mapped (`vm.c:371`) |
| `ShortageKillsProcess` (CowMem) | fork, store, sbrk; 3, 9; `NV`, `SPAN` 3 | without memory `uvmcow()` unmaps page 0 and the exit panics (`vm.c:390`) |
| `CountReturns` (CowMem, `FairSpec`) | count; 2, 6 | `getNumFreePages()` does not advance and keeps `kmem.lock` (`kalloc.c:104`) |
| `KilledWasAsked` (ProcLife) | 3 slots, `MaxPid` 5, `MaxKilled` 2 | `kill(0)` marks an unused slot, and the next process in it is killed (`proc.c:734`) |
| `KilledIsWoken` (ProcLife) | the same | a kill between the test and the sleep of `wait()` is slept through (`proc.c:736`) |
| `ReadersSleepIfEmpty` (PipeIO) | `MaxBytes` 5, `MaxRef` 3 | a killed writer returns without `wakeup()` (`pipe.c:84`) |
| `NoOrphan` (InodeTable) | 1 `Proc`, `MaxCrash` 1 | after a crash nothing frees an inode that was unlinked while open (`fs.c:341`) |
| `BFReportHasNoRunner` (MemManage) | 2+2 threads, 3 addresses, sizes 1..2 and 2, 1 iteration | best fit's test for deadlock reads `threadsLeft[0]` (`mem-management.c:36`) |
| `ReportHasNoFit` (MemManage) | sizes 1..3, 3 iterations | a reported deadlock although a waiter's request fits (`:29`) |
| `DeadlockDetected` (MemManage) | 2+2 threads, 2 addresses, size 2, 1 iteration | the end of a thread is not followed by the test (`:364`) |
| `WaitsForMemoryOnly` (MemManage) | 3+3 threads, 3 addresses, sizes 1..3 and 1, 1 iteration | one signal per free, passed on by nobody (`:233`) |
| `FullOnlyWhenFull` (ListLib) | 2 nodes; create, append, remove | removing does not lower `nodeNum`: lists refuse items with all nodes unused (`list_removers.c:115`) |
| `NodeToTake` (ListLib) | 2 nodes; create, append, free | `ListFree()` lowers it too far, and an add takes a node that is not there (`:160`) |
| `FreeKeepsOthers` (ListLib) | 2 nodes; create, create more, append, prepend, free | `ListFree()` walks into another list (`:151`) |
| `CreateKeepsOthers` (ListLib) | 2 nodes; create, create more, create again, append | the second growth of the pool of lists clears lists in use (`list_adders.c:101`) |
| `ConcatTakesCurser` (ListLib) | 2 nodes; create, create more, append, concat | the cursor is not that of the second list (`list.h:183`) |
| `ListHoldsWaiters` (ReaderWriter) | 2 readers, 1 writer | a waiter is taken off `condVar` twice (`Monitor.c:78`) |
| `WriterWaitsForReason` (ReaderWriter) | 1 reader, 2 writers | `StopWrite()` signals `OKtoRead` only (`reader-writer-monitor.c:104`) |
| `NeighboursApart` (Philosophers) | 5 | the left neighbour is tested twice (`dining-philosopher-monitor.c:37`) |
| `EatersMarked` (Philosophers) | 5 | an old unit of `sem[p]` lets a hungry philosopher eat (`:39`) |
| `HungryEats` (Philosophers, `FairSpec`) | 3 | waiting with the mutex (`:47`) |
| `BufferToTake` (SChat) | `QUEUESIZE` 2, `MaxRead` 3 | the server tests the free list of the other way (`s_chat.c:334`) |
| `ReaderAnswered` (SChat) | the same | a message that is dropped is not replied to (`:347`) |
| `ExitReachesAll` (SChat, `FairSpec`) | `QUEUESIZE` 2, `MaxRead` 1 | the exit flag overtakes the empty message (`:447`) |
| `SpinsForHolder` (UThreadPrograms) | 2 mutexes | all mutexes are slot 0 (`mtx.c:20`) |
| `BothWork` (ProdConMtx, `FairSpec`) | `BuffMaxs` {1} | with one place, which `main()` accepts, `con()` never takes the item: it tests `buffSize > 1` (`prod-con-mtx.c:39`) |
| `LeavesEmpty` (ProdConMtx) | `BuffMaxs` {6} | the consumer leaves the last item (`prod-con-mtx.c:39`) |
| `SectionLocked` (ProdConSem) | `BuffMaxs` {6} | `P()` never waits (`sem.c:31`) |

Larger instances that pass: `OneUse` of `CowMem` with 4 pages per process; `MemManage` with 6 addresses and sizes up to 3;
`EveryThreadEnds` of `MemManage` when every block is freed; `ListLib` with 4 nodes and 2 lists; `ReaderWriter` with 3 readers and 2 writers;
`SChat` with 4 messages; `ProcLife` with 4 slots (no kills) and with `MaxPid` 5; `PipeIO` with `MaxBytes` 5 and `MaxRef` 3;
`VirtioDisk` with deadlock checked; `InodeTable` with 2 names and 2 inodes, and with a crash; `FsLog` with 3 processes, fair.

## Proofs

Every theorem holds for all values of the constants that satisfy the named assumptions of its module, which TLC evaluates in
the runs: `SchedAssumption` (the shares are enough for one turn per group, the null pointer is no core and no process),
`MonitorAssumption` (there is a condition), `LogAssumption` (finitely many processes;
`Torn` and `None` are no contents), `UThreadsAssumption` and `ProgramAssumption` (there is a thread and a
mutex word; mutex names are not `"runs"` or `"none"`), `KernelAssumption` (process slots are `0..NPROC-1`; lock names; `UINT` is a multiple of
`PIPESIZE`, as 2^32 is of 512; `NUM` is at least 3 and divides `IDX`, as 8 does 2^16; `Nil` is no process and no number), `ProdConsAssumption` (three threads, no buffer of size 0), `RttProgramsAssumption` (finitely many readers and writers, nobody is both;
at least two philosophers; a buffer), `CowsAssumption` (the sizes given to `CowMem` satisfy `CowAssumption`: finitely many processes and pages, the first
process is one of them, memory for the first process), `InodesAssumption` (the same for `InodeAssumption`: finitely many processes and names; numbers;
`Nil` is no process, name or number).

`GroupSchedProofs`.  The type invariant is not inductive alone: that a pick yields
a process depends on the bounds of the index, and these on the lock.  `Types` adds
which `pc` values hold `processscheduleindexlock` and what a core has chosen.  `CoreInv`
adds the correspondence between `plock`, `state`, `cpuproc` and `pc` that makes the
hand-over across `swtch()` safe.  `IInv` is their conjunction.
From `Invariance` follow `TypeCorrect`, `NeverOnTwoCores`, `CurrentLive`,
`SingleBuilder`, `PicksInBounds`.  `OverrunNeedsGroups` has an invariant of its
own about the entries made so far for each turn: there are at most `NPROC` of each.  So has `GroupsAlternate`: `RoundOK` says which round is handed out, how many turns each group that has shares left
has had, depending on whether the loop has passed it, and that no entry is later than the turn to come.  `EntriesGivenOnce` is an action property of the specification with its history: what was given out is the schedule up to the index, or one entry more
between a pick and its increment (`TakenInv`).  `SchedulerImplementsAlloc` maps `core` to
`cpuproc` and shows that each step is a step of `CpuAlloc` or a stutter, using `IInv`.

`RttMonitorProofs`.  `IInv` is the type invariant, `BlockedOnce`, `MutualExclusion` and
`BusyIsTrue`: `monBusy` is true exactly when a thread has the monitor, and nobody queues for a free
one.  Without it a step of the server could let a second thread in.
`ImplementsMonitor` maps the sets of `HoareMonitor` to the queues.

`FsLogProofs`.  `IInv` relates memory and disk: `PinsOK` (a block is pinned exactly from
`log_write()` until it is installed), `CacheOK` (an unpinned, unlocked buffer equals the block at home),
`DiskOK` (what a restart needs is not torn), `LoopsOK` (what the loops of `write_log()` and `install_trans()`
have copied so far), `HeadsOK` and `OpsOK`.  It is inductive, one lemma per action.
`TransactionsAtomic` follows by one lemma per action: `write_head()` is `Commit`
because every logged block is pinned and copied, and every other clean; copying blocks is a stutter
because the header names the block that changes; a crash keeps the store for the same reason.
`NoLostWakeup` adds that a longer log and more calls leave no more room.
`RoomReserved`: each active call has written at most `MAXOPBLOCKS` blocks (`WritesOK`), so what is to come (`ToCome`, one element for each block)
is at most `outstanding * MAXOPBLOCKS`, which `begin_op()` tested; a block that is absorbed is one that had been counted.

`UThreadProofs`.  A thread that holds a mutex word is the only one between `mtx_lock()` and `mtx_unlock()`, and a thread that
is not main is `RUNNING` only as `current_thread`: `MutualExclusion`, `ThreadsKept`.  `RoundRobin` is an action property: the distance of a ready
thread from its turn falls with every switch, by cases on where the scan of `thread_schedule()` wraps.  `BufferKept` is about the producer and the consumer.  With
the mutex, who is between its test and its change has it, and the result of the test is still true (`MtxInv`).  The semaphores never wait; there the buffer
is kept because the two threads have the processor in turns and the consumer is one step behind the producer (`SemInv`, `Ahead`).

`KernelProofs` begins with facts on data.  The library's facts about `%` are not enough for rings: remainders are unique (`ModUnique`) and a remainder by a multiple
keeps the smaller one (`ModOfMultiple`), so two counters less than `m` apart, taken modulo a multiple of `m`, have different cells (`ModApart`).
`RingAdds` and `RingTakes` are for a ring whose indexes wrap at a multiple of its size and that forgets what is taken.
`RingPut` and `RingTake` say what one byte more or less does to what is unread.  `Tokens(f, S)`
makes a sum of natural numbers a cardinality, since a sum over a set would need induction.
`ProcessesKept`: `LifeInv` is an invariant of pairs of slots.  `ProcTable` is not inductive, and each addition
is there for a step that would break it: who has `wait_lock` and the `p->lock`s (`LifeLocksTaken`); where a process may
be in each state (`StateFits`); that a new process of `fork()` belongs to one caller
until it starts (`NewbornKept`, `ForksApart`), or the slot could get two parents; that parents live (`ParentLives`); how far `reparent()` has come, since in
the middle of it a process has children whose parent is about to die (`Reparented`); that init is never there (`InitLives`); that ids in use are below `nextpid`
(`PidsGiven`), so the next differs from all; and that a parent in `wait()` has every zombie child still
ahead of its scan, and is awake while a child is about to end (`ZombieSeen`).

`SleepInv`: the spinlock is with who tests or releases (`SleepLocksTaken`), the holder is inside (`HolderIsIn`),
and while the sleep-lock is free nobody sleeps on it or is about to (`FreeWakesAll`), since a `p->lock` lies between the test and the sleep and `wakeup()` takes it.
`PipeInv`: a freed pipe has both ends closed (`FreedClosed`); the bytes between `nread` and `nwrite`, read off the ring, are the bytes sent and not
received (`BytesKept`), which needs that full is `PIPESIZE` and never more; `ref` counts the descriptors that processes own
(`RefsCounted`, by `Tokens`), so who is in a call keeps its end open and only one process closes it; and who sleeps does so with the condition still true, or with a
process that is about to wake it holding the lock (`ReadWaits`, `WriteWaits`, from `SleepsRightly` and `ReadersAwake`).  `PipesKept` and `NoWakeupLost` follow.
`DiskInv`: the chain of each request has three descriptors that nobody else has and that describe it (`ChainKept`, `ChainsApart`), and a descriptor is free
exactly when no chain has it (`FreeNobodys`); the two rings hold what lies between their indexes, each entry once (`RingFits`); and a request the device has
is at one of three places, in `avail` or with the device as it was submitted, or in `used` with its transfer done (`AtOnePlace`), with nothing else there (`IsRequest`).
That a ring has room when it is written needs no count: a ring of `NUM` entries that is full has every descriptor already (`FullHasAll`).

`CowProofs`.  `Shape` is true whatever fails: the types, one use for each page (`UsedOnce`), what the memory of a process looks like in each of its states
(`SpaceFits`), and that a process that forks has a child of its own with the pages given so far (`ChildFits`).  `CowOneUse`
is a consequence.  A process that is in `uvmcow()` or `copyout()` has given up its reference and still has the page in its table, and this is where the counts are difficult: `Keepers(pg)` are the
mappings that a count stands for, `Leaving(pg)` the processes between the decrement and the copy.  For `CowNoPageLost` (`PageKept`) the count
is never above the keepers, and a page that nobody keeps but somebody still leaves has a `Successor` among them, who read a count that makes it
take the page in place and not copy it.  Stores, faults, exits and `sbrk()` are all included.
The theorem has one hypothesis on memory, `RoomToFork`: a fork that fails has raised counts for pages that nobody has, and the counts are wrong in the code then as well.
It bounds the pages that processes can have (`PlacesHold`), so `kalloc()` finds one.  `getNumFreePages()` is left out since it loses a page.
That counts are exact and writers alone (`CowCounted`) is not a theorem: a store takes a page that one other process still has in place and sets its count to 1 (`vm.c:388`), so it
holds for `copyout()` only, and stays with TLC.  `PagesKept`, in `KernelProofs`, has these results for the sizes of the run.

`InodeProofs`.  `InodeInv` has eleven parts.  Each state of a call says what its variables are (`StagesFit`) and which sleep-lock it has (`LocksFit`), and an entry's
count is that of the variables and files that name it, with one entry for an inode (`EntriesFit`).  Three parts are about inodes that are given up while somebody
still refers to them: who has or makes an inode finds it in use, unless it is the one that frees it (`RefsLive`); an inode that `create()` makes may still be in the hands of processes that
freed it, and of nobody else (`Newborn`); and `iput()` frees only what no other refers to (`FreeAlone`).  From them a valid copy is that of the disk until it was freed (`CopiesFit`).
`LinksExact` counts as links the names and the calls that have counted a link without its name, which is what makes `link()` and its undoing exact between their steps; on disk, where no call is in progress, that is
`StoredFits`.  `InodesCounted` and `CrashLeavesFiles`, in `KernelProofs`, are these results for the two parts of `kernel_parts`.

`RttProgramsProofs`.  `QueueAppend`, `QueueTail`, `TakesUnit` and
`GivesUnit` say what a `P()` and a `V()` do to queues in which everybody waits once and to the one unit of a mutex.  `PhilInv`: everybody is in at most one queue and in the right one (`QueuesFit`), and either the mutex has its one unit and nobody
holds it, or one has it (`OneHas`), also while it waits on its own semaphore.  `RwInv` is the largest invariant here: the monitor is one unit,
which is owned by one thread or free in one semaphore (`UnitInv`); who queues is at the `P()` that its stage says (`AtItsP`, `StageFits`, `Entering`);
what a thread that was woken may rely on without looking again (`Knows`, and `FreeKnows` for a unit that lies in the semaphore of a condition before its waiter has taken it), which is why
`ReadersOrWriter` holds in a program that tests with `if`; and that the counters are cardinalities (`Counted`, `WaitingCounted`, `SignalsCounted`).
`ChatInv`: each buffer of a way is in exactly one place, the free list, the queue or on its way to the writer (`EachInOnePlace`, `NoneLost`), and a queued
one is not empty; the server has at most one message of each thread, which waits (`SendersWait`), and takes a writer for ready exactly when it received that writer's
request (`ReadyWaits`); what was queued is what was written, what the writer holds and what the buffers of the queue contain, the oldest first (`InOrder`).
TLC checked each of these invariants before its proof.

The composed modules state these theorems for the parts in which their properties speak (`part = "life" => ...`).  A step in another part leaves
the variables alone, so the part's own invariant is proved from its `Init` and kept by every `Next`, without `part`.

### Only model-checked

Liveness (`NoStarvation`, `EveryoneGetsIn`, `SleepersWake`, `OrphansReaped`, `CallsReturn`, `ThreadsGoOn`, `QueuedIsWritten`): it depends
on fairness and `ENABLED`.  `MemoryPartitioned`,
`ListNodes`, `ListsImplementSpec` (both walk chains of nodes of any length, which needs induction), `CowCounted` and
`MemWaitersCounted` have no proof.

## Not modelled

Paging, `exec`, traps and the dispatch of system calls are sequential code on page tables and registers (their copy-on-write
part is in `CowMem`).  The console and the UART: device I/O; that `sys_setshare()` ignores a
failing copy is not in the model either.  Of spinlocks the test-and-set and `push_off()`.  Directories below the
root, devices, file offsets, reads.  The square programs of assignment 1, in which threads count in entries of their own; earlier copies of
the list library, the monitor and xv6; the user programs (a third of the repository is `usertests.c`, three
times), `mkfs` and scripts.  The three copies of xv6 are why the modelled share of all lines is low: their
kernel is modelled once, in the copy of assignment 3.

## Plan

Done: all components that share state, with theorems about the scheduler, the monitor server, the log, user threads, the
process table, sleep-locks, pipes, the disk driver, copy-on-write memory, inodes, philosophers, readers and writers and the chat.  Next:

1. Proof of `MemWaitersCounted`, with the constants of its parts in `Programs` left open.
2. `CowMem` and `InodeTable` with open constants in `KernelParts`, as the other parts have.
3. The console's ring and the counting of `push_off()`, if time allows.
