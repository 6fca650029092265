---------------------------- MODULE KernelParts -----------------------------
(* Small instances of the modules of the xv6 kernel.  The code of one does   *)
(* not use the state of another, except as their modules say, so TLC         *)
(* explores one part at a time: `part` is chosen once and for all, and the   *)
(* variables of the other parts keep their initial values.                   *)
EXTENDS Naturals

CONSTANTS
    Nil,
    NPROC, MaxPid, MaxKilled,                   \* of ProcLife
    Sleeper,                                    \* of SleepLock
    PipeUser, PIPESIZE, UINT, Size, MaxBytes, MaxRef,   \* of PipeIO
    DiskUser, NUM, IDX                          \* of VirtioDisk

VARIABLES
    part,           \* what is explored
    \* CowMem:
    free, count, mem, pt, writable, kpage, sz, at, va, refCount, child,
    expected, status,
    \* ProcLife:
    state, chan, killed, plock, held, pid, parent, nextpid, pc, newborn, scan,
    havekids, asked,
    \* SleepLock:
    lkstate, lkchan, lkkilled, lkplock, lkheld, locked, lkpid, lkpc,
    \* PipeIO:
    pistate, pichan, pikilled, piplock, piheld, data, nread, nwrite, open,
    freed, ref, ofile, pipc, end, i, sent, received,
    \* VirtioDisk:
    dfree, desc, ops, info, avail, availIdx, used, usedIdx, used_idx, disk,
    dpc, head, handler, seen, works, raises, interrupt, done,
    \* InodeTable:
    dinode, dir, bitmap, stored, itable, ilocked, rootlock, file, ipc, ip,
    name, crashes

-----------------------------------------------------------------------------

(* Three processes that fork one page and write it by copyout(), and memory  *)
(* for each to have a page of its own.                                       *)
Shares == INSTANCE CowMem WITH
    Proc <- {"p1", "p2", "p3"}, First <- "p1", Page <- 1..10,
    Data <- {0}, Zero <- 0, None <- Nil, NV <- 1, SPAN <- 1, MaxCount <- 4,
    Ops <- {"fork", "copyout"}

(* Two processes of up to two pages with all that frees a page, and memory   *)
(* for every fork: it is in a fault that they may find none.                 *)
Frees == INSTANCE CowMem WITH
    Proc <- {"p1", "p2"}, First <- "p1", Page <- 1..7, Data <- {0},
    Zero <- 0, None <- Nil, NV <- 2, SPAN <- 2, MaxCount <- 4,
    Ops <- {"fork", "copyout", "exit", "sbrk"}

(* The same with stores and a page table for each page, so that memory runs  *)
(* out in the middle of a fork, and the calls that fail.                     *)
Short == INSTANCE CowMem WITH
    Proc <- {"p1", "p2"}, First <- "p1", Page <- 1..6, Data <- {0},
    Zero <- 0, None <- Nil, NV <- 2, SPAN <- 1, MaxCount <- 4,
    Ops <- {"fork", "store", "copyout", "exit", "sbrk", "bad store", "count"}

(* Init and more slots, whose processes are forked, killed and reaped.       *)
Slot == 0..(NPROC - 1)
Life == INSTANCE ProcLife WITH
    Proc <- Slot, Lock <- {"wait_lock"}, Free <- Nil, child <- newborn

Sleep == INSTANCE SleepLock WITH
    Proc <- Sleeper, Lock <- {"lk"}, Free <- Nil,
    state <- lkstate, chan <- lkchan, killed <- lkkilled, plock <- lkplock,
    held <- lkheld, pid <- lkpid, pc <- lkpc

(* Calls of up to Size bytes on a pipe, whose counters overflow.             *)
Pipe == INSTANCE PipeIO WITH
    Proc <- PipeUser, Lock <- {"pipe"}, Free <- Nil,
    state <- pistate, chan <- pichan, killed <- pikilled, plock <- piplock,
    held <- piheld, pc <- pipc

(* Requests of DiskUser for NUM descriptors.                                 *)
Disk == INSTANCE VirtioDisk WITH
    Proc <- DiskUser, free <- dfree, pc <- dpc

(* Two inodes, one of them possibly without a name while it is open.         *)
Inodes == INSTANCE InodeTable WITH
    Proc <- {"p1", "p2"}, Name <- {"a"}, Inum <- {1, 2}, Block <- {"b"},
    NINODE <- 2, MaxCrash <- 0, pc <- ipc

(* An inode with two names, and a crash.                                     *)
Linked == INSTANCE InodeTable WITH
    Proc <- {"p1", "p2"}, Name <- {"a", "b"}, Inum <- {1}, Block <- {"b"},
    NINODE <- 2, MaxCrash <- 1, pc <- ipc

ASSUME KernelAssumption ==
    /\ NPROC \in Nat \ {0}
    /\ Life!ProcLifeAssumption /\ Life!SleepWakeupAssumption
    /\ Sleep!SleepLockAssumption /\ Sleep!SleepWakeupAssumption
    /\ Pipe!PipeIOAssumption /\ Pipe!SleepWakeupAssumption
    /\ Disk!DiskAssumption
ASSUME CowsAssumption ==
    Shares!CowAssumption /\ Frees!CowAssumption /\ Short!CowAssumption
ASSUME InodesAssumption == Inodes!InodeAssumption /\ Linked!InodeAssumption

-----------------------------------------------------------------------------

cowVars == <<free, count, mem, pt, writable, kpage, sz, at, va, refCount, child,
             expected, status>>
lifeVars == <<state, chan, killed, plock, held, pid, parent, nextpid, pc, newborn,
              scan, havekids, asked>>
sleepVars == <<lkstate, lkchan, lkkilled, lkplock, lkheld, locked, lkpid, lkpc>>
pipeVars == <<pistate, pichan, pikilled, piplock, piheld, data, nread, nwrite,
              open, freed, ref, ofile, pipc, end, i, sent, received>>
diskVars == <<dfree, desc, ops, info, avail, availIdx, used, usedIdx, used_idx,
              disk, dpc, head, handler, seen, works, raises, interrupt, done>>
inodeVars == <<dinode, dir, bitmap, stored, itable, ilocked, rootlock, file, ipc,
               ip, name, crashes>>
vars == <<part, cowVars, lifeVars, sleepVars, pipeVars, diskVars, inodeVars>>

Init ==
    /\ part \in {"shares", "frees", "short", "life", "sleep", "pipe", "disk",
                 "inodes", "linked"}
    /\ CASE part = "frees" -> Frees!Init
         [] part = "short" -> Short!Init
         [] OTHER -> Shares!Init
    /\ IF part = "linked" THEN Linked!Init ELSE Inodes!Init
    /\ Life!Init /\ Sleep!initsleeplock /\ Pipe!Init /\ Disk!virtio_disk_init

CowStep ==
    /\ \/ part = "shares" /\ Shares!Next
       \/ part = "frees" /\ Frees!Next
       \/ part = "short" /\ Short!Next
    /\ UNCHANGED <<lifeVars, sleepVars, pipeVars, diskVars, inodeVars>>

LifeStep ==
    /\ part = "life" /\ Life!Next
    /\ UNCHANGED <<cowVars, sleepVars, pipeVars, diskVars, inodeVars>>

SleepStep ==
    /\ part = "sleep" /\ Sleep!Next
    /\ UNCHANGED <<cowVars, lifeVars, pipeVars, diskVars, inodeVars>>

PipeStep ==
    /\ part = "pipe" /\ Pipe!Next
    /\ UNCHANGED <<cowVars, lifeVars, sleepVars, diskVars, inodeVars>>

DiskStep ==
    /\ part = "disk" /\ Disk!Next
    /\ UNCHANGED <<cowVars, lifeVars, sleepVars, pipeVars, inodeVars>>

InodeStep ==
    /\ \/ part = "inodes" /\ Inodes!Next
       \/ part = "linked" /\ Linked!Next
    /\ UNCHANGED <<cowVars, lifeVars, sleepVars, pipeVars, diskVars>>

Next ==
    /\ UNCHANGED part
    /\ CowStep \/ LifeStep \/ SleepStep \/ PipeStep \/ DiskStep \/ InodeStep

Spec == Init /\ [][Next]_vars

(***************************************************************************)
(* Properties.  Each says what a part promises while it is explored.       *)
(***************************************************************************)

(* Copy on write, while there is memory and the writes are copyout()'s: a    *)
(* page's count is the number of page tables that refer to it, whatever the  *)
(* other processes do between uvmcow()'s decrement and its copy, and no page *)
(* that a process may write is in the memory of another.                     *)
CowCounted ==
    part = "shares" =>
        Shares!TypeOK /\ Shares!CountsExact /\ Shares!WritableIsPrivate

(* Exits and sbrk() included, no page gets lost: each is free, the kernel's  *)
(* or mapped.  When memory runs out in the middle of a fork or a fault, no   *)
(* page has two uses all the same.                                           *)
CowPagesKept ==
    /\ part = "frees" => Frees!NoPageLost
    /\ part = "short" => Short!OneUse

(* fork(), exit(), wait() and kill() in every order: whoever lives has a     *)
(* parent that can reap it, a slot is given out again only when nothing runs *)
(* on its stack, ids differ, and no parent sleeps beside a zombie.           *)
ProcTable ==
    part = "life" =>
        /\ Life!TypeOK /\ Life!EveryoneHasParent /\ Life!UnusedIsOff
        /\ Life!PidsDiffer /\ Life!NoZombieMissed

(* Bytes come out of a pipe in the order they went in, also when nread and   *)
(* nwrite overflow; an end is open while a file refers to it, and the pipe   *)
(* is freed when nobody can be in it.                                        *)
PipeSound ==
    part = "pipe" =>
        /\ Pipe!TypeOK /\ Pipe!BytesInOrder
        /\ Pipe!FreedUnused /\ Pipe!OpenWhileReferred

(* A sleep-lock has one holder, and neither with it nor with a pipe a        *)
(* process sleeps on for what it could have: no wakeup() falls between the   *)
(* test of a condition and the sleep.                                        *)
NoSleeperMissed ==
    /\ part = "sleep" =>
          Sleep!TypeOK /\ Sleep!OneHolder /\ Sleep!NoSleeperMissed
    /\ part = "pipe" => Pipe!NoSleeperMissed

(* Each disk request has three descriptors of its own and all others are     *)
(* free, the device works on requests that are still as they were submitted, *)
(* and virtio_disk_rw() returns only after the transfer of its buffer.       *)
DiskSound ==
    part = "disk" =>
        /\ Disk!TypeOK /\ Disk!DescriptorsAccounted
        /\ Disk!DeviceReadsRequests /\ Disk!ReturnsServed

(* The table of inodes: counts equal the references, a valid copy is what    *)
(* the disk has, also when an inode is freed and allocated again under a     *)
(* reference, iput() does not wait with a spinlock held, and nobody finds    *)
(* the inode it locks free.                                                  *)
InodesSound ==
    /\ part = "inodes" =>
          /\ Inodes!TypeOK /\ Inodes!RefsExact /\ Inodes!CopyIsTrue
          /\ Inodes!PutNeedNotWait /\ Inodes!NoPanic
    /\ part = "linked" =>
          /\ Linked!TypeOK /\ Linked!RefsExact /\ Linked!CopyIsTrue
          /\ Linked!PutNeedNotWait /\ Linked!NoPanic

(* What a restart finds after a crash at any step: links are counted, names  *)
(* have inodes and blocks have one owner.                                    *)
InodesStored ==
    /\ part = "inodes" => Inodes!StoredConsistent
    /\ part = "linked" => Linked!StoredConsistent
=============================================================================
