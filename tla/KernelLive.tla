----------------------------- MODULE KernelLive -----------------------------
(* What must come to an end in the xv6 kernel.  As in KernelParts the parts  *)
(* are explored one at a time, each by its module with the fairness stated   *)
(* there.                                                                    *)
EXTENDS Naturals

CONSTANT Nil

VARIABLES
    part,           \* what is explored
    \* FsLog:
    home, loghead, logblock, cache, pins, buf, lh, outstanding, committing, logpc,
    wrote, phase, tail,
    \* ProcLife:
    state, chan, killed, plock, held, pid, parent, nextpid, pc, child, scan,
    havekids, asked,
    \* SleepLock:
    lkstate, lkchan, lkkilled, lkplock, lkheld, locked, lkpid, lkpc,
    \* VirtioDisk:
    free, desc, ops, info, avail, availIdx, used, usedIdx, used_idx, disk,
    dpc, head, handler, seen, works, raises, interrupt, done,
    \* InodeTable:
    dinode, dir, bitmap, stored, itable, ilocked, rootlock, file, ipc, ip,
    name, crashes

-----------------------------------------------------------------------------

(* Two processes, and a log with room for the call of one.                   *)
Log == INSTANCE FsLog WITH
    Proc <- {"p1", "p2"}, Block <- {"b1", "b2"}, Data <- {"d1"},
    Torn <- "torn", None <- Nil, MAXOPBLOCKS <- 2, LOGSIZE <- 3, NLOG <- 3,
    head <- loghead, pc <- logpc

Life == INSTANCE ProcLife WITH
    Proc <- 0..2, Lock <- {"wait_lock"}, Free <- Nil, MaxPid <- 3, MaxKilled <- 1

Sleep == INSTANCE SleepLock WITH
    Proc <- {"p1", "p2", "p3"}, Lock <- {"lk"}, Free <- Nil,
    state <- lkstate, chan <- lkchan, killed <- lkkilled, plock <- lkplock,
    held <- lkheld, pid <- lkpid, pc <- lkpc

(* Two requests, and descriptors for one of them.                            *)
Scarce == INSTANCE VirtioDisk WITH
    Proc <- {"p1", "p2"}, NUM <- 4, IDX <- 8, pc <- dpc

(* Two requests that the device answers in any order.                        *)
Disk == INSTANCE VirtioDisk WITH
    Proc <- {"p1", "p2"}, NUM <- 6, IDX <- 12, pc <- dpc

(* An inode that two names may share.                                        *)
Inodes == INSTANCE InodeTable WITH
    Proc <- {"p1", "p2"}, Name <- {"a", "b"}, Inum <- {1}, Block <- {},
    NINODE <- 2, MaxCrash <- 0, pc <- ipc

ASSUME /\ Log!LogAssumption /\ Life!ProcLifeAssumption /\ Life!SleepWakeupAssumption
       /\ Sleep!SleepLockAssumption /\ Sleep!SleepWakeupAssumption
       /\ Scarce!DiskAssumption /\ Disk!DiskAssumption /\ Inodes!InodeAssumption

-----------------------------------------------------------------------------

logVars == <<home, loghead, logblock, cache, pins, buf, lh, outstanding,
             committing, logpc, wrote, phase, tail>>
lifeVars == <<state, chan, killed, plock, held, pid, parent, nextpid, pc, child,
              scan, havekids, asked>>
sleepVars == <<lkstate, lkchan, lkkilled, lkplock, lkheld, locked, lkpid, lkpc>>
diskVars == <<free, desc, ops, info, avail, availIdx, used, usedIdx, used_idx,
              disk, dpc, head, handler, seen, works, raises, interrupt, done>>
inodeVars == <<dinode, dir, bitmap, stored, itable, ilocked, rootlock, file, ipc,
               ip, name, crashes>>
vars == <<part, logVars, lifeVars, sleepVars, diskVars, inodeVars>>

Init ==
    /\ part \in {"log", "life", "sleep", "scarce", "disk", "inodes"}
    /\ Log!Init /\ Life!Init /\ Sleep!initsleeplock /\ Inodes!Init
    /\ IF part = "scarce" THEN Scarce!virtio_disk_init ELSE Disk!virtio_disk_init

Next ==
    /\ UNCHANGED part
    /\ \/ /\ part = "log" /\ Log!Next
          /\ UNCHANGED <<lifeVars, sleepVars, diskVars, inodeVars>>
       \/ /\ part = "life" /\ Life!Next
          /\ UNCHANGED <<logVars, sleepVars, diskVars, inodeVars>>
       \/ /\ part = "sleep" /\ Sleep!Next
          /\ UNCHANGED <<logVars, lifeVars, diskVars, inodeVars>>
       \/ /\ \/ part = "scarce" /\ Scarce!Next
             \/ part = "disk" /\ Disk!Next
          /\ UNCHANGED <<logVars, lifeVars, sleepVars, inodeVars>>
       \/ /\ part = "inodes" /\ Inodes!Next
          /\ UNCHANGED <<logVars, lifeVars, sleepVars, diskVars>>

(* The fairness of the modules, for the part that is explored.               *)
Explored(p) == []<>(part = p)

Fairness ==
    \/ /\ Explored("log")
       /\ WF_logVars(part = "log" /\ Log!LogStep)
       /\ \A p \in {"p1", "p2"} :
             /\ WF_logVars(part = "log" /\ Log!LogWrite(p))
             /\ SF_logVars(part = "log" /\ Log!EndOp(p))
    \/ /\ Explored("life")
       /\ \A p \in 0..2 : SF_lifeVars(part = "life" /\ Life!MustGoOn(p))
    \/ /\ Explored("sleep")
       /\ \A p \in {"p1", "p2", "p3"} :
             SF_sleepVars(part = "sleep" /\ Sleep!Steps(p))
    \/ /\ Explored("scarce")
       /\ WF_diskVars(part = "scarce" /\ Scarce!HandlerStep)
       /\ WF_diskVars(part = "scarce" /\ Scarce!Fetch)
       /\ WF_diskVars(part = "scarce" /\ Scarce!Raise)
       /\ \A d \in Scarce!Desc : WF_diskVars(part = "scarce" /\ Scarce!Complete(d))
       /\ \A p \in {"p1", "p2"} :
             SF_diskVars(part = "scarce" /\ Scarce!HasLock(p))
    \/ /\ Explored("disk")
       /\ WF_diskVars(part = "disk" /\ Disk!HandlerStep)
       /\ WF_diskVars(part = "disk" /\ Disk!Fetch)
       /\ WF_diskVars(part = "disk" /\ Disk!Raise)
       /\ \A d \in Disk!Desc : WF_diskVars(part = "disk" /\ Disk!Complete(d))
       /\ \A p \in {"p1", "p2"} :
             SF_diskVars(part = "disk" /\ Disk!HasLock(p))
    \/ /\ Explored("inodes")
       /\ \A p \in {"p1", "p2"} :
             SF_inodeVars(part = "inodes" /\ Inodes!GoesOn(p))

Spec == Init /\ [][Next]_vars /\ Fairness

(***************************************************************************)
(* Properties.                                                             *)
(***************************************************************************)

(* Who sleeps is woken: in begin_op() by the end of the commit that it waits *)
(* for, and in acquiresleep() by the holder of the lock.                     *)
SleepersWake == Log!SleepersWake /\ Sleep!SleeperWakes

(* What init has to reap, its own children and those of processes that ended *)
(* before them, is reaped.                                                   *)
OrphansReaped == Life!OrphansReaped

(* A disk request returns, though descriptors run out and one interrupt may  *)
(* stand for several answers; and so does a call on files, whichever locks   *)
(* of directory and inodes others take in whichever order.  (The property of *)
(* Scarce is the same formula as that of Disk.)                              *)
CallsReturn == Disk!CallReturns /\ Inodes!CallReturns
=============================================================================
