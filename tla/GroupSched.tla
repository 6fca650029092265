----------------------------- MODULE GroupSched -----------------------------
(* The group scheduler of assignment 3 (a3/xv6-riscv/kernel/proc.c).         *)
(*                                                                           *)
(* Every CPU runs scheduler(): under processscheduleindexlock it takes the   *)
(* next entry of processschedule[], and when the entries are used up it      *)
(* first rebuilds the schedule, schedulegroups() then scheduleprocesses().   *)
(* It then takes the lock of the process it picked and switches to it if it  *)
(* is RUNNABLE.  Processes meanwhile yield, sleep, exit, fork, and call      *)
(* setshare() and setprocessgroup(), none of which take the index lock.      *)
(*                                                                           *)
(* The steps are the critical sections of the p->locks and the single reads  *)
(* and writes of what no lock protects (groupshares[]).  A p->lock that is   *)
(* held across swtch() is kept in plock; one taken and released inside a     *)
(* step is only a guard.                                                     *)
EXTENDS Integers, Sequences, FiniteSets

CONSTANTS
    CPU,            \* the cores
    Nobody,         \* a null struct proc *, or a lock nobody holds
    NPROC,          \* length of proc[]
    MAXGROUPS,      \* number of groups
    MAXGROUPSHARE,  \* what the shares may add up to
    Callers,        \* the processes that call setshare or setprocessgroup
    MaxCalls        \* bound: how many such calls are made

Proc  == 1..NPROC
Group == 0..(MAXGROUPS - 1)
Share == 0..MAXGROUPSHARE

ASSUME SchedAssumption ==
    /\ NPROC \in Nat \ {0}
    /\ MAXGROUPS \in Nat \ {0}
    /\ MAXGROUPSHARE \in Nat
    /\ MAXGROUPS <= MAXGROUPSHARE
    /\ Callers \subseteq Proc
    /\ MaxCalls \in Nat
    /\ Nobody \notin CPU \cup Proc

VARIABLES
    \* struct proc, one entry per slot of proc[]
    state, group, plock, op,
    \* groupshares[], and how many calls changed it or a group number
    groupshares, calls,
    \* struct cpu and the locals of each core's scheduler()
    pc, chosen, cpuproc,
    \* the schedule and the locals of the core that builds it
    indexlock, scan, left, totalshares, groupschedule, slot, next,
    processschedule, processscheduleindex

procVars  == <<state, group, plock, op>>
shareVars == <<groupshares, calls>>
cpuVars   == <<pc, chosen, cpuproc>>
buildVars == <<scan, left, totalshares, groupschedule, slot, next>>
indexVars == <<indexlock, processschedule, processscheduleindex>>
vars == <<procVars, shareVars, cpuVars, buildVars, indexVars>>

(* The system call a process is in: none, fork() between its two locked      *)
(* sections, or setshare() with its arguments and the sum it has read so far.*)
NoCall == [name |-> "none"]
ForkCall(np) == [name |-> "fork", child |-> np]
ShareCall(g, s, i, total) ==
    [name |-> "setshare", group |-> g, share |-> s, i |-> i, total |-> total]

InitProc == 1

(* The loops over the groups start again after the last one.                 *)
After(i) == IF i = MAXGROUPS - 1 THEN 0 ELSE i + 1

(* groupsinit() gives every group one share, procinit() an UNUSED table and  *)
(* userinit() the first process; every core is at the top of scheduler().    *)
Init ==
    /\ state = [p \in Proc |-> IF p = InitProc THEN "RUNNABLE" ELSE "UNUSED"]
    /\ group = [p \in Proc |-> 0]
    /\ plock = [p \in Proc |-> Nobody]
    /\ op = [p \in Proc |-> NoCall]
    /\ groupshares = [g \in Group |-> 1]
    /\ calls = 0
    /\ pc = [c \in CPU |-> "top"]
    /\ chosen = [c \in CPU |-> Nobody]
    /\ cpuproc = [c \in CPU |-> Nobody]
    /\ indexlock = Nobody
    /\ scan = 0
    /\ left = [g \in Group |-> 0]
    /\ totalshares = 0
    /\ groupschedule = <<>>
    /\ slot = 1
    /\ next = 1
    /\ processschedule = <<>>
    /\ processscheduleindex = 0

(***************************************************************************)
(* scheduler(), under processscheduleindexlock.                            *)
(***************************************************************************)

(* Mutant: two cores may be inside.                                          *)
AcquireWithoutWaiting(c) ==
    /\ pc[c] = "top"
    /\ indexlock' = c
    /\ pc' = [pc EXCEPT ![c] =
                IF processscheduleindex >= Len(processschedule)
                THEN "shares" ELSE "pick"]
    /\ UNCHANGED <<procVars, shareVars, chosen, cpuproc, buildVars,
                   processschedule, processscheduleindex>>

(* Mutant: the test is > where the code has >=.                              *)
AcquireOffByOne(c) ==
    /\ pc[c] = "top"
    /\ indexlock = Nobody
    /\ indexlock' = c
    /\ pc' = [pc EXCEPT ![c] =
                IF processscheduleindex > Len(processschedule)
                THEN "shares" ELSE "pick"]
    /\ UNCHANGED <<procVars, shareVars, chosen, cpuproc, buildVars,
                   processschedule, processscheduleindex>>

(* acquire(&processscheduleindexlock) and the test for a used-up schedule.   *)
AcquireIndexLock(c) ==
    /\ pc[c] = "top"
    /\ indexlock = Nobody
    /\ indexlock' = c
    /\ pc' = [pc EXCEPT ![c] =
                IF processscheduleindex >= Len(processschedule)
                THEN "shares" ELSE "pick"]
    /\ UNCHANGED <<procVars, shareVars, chosen, cpuproc, buildVars,
                   processschedule, processscheduleindex>>

(* schedulegroups(), the loop over groupshares[]: the share is read once for *)
(* the copy, left[], and ...                                                 *)
ReadGroupShare(c) ==
    /\ pc[c] = "shares"
    /\ left' = [left EXCEPT ![scan] = groupshares[scan]]
    /\ pc' = [pc EXCEPT ![c] = "total"]
    /\ UNCHANGED <<procVars, shareVars, chosen, cpuproc, scan, totalshares,
                   groupschedule, slot, next, indexVars>>

(* ... once more for the total; setshare() may store another in between.     *)
(* After the last group, groupschedulesize = 0.                              *)
AddGroupShare(c) ==
    /\ pc[c] = "total"
    /\ totalshares' = (IF scan = 0 THEN 0 ELSE totalshares) + groupshares[scan]
    /\ scan' = After(scan)
    /\ IF scan = MAXGROUPS - 1
       THEN /\ pc' = [pc EXCEPT ![c] = "place"]
            /\ groupschedule' = <<>>
       ELSE /\ pc' = [pc EXCEPT ![c] = "shares"]
            /\ UNCHANGED groupschedule
    /\ UNCHANGED <<procVars, shareVars, chosen, cpuproc, left, slot, next,
                   indexVars>>

(* Mutant: a group gets all its turns in a row.                              *)
PlaceInARow(c) ==
    /\ pc[c] = "place"
    /\ scan # 0 \/ totalshares # 0
    /\ IF left[scan] > 0
       THEN /\ groupschedule' = Append(groupschedule, scan)
            /\ left' = [left EXCEPT ![scan] = @ - 1]
            /\ totalshares' = totalshares - 1
            /\ UNCHANGED scan
       ELSE /\ scan' = After(scan)
            /\ UNCHANGED <<groupschedule, left, totalshares>>
    /\ UNCHANGED <<procVars, shareVars, cpuVars, slot, next, indexVars>>

(* schedulegroups(): one iteration of the inner loop that hands out turns.   *)
(* while(totalshares) is tested between two rounds, for zero only.           *)
PlaceGroup(c) ==
    /\ pc[c] = "place"
    /\ scan # 0 \/ totalshares # 0
    /\ IF left[scan] > 0
       THEN /\ groupschedule' = Append(groupschedule, scan)
            /\ left' = [left EXCEPT ![scan] = @ - 1]
            /\ totalshares' = totalshares - 1
       ELSE UNCHANGED <<groupschedule, left, totalshares>>
    /\ scan' = After(scan)
    /\ UNCHANGED <<procVars, shareVars, cpuVars, slot, next, indexVars>>

(* Mutant: processschedulesize is not reset.                                 *)
GroupsPlacedNoReset(c) ==
    /\ pc[c] = "place"
    /\ scan = 0
    /\ totalshares = 0
    /\ slot' = 1
    /\ next' = 1
    /\ pc' = [pc EXCEPT ![c] = "procs"]
    /\ UNCHANGED <<procVars, shareVars, chosen, cpuproc, scan, left,
                   totalshares, groupschedule, indexVars>>

(* schedulegroups() returns when the total is zero; scheduleprocesses starts.*)
GroupsPlaced(c) ==
    /\ pc[c] = "place"
    /\ scan = 0
    /\ totalshares = 0
    /\ processschedule' = <<>>
    /\ slot' = 1
    /\ next' = 1
    /\ pc' = [pc EXCEPT ![c] = "procs"]
    /\ UNCHANGED <<procVars, shareVars, chosen, cpuproc, scan, left,
                   totalshares, groupschedule, indexlock,
                   processscheduleindex>>

(* Mutant: the scan stops short of the last slot of proc[].                  *)
ScanAllButLast(c) ==
    /\ pc[c] = "procs"
    /\ slot <= Len(groupschedule)
    /\ plock[next] = Nobody
    /\ processschedule' =
         IF group[next] = groupschedule[slot] /\ state[next] = "RUNNABLE"
         THEN Append(processschedule, next) ELSE processschedule
    /\ IF next < NPROC - 1
       THEN next' = next + 1 /\ slot' = slot
       ELSE next' = 1 /\ slot' = slot + 1
    /\ UNCHANGED <<procVars, shareVars, cpuVars, scan, left, totalshares,
                   groupschedule, indexlock, processscheduleindex>>

(* scheduleprocesses(): one iteration of the inner loop, under p->lock.      *)
ScanProcess(c) ==
    /\ pc[c] = "procs"
    /\ slot <= Len(groupschedule)
    /\ plock[next] = Nobody
    /\ processschedule' =
         IF group[next] = groupschedule[slot] /\ state[next] = "RUNNABLE"
         THEN Append(processschedule, next) ELSE processschedule
    /\ IF next < NPROC
       THEN next' = next + 1 /\ slot' = slot
       ELSE next' = 1 /\ slot' = slot + 1
    /\ UNCHANGED <<procVars, shareVars, cpuVars, scan, left, totalshares,
                   groupschedule, indexlock, processscheduleindex>>

(* The schedule is built: reset the index; with nothing to run give the lock *)
(* back and wait for an interrupt (wfi), which brings the core to the top.   *)
FinishSchedule(c) ==
    /\ pc[c] = "procs"
    /\ slot > Len(groupschedule)
    /\ processscheduleindex' = 0
    /\ IF Len(processschedule) = 0
       THEN indexlock' = Nobody /\ pc' = [pc EXCEPT ![c] = "top"]
       ELSE indexlock' = indexlock /\ pc' = [pc EXCEPT ![c] = "pick"]
    /\ UNCHANGED <<procVars, shareVars, chosen, cpuproc, buildVars,
                   processschedule>>

(* p = processschedule[processscheduleindex]                                 *)
Pick(c) ==
    /\ pc[c] = "pick"
    /\ chosen' = [chosen EXCEPT ![c] =
                    processschedule[processscheduleindex + 1]]
    /\ pc' = [pc EXCEPT ![c] = "advance"]
    /\ UNCHANGED <<procVars, shareVars, cpuproc, buildVars, indexVars>>

(* Mutant: the index is incremented twice.                                   *)
AdvanceByTwo(c) ==
    /\ pc[c] = "advance"
    /\ processscheduleindex' = processscheduleindex + 2
    /\ indexlock' = Nobody
    /\ pc' = [pc EXCEPT ![c] = "dispatch"]
    /\ UNCHANGED <<procVars, shareVars, chosen, cpuproc, buildVars,
                   processschedule>>

(* processscheduleindex++ and release(&processscheduleindexlock)             *)
Advance(c) ==
    /\ pc[c] = "advance"
    /\ processscheduleindex' = processscheduleindex + 1
    /\ indexlock' = Nobody
    /\ pc' = [pc EXCEPT ![c] = "dispatch"]
    /\ UNCHANGED <<procVars, shareVars, chosen, cpuproc, buildVars,
                   processschedule>>

(***************************************************************************)
(* scheduler(), under the lock of the process it picked.                   *)
(***************************************************************************)

(* Mutant: the state is read without p->lock.                                *)
DispatchWithoutLock(c) ==
    LET p == chosen[c] IN
    /\ pc[c] = "dispatch"
    /\ IF state[p] = "RUNNABLE"
       THEN /\ state' = [state EXCEPT ![p] = "RUNNING"]
            /\ cpuproc' = [cpuproc EXCEPT ![c] = p]
            /\ pc' = [pc EXCEPT ![c] = "run"]
       ELSE /\ pc' = [pc EXCEPT ![c] = "top"]
            /\ UNCHANGED <<state, cpuproc>>
    /\ chosen' = [chosen EXCEPT ![c] = Nobody]
    /\ UNCHANGED <<group, plock, op, shareVars, buildVars, indexVars>>

(* acquire(&p->lock); a RUNNABLE process runs and releases the lock itself,  *)
(* any other is skipped.                                                     *)
Dispatch(c) ==
    LET p == chosen[c] IN
    /\ pc[c] = "dispatch"
    /\ plock[p] = Nobody
    /\ IF state[p] = "RUNNABLE"
       THEN /\ state' = [state EXCEPT ![p] = "RUNNING"]
            /\ cpuproc' = [cpuproc EXCEPT ![c] = p]
            /\ pc' = [pc EXCEPT ![c] = "run"]
       ELSE /\ pc' = [pc EXCEPT ![c] = "top"]
            /\ UNCHANGED <<state, cpuproc>>
    /\ chosen' = [chosen EXCEPT ![c] = Nobody]
    /\ UNCHANGED <<group, plock, op, shareVars, buildVars, indexVars>>

(* swtch() is back in scheduler(): c->proc = 0; release(&p->lock).           *)
SwitchBack(c) ==
    /\ pc[c] = "switch"
    /\ plock' = [plock EXCEPT ![cpuproc[c]] = Nobody]
    /\ cpuproc' = [cpuproc EXCEPT ![c] = Nobody]
    /\ pc' = [pc EXCEPT ![c] = "top"]
    /\ UNCHANGED <<state, group, op, shareVars, chosen, buildVars, indexVars>>

(***************************************************************************)
(* What the process that runs on a core does.                              *)
(***************************************************************************)

(* Take p->lock, set the state, enter sched(); swtch() is still to come.     *)
LeaveCPU(c, s) ==
    /\ pc[c] = "run"
    /\ plock[cpuproc[c]] = Nobody
    /\ state' = [state EXCEPT ![cpuproc[c]] = s]
    /\ plock' = [plock EXCEPT ![cpuproc[c]] = c]
    /\ pc' = [pc EXCEPT ![c] = "switch"]
    /\ UNCHANGED <<group, op, shareVars, chosen, cpuproc, buildVars, indexVars>>

(* yield(), which the timer interrupt calls in user and in kernel mode.      *)
Yield(c) == LeaveCPU(c, "RUNNABLE")

(* The process on c is not in the middle of fork() or setshare().            *)
Running(c) == pc[c] = "run" /\ op[cpuproc[c]] = NoCall

(* sleep() on some channel.                                                  *)
Sleep(c) == Running(c) /\ LeaveCPU(c, "SLEEPING")

(* exit(); init never exits.                                                 *)
Exit(c) ==
    /\ Running(c)
    /\ cpuproc[c] # InitProc
    /\ LeaveCPU(c, "ZOMBIE")

(* fork(), the section under np->lock that allocproc() opened: an UNUSED     *)
(* slot becomes USED and inherits the group.                                 *)
ForkAlloc(c, np) ==
    /\ Running(c)
    /\ plock[np] = Nobody
    /\ state[np] = "UNUSED"
    /\ state' = [state EXCEPT ![np] = "USED"]
    /\ group' = [group EXCEPT ![np] = group[cpuproc[c]]]
    /\ op' = [op EXCEPT ![cpuproc[c]] = ForkCall(np)]
    /\ UNCHANGED <<plock, shareVars, cpuVars, buildVars, indexVars>>

(* fork(), the section that makes the child RUNNABLE.                        *)
ForkPublish(c) ==
    LET p == cpuproc[c] IN
    /\ pc[c] = "run"
    /\ op[p].name = "fork"
    /\ plock[op[p].child] = Nobody
    /\ state' = [state EXCEPT ![op[p].child] = "RUNNABLE"]
    /\ op' = [op EXCEPT ![p] = NoCall]
    /\ UNCHANGED <<group, plock, shareVars, cpuVars, buildVars, indexVars>>

(* Mutant: wakeup() does not wait for the core to let go of p.               *)
WakeupWithoutLock(p) ==
    /\ state[p] = "SLEEPING"
    /\ state' = [state EXCEPT ![p] = "RUNNABLE"]
    /\ UNCHANGED <<group, plock, op, shareVars, cpuVars, buildVars, indexVars>>

(* wakeup() or kill() finds p asleep.                                        *)
Wakeup(p) ==
    /\ plock[p] = Nobody
    /\ state[p] = "SLEEPING"
    /\ state' = [state EXCEPT ![p] = "RUNNABLE"]
    /\ UNCHANGED <<group, plock, op, shareVars, cpuVars, buildVars, indexVars>>

(* Mutant: wait() frees a zombie that is still in sched() and releases its   *)
(* lock.                                                                     *)
ReapReleases(p) ==
    /\ state[p] = "ZOMBIE"
    /\ state' = [state EXCEPT ![p] = "UNUSED"]
    /\ plock' = [plock EXCEPT ![p] = Nobody]
    /\ UNCHANGED <<group, op, shareVars, cpuVars, buildVars, indexVars>>

(* wait() finds the zombie p and freeproc()s it; groupnumber is kept.        *)
Reap(p) ==
    /\ plock[p] = Nobody
    /\ state[p] = "ZOMBIE"
    /\ state' = [state EXCEPT ![p] = "UNUSED"]
    /\ UNCHANGED <<group, plock, op, shareVars, cpuVars, buildVars, indexVars>>

(***************************************************************************)
(* The system calls on shares and groups.                                  *)
(***************************************************************************)

(* setshare(g, s): enters calculateremainingshares().  A call with a group   *)
(* or a share out of range changes nothing and is left out.                  *)
SetshareBegin(c, g, s) ==
    /\ Running(c)
    /\ cpuproc[c] \in Callers
    /\ calls < MaxCalls
    /\ calls' = calls + 1
    /\ op' = [op EXCEPT ![cpuproc[c]] = ShareCall(g, s, 0, 0)]
    /\ UNCHANGED <<state, group, plock, groupshares, cpuVars, buildVars,
                   indexVars>>

(* One iteration of calculateremainingshares(); no lock is held.             *)
SetshareRead(c) ==
    LET p == cpuproc[c] IN
    /\ pc[c] = "run"
    /\ op[p].name = "setshare"
    /\ op[p].i < MAXGROUPS
    /\ op' = [op EXCEPT ![p] =
                ShareCall(@.group, @.share, @.i + 1,
                          @.total + groupshares[@.i])]
    /\ UNCHANGED <<state, group, plock, shareVars, cpuVars, buildVars,
                   indexVars>>

(* The test against the remaining shares, which do not count the group's own *)
(* share as free, and the store.                                             *)
SetshareStore(c) ==
    LET p == cpuproc[c] IN
    /\ pc[c] = "run"
    /\ op[p].name = "setshare"
    /\ op[p].i = MAXGROUPS
    /\ groupshares' = IF op[p].share <= MAXGROUPSHARE - op[p].total
                      THEN [groupshares EXCEPT ![op[p].group] = op[p].share]
                      ELSE groupshares
    /\ op' = [op EXCEPT ![p] = NoCall]
    /\ UNCHANGED <<state, group, plock, calls, cpuVars, buildVars, indexVars>>

(* setprocessgroup(pid of p, g), under p->lock.                              *)
SetProcessGroup(c, p, g) ==
    /\ Running(c)
    /\ cpuproc[c] \in Callers
    /\ calls < MaxCalls
    /\ plock[p] = Nobody
    /\ state[p] # "UNUSED"
    /\ group' = [group EXCEPT ![p] = g]
    /\ calls' = calls + 1
    /\ UNCHANGED <<state, plock, op, groupshares, cpuVars, buildVars, indexVars>>

SchedulerStep(c) ==
    \/ AcquireIndexLock(c)
    \/ ReadGroupShare(c)
    \/ AddGroupShare(c)
    \/ PlaceGroup(c)
    \/ GroupsPlaced(c)
    \/ ScanProcess(c)
    \/ FinishSchedule(c)
    \/ Pick(c)
    \/ Advance(c)
    \/ Dispatch(c)
    \/ SwitchBack(c)

ProcessStep(c) ==
    \/ Yield(c)
    \/ Sleep(c)
    \/ Exit(c)
    \/ \E np \in Proc : ForkAlloc(c, np)
    \/ ForkPublish(c)
    \/ \E g \in Group, s \in Share : SetshareBegin(c, g, s)
    \/ SetshareRead(c)
    \/ SetshareStore(c)
    \/ \E p \in Proc, g \in Group : SetProcessGroup(c, p, g)

Next ==
    \/ \E c \in CPU : SchedulerStep(c) \/ ProcessStep(c)
    \/ \E p \in Proc : Wakeup(p) \/ Reap(p)

Spec == Init /\ [][Next]_vars

(* A core never stops in scheduler(), and the timer interrupts every process *)
(* in the end.                                                               *)
Fairness == \A c \in CPU : WF_vars(SchedulerStep(c)) /\ WF_vars(Yield(c))

FairSpec == Spec /\ Fairness
-----------------------------------------------------------------------------
(***************************************************************************)
(* Properties.                                                             *)
(***************************************************************************)

States == {"UNUSED", "USED", "SLEEPING", "RUNNABLE", "RUNNING", "ZOMBIE"}

SumCalls == [name : {"setshare"}, group : Group, share : Share,
             i : 0..MAXGROUPS, total : Nat]

Ops == {NoCall} \cup {ForkCall(np) : np \in Proc} \cup SumCalls

Building == {"shares", "total", "place", "procs"}
Locking  == Building \cup {"pick", "advance"}
PCs      == Locking \cup {"top", "dispatch", "run", "switch"}

(* Every variable of scheduler(), schedulegroups(), scheduleprocesses() and  *)
(* of the process table has a value of its type.                             *)
TypeOK ==
    /\ state \in [Proc -> States]
    /\ group \in [Proc -> Group]
    /\ plock \in [Proc -> CPU \cup {Nobody}]
    /\ op \in [Proc -> Ops]
    /\ groupshares \in [Group -> Share]
    /\ calls \in 0..MaxCalls
    /\ pc \in [CPU -> PCs]
    /\ chosen \in [CPU -> Proc \cup {Nobody}]
    /\ cpuproc \in [CPU -> Proc \cup {Nobody}]
    /\ indexlock \in CPU \cup {Nobody}
    /\ scan \in Group
    /\ left \in [Group -> Share]
    /\ totalshares \in Int
    /\ groupschedule \in Seq(Group)
    /\ slot \in Nat \ {0}
    /\ next \in Proc
    /\ processschedule \in Seq(Proc)
    /\ processscheduleindex \in Nat

(* No process is on two cores: between yield()'s p->state = RUNNABLE and the *)
(* end of swtch() the process is RUNNABLE while its registers are still      *)
(* those of the old core, and another core whose schedule names it again     *)
(* must not switch to it.                                                    *)
OnOneCore ==
    \A c, d \in CPU :
        c # d /\ cpuproc[c] # Nobody => cpuproc[c] # cpuproc[d]

(* The process a core has as c->proc is RUNNING, or in sched() with its lock *)
(* held by that core: wait() never frees the kernel stack of an exiting      *)
(* process under it, and a RUNNING process is on some core.                  *)
CurrentIsLive ==
    /\ \A c \in CPU : cpuproc[c] # Nobody =>
          \/ pc[c] = "run" /\ state[cpuproc[c]] = "RUNNING"
          \/ pc[c] = "switch" /\ plock[cpuproc[c]] = c
    /\ \A p \in Proc : state[p] = "RUNNING" =>
          \E c \in CPU : cpuproc[c] = p /\ pc[c] = "run"

(* partA.design.txt, requirement 1: only one core builds the schedule, and   *)
(* no other core is between its pick and its increment at that time.         *)
OneBuilder ==
    \A c, d \in CPU : pc[c] \in Locking /\ pc[d] \in Locking => c = d

(* The entry a core picks, and the index it increments, lie inside the       *)
(* schedule although the size and the index were tested some steps before.   *)
PickInBounds ==
    \A c \in CPU : pc[c] \in {"pick", "advance"} =>
        processscheduleindex < Len(processschedule)

(* How often group g has a turn among the first n entries.                   *)
Turns(g, n) == Cardinality({k \in 1..n : groupschedule[k] = g})

(* partA.design.txt: groups are added in alternating order (ABCBCCCC): the   *)
(* k-th turn of a group comes before every (k+1)-th turn of another, and     *)
(* within a round the groups keep their order.                               *)
AlternatingTurns ==
    \A i, j \in 1..Len(groupschedule) : i < j =>
        LET a == Turns(groupschedule[i], i)
            b == Turns(groupschedule[j], j)
        IN a < b \/ (a = b /\ groupschedule[i] < groupschedule[j])

(* processschedule[], of NPROC * MAXGROUPSHARE elements, is overrun by no    *)
(* schedule whose turns fit into groupschedule[], however the processes      *)
(* change state and group while the table is scanned.  (While turns are      *)
(* placed the two are of different cycles.)                                  *)
ScheduleFits ==
    (\A c \in CPU : pc[c] # "place") /\ Len(groupschedule) <= MAXGROUPSHARE =>
        Len(processschedule) <= NPROC * MAXGROUPSHARE

(* partA.design.txt:98: groupschedule[] needs to have MAXGROUPSHARE elements *)
(* because the sum of the shares is not greater.                             *)
GroupScheduleFits == Len(groupschedule) <= MAXGROUPSHARE

(* The shares of all groups, one element for each.                           *)
SharesGiven == {r \in Group \X (1..MAXGROUPSHARE) : r[2] <= groupshares[r[1]]}

(* partA.design.txt:8: the sum of the group shares is at most MAXGROUPSHARE. *)
SharesFit == Cardinality(SharesGiven) <= MAXGROUPSHARE

(* partA.design.txt:119: while a core builds the schedule the others wait    *)
(* until it is done, so it is done in the end.                               *)
BuildEnds == \A c \in CPU : []<>(pc[c] \notin Building)

(* partA.design.txt:142: while the schedule is built nothing is running.     *)
NothingRunsDuringBuild ==
    \A c, d \in CPU : pc[c] \in Building => pc[d] # "run"

(* The shares that are left to be placed, one element for each.              *)
SharesLeft == {r \in Group \X (1..MAXGROUPSHARE) : r[2] <= left[r[1]]}

(* A core hands out turns with a total that is not that of the copied shares:*)
(* setshare() stored between its two reads of a share.                       *)
Torn ==
    /\ \E c \in CPU : pc[c] = "place"
    /\ totalshares # Cardinality(SharesLeft)

(* No process stays RUNNABLE for ever while its group has a share: each      *)
(* schedule that is used up is followed by one that names it, unless the     *)
(* builder's total was torn (it may then never end: BuildEnds).              *)
NoStarvation ==
    \A p \in Proc :
        []<>(~(state[p] = "RUNNABLE" /\ groupshares[group[p]] > 0) \/ Torn)

(* The cores and the process table implement the abstract allocation of      *)
(* processes to cores, which knows no lock: a process is started only when   *)
(* no core has it, and woken or freed only after its core let go of it.      *)
Alloc == INSTANCE CpuAlloc WITH core <- cpuproc

AllocSpec == Alloc!Spec
=============================================================================
