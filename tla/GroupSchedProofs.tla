-------------------------- MODULE GroupSchedProofs --------------------------
(* Proofs about the group scheduler, for every number of cores, processes,   *)
(* groups and shares.                                                        *)
EXTENDS GroupSchedHistory, FiniteSetTheorems, TLAPS

USE DEF Proc, Group, Share

(* The core that holds processscheduleindexlock is the one inside.           *)
LockOK ==
    \A c \in CPU : pc[c] \in Locking <=> indexlock = c

(* What a core has chosen, has as c->proc or is about to read is there.      *)
ChosenOK ==
    \A c \in CPU :
        /\ pc[c] \in {"advance", "dispatch"} => chosen[c] \in Proc
        /\ pc[c] \in {"run", "switch"} => cpuproc[c] \in Proc
        /\ pc[c] \in {"pick", "advance"} =>
              processscheduleindex < Len(processschedule)

(* TypeOK is inductive together with the two: a pick from beyond the         *)
(* schedule would be no process.                                             *)
Types == TypeOK /\ LockOK /\ ChosenOK

(* Appending keeps the type of a sequence.                                   *)
LEMMA AppendType ==
  ASSUME NEW S, NEW q \in Seq(S), NEW e \in S
  PROVE  Append(q, e) \in Seq(S) /\ Len(Append(q, e)) = Len(q) + 1
OBVIOUS

(* The types hold initially.                                                 *)
LEMMA InitTypes == Init => Types
<1> SUFFICES ASSUME Init PROVE Types
    OBVIOUS
<1>1. state \in [Proc -> States]
  BY DEF Init, States
<1>2. op \in [Proc -> Ops]
  BY DEF Init, Ops
<1>3. /\ group \in [Proc -> Group]
      /\ groupshares \in [Group -> Share]
      /\ calls \in 0..MaxCalls
      /\ scan \in Group
      /\ left \in [Group -> Share]
      /\ totalshares \in Int
      /\ slot \in Nat \ {0}
      /\ next \in Proc
      /\ processscheduleindex \in Nat
  BY SchedAssumption DEF Init
<1>4. /\ plock \in [Proc -> CPU \cup {Nobody}]
      /\ pc \in [CPU -> PCs]
      /\ chosen \in [CPU -> Proc \cup {Nobody}]
      /\ cpuproc \in [CPU -> Proc \cup {Nobody}]
      /\ indexlock \in CPU \cup {Nobody}
  BY DEF Init, PCs, Locking, Building
<1>5. groupschedule \in Seq(Group) /\ processschedule \in Seq(Proc)
  BY DEF Init
<1>6. LockOK /\ ChosenOK
  BY SchedAssumption DEF Init, LockOK, ChosenOK, Locking, Building
<1>. QED
  BY <1>1, <1>2, <1>3, <1>4, <1>5, <1>6 DEF Types, TypeOK

(* The calls that are records of setshare().                                 *)
LEMMA ShareCallType ==
  ASSUME NEW g \in Group, NEW s \in Share, NEW i \in 0..MAXGROUPS,
         NEW total \in Nat
  PROVE  ShareCall(g, s, i, total) \in Ops
BY DEF ShareCall, Ops, SumCalls

(* A call with the name of setshare() has its fields.                        *)
LEMMA SetshareCalls ==
  ASSUME NEW o \in Ops, o.name = "setshare"
  PROVE  o \in SumCalls
BY DEF Ops, NoCall, ForkCall

(* Every step of the system keeps the types.                                 *)
LEMMA StepTypes == Types /\ [Next]_vars => Types'
<1> SUFFICES ASSUME Types, [Next]_vars PROVE Types'
    OBVIOUS
<1> USE SchedAssumption DEF PCs, Locking, Building,
        procVars, shareVars, cpuVars, buildVars, indexVars
<1>1. CASE UNCHANGED vars
  BY <1>1 DEF vars, Types, TypeOK, LockOK, ChosenOK
<1>2. ASSUME NEW c \in CPU, AcquireIndexLock(c)
       PROVE  Types'
  <2>1. TypeOK'
    BY <1>2 DEF AcquireIndexLock, Types, TypeOK, ChosenOK
  <2>2. LockOK'
    BY <1>2 DEF AcquireIndexLock, Types, TypeOK, LockOK
  <2>3. ChosenOK'
    BY <1>2 DEF AcquireIndexLock, Types, TypeOK, LockOK, ChosenOK
  <2>. QED
    BY <2>1, <2>2, <2>3 DEF Types
<1>3. ASSUME NEW c \in CPU, ReadGroupShare(c)
       PROVE  Types'
  <2>1. left' \in [Group -> Share]
    BY <1>3 DEF ReadGroupShare, Types, TypeOK
  <2>2. TypeOK'
    BY <1>3, <2>1 DEF ReadGroupShare, Types, TypeOK
  <2>3. LockOK'
    BY <1>3 DEF ReadGroupShare, Types, TypeOK, LockOK
  <2>4. ChosenOK'
    BY <1>3 DEF ReadGroupShare, Types, TypeOK, LockOK, ChosenOK
  <2>. QED
    BY <2>2, <2>3, <2>4 DEF Types
<1>23. ASSUME NEW c \in CPU, AddGroupShare(c)
       PROVE  Types'
  <2>1. totalshares' \in Int
    <3>1. scan \in Group /\ totalshares \in Int /\ groupshares \in [Group -> Share]
      BY DEF Types, TypeOK
    <3>2. groupshares[scan] \in Int
      BY <3>1
    <3>. QED
      BY <1>23, <3>1, <3>2 DEF AddGroupShare
  <2>2. scan' \in Group
    BY <1>23 DEF AddGroupShare, After, Types, TypeOK
  <2>3. pc' \in [CPU -> PCs]
    BY <1>23 DEF AddGroupShare, Types, TypeOK
  <2>4. groupschedule \in Seq(Group) /\ <<>> \in Seq(Group)
    BY DEF Types, TypeOK
  <2>5. groupschedule' \in Seq(Group)
    BY <1>23, <2>4 DEF AddGroupShare
  <2>6. TypeOK'
    BY <1>23, <2>1, <2>2, <2>3, <2>5 DEF AddGroupShare, Types, TypeOK
  <2>7. LockOK'
    BY <1>23 DEF AddGroupShare, Types, TypeOK, LockOK
  <2>8. ChosenOK'
    BY <1>23 DEF AddGroupShare, Types, TypeOK, LockOK, ChosenOK
  <2>. QED
    BY <2>6, <2>7, <2>8 DEF Types
<1>4. ASSUME NEW c \in CPU, PlaceGroup(c)
       PROVE  Types'
  <2>1. left \in [Group -> Share] /\ scan \in Group
        /\ groupschedule \in Seq(Group)
    BY DEF Types, TypeOK
  <2>2. left' \in [Group -> Share]
    <3>1. CASE left[scan] > 0
      <4>1. left' = [left EXCEPT ![scan] = left[scan] - 1]
        BY <1>4, <3>1 DEF PlaceGroup
      <4>2. left[scan] \in Share
        BY <2>1
      <4>3. left[scan] - 1 \in Share
        BY <3>1, <4>2
      <4>. QED
        BY <2>1, <4>1, <4>3
    <3>2. CASE ~(left[scan] > 0)
      BY <1>4, <2>1, <3>2 DEF PlaceGroup
    <3>. QED
      BY <3>1, <3>2
  <2>3. scan' \in Group
    BY <1>4 DEF PlaceGroup, After, Types, TypeOK
  <2>4. groupschedule' \in Seq(Group)
    <3>1. CASE left[scan] > 0
      <4>1. groupschedule' = Append(groupschedule, scan)
        BY <1>4, <3>1 DEF PlaceGroup
      <4>. QED
        BY <2>1, <4>1, AppendType
    <3>2. CASE ~(left[scan] > 0)
      BY <1>4, <2>1, <3>2 DEF PlaceGroup
    <3>. QED
      BY <3>1, <3>2
  <2>5. totalshares' \in Int
    BY <1>4 DEF PlaceGroup, Types, TypeOK
  <2>6. TypeOK'
    BY <1>4, <2>2, <2>3, <2>4, <2>5 DEF PlaceGroup, Types, TypeOK
  <2>7. LockOK'
    BY <1>4 DEF PlaceGroup, Types, TypeOK, LockOK
  <2>8. ChosenOK'
    BY <1>4 DEF PlaceGroup, Types, TypeOK, LockOK, ChosenOK
  <2>. QED
    BY <2>6, <2>7, <2>8 DEF Types
<1>5. ASSUME NEW c \in CPU, GroupsPlaced(c)
       PROVE  Types'
  <2>1. TypeOK'
    BY <1>5 DEF GroupsPlaced, Types, TypeOK, ChosenOK
  <2>2. LockOK'
    BY <1>5 DEF GroupsPlaced, Types, TypeOK, LockOK
  <2>3. ChosenOK'
    BY <1>5 DEF GroupsPlaced, Types, TypeOK, LockOK, ChosenOK
  <2>. QED
    BY <2>1, <2>2, <2>3 DEF Types
<1>6. ASSUME NEW c \in CPU, ScanProcess(c)
       PROVE  Types'
  <2>1. next \in Proc /\ slot \in Nat \ {0} /\ processschedule \in Seq(Proc)
    BY DEF Types, TypeOK
  <2>2. next' \in Proc /\ slot' \in Nat \ {0}
    BY <1>6, <2>1 DEF ScanProcess
  <2>3. processschedule' \in Seq(Proc)
    BY <1>6, <2>1, AppendType DEF ScanProcess
  <2>4. TypeOK'
    BY <1>6, <2>2, <2>3 DEF ScanProcess, Types, TypeOK
  <2>5. LockOK'
    BY <1>6 DEF ScanProcess, Types, TypeOK, LockOK
  <2>6. ChosenOK'
    BY <1>6 DEF ScanProcess, Types, TypeOK, LockOK, ChosenOK
  <2>. QED
    BY <2>4, <2>5, <2>6 DEF Types
<1>7. ASSUME NEW c \in CPU, FinishSchedule(c)
       PROVE  Types'
  <2>1. TypeOK'
    BY <1>7 DEF FinishSchedule, Types, TypeOK
  <2>2. indexlock = c /\ \A d \in CPU : d # c => pc[d] \notin Locking
    BY <1>7 DEF FinishSchedule, Types, TypeOK, LockOK
  <2>3. CASE Len(processschedule) = 0
    <3>1. pc' = [pc EXCEPT ![c] = "top"] /\ indexlock' = Nobody
      BY <1>7, <2>3 DEF FinishSchedule
    <3>2. LockOK'
      BY <2>2, <3>1 DEF Types, TypeOK, LockOK
    <3>3. ChosenOK'
      BY <1>7, <2>2, <3>1 DEF FinishSchedule, Types, TypeOK, ChosenOK
    <3>. QED
      BY <2>1, <3>2, <3>3 DEF Types
  <2>4. CASE Len(processschedule) # 0
    <3>1. pc' = [pc EXCEPT ![c] = "pick"] /\ indexlock' = indexlock
      BY <1>7, <2>4 DEF FinishSchedule
    <3>2. LockOK'
      BY <2>2, <3>1 DEF Types, TypeOK, LockOK
    <3>3. Len(processschedule) \in Nat
      BY DEF Types, TypeOK
    <3>4. 0 < Len(processschedule) /\ processscheduleindex' = 0
          /\ processschedule' = processschedule
      BY <1>7, <2>4, <3>3 DEF FinishSchedule
    <3>5. UNCHANGED <<chosen, cpuproc>>
      BY <1>7 DEF FinishSchedule
    <3>6. ChosenOK'
      BY <2>2, <3>1, <3>4, <3>5 DEF Types, TypeOK, ChosenOK
    <3>. QED
      BY <2>1, <3>2, <3>6 DEF Types
  <2>. QED
    BY <2>3, <2>4
<1>8. ASSUME NEW c \in CPU, Pick(c)
       PROVE  Types'
  <2>1. processschedule \in Seq(Proc) /\ processscheduleindex \in Nat
        /\ processscheduleindex < Len(processschedule)
    BY <1>8 DEF Pick, Types, TypeOK, ChosenOK
  <2>2. processschedule[processscheduleindex + 1] \in Proc
    BY <2>1
  <2>3. chosen' = [chosen EXCEPT ![c] =
                     processschedule[processscheduleindex + 1]]
    BY <1>8 DEF Pick
  <2>4. TypeOK'
    BY <1>8, <2>2, <2>3 DEF Pick, Types, TypeOK
  <2>5. LockOK'
    BY <1>8 DEF Pick, Types, TypeOK, LockOK
  <2>6. ChosenOK'
    BY <1>8, <2>2, <2>3 DEF Pick, Types, TypeOK, ChosenOK
  <2>. QED
    BY <2>4, <2>5, <2>6 DEF Types
<1>9. ASSUME NEW c \in CPU, Advance(c)
       PROVE  Types'
  <2>1. processscheduleindex' \in Nat
    BY <1>9 DEF Advance, Types, TypeOK
  <2>2. TypeOK'
    BY <1>9, <2>1 DEF Advance, Types, TypeOK
  <2>3. LockOK'
    BY <1>9 DEF Advance, Types, TypeOK, LockOK
  <2>4. ChosenOK'
    BY <1>9 DEF Advance, Types, TypeOK, LockOK, ChosenOK
  <2>. QED
    BY <2>2, <2>3, <2>4 DEF Types
<1>10. ASSUME NEW c \in CPU, Dispatch(c)
       PROVE  Types'
  <2>1. TypeOK'
    BY <1>10 DEF Dispatch, Types, TypeOK, ChosenOK, States
  <2>2. CASE state[chosen[c]] = "RUNNABLE"
    <3>1. /\ pc' = [pc EXCEPT ![c] = "run"]
          /\ cpuproc' = [cpuproc EXCEPT ![c] = chosen[c]]
      BY <1>10, <2>2 DEF Dispatch
    <3>2. LockOK'
      BY <1>10, <3>1 DEF Dispatch, Types, TypeOK, LockOK
    <3>3. ChosenOK'
      BY <1>10, <3>1 DEF Dispatch, Types, TypeOK, ChosenOK
    <3>. QED
      BY <2>1, <3>2, <3>3 DEF Types
  <2>3. CASE state[chosen[c]] # "RUNNABLE"
    <3>1. pc' = [pc EXCEPT ![c] = "top"] /\ cpuproc' = cpuproc
      BY <1>10, <2>3 DEF Dispatch
    <3>2. LockOK'
      BY <1>10, <3>1 DEF Dispatch, Types, TypeOK, LockOK
    <3>3. ChosenOK'
      BY <1>10, <3>1 DEF Dispatch, Types, TypeOK, ChosenOK
    <3>. QED
      BY <2>1, <3>2, <3>3 DEF Types
  <2>. QED
    BY <2>2, <2>3
<1>11. ASSUME NEW c \in CPU, SwitchBack(c)
       PROVE  Types'
  <2>1. TypeOK'
    BY <1>11 DEF SwitchBack, Types, TypeOK, ChosenOK
  <2>2. LockOK'
    BY <1>11 DEF SwitchBack, Types, TypeOK, LockOK
  <2>3. ChosenOK'
    BY <1>11 DEF SwitchBack, Types, TypeOK, LockOK, ChosenOK
  <2>. QED
    BY <2>1, <2>2, <2>3 DEF Types
<1>12. ASSUME NEW c \in CPU, Yield(c)
       PROVE  Types'
  <2>1. TypeOK'
    BY <1>12 DEF Yield, LeaveCPU, Running, States, Types, TypeOK, ChosenOK
  <2>2. LockOK'
    BY <1>12 DEF Yield, LeaveCPU, Running, States, Types, TypeOK, LockOK
  <2>3. ChosenOK'
    BY <1>12 DEF Yield, LeaveCPU, Running, States, Types, TypeOK, LockOK, ChosenOK
  <2>. QED
    BY <2>1, <2>2, <2>3 DEF Types
<1>13. ASSUME NEW c \in CPU, Sleep(c)
       PROVE  Types'
  <2>1. TypeOK'
    BY <1>13 DEF Sleep, LeaveCPU, Running, States, Types, TypeOK, ChosenOK
  <2>2. LockOK'
    BY <1>13 DEF Sleep, LeaveCPU, Running, States, Types, TypeOK, LockOK
  <2>3. ChosenOK'
    BY <1>13 DEF Sleep, LeaveCPU, Running, States, Types, TypeOK, LockOK, ChosenOK
  <2>. QED
    BY <2>1, <2>2, <2>3 DEF Types
<1>14. ASSUME NEW c \in CPU, Exit(c)
       PROVE  Types'
  <2>1. TypeOK'
    BY <1>14 DEF Exit, LeaveCPU, Running, States, Types, TypeOK, ChosenOK
  <2>2. LockOK'
    BY <1>14 DEF Exit, LeaveCPU, Running, States, Types, TypeOK, LockOK
  <2>3. ChosenOK'
    BY <1>14 DEF Exit, LeaveCPU, Running, States, Types, TypeOK, LockOK, ChosenOK
  <2>. QED
    BY <2>1, <2>2, <2>3 DEF Types
<1>15. ASSUME NEW c \in CPU, NEW np \in Proc, ForkAlloc(c, np)
       PROVE  Types'
  <2>1. TypeOK'
    BY <1>15 DEF ForkAlloc, Running, States, Ops, ForkCall, Types, TypeOK, ChosenOK
  <2>2. LockOK'
    BY <1>15 DEF ForkAlloc, Running, States, Ops, ForkCall, Types, TypeOK, LockOK
  <2>3. ChosenOK'
    BY <1>15 DEF ForkAlloc, Running, States, Ops, ForkCall, Types, TypeOK, LockOK, ChosenOK
  <2>. QED
    BY <2>1, <2>2, <2>3 DEF Types
<1>16. ASSUME NEW c \in CPU, ForkPublish(c)
       PROVE  Types'
  <2>1. TypeOK'
    BY <1>16 DEF ForkPublish, States, Ops, Types, TypeOK, ChosenOK
  <2>2. LockOK'
    BY <1>16 DEF ForkPublish, States, Ops, Types, TypeOK, LockOK
  <2>3. ChosenOK'
    BY <1>16 DEF ForkPublish, States, Ops, Types, TypeOK, LockOK, ChosenOK
  <2>. QED
    BY <2>1, <2>2, <2>3 DEF Types
<1>17. ASSUME NEW c \in CPU, NEW g \in Group, NEW s \in Share, SetshareBegin(c, g, s)
       PROVE  Types'
  <2>1. ShareCall(g, s, 0, 0) \in Ops
    BY ShareCallType
  <2>2. op' \in [Proc -> Ops]
    BY <1>17, <2>1 DEF SetshareBegin, Running, Types, TypeOK, ChosenOK
  <2>3. calls' \in 0..MaxCalls
    BY <1>17 DEF SetshareBegin, Types, TypeOK
  <2>4. TypeOK'
    BY <1>17, <2>2, <2>3 DEF SetshareBegin, Types, TypeOK
  <2>5. LockOK'
    BY <1>17 DEF SetshareBegin, Types, TypeOK, LockOK
  <2>6. ChosenOK'
    BY <1>17 DEF SetshareBegin, Types, TypeOK, ChosenOK
  <2>. QED
    BY <2>4, <2>5, <2>6 DEF Types
<1>18. ASSUME NEW c \in CPU, SetshareRead(c)
       PROVE  Types'
  <2> DEFINE p == cpuproc[c]
  <2>1. p \in Proc /\ op[p] \in SumCalls
    <3>1. p \in Proc /\ op[p].name = "setshare"
      BY <1>18 DEF SetshareRead, Types, ChosenOK
    <3>2. op[p] \in Ops
      BY <3>1 DEF Types, TypeOK
    <3>. QED
      BY <3>1, <3>2, SetshareCalls
  <2>2. ShareCall(op[p].group, op[p].share, op[p].i + 1,
                  op[p].total + groupshares[op[p].i]) \in Ops
    <3>1. /\ op[p].group \in Group
          /\ op[p].share \in Share
          /\ op[p].i \in 0..(MAXGROUPS - 1)
          /\ op[p].total \in Nat
      BY <1>18, <2>1 DEF SetshareRead, SumCalls
    <3>2. groupshares[op[p].i] \in Nat
      <4>1. groupshares \in [Group -> Share]
        BY DEF Types, TypeOK
      <4>2. groupshares[op[p].i] \in Share
        BY <3>1, <4>1
      <4>. QED
        BY <4>2
    <3>3. op[p].i + 1 \in 0..MAXGROUPS /\ op[p].total + groupshares[op[p].i] \in Nat
      BY <3>1, <3>2
    <3>. QED
      BY <3>1, <3>3, ShareCallType
  <2>3. op' \in [Proc -> Ops]
    BY <1>18, <2>1, <2>2 DEF SetshareRead, Types, TypeOK
  <2>4. TypeOK'
    BY <1>18, <2>3 DEF SetshareRead, Types, TypeOK
  <2>5. LockOK'
    BY <1>18 DEF SetshareRead, Types, TypeOK, LockOK
  <2>6. ChosenOK'
    BY <1>18 DEF SetshareRead, Types, TypeOK, ChosenOK
  <2>. QED
    BY <2>4, <2>5, <2>6 DEF Types
<1>19. ASSUME NEW c \in CPU, SetshareStore(c)
       PROVE  Types'
  <2> DEFINE p == cpuproc[c]
  <2>1. p \in Proc /\ op[p] \in SumCalls
    <3>1. p \in Proc /\ op[p].name = "setshare"
      BY <1>19 DEF SetshareStore, Types, ChosenOK
    <3>2. op[p] \in Ops
      BY <3>1 DEF Types, TypeOK
    <3>. QED
      BY <3>1, <3>2, SetshareCalls
  <2>2. groupshares' \in [Group -> Share]
    BY <1>19, <2>1 DEF SetshareStore, Types, TypeOK, SumCalls
  <2>3. op' \in [Proc -> Ops]
    BY <1>19, <2>1 DEF SetshareStore, Types, TypeOK, Ops
  <2>4. TypeOK'
    BY <1>19, <2>2, <2>3 DEF SetshareStore, Types, TypeOK
  <2>5. LockOK'
    BY <1>19 DEF SetshareStore, Types, TypeOK, LockOK
  <2>6. ChosenOK'
    BY <1>19 DEF SetshareStore, Types, TypeOK, ChosenOK
  <2>. QED
    BY <2>4, <2>5, <2>6 DEF Types
<1>20. ASSUME NEW c \in CPU, NEW p \in Proc, NEW g \in Group, SetProcessGroup(c, p, g)
       PROVE  Types'
  <2>1. group' \in [Proc -> Group]
    BY <1>20 DEF SetProcessGroup, Types, TypeOK
  <2>2. calls' \in 0..MaxCalls
    BY <1>20 DEF SetProcessGroup, Types, TypeOK
  <2>3. TypeOK'
    BY <1>20, <2>1, <2>2 DEF SetProcessGroup, Types, TypeOK
  <2>4. LockOK'
    BY <1>20 DEF SetProcessGroup, Types, TypeOK, LockOK
  <2>5. ChosenOK'
    BY <1>20 DEF SetProcessGroup, Types, TypeOK, ChosenOK
  <2>. QED
    BY <2>3, <2>4, <2>5 DEF Types
<1>21. ASSUME NEW p \in Proc, Wakeup(p)
       PROVE  Types'
  <2>1. TypeOK'
    BY <1>21 DEF Wakeup, States, Types, TypeOK, ChosenOK
  <2>2. LockOK'
    BY <1>21 DEF Wakeup, States, Types, TypeOK, LockOK
  <2>3. ChosenOK'
    BY <1>21 DEF Wakeup, States, Types, TypeOK, LockOK, ChosenOK
  <2>. QED
    BY <2>1, <2>2, <2>3 DEF Types
<1>22. ASSUME NEW p \in Proc, Reap(p)
       PROVE  Types'
  <2>1. TypeOK'
    BY <1>22 DEF Reap, States, Types, TypeOK, ChosenOK
  <2>2. LockOK'
    BY <1>22 DEF Reap, States, Types, TypeOK, LockOK
  <2>3. ChosenOK'
    BY <1>22 DEF Reap, States, Types, TypeOK, LockOK, ChosenOK
  <2>. QED
    BY <2>1, <2>2, <2>3 DEF Types
<1>. QED
  BY <1>1, <1>2, <1>3, <1>4, <1>5, <1>6, <1>7, <1>8, <1>9, <1>10, <1>11, <1>12, <1>13, <1>14, <1>15, <1>16, <1>17, <1>18, <1>19, <1>20, <1>21, <1>22,
     <1>23
     DEF Next, SchedulerStep, ProcessStep

(* What a core that runs a process, or switches away from one, knows.        *)
CurrentOK ==
    \A c \in CPU :
        /\ pc[c] = "run" => state[cpuproc[c]] = "RUNNING"
        /\ pc[c] = "switch" => /\ plock[cpuproc[c]] = c
                               /\ state[cpuproc[c]]
                                    \in {"RUNNABLE", "SLEEPING", "ZOMBIE"}
        /\ pc[c] \notin {"run", "switch"} => cpuproc[c] = Nobody

(* A p->lock that is held is held across swtch(); a RUNNING process is on a  *)
(* core.                                                                     *)
ProcessOK ==
    \A p \in Proc :
        /\ plock[p] # Nobody =>
              pc[plock[p]] = "switch" /\ cpuproc[plock[p]] = p
        /\ state[p] = "RUNNING" => \E c \in CPU : pc[c] = "run" /\ cpuproc[c] = p

(* A child that fork() has not published is USED and has one parent.         *)
ForkOK ==
    \A p \in Proc : op[p].name = "fork" =>
        /\ op[p].child \in Proc
        /\ state[op[p].child] = "USED"
        /\ \A q \in Proc : op[q].name = "fork" /\ op[q].child = op[p].child
                              => q = p

CoreInv == CurrentOK /\ ProcessOK /\ ForkOK /\ OnOneCore

(* No core runs a process at first.                                          *)
LEMMA InitCore == Init => CoreInv
BY SchedAssumption
   DEF Init, CoreInv, CurrentOK, ProcessOK, ForkOK, OnOneCore, NoCall

(* A step of scheduler() that keeps c->proc and the process table.           *)
LEMMA SchedulerOnly ==
  ASSUME Types, CoreInv, NEW c \in CPU, NEW x \in Locking \cup {"top", "dispatch"},
         pc[c] \notin {"run", "switch"}, pc' = [pc EXCEPT ![c] = x],
         UNCHANGED <<state, plock, op, cpuproc>>
  PROVE  CoreInv'
<1> USE SchedAssumption DEF Locking, Building
<1>1. CurrentOK'
  BY DEF Types, TypeOK, CoreInv, CurrentOK
<1>2. ProcessOK'
  BY DEF Types, TypeOK, CoreInv, ProcessOK, ForkOK
<1>3. ForkOK'
  BY DEF CoreInv, ForkOK
<1>4. OnOneCore'
  BY DEF CoreInv, OnOneCore
<1>. QED
  BY <1>1, <1>2, <1>3, <1>4 DEF CoreInv

(* A step of a process, of wakeup() or of wait() that moves no process to or *)
(* from a core.                                                              *)
LEMMA TableOnly ==
  ASSUME Types, CoreInv, ForkOK', UNCHANGED <<plock, pc, cpuproc>>,
         \A p \in Proc : state'[p] # state[p] =>
             /\ state[p] # "RUNNING" /\ plock[p] = Nobody
             /\ state'[p] # "RUNNING"
  PROVE  CoreInv'
<1>1. ASSUME NEW c \in CPU, pc[c] \in {"run", "switch"}
      PROVE  state'[cpuproc[c]] = state[cpuproc[c]]
  <2>1. cpuproc[c] \in Proc
    BY <1>1 DEF Types, ChosenOK
  <2>2. state[cpuproc[c]] = "RUNNING" \/ plock[cpuproc[c]] # Nobody
    BY <1>1, SchedAssumption DEF CoreInv, CurrentOK
  <2>. QED
    BY <2>1, <2>2
<1>2. CurrentOK'
  BY <1>1 DEF CoreInv, CurrentOK
<1>3. ProcessOK'
  BY DEF Types, TypeOK, CoreInv, ProcessOK
<1>4. OnOneCore'
  BY DEF CoreInv, OnOneCore
<1>. QED
  BY <1>2, <1>4, <1>3 DEF CoreInv

(* A process leaves its core: it takes its lock before its state changes.    *)
LEMMA LeaveCPUCore ==
  ASSUME Types, CoreInv, NEW c \in CPU,
         NEW s \in {"RUNNABLE", "SLEEPING", "ZOMBIE"}, LeaveCPU(c, s)
  PROVE  CoreInv'
<1> DEFINE p == cpuproc[c]
<1>1. /\ p \in Proc /\ pc[c] = "run" /\ plock[p] = Nobody
      /\ state[p] = "RUNNING" /\ p # Nobody
  BY SchedAssumption DEF LeaveCPU, Types, ChosenOK, CoreInv, CurrentOK
<1>2. \A d \in CPU : d # c => cpuproc[d] # p
  BY <1>1 DEF CoreInv, OnOneCore
<1>3. /\ state' = [state EXCEPT ![p] = s]
      /\ plock' = [plock EXCEPT ![p] = c]
      /\ pc' = [pc EXCEPT ![c] = "switch"]
      /\ UNCHANGED <<op, cpuproc>>
  BY DEF LeaveCPU
<1>4. CurrentOK'
  BY <1>1, <1>2, <1>3, SchedAssumption
     DEF Types, TypeOK, ChosenOK, CoreInv, CurrentOK
<1>5. ProcessOK'
  <2>1. ASSUME NEW q \in Proc, plock'[q] # Nobody
        PROVE  pc'[plock'[q]] = "switch" /\ cpuproc'[plock'[q]] = q
    <3>1. CASE q = p
      BY <1>1, <1>3, <3>1 DEF Types, TypeOK
    <3>2. CASE q # p
      <4>1. plock[q] # Nobody /\ plock'[q] = plock[q]
        BY <1>3, <2>1, <3>2 DEF Types, TypeOK
      <4>2. pc[plock[q]] = "switch" /\ cpuproc[plock[q]] = q
            /\ plock[q] \in CPU
        BY <4>1 DEF Types, TypeOK, CoreInv, ProcessOK
      <4>. QED
        BY <1>1, <1>3, <4>1, <4>2 DEF Types, TypeOK
    <3>. QED
      BY <3>1, <3>2
  <2>2. ASSUME NEW q \in Proc, state'[q] = "RUNNING"
        PROVE  \E d \in CPU : pc'[d] = "run" /\ cpuproc'[d] = q
    <3>1. q # p /\ state[q] = "RUNNING"
      BY <1>1, <1>3, <2>2 DEF Types, TypeOK
    <3>2. PICK d \in CPU : pc[d] = "run" /\ cpuproc[d] = q
      BY <3>1 DEF CoreInv, ProcessOK
    <3>3. d # c
      BY <3>1, <3>2
    <3>. QED
      BY <1>3, <3>2, <3>3 DEF Types, TypeOK
  <2>. QED
    BY <2>1, <2>2 DEF ProcessOK
<1>6. ForkOK'
  BY <1>1, <1>3 DEF Types, TypeOK, CoreInv, ForkOK
<1>7. OnOneCore'
  BY <1>3 DEF CoreInv, OnOneCore
<1>. QED
  BY <1>4, <1>5, <1>6, <1>7 DEF CoreInv

(* The core lets go of the process and of its lock.                          *)
LEMMA SwitchBackCore ==
  ASSUME Types, CoreInv, NEW c \in CPU, SwitchBack(c)
  PROVE  CoreInv'
<1> DEFINE p == cpuproc[c]
<1>1. p \in Proc /\ pc[c] = "switch" /\ plock[p] = c /\ state[p] # "RUNNING"
  BY DEF SwitchBack, Types, ChosenOK, CoreInv, CurrentOK
<1>2. \A d \in CPU : d # c => cpuproc[d] # p
  BY <1>1, SchedAssumption DEF CoreInv, OnOneCore
<1>3. /\ plock' = [plock EXCEPT ![p] = Nobody]
      /\ cpuproc' = [cpuproc EXCEPT ![c] = Nobody]
      /\ pc' = [pc EXCEPT ![c] = "top"]
      /\ UNCHANGED <<state, op>>
  BY DEF SwitchBack
<1>4. CurrentOK'
  BY <1>1, <1>2, <1>3 DEF Types, TypeOK, ChosenOK, CoreInv, CurrentOK
<1>5. ProcessOK'
  BY <1>1, <1>2, <1>3 DEF Types, TypeOK, CoreInv, ProcessOK
<1>6. ForkOK'
  BY <1>3 DEF CoreInv, ForkOK
<1>7. OnOneCore'
  BY <1>3 DEF Types, TypeOK, CoreInv, OnOneCore
<1>. QED
  BY <1>4, <1>5, <1>6, <1>7 DEF CoreInv

(* A RUNNABLE process whose lock is free is on no core.                      *)
LEMMA FreeIsOff ==
  ASSUME Types, CoreInv, NEW p \in Proc, plock[p] = Nobody,
         state[p] # "RUNNING"
  PROVE  \A c \in CPU : cpuproc[c] # p
BY SchedAssumption DEF Types, ChosenOK, CoreInv, CurrentOK

(* A core that finds its choice RUNNABLE and unlocked may run it.            *)
LEMMA DispatchCore ==
  ASSUME Types, CoreInv, NEW c \in CPU, Dispatch(c)
  PROVE  CoreInv'
<1> DEFINE p == chosen[c]
<1>1. p \in Proc /\ pc[c] = "dispatch" /\ plock[p] = Nobody
  BY DEF Dispatch, Types, ChosenOK
<1>2. CASE state[p] = "RUNNABLE"
  <2>1. /\ state' = [state EXCEPT ![p] = "RUNNING"]
        /\ cpuproc' = [cpuproc EXCEPT ![c] = p]
        /\ pc' = [pc EXCEPT ![c] = "run"]
        /\ UNCHANGED <<plock, op>>
    BY <1>2 DEF Dispatch
  <2>2. \A d \in CPU : cpuproc[d] # p
    BY <1>1, <1>2, FreeIsOff
  <2>3. CurrentOK'
    BY <1>1, <2>1, <2>2 DEF Types, TypeOK, ChosenOK, CoreInv, CurrentOK
  <2>4. ProcessOK'
    <3>1. ASSUME NEW q \in Proc, plock'[q] # Nobody
          PROVE  pc'[plock'[q]] = "switch" /\ cpuproc'[plock'[q]] = q
      <4>1. pc[plock[q]] = "switch" /\ cpuproc[plock[q]] = q
            /\ plock[q] \in CPU
        BY <2>1, <3>1 DEF Types, TypeOK, CoreInv, ProcessOK
      <4>. QED
        BY <1>1, <2>1, <4>1 DEF Types, TypeOK
    <3>2. ASSUME NEW q \in Proc, state'[q] = "RUNNING"
          PROVE  \E d \in CPU : pc'[d] = "run" /\ cpuproc'[d] = q
      <4>1. CASE q = p
        BY <1>1, <2>1, <4>1 DEF Types, TypeOK
      <4>2. CASE q # p
        <5>1. state[q] = "RUNNING"
          BY <2>1, <3>2, <4>2 DEF Types, TypeOK
        <5>2. PICK d \in CPU : pc[d] = "run" /\ cpuproc[d] = q
          BY <5>1 DEF CoreInv, ProcessOK
        <5>. QED
          BY <1>1, <2>1, <5>2 DEF Types, TypeOK
      <4>. QED
        BY <4>1, <4>2
    <3>. QED
      BY <3>1, <3>2 DEF ProcessOK
  <2>5. ForkOK'
    BY <1>1, <1>2, <2>1 DEF Types, TypeOK, CoreInv, ForkOK
  <2>6. OnOneCore'
    BY <1>1, <2>1, <2>2 DEF Types, TypeOK, CoreInv, OnOneCore
  <2>. QED
    BY <2>3, <2>4, <2>5, <2>6 DEF CoreInv
<1>3. CASE state[p] # "RUNNABLE"
  <2>1. pc' = [pc EXCEPT ![c] = "top"] /\ UNCHANGED <<state, cpuproc, plock, op>>
    BY <1>3 DEF Dispatch
  <2>. QED
    BY <1>1, <2>1, SchedulerOnly
<1>. QED
  BY <1>2, <1>3

(* The steps of fork(), setshare() and setprocessgroup(), wakeup() and       *)
(* wait() move no process to or from a core.                                 *)
LEMMA ProcessCore ==
  ASSUME Types, CoreInv
  PROVE  /\ \A c \in CPU, np \in Proc : ForkAlloc(c, np) => CoreInv'
         /\ \A c \in CPU : ForkPublish(c) => CoreInv'
         /\ \A c \in CPU, g \in Group, s \in Share :
               SetshareBegin(c, g, s) => CoreInv'
         /\ \A c \in CPU : SetshareRead(c) \/ SetshareStore(c) => CoreInv'
         /\ \A c \in CPU, p \in Proc, g \in Group :
               SetProcessGroup(c, p, g) => CoreInv'
         /\ \A p \in Proc : Wakeup(p) \/ Reap(p) => CoreInv'
<1> USE DEF cpuVars
<1>1. ASSUME NEW c \in CPU, NEW np \in Proc, ForkAlloc(c, np)
      PROVE  CoreInv'
  <2>1. cpuproc[c] \in Proc /\ state[np] = "UNUSED" /\ plock[np] = Nobody
    BY <1>1 DEF ForkAlloc, Running, Types, ChosenOK
  <2>2. /\ state' = [state EXCEPT ![np] = "USED"]
        /\ op' = [op EXCEPT ![cpuproc[c]] = ForkCall(np)]
    BY <1>1 DEF ForkAlloc
  <2>3. \A q \in Proc : op[q].name = "fork" => op[q].child # np
    BY <2>1 DEF CoreInv, ForkOK
  <2>4. ForkOK'
    BY <2>1, <2>2, <2>3 DEF Types, TypeOK, CoreInv, ForkOK, ForkCall
  <2>5. \A p \in Proc : state'[p] # state[p] => p = np /\ state'[p] = "USED"
    BY <2>2 DEF Types, TypeOK
  <2>. QED
    BY <1>1, <2>1, <2>4, <2>5, TableOnly DEF ForkAlloc
<1>2. ASSUME NEW c \in CPU, ForkPublish(c)
      PROVE  CoreInv'
  <2> DEFINE p == cpuproc[c]
             np == op[p].child
  <2>1. /\ p \in Proc /\ op[p].name = "fork" /\ np \in Proc
        /\ state[np] = "USED" /\ plock[np] = Nobody
    BY <1>2 DEF ForkPublish, Types, ChosenOK, CoreInv, ForkOK
  <2>2. /\ state' = [state EXCEPT ![np] = "RUNNABLE"]
        /\ op' = [op EXCEPT ![p] = NoCall]
    BY <1>2 DEF ForkPublish
  <2>3. \A q \in Proc : q # p /\ op[q].name = "fork" => op[q].child # np
    BY <2>1 DEF CoreInv, ForkOK
  <2>4. ForkOK'
    BY <2>1, <2>2, <2>3 DEF Types, TypeOK, CoreInv, ForkOK, NoCall
  <2>5. \A q \in Proc : state'[q] # state[q] => q = np /\ state'[q] = "RUNNABLE"
    BY <2>2 DEF Types, TypeOK
  <2>. QED
    BY <1>2, <2>1, <2>4, <2>5, TableOnly DEF ForkPublish
<1>3. ASSUME NEW c \in CPU, NEW o, o.name # "fork", Types,
             op' = [op EXCEPT ![cpuproc[c]] = o],
             UNCHANGED <<state, plock, pc, cpuproc>>
      PROVE  CoreInv'
  <2>1. ForkOK'
    BY <1>3 DEF Types, TypeOK, CoreInv, ForkOK
  <2>. QED
    BY <1>3, <2>1, TableOnly
<1>4. ASSUME NEW c \in CPU, NEW g \in Group, NEW s \in Share,
             SetshareBegin(c, g, s)
      PROVE  CoreInv'
  <2>1. ShareCall(g, s, 0, 0).name # "fork"
    BY DEF ShareCall
  <2>. QED
    BY <1>3, <1>4, <2>1 DEF SetshareBegin
<1>5. ASSUME NEW c \in CPU, SetshareRead(c)
      PROVE  CoreInv'
  <2> DEFINE p == cpuproc[c]
             o == ShareCall(op[p].group, op[p].share, op[p].i + 1,
                            op[p].total + groupshares[op[p].i])
  <2>1. o.name # "fork"
    BY DEF ShareCall
  <2>2. op' = [op EXCEPT ![p] = o] /\ UNCHANGED <<state, plock, pc, cpuproc>>
    BY <1>5 DEF SetshareRead
  <2>. QED
    BY <1>3, <2>1, <2>2
<1>6. ASSUME NEW c \in CPU, SetshareStore(c)
      PROVE  CoreInv'
  <2>1. NoCall.name # "fork"
    BY DEF NoCall
  <2>. QED
    BY <1>3, <1>6, <2>1 DEF SetshareStore
<1>7. ASSUME NEW c \in CPU, NEW p \in Proc, NEW g \in Group,
             SetProcessGroup(c, p, g)
      PROVE  CoreInv'
  <2>1. ForkOK'
    BY <1>7 DEF SetProcessGroup, CoreInv, ForkOK
  <2>. QED
    BY <1>7, <2>1, TableOnly DEF SetProcessGroup
<1>8. ASSUME NEW p \in Proc, Wakeup(p) \/ Reap(p)
      PROVE  CoreInv'
  <2>1. /\ plock[p] = Nobody /\ state[p] \in {"SLEEPING", "ZOMBIE"}
        /\ \E s \in {"RUNNABLE", "UNUSED"} : state' = [state EXCEPT ![p] = s]
        /\ UNCHANGED <<plock, op, pc, cpuproc>>
    BY <1>8 DEF Wakeup, Reap
  <2>2. ForkOK'
    BY <2>1 DEF Types, TypeOK, CoreInv, ForkOK
  <2>3. \A q \in Proc : state'[q] # state[q] => q = p /\ state'[q] # "RUNNING"
    BY <2>1 DEF Types, TypeOK
  <2>. QED
    BY <2>1, <2>2, <2>3, TableOnly
<1>. QED
  BY <1>1, <1>2, <1>4, <1>5, <1>6, <1>7, <1>8

(* Every step of the system keeps the process table consistent.              *)
LEMMA StepCore == Types /\ CoreInv /\ [Next]_vars => CoreInv'
<1> SUFFICES ASSUME Types, CoreInv, [Next]_vars PROVE CoreInv'
    OBVIOUS
<1>1. CASE UNCHANGED vars
  BY <1>1 DEF vars, procVars, cpuVars, CoreInv, CurrentOK, ProcessOK, ForkOK,
     OnOneCore
<1>2. ASSUME NEW c \in CPU, SchedulerStep(c)
      PROVE  CoreInv'
  <2> USE DEF procVars, Locking, Building
  <2>1. CASE AcquireIndexLock(c)
    BY <2>1, SchedulerOnly DEF AcquireIndexLock
  <2>2. CASE ReadGroupShare(c)
    BY <2>2, SchedulerOnly DEF ReadGroupShare
  <2>11. CASE AddGroupShare(c)
    <3>1. pc' = [pc EXCEPT ![c] = "place"]
          \/ pc' = [pc EXCEPT ![c] = "shares"]
      BY <2>11 DEF AddGroupShare
    <3>. QED
      BY <2>11, <3>1, SchedulerOnly DEF AddGroupShare
  <2>3. CASE PlaceGroup(c)
    <3>1. pc' = [pc EXCEPT ![c] = "place"]
      BY <2>3 DEF PlaceGroup, cpuVars, Types, TypeOK
    <3>. QED
      BY <2>3, <3>1, SchedulerOnly DEF PlaceGroup, cpuVars
  <2>4. CASE GroupsPlaced(c)
    BY <2>4, SchedulerOnly DEF GroupsPlaced
  <2>5. CASE ScanProcess(c)
    <3>1. pc' = [pc EXCEPT ![c] = "procs"]
      BY <2>5 DEF ScanProcess, cpuVars, Types, TypeOK
    <3>. QED
      BY <2>5, <3>1, SchedulerOnly DEF ScanProcess, cpuVars
  <2>6. CASE FinishSchedule(c)
    BY <2>6, SchedulerOnly DEF FinishSchedule
  <2>7. CASE Pick(c)
    BY <2>7, SchedulerOnly DEF Pick
  <2>8. CASE Advance(c)
    BY <2>8, SchedulerOnly DEF Advance
  <2>9. CASE Dispatch(c)
    BY <2>9, DispatchCore
  <2>10. CASE SwitchBack(c)
    BY <2>10, SwitchBackCore
  <2>. QED
    BY <1>2, <2>1, <2>2, <2>3, <2>4, <2>5, <2>6, <2>7, <2>8, <2>9, <2>10,
       <2>11 DEF SchedulerStep
<1>3. ASSUME NEW c \in CPU, ProcessStep(c)
      PROVE  CoreInv'
  <2>1. Yield(c) \/ Sleep(c) \/ Exit(c)
          => \E s \in {"RUNNABLE", "SLEEPING", "ZOMBIE"} : LeaveCPU(c, s)
    BY DEF Yield, Sleep, Exit
  <2>2. Yield(c) \/ Sleep(c) \/ Exit(c) => CoreInv'
    BY <2>1, LeaveCPUCore
  <2>. QED
    BY <1>3, <2>2, ProcessCore DEF ProcessStep
<1>4. ASSUME NEW p \in Proc, Wakeup(p) \/ Reap(p)
      PROVE  CoreInv'
  BY <1>4, ProcessCore
<1>. QED
  BY <1>1, <1>2, <1>3, <1>4 DEF Next

IInv == Types /\ CoreInv

(* The inductive invariant holds in every reachable state.                   *)
THEOREM Invariance == Spec => []IInv
<1>1. Init => IInv
  BY InitTypes, InitCore DEF IInv
<1>2. IInv /\ [Next]_vars => IInv'
  BY StepTypes, StepCore DEF IInv
<1>. QED
  BY <1>1, <1>2, PTL DEF Spec

(* Type correctness of every variable of the scheduler.                      *)
THEOREM TypeCorrect == Spec => []TypeOK
<1>1. IInv => TypeOK
  BY DEF IInv, Types
<1>. QED
  BY <1>1, Invariance, PTL

(* No process is ever on two cores, however often the schedule names it.     *)
THEOREM NeverOnTwoCores == Spec => []OnOneCore
<1>1. IInv => OnOneCore
  BY DEF IInv, CoreInv
<1>. QED
  BY <1>1, Invariance, PTL

(* The process a core runs is RUNNING or still locked by the core, and a     *)
(* RUNNING process is on a core.                                             *)
THEOREM CurrentLive == Spec => []CurrentIsLive
<1>1. IInv => CurrentIsLive
  <2> SUFFICES ASSUME IInv PROVE CurrentIsLive
    OBVIOUS
  <2>1. ASSUME NEW c \in CPU, cpuproc[c] # Nobody
        PROVE  \/ pc[c] = "run" /\ state[cpuproc[c]] = "RUNNING"
               \/ pc[c] = "switch" /\ plock[cpuproc[c]] = c
    BY <2>1 DEF IInv, CoreInv, CurrentOK
  <2>2. ASSUME NEW p \in Proc, state[p] = "RUNNING"
        PROVE  \E c \in CPU : cpuproc[c] = p /\ pc[c] = "run"
    BY <2>2 DEF IInv, CoreInv, ProcessOK
  <2>. QED
    BY <2>1, <2>2 DEF CurrentIsLive
<1>. QED
  BY <1>1, Invariance, PTL

(* At most one core is between taking and releasing processscheduleindexlock.*)
THEOREM SingleBuilder == Spec => []OneBuilder
<1>1. IInv => OneBuilder
  BY DEF IInv, Types, LockOK, OneBuilder
<1>. QED
  BY <1>1, Invariance, PTL

(* A core picks from inside the schedule, and increments an index that is    *)
(* still inside it.                                                          *)
THEOREM PicksInBounds == Spec => []PickInBounds
<1>1. IInv => PickInBounds
  BY DEF IInv, Types, ChosenOK, PickInBounds
<1>. QED
  BY <1>1, Invariance, PTL

(* Every step of the system is a step of the abstract allocation, or leaves  *)
(* it as it is.                                                              *)
LEMMA AllocStep == IInv /\ [Next]_vars => [Alloc!Next]_<<state, cpuproc>>
<1> SUFFICES ASSUME IInv, Next,
                    ~UNCHANGED <<state, cpuproc>>
             PROVE  Alloc!Next
    BY DEF vars, procVars, cpuVars
<1> USE DEF Alloc!Proc, Alloc!Become, Alloc!Off, IInv
<1>1. ASSUME NEW c \in CPU, SchedulerStep(c)
      PROVE  Alloc!Next
  <2>1. Dispatch(c) \/ SwitchBack(c)
    BY <1>1 DEF SchedulerStep, AcquireIndexLock, ReadGroupShare,
       AddGroupShare, PlaceGroup, GroupsPlaced, ScanProcess, FinishSchedule, Pick, Advance, procVars, cpuVars
  <2>2. CASE Dispatch(c)
    <3> DEFINE p == chosen[c]
    <3>1. /\ p \in Proc /\ pc[c] = "dispatch" /\ plock[p] = Nobody
          /\ cpuproc[c] = Nobody
      BY <2>2 DEF Dispatch, Types, ChosenOK, CoreInv, CurrentOK
    <3>2. /\ state[p] = "RUNNABLE"
          /\ state' = [state EXCEPT ![p] = "RUNNING"]
          /\ cpuproc' = [cpuproc EXCEPT ![c] = p]
      BY <2>2 DEF Dispatch
    <3>3. \A d \in CPU : cpuproc[d] # p
      BY <3>1, <3>2, FreeIsOff
    <3>4. Alloc!Start(c, p)
      BY <3>1, <3>2, <3>3 DEF Alloc!Start
    <3>. QED
      BY <3>1, <3>4 DEF Alloc!Next
  <2>3. CASE SwitchBack(c)
    <3>1. /\ cpuproc[c] # Nobody /\ state[cpuproc[c]] # "RUNNING"
          /\ cpuproc' = [cpuproc EXCEPT ![c] = Nobody] /\ state' = state
      BY <2>3, SchedAssumption
         DEF SwitchBack, Types, ChosenOK, CoreInv, CurrentOK
    <3>2. Alloc!Free(c)
      BY <3>1 DEF Alloc!Free
    <3>. QED
      BY <3>2 DEF Alloc!Next
  <2>. QED
    BY <2>1, <2>2, <2>3
<1>2. ASSUME NEW c \in CPU, NEW s \in {"RUNNABLE", "SLEEPING", "ZOMBIE"},
             LeaveCPU(c, s)
      PROVE  Alloc!Next
  <2>1. /\ cpuproc[c] # Nobody /\ state[cpuproc[c]] = "RUNNING"
        /\ state' = [state EXCEPT ![cpuproc[c]] = s] /\ cpuproc' = cpuproc
    BY <1>2, SchedAssumption DEF LeaveCPU, Types, ChosenOK, CoreInv, CurrentOK
  <2>2. Alloc!Leave(c, s)
    BY <2>1 DEF Alloc!Leave
  <2>. QED
    BY <2>2 DEF Alloc!Next
<1>3. ASSUME NEW c \in CPU, NEW np \in Proc, ForkAlloc(c, np)
      PROVE  Alloc!Next
  <2>1. /\ state[np] = "UNUSED" /\ plock[np] = Nobody
        /\ state' = [state EXCEPT ![np] = "USED"] /\ cpuproc' = cpuproc
    BY <1>3 DEF ForkAlloc, cpuVars
  <2>2. Alloc!Create(np)
    BY <2>1, FreeIsOff DEF Alloc!Create
  <2>. QED
    BY <2>2 DEF Alloc!Next
<1>4. ASSUME NEW c \in CPU, ForkPublish(c)
      PROVE  Alloc!Next
  <2> DEFINE np == op[cpuproc[c]].child
  <2>1. /\ np \in Proc /\ state[np] = "USED"
        /\ state' = [state EXCEPT ![np] = "RUNNABLE"] /\ cpuproc' = cpuproc
    BY <1>4 DEF ForkPublish, cpuVars, Types, ChosenOK, CoreInv, ForkOK
  <2>2. Alloc!Publish(np)
    BY <2>1 DEF Alloc!Publish
  <2>. QED
    BY <2>1, <2>2 DEF Alloc!Next
<1>5. ASSUME NEW p \in Proc, Wakeup(p)
      PROVE  Alloc!Next
  <2>1. /\ state[p] = "SLEEPING" /\ plock[p] = Nobody
        /\ state' = [state EXCEPT ![p] = "RUNNABLE"] /\ cpuproc' = cpuproc
    BY <1>5 DEF Wakeup, cpuVars
  <2>2. Alloc!Wake(p)
    BY <2>1, FreeIsOff DEF Alloc!Wake
  <2>. QED
    BY <2>2 DEF Alloc!Next
<1>6. ASSUME NEW p \in Proc, Reap(p)
      PROVE  Alloc!Next
  <2>1. /\ state[p] = "ZOMBIE" /\ plock[p] = Nobody
        /\ state' = [state EXCEPT ![p] = "UNUSED"] /\ cpuproc' = cpuproc
    BY <1>6 DEF Reap, cpuVars
  <2>2. Alloc!Bury(p)
    BY <2>1, FreeIsOff DEF Alloc!Bury
  <2>. QED
    BY <2>2 DEF Alloc!Next
<1>7. ASSUME NEW c \in CPU, ProcessStep(c)
      PROVE  Alloc!Next
  <2>1. \/ Yield(c) \/ Sleep(c) \/ Exit(c)
        \/ \E np \in Proc : ForkAlloc(c, np)
        \/ ForkPublish(c)
    BY <1>7 DEF ProcessStep, SetshareBegin, SetshareRead, SetshareStore,
       SetProcessGroup, cpuVars
  <2>2. Yield(c) \/ Sleep(c) \/ Exit(c)
          => \E s \in {"RUNNABLE", "SLEEPING", "ZOMBIE"} : LeaveCPU(c, s)
    BY DEF Yield, Sleep, Exit
  <2>. QED
    BY <1>2, <1>3, <1>4, <2>1, <2>2
<1>. QED
  BY <1>1, <1>5, <1>6, <1>7 DEF Next

(* The scheduler implements the abstract allocation of processes to cores.   *)
THEOREM SchedulerImplementsAlloc == Spec => AllocSpec
<1>1. Init => Alloc!Init
  BY DEF Init, Alloc!Init, Alloc!Proc, InitProc
<1>. QED
  BY <1>1, AllocStep, Invariance, PTL DEF Spec, AllocSpec, Alloc!Spec

(***************************************************************************)
(* processschedule[] is not overrun on its own.                            *)
(***************************************************************************)

(* The scan of proc[] has added at most one entry for each slot it passed.   *)
ScanOK ==
    \A c \in CPU : pc[c] = "procs" =>
        /\ slot <= Len(groupschedule) + 1
        /\ slot = Len(groupschedule) + 1 => next = 1
        /\ Len(processschedule) <= NPROC * (slot - 1) + (next - 1)

(* A schedule has at most NPROC entries for each turn of a group (while      *)
(* turns are placed the two are of different cycles).                        *)
TurnsFit ==
    (\A c \in CPU : pc[c] # "place") =>
        Len(processschedule) <= NPROC * Len(groupschedule)

FitInv == ScanOK /\ TurnsFit

(* Multiplication by NPROC is monotonic, and one more factor is one NPROC.   *)
LEMMA Product ==
  ASSUME NEW n \in Nat, NEW a \in Nat, NEW b \in Nat, a <= b
  PROVE  n * a \in Nat /\ n * b \in Nat /\ n * a <= n * b
         /\ n * (a + 1) = n * a + n
OBVIOUS

(* A step that touches neither the schedules nor the scan.                   *)
LEMMA FitKept ==
  ASSUME FitInv,
         UNCHANGED <<slot, next, groupschedule, processschedule>>,
         \A c \in CPU : pc'[c] = "procs" <=> pc[c] = "procs",
         \A c \in CPU : pc[c] = "place" => pc'[c] = "place"
  PROVE  FitInv'
BY DEF FitInv, ScanOK, TurnsFit

(* Every step of the system keeps the schedule within its room.              *)
LEMMA StepFit == IInv /\ FitInv /\ [Next]_vars => FitInv'
<1> SUFFICES ASSUME IInv, FitInv, [Next]_vars PROVE FitInv'
    OBVIOUS
<1> USE DEF IInv, Types
<1>1. /\ pc \in [CPU -> PCs] /\ groupschedule \in Seq(Group)
      /\ processschedule \in Seq(Proc) /\ slot \in Nat \ {0} /\ next \in Proc
      /\ Len(groupschedule) \in Nat /\ Len(processschedule) \in Nat
      /\ NPROC \in Nat
  BY SchedAssumption DEF TypeOK
<1>2. CASE UNCHANGED vars
  BY <1>2, FitKept DEF vars, cpuVars, buildVars, indexVars
<1>3. ASSUME NEW c \in CPU, SchedulerStep(c)
      PROVE  FitInv'
  <2>1. CASE AcquireIndexLock(c)
    BY <1>1, <2>1, FitKept DEF AcquireIndexLock, buildVars
  <2>2. CASE ReadGroupShare(c)
    BY <1>1, <2>2, FitKept DEF ReadGroupShare, indexVars
  <2>11. CASE AddGroupShare(c)
    <3>1. CASE pc'[c] = "place"
      <4>1. TurnsFit'
        BY <3>1 DEF TurnsFit
      <4>2. \A d \in CPU : pc'[d] # "procs"
        BY <1>1, <2>11, <3>1 DEF AddGroupShare, LockOK, Locking, Building
      <4>. QED
        BY <4>1, <4>2 DEF FitInv, ScanOK
    <3>2. CASE pc'[c] # "place"
      <4>1. /\ pc' = [pc EXCEPT ![c] = "shares"] /\ pc[c] = "total"
            /\ UNCHANGED <<groupschedule, slot, next, processschedule>>
        BY <1>1, <2>11, <3>2 DEF AddGroupShare, indexVars
      <4>. QED
        BY <1>1, <4>1, FitKept
    <3>. QED
      BY <3>1, <3>2
  <2>3. CASE PlaceGroup(c)
    <3>1. pc[c] = "place" /\ pc' = pc
      BY <2>3 DEF PlaceGroup, cpuVars
    <3>2. \A d \in CPU : pc[d] # "procs"
      BY <3>1 DEF LockOK, Locking, Building
    <3>. QED
      BY <3>1, <3>2 DEF FitInv, ScanOK, TurnsFit
  <2>4. CASE GroupsPlaced(c)
    <3>1. /\ processschedule' = <<>> /\ slot' = 1 /\ next' = 1
          /\ groupschedule' = groupschedule
      BY <2>4 DEF GroupsPlaced
    <3>2. Len(processschedule') = 0 /\ NPROC * (slot' - 1) = 0
          /\ NPROC * Len(groupschedule) \in Nat
      BY <1>1, <3>1, Product
    <3>. QED
      BY <1>1, <3>1, <3>2 DEF FitInv, ScanOK, TurnsFit
  <2>5. CASE ScanProcess(c)
    <3> DEFINE L == Len(groupschedule)
               K == Len(processschedule)
    <3>1. /\ pc[c] = "procs" /\ pc' = pc /\ groupschedule' = groupschedule
          /\ slot <= L
      BY <2>5 DEF ScanProcess, cpuVars
    <3>2. K <= NPROC * (slot - 1) + (next - 1)
      BY <3>1 DEF FitInv, ScanOK
    <3>3. Len(processschedule') \in Nat /\ Len(processschedule') <= K + 1
      BY <1>1, <2>5, AppendType DEF ScanProcess
    <3>4. /\ NPROC * (slot - 1) \in Nat
          /\ NPROC * slot = NPROC * (slot - 1) + NPROC
          /\ NPROC * slot <= NPROC * L
          /\ NPROC * slot \in Nat
          /\ NPROC * L \in Nat
      <4>1. slot - 1 \in Nat /\ slot - 1 <= slot /\ slot = (slot - 1) + 1
        BY <1>1
      <4>2. NPROC * ((slot - 1) + 1) = NPROC * (slot - 1) + NPROC
            /\ NPROC * (slot - 1) \in Nat
        BY <1>1, <4>1, Product
      <4>3. NPROC * slot <= NPROC * L /\ NPROC * slot \in Nat /\ NPROC * L \in Nat
        BY <1>1, <3>1, Product
      <4>. QED
        BY <4>1, <4>2, <4>3
    <3>5. \/ next < NPROC /\ next' = next + 1 /\ slot' = slot
          \/ next = NPROC /\ next' = 1 /\ slot' = slot + 1
      BY <1>1, <2>5 DEF ScanProcess
    <3>6. Len(processschedule') <= NPROC * (slot' - 1) + (next' - 1)
      <4>1. CASE next < NPROC /\ next' = next + 1 /\ slot' = slot
        BY <1>1, <3>2, <3>3, <3>4, <4>1
      <4>2. CASE next = NPROC /\ next' = 1 /\ slot' = slot + 1
        <5>1. slot' - 1 = slot /\ next' - 1 = 0
          BY <1>1, <4>2
        <5>2. K + 1 <= NPROC * (slot - 1) + NPROC
          BY <1>1, <3>2, <3>4, <4>2
        <5>. QED
          BY <1>1, <3>3, <3>4, <5>1, <5>2
      <4>. QED
        BY <3>5, <4>1, <4>2
    <3>7. slot' <= L + 1 /\ (slot' = L + 1 => next' = 1)
      BY <1>1, <3>1, <3>5
    <3>8. Len(processschedule') <= NPROC * L
      <4> DEFINE A == NPROC * (slot - 1)
                 B == NPROC * slot
                 C == NPROC * L
      <4>1. A \in Nat /\ B = A + NPROC /\ B <= C /\ B \in Nat /\ C \in Nat
        BY <3>4
      <4>2. K <= A + (next - 1) /\ next <= NPROC /\ next \in Nat
        BY <1>1, <3>2
      <4> HIDE DEF A, B, C
      <4>3. Len(processschedule') <= C
        BY <1>1, <3>3, <4>1, <4>2
      <4>. QED
        BY <4>3 DEF C
    <3>. QED
      BY <3>1, <3>6, <3>7, <3>8 DEF FitInv, ScanOK, TurnsFit
  <2>6. CASE FinishSchedule(c)
    <3>1. \A d \in CPU : d # c => pc[d] # "procs" /\ pc[d] # "place"
      BY <2>6 DEF FinishSchedule, LockOK, Locking, Building
    <3>2. /\ pc[c] = "procs" /\ pc'[c] \in {"top", "pick"}
          /\ \A d \in CPU : d # c => pc'[d] = pc[d]
          /\ UNCHANGED <<groupschedule, processschedule>>
      BY <1>1, <2>6 DEF FinishSchedule, buildVars
    <3>3. TurnsFit'
      BY <3>1, <3>2 DEF FitInv, TurnsFit
    <3>. QED
      BY <3>1, <3>2, <3>3 DEF FitInv, ScanOK
  <2>7. CASE Pick(c)
    BY <1>1, <2>7, FitKept DEF Pick, buildVars, indexVars
  <2>8. CASE Advance(c)
    BY <1>1, <2>8, FitKept DEF Advance, buildVars
  <2>9. CASE Dispatch(c)
    BY <1>1, <2>9, FitKept DEF Dispatch, buildVars, indexVars
  <2>10. CASE SwitchBack(c)
    BY <1>1, <2>10, FitKept DEF SwitchBack, buildVars, indexVars
  <2>. QED
    BY <1>3, <2>1, <2>2, <2>3, <2>4, <2>5, <2>6, <2>7, <2>8, <2>9, <2>10,
       <2>11 DEF SchedulerStep
<1>4. ASSUME NEW c \in CPU, NEW s, LeaveCPU(c, s)
      PROVE  FitInv'
  BY <1>1, <1>4, FitKept DEF LeaveCPU, buildVars, indexVars
<1>5. ASSUME NEW c \in CPU, ProcessStep(c)
      PROVE  FitInv'
  <2>1. CASE Yield(c) \/ Sleep(c) \/ Exit(c)
    BY <1>4, <2>1 DEF Yield, Sleep, Exit
  <2>2. CASE ~(Yield(c) \/ Sleep(c) \/ Exit(c))
    <3>1. UNCHANGED <<cpuVars, buildVars, indexVars>>
      BY <1>5, <2>2 DEF ProcessStep, ForkAlloc, ForkPublish, SetshareBegin,
         SetshareRead, SetshareStore, SetProcessGroup
    <3>. QED
      BY <3>1, FitKept DEF cpuVars, buildVars, indexVars
  <2>. QED
    BY <2>1, <2>2
<1>6. ASSUME NEW p \in Proc, Wakeup(p) \/ Reap(p)
      PROVE  FitInv'
  BY <1>6, FitKept DEF Wakeup, Reap, cpuVars, buildVars, indexVars
<1>. QED
  BY <1>2, <1>3, <1>5, <1>6 DEF Next

(* However processes change state and group while the table is scanned,      *)
(* processschedule[] is overrun only by a schedule whose turns have overrun  *)
(* groupschedule[].                                                          *)
THEOREM OverrunNeedsGroups == Spec => []ScheduleFits
<1>1. Init => FitInv
  <2>1. 0 <= NPROC * 0
    BY SchedAssumption
  <2>. QED
    BY <2>1 DEF Init, FitInv, ScanOK, TurnsFit
<1>2. IInv /\ FitInv => ScheduleFits
  <2> SUFFICES ASSUME IInv, FitInv, \A c \in CPU : pc[c] # "place",
                      Len(groupschedule) <= MAXGROUPSHARE
               PROVE  Len(processschedule) <= NPROC * MAXGROUPSHARE
    BY DEF ScheduleFits
  <2>1. groupschedule \in Seq(Group) /\ processschedule \in Seq(Proc)
    BY DEF IInv, Types, TypeOK
  <2>2. /\ Len(groupschedule) \in Nat /\ Len(processschedule) \in Nat
        /\ NPROC \in Nat /\ MAXGROUPSHARE \in Nat
    BY <2>1, SchedAssumption
  <2>3. /\ NPROC * Len(groupschedule) \in Nat /\ NPROC * MAXGROUPSHARE \in Nat
        /\ NPROC * Len(groupschedule) <= NPROC * MAXGROUPSHARE
    BY <2>2, Product
  <2>4. Len(processschedule) <= NPROC * Len(groupschedule)
    BY DEF FitInv, TurnsFit
  <2> DEFINE A == NPROC * Len(groupschedule)
             B == NPROC * MAXGROUPSHARE
             L == Len(processschedule)
  <2>5. A \in Nat /\ B \in Nat /\ L \in Nat /\ L <= A /\ A <= B
    BY <2>2, <2>3, <2>4
  <2> HIDE DEF A, B, L
  <2>6. L <= B
    BY <2>5
  <2>. QED
    BY <2>6 DEF L, B
<1>. QED
  BY <1>1, <1>2, Invariance, StepFit, PTL DEF Spec

(***************************************************************************)
(* The groups take turns.                                                  *)
(***************************************************************************)

(* How often g is among the first n entries of s.                            *)
Count(s, g, n) == Cardinality({k \in 1..n : s[k] = g})

(* Turn a of group g comes before turn b of group h.                         *)
Before(a, g, b, h) == a < b \/ (a = b /\ g < h)

(* AlternatingTurns of a sequence.                                           *)
InOrder(s) ==
    \A i, j \in 1..Len(s) : i < j =>
        Before(Count(s, s[i], i), s[i], Count(s, s[j], j), s[j])

(* Round r is being handed out and has come to group n: of the groups that   *)
(* have shares left, those before n have had r + 1 turns and the others r,   *)
(* and no entry is of a later turn than the next one of n would be.          *)
RoundOK(s, lft, n, r) ==
    /\ \A g \in Group : lft[g] > 0 =>
          Count(s, g, Len(s)) = IF g < n THEN r + 1 ELSE r
    /\ \A j \in 1..Len(s) : Before(Count(s, s[j], j), s[j], r + 1, n)

TurnInv ==
    /\ InOrder(groupschedule)
    /\ \A c \in CPU : pc[c] = "place" =>
          \E r \in Nat : RoundOK(groupschedule, left, scan, r)

(* A count is a number.                                                      *)
LEMMA CountType ==
  ASSUME NEW s, NEW g, NEW n \in Nat
  PROVE  /\ IsFiniteSet({k \in 1..n : s[k] = g})
         /\ Count(s, g, n) \in Nat
<1>1. 1 \in Int /\ n \in Int
  OBVIOUS
<1>2. IsFiniteSet(1..n)
  BY <1>1, FS_Interval, Zenon
<1>3. {k \in 1..n : s[k] = g} \subseteq 1..n
  OBVIOUS
<1>. QED
  BY <1>2, <1>3, FS_Subset, FS_CardinalityType DEF Count

(* An appended entry counts for its own group and leaves the counts before.  *)
LEMMA CountAppend ==
  ASSUME NEW s \in Seq(Group), NEW e \in Group
  PROVE  LET t == Append(s, e) IN
         /\ Len(t) = Len(s) + 1 /\ t[Len(t)] = e
         /\ \A j \in 1..Len(s) : t[j] = s[j]
         /\ \A g : \A n \in 0..Len(s) : Count(t, g, n) = Count(s, g, n)
         /\ \A g : Count(t, g, Len(t)) =
                     IF g = e THEN Count(s, g, Len(s)) + 1
                              ELSE Count(s, g, Len(s))
<1> DEFINE t == Append(s, e)
           L == Len(s)
<1>1. /\ Len(t) = L + 1 /\ L \in Nat /\ t[L + 1] = e
      /\ \A j \in 1..L : t[j] = s[j]
  OBVIOUS
<1> HIDE DEF t, L
<1>2. ASSUME NEW g, NEW n \in 0..L
      PROVE  Count(t, g, n) = Count(s, g, n)
  <2>1. \A k \in 1..n : t[k] = s[k]
    BY <1>1
  <2>2. {k \in 1..n : t[k] = g} = {k \in 1..n : s[k] = g}
    BY <2>1
  <2>. QED
    BY <2>2 DEF Count
<1>3. ASSUME NEW g
      PROVE  Count(t, g, L + 1) =
               IF g = e THEN Count(s, g, L) + 1 ELSE Count(s, g, L)
  <2> DEFINE A == {k \in 1..L : t[k] = g}
             B == {k \in 1..(L + 1) : t[k] = g}
  <2>1. Cardinality(A) = Count(s, g, L)
    BY <1>1, <1>2 DEF Count
  <2>2. CASE g = e
    <3>1. B = A \cup {L + 1} /\ L + 1 \notin A
      BY <1>1, <2>2
    <3>2. IsFiniteSet(A)
      BY <1>1, CountType
    <3> HIDE DEF A, B
    <3>3. Cardinality(B) = Cardinality(A) + 1
      BY <3>1, <3>2, FS_AddElement
    <3>. QED
      BY <2>1, <2>2, <3>3 DEF Count, B
  <2>3. CASE g # e
    <3>1. B = A
      BY <1>1, <2>3
    <3>. QED
      BY <2>1, <2>3, <3>1 DEF Count
  <2>. QED
    BY <2>2, <2>3
<1>4. \A g : \A n \in 0..L : Count(t, g, n) = Count(s, g, n)
  BY <1>2
<1>5. \A g : Count(t, g, L + 1) =
               IF g = e THEN Count(s, g, L) + 1 ELSE Count(s, g, L)
  BY <1>3
<1>. QED
  BY <1>1, <1>4, <1>5 DEF t, L

(* The next turn of the group the round has come to keeps the order.         *)
LEMMA PlacedInOrder ==
  ASSUME NEW s \in Seq(Group), NEW lft \in [Group -> Share], NEW n \in Group,
         NEW r \in Nat, InOrder(s), RoundOK(s, lft, n, r), lft[n] > 0
  PROVE  /\ InOrder(Append(s, n))
         /\ Count(Append(s, n), n, Len(s) + 1) = r + 1
<1> DEFINE t == Append(s, n)
           L == Len(s)
<1>1. /\ Len(t) = L + 1 /\ L \in Nat /\ t[L + 1] = n
      /\ \A j \in 1..L : t[j] = s[j]
      /\ \A g : \A m \in 0..L : Count(t, g, m) = Count(s, g, m)
      /\ Count(t, n, L + 1) = Count(s, n, L) + 1
  BY CountAppend
<1> HIDE DEF t
<1>2. Count(t, n, L + 1) = r + 1
  <2>1. Count(s, n, L) = r
    BY SchedAssumption DEF RoundOK
  <2>. QED
    BY <1>1, <2>1
<1>3. ASSUME NEW j \in 1..L
      PROVE  t[j] = s[j] /\ Count(t, t[j], j) = Count(s, s[j], j)
  BY <1>1
<1>4. ASSUME NEW i \in 1..(L + 1), NEW j \in 1..(L + 1), i < j
      PROVE  Before(Count(t, t[i], i), t[i], Count(t, t[j], j), t[j])
  <2>1. i \in 1..L
    BY <1>1, <1>4
  <2>2. CASE j \in 1..L
    BY <1>3, <1>4, <2>1, <2>2 DEF InOrder
  <2>3. CASE j = L + 1
    <3>1. Before(Count(s, s[i], i), s[i], r + 1, n)
      BY <2>1 DEF RoundOK
    <3>. QED
      BY <1>1, <1>2, <1>3, <2>1, <2>3, <3>1
  <2>. QED
    BY <1>1, <2>2, <2>3
<1>5. InOrder(t)
  BY <1>1, <1>4 DEF InOrder
<1>. QED
  BY <1>2, <1>5 DEF t

(* An entry of a sequence has the type of the entries.                       *)
LEMMA EntryType ==
  ASSUME NEW S, NEW s \in Seq(S), NEW j \in 1..Len(s)
  PROVE  s[j] \in S /\ j \in Nat
OBVIOUS

(* The loop passes group n, which has had its turn in this round or has no   *)
(* share left, and is still in the round or starts the next one.             *)
LEMMA RoundGoesOn ==
  ASSUME NEW s \in Seq(Group), NEW lft \in [Group -> Share], NEW n \in Group,
         NEW r \in Nat,
         \A g \in Group : lft[g] > 0 =>
             Count(s, g, Len(s)) = IF g <= n THEN r + 1 ELSE r,
         \A j \in 1..Len(s) :
             \/ Before(Count(s, s[j], j), s[j], r + 1, n)
             \/ Count(s, s[j], j) = r + 1 /\ s[j] = n
  PROVE  \E q \in Nat : RoundOK(s, lft, After(n), q)
<1>1. /\ MAXGROUPS \in Nat \ {0} /\ n \in Nat /\ n <= MAXGROUPS - 1
      /\ \A g \in Group : g \in Nat /\ g <= MAXGROUPS - 1
  BY SchedAssumption
<1>2. ASSUME NEW j \in 1..Len(s)
      PROVE  s[j] \in Group /\ Count(s, s[j], j) \in Nat
             /\ Count(s, s[j], j) < r + 1 + 1
  <2>1. s[j] \in Group /\ j \in Nat
    BY EntryType, Zenon
  <2>2. Count(s, s[j], j) \in Nat
    BY <2>1, CountType, Zenon
  <2>3. Count(s, s[j], j) < r + 1 \/ Count(s, s[j], j) = r + 1
    BY DEF Before
  <2>. QED
    BY <2>1, <2>2, <2>3
<1>3. CASE n = MAXGROUPS - 1
  <2>1. After(n) = 0
    BY <1>3 DEF After
  <2>2. ASSUME NEW g \in Group, lft[g] > 0
        PROVE  Count(s, g, Len(s)) = IF g < 0 THEN r + 1 + 1 ELSE r + 1
    <3>1. g <= n /\ ~(g < 0)
      BY <1>1, <1>3
    <3>. QED
      BY <2>2, <3>1
  <2>3. ASSUME NEW j \in 1..Len(s)
        PROVE  Before(Count(s, s[j], j), s[j], r + 1 + 1, 0)
    <3>1. Count(s, s[j], j) < r + 1 + 1
      BY <1>2
    <3>. QED
      BY <3>1, Zenon DEF Before
  <2>4. RoundOK(s, lft, 0, r + 1)
    BY <2>2, <2>3 DEF RoundOK
  <2>5. r + 1 \in Nat
    OBVIOUS
  <2>. QED
    BY <2>1, <2>4, <2>5
<1>4. CASE n # MAXGROUPS - 1
  <2>1. After(n) = n + 1
    BY <1>4 DEF After
  <2>2. ASSUME NEW g \in Group, lft[g] > 0
        PROVE  Count(s, g, Len(s)) = IF g < n + 1 THEN r + 1 ELSE r
    <3>1. g <= n <=> g < n + 1
      BY <1>1
    <3>. QED
      BY <2>2, <3>1
  <2>3. ASSUME NEW j \in 1..Len(s)
        PROVE  Before(Count(s, s[j], j), s[j], r + 1, n + 1)
    <3>1. s[j] \in Group
      BY EntryType, Zenon
    <3>2. s[j] < n \/ s[j] = n => s[j] < n + 1
      BY <1>1, <3>1
    <3>. QED
      BY <3>2 DEF Before
  <2>4. RoundOK(s, lft, n + 1, r)
    BY <2>2, <2>3 DEF RoundOK
  <2>. QED
    BY <2>1, <2>4
<1>. QED
  BY <1>3, <1>4

(* One iteration of the loop that hands out turns.                           *)
LEMMA PlaceTurns ==
  ASSUME IInv, TurnInv, NEW c \in CPU, PlaceGroup(c)
  PROVE  TurnInv'
<1> USE DEF IInv, Types
<1>1. /\ groupschedule \in Seq(Group) /\ left \in [Group -> Share]
      /\ scan \in Group /\ scan' = After(scan) /\ pc[c] = "place"
      /\ groupschedule' \in Seq(Group) /\ left' \in [Group -> Share]
  <2>1. TypeOK'
    BY StepTypes DEF Next, SchedulerStep
  <2>. QED
    BY <2>1 DEF PlaceGroup, TypeOK
<1>2. PICK r \in Nat : RoundOK(groupschedule, left, scan, r)
  BY <1>1 DEF TurnInv
<1>3. InOrder(groupschedule)
  BY DEF TurnInv
<1> DEFINE s == groupschedule
           t == groupschedule'
           L == Len(s)
<1>4. /\ L \in Nat
      /\ \A g \in Group : g \in Nat
  BY <1>1
<1>5. CASE left[scan] > 0
  <2>1. t = Append(s, scan) /\ left' = [left EXCEPT ![scan] = @ - 1]
    BY <1>5 DEF PlaceGroup
  <2>2. InOrder(t) /\ Count(t, scan, L + 1) = r + 1
    BY <1>1, <1>2, <1>3, <1>5, <2>1, PlacedInOrder
  <2>3. /\ Len(t) = L + 1 /\ t[L + 1] = scan
        /\ \A j \in 1..L : t[j] = s[j]
        /\ \A g : \A n \in 0..L : Count(t, g, n) = Count(s, g, n)
        /\ \A g : g # scan => Count(t, g, L + 1) = Count(s, g, L)
    BY <1>1, <2>1, CountAppend
  <2>4. ASSUME NEW g \in Group, left'[g] > 0
        PROVE  Count(t, g, Len(t)) = IF g <= scan THEN r + 1 ELSE r
    <3>1. CASE g = scan
      BY <1>4, <2>2, <2>3, <3>1
    <3>2. CASE g # scan
      <4>1. left[g] > 0 /\ Count(t, g, Len(t)) = Count(s, g, L)
        BY <1>1, <2>1, <2>3, <2>4, <3>2
      <4>2. Count(s, g, L) = IF g < scan THEN r + 1 ELSE r
        BY <1>2, <4>1 DEF RoundOK
      <4>3. g < scan <=> g <= scan
        BY <1>1, <1>4, <3>2
      <4>. QED
        BY <4>1, <4>2, <4>3
    <3>. QED
      BY <3>1, <3>2
  <2>5. ASSUME NEW j \in 1..Len(t)
        PROVE  \/ Before(Count(t, t[j], j), t[j], r + 1, scan)
               \/ Count(t, t[j], j) = r + 1 /\ t[j] = scan
    <3>1. CASE j = L + 1
      BY <2>2, <2>3, <3>1
    <3>2. CASE j # L + 1
      <4>1. j \in 1..L
        BY <1>4, <2>3, <3>2
      <4>2. t[j] = s[j] /\ Count(t, t[j], j) = Count(s, s[j], j)
        BY <2>3, <4>1
      <4>3. Before(Count(s, s[j], j), s[j], r + 1, scan)
        BY <1>2, <4>1 DEF RoundOK
      <4>. QED
        BY <4>2, <4>3
    <3>. QED
      BY <3>1, <3>2
  <2> HIDE DEF t
  <2>6. \E q \in Nat : RoundOK(t, left', After(scan), q)
    BY <1>1, <2>4, <2>5, RoundGoesOn DEF t
  <2>. QED
    BY <1>1, <2>2, <2>6 DEF TurnInv, t
<1>6. CASE ~(left[scan] > 0)
  <2>1. t = s /\ left' = left
    BY <1>6 DEF PlaceGroup
  <2>2. ASSUME NEW g \in Group, left[g] > 0
        PROVE  Count(s, g, Len(s)) = IF g <= scan THEN r + 1 ELSE r
    <3>1. g # scan
      BY <1>6, <2>2
    <3>2. g < scan <=> g <= scan
      BY <1>1, <1>4, <3>1
    <3>. QED
      BY <1>2, <2>2, <3>2 DEF RoundOK
  <2>3. \A j \in 1..Len(s) : Before(Count(s, s[j], j), s[j], r + 1, scan)
    BY <1>2 DEF RoundOK
  <2>4. \E q \in Nat : RoundOK(s, left, After(scan), q)
    BY <1>1, <2>2, <2>3, RoundGoesOn
  <2>. QED
    BY <1>1, <1>3, <2>1, <2>4 DEF TurnInv
<1>. QED
  BY <1>5, <1>6

(* An empty schedule is in order, at the start of round 0.                   *)
LEMMA NoTurns ==
  ASSUME NEW lft \in [Group -> Share]
  PROVE  InOrder(<<>>) /\ RoundOK(<<>>, lft, 0, 0)
<1>1. \A g : {k \in 1..0 : <<>>[k] = g} = {}
  OBVIOUS
<1>2. \A g : Count(<<>>, g, 0) = 0
  BY <1>1, FS_EmptySet DEF Count
<1>3. Len(<<>>) = 0 /\ \A g \in Group : ~(g < 0)
  BY SchedAssumption
<1>. QED
  BY <1>2, <1>3 DEF InOrder, RoundOK

(* A step that places no turn and starts no placing.                         *)
LEMMA TurnsKept ==
  ASSUME TurnInv, groupschedule' = groupschedule,
         \A c \in CPU : pc'[c] = "place" =>
             pc[c] = "place" /\ left' = left /\ scan' = scan
  PROVE  TurnInv'
BY DEF TurnInv

(* Every step keeps the order of the turns.                                  *)
LEMMA StepTurns == IInv /\ TurnInv /\ [Next]_vars => TurnInv'
<1> SUFFICES ASSUME IInv, TurnInv, [Next]_vars PROVE TurnInv'
    OBVIOUS
<1> USE DEF IInv, Types
<1>1. pc \in [CPU -> PCs]
  BY DEF TypeOK
<1>2. CASE UNCHANGED vars
  BY <1>2, TurnsKept DEF vars, cpuVars, buildVars
<1>3. ASSUME NEW c \in CPU, SchedulerStep(c)
      PROVE  TurnInv'
  <2>11. CASE ReadGroupShare(c)
    <3>1. pc[c] = "shares" /\ \A d \in CPU : d # c => pc[d] # "place"
      BY <2>11 DEF ReadGroupShare, LockOK, Locking, Building
    <3>2. \A d \in CPU : pc'[d] # "place"
      BY <1>1, <2>11, <3>1 DEF ReadGroupShare
    <3>. QED
      BY <2>11, <3>2, TurnsKept DEF ReadGroupShare
  <2>1. CASE AddGroupShare(c)
    <3>1. pc[c] = "total" /\ \A d \in CPU : d # c => pc[d] # "place"
      BY <2>1 DEF AddGroupShare, LockOK, Locking, Building
    <3>2. CASE scan = MAXGROUPS - 1
      <4>1. groupschedule' = <<>> /\ scan' = 0
        BY <2>1, <3>2 DEF AddGroupShare, After
      <4>2. left' \in [Group -> Share]
        <5>1. TypeOK'
          BY StepTypes
        <5>. QED
          BY <5>1 DEF TypeOK
      <4>3. InOrder(<<>>) /\ RoundOK(<<>>, left', 0, 0)
        BY <4>2, NoTurns
      <4>. QED
        BY <4>1, <4>3 DEF TurnInv
    <3>3. CASE scan # MAXGROUPS - 1
      <4>1. pc' = [pc EXCEPT ![c] = "shares"] /\ UNCHANGED groupschedule
        BY <2>1, <3>3 DEF AddGroupShare
      <4>2. \A d \in CPU : pc'[d] # "place"
        BY <1>1, <3>1, <4>1
      <4>. QED
        BY <4>1, <4>2, TurnsKept
    <3>. QED
      BY <3>2, <3>3
  <2>2. CASE PlaceGroup(c)
    BY <2>2, PlaceTurns
  <2>3. CASE AcquireIndexLock(c)
    BY <1>1, <2>3, TurnsKept DEF AcquireIndexLock, buildVars
  <2>4. CASE GroupsPlaced(c)
    BY <1>1, <2>4, TurnsKept DEF GroupsPlaced
  <2>5. CASE ScanProcess(c)
    BY <1>1, <2>5, TurnsKept DEF ScanProcess, cpuVars
  <2>6. CASE FinishSchedule(c)
    BY <1>1, <2>6, TurnsKept DEF FinishSchedule, buildVars
  <2>7. CASE Pick(c)
    BY <1>1, <2>7, TurnsKept DEF Pick, buildVars
  <2>8. CASE Advance(c)
    BY <1>1, <2>8, TurnsKept DEF Advance, buildVars
  <2>9. CASE Dispatch(c)
    BY <1>1, <2>9, TurnsKept DEF Dispatch, buildVars
  <2>10. CASE SwitchBack(c)
    BY <1>1, <2>10, TurnsKept DEF SwitchBack, buildVars
  <2>. QED
    BY <1>3, <2>1, <2>2, <2>3, <2>4, <2>5, <2>6, <2>7, <2>8, <2>9, <2>10,
       <2>11 DEF SchedulerStep
<1>4. ASSUME NEW c \in CPU, NEW s, LeaveCPU(c, s)
      PROVE  TurnInv'
  BY <1>1, <1>4, TurnsKept DEF LeaveCPU, buildVars
<1>5. ASSUME NEW c \in CPU, ProcessStep(c)
      PROVE  TurnInv'
  <2>1. CASE Yield(c) \/ Sleep(c) \/ Exit(c)
    BY <1>4, <2>1 DEF Yield, Sleep, Exit
  <2>2. CASE ~(Yield(c) \/ Sleep(c) \/ Exit(c))
    <3>1. UNCHANGED <<cpuVars, buildVars>>
      BY <1>5, <2>2 DEF ProcessStep, ForkAlloc, ForkPublish, SetshareBegin,
         SetshareRead, SetshareStore, SetProcessGroup
    <3>. QED
      BY <3>1, TurnsKept DEF cpuVars, buildVars
  <2>. QED
    BY <2>1, <2>2
<1>6. ASSUME NEW p \in Proc, Wakeup(p) \/ Reap(p)
      PROVE  TurnInv'
  BY <1>6, TurnsKept DEF Wakeup, Reap, cpuVars, buildVars
<1>. QED
  BY <1>2, <1>3, <1>5, <1>6 DEF Next

(* schedulegroups() alternates: at every step of every core, the k-th turn   *)
(* of a group in groupschedule[] comes before every (k+1)-th turn of         *)
(* another, and within a round the groups keep their order, for any shares   *)
(* the loop that copies them may have read.                                  *)
THEOREM GroupsAlternate == Spec => []AlternatingTurns
<1>1. Init => TurnInv
  <2> SUFFICES ASSUME Init PROVE TurnInv
      OBVIOUS
  <2>1. groupschedule = <<>> /\ \A c \in CPU : pc[c] # "place"
    BY DEF Init
  <2>2. [g \in Group |-> 0] \in [Group -> Share]
    BY SchedAssumption
  <2>. QED
    BY <2>1, <2>2, NoTurns DEF TurnInv
<1>2. TurnInv => AlternatingTurns
  BY DEF TurnInv, InOrder, Before, Count, AlternatingTurns, Turns
<1>. QED
  BY <1>1, <1>2, Invariance, StepTurns, PTL DEF Spec

(***************************************************************************)
(* No entry of a schedule is lost or given twice.                          *)
(***************************************************************************)

(* The first k entries of the schedule were given to cores, and no other.    *)
GivenUpTo(k) ==
    /\ Len(taken) = k
    /\ \A i \in 1..k : taken[i] = processschedule[i]

(* When the index is tested, when a core builds, and between a pick and the  *)
(* increment of the index.                                                   *)
TakenInv ==
    /\ taken \in Seq(Proc)
    /\ \A c \in CPU :
          /\ pc[c] \in {"shares", "total", "place"} =>
                taken = processschedule
          /\ pc[c] = "procs" => taken = <<>>
          /\ pc[c] = "advance" => GivenUpTo(processscheduleindex + 1)
    /\ (\A c \in CPU : pc[c] \notin Building \cup {"advance"}) =>
          /\ processscheduleindex <= Len(processschedule)
          /\ GivenUpTo(processscheduleindex)

(* Two sequences with the same entries are equal.                            *)
LEMMA SameEntries ==
  ASSUME NEW S, NEW s \in Seq(S), NEW t \in Seq(S), Len(s) = Len(t),
         \A i \in 1..Len(s) : s[i] = t[i]
  PROVE  s = t
OBVIOUS

(* What a step that neither picks nor builds leaves of the history.          *)
LEMMA NothingTaken ==
  ASSUME History, \A c \in CPU : ~Picks(c) /\ ~Builds(c)
  PROVE  taken' = taken
BY DEF History

(* A step that touches neither the schedule nor its index.                   *)
LEMMA TakenKept ==
  ASSUME TakenInv, History, UNCHANGED <<processschedule, processscheduleindex>>,
         \A c \in CPU : \/ pc'[c] = pc[c]
                        \/ /\ pc[c] \notin Building \cup {"advance", "pick"}
                           /\ pc'[c] \notin Building \cup {"advance", "pick"}
  PROVE  TakenInv'
<1>1. taken' = taken
  <2>1. \A c \in CPU : ~Picks(c) /\ ~Builds(c)
    BY DEF Picks, Builds, Building
  <2>. QED
    BY <2>1, NothingTaken
<1>2. \A c \in CPU : \A x \in Building \cup {"advance"} : pc'[c] = x <=> pc[c] = x
  OBVIOUS
<1>. QED
  BY <1>1, <1>2 DEF TakenInv, GivenUpTo, Building

(* The core inside and what the others are not in.                           *)
LEMMA Alone ==
  ASSUME LockOK, NEW c \in CPU, pc[c] \in Locking
  PROVE  \A d \in CPU : d # c => pc[d] \notin Locking
BY DEF LockOK

(* The steps of the core that has processscheduleindexlock.                  *)
LEMMA LockedTaken ==
  ASSUME IInv, TakenInv, History, NEW c \in CPU,
         \/ AcquireIndexLock(c) \/ ReadGroupShare(c) \/ AddGroupShare(c)
         \/ PlaceGroup(c)
         \/ GroupsPlaced(c) \/ ScanProcess(c) \/ FinishSchedule(c)
         \/ Pick(c) \/ Advance(c)
  PROVE  TakenInv'
<1> USE DEF IInv, Types
<1> DEFINE L == Len(processschedule)
           k == processscheduleindex
<1>1. /\ pc \in [CPU -> PCs] /\ processschedule \in Seq(Proc) /\ taken \in Seq(Proc)
      /\ L \in Nat /\ k \in Nat /\ Len(taken) \in Nat
  BY DEF TypeOK, TakenInv
<1>2. CASE AcquireIndexLock(c)
  <2>1. /\ \A d \in CPU : pc[d] \notin Locking
        /\ pc[c] = "top" /\ UNCHANGED <<processschedule, processscheduleindex>>
        /\ pc' = [pc EXCEPT ![c] = IF k >= L THEN "shares" ELSE "pick"]
    BY <1>2, SchedAssumption DEF AcquireIndexLock, LockOK
  <2>2. k <= L /\ GivenUpTo(k)
    BY <2>1 DEF TakenInv, Locking
  <2>3. taken' = taken
    <3>1. \A d \in CPU : ~Picks(d) /\ ~Builds(d)
      BY <1>1, <2>1 DEF Picks, Builds, Locking, Building
    <3>. QED
      BY <3>1, NothingTaken
  <2>4. CASE k >= L
    <3>1. k = L
      BY <1>1, <2>2, <2>4
    <3>2. taken = processschedule
      BY <1>1, <2>2, <3>1, SameEntries DEF GivenUpTo
    <3>3. pc'[c] = "shares" /\ \A d \in CPU : d # c => pc'[d] \notin Locking
      BY <1>1, <2>1, <2>4
    <3>. QED
      BY <1>1, <2>1, <2>3, <3>2, <3>3 DEF TakenInv, Locking, Building
  <2>5. CASE ~(k >= L)
    <3>1. \A d \in CPU : pc'[d] \notin Building \cup {"advance"}
      BY <1>1, <2>1, <2>5 DEF Locking, Building
    <3>. QED
      BY <1>1, <2>1, <2>2, <2>3, <3>1 DEF TakenInv, GivenUpTo, Building
  <2>. QED
    BY <2>4, <2>5
<1>3. CASE ReadGroupShare(c) \/ AddGroupShare(c) \/ PlaceGroup(c)
  <2>1. /\ pc[c] \in {"shares", "total", "place"}
        /\ pc'[c] \in {"shares", "total", "place"}
        /\ \A d \in CPU : d # c => pc'[d] = pc[d]
        /\ UNCHANGED <<processschedule, processscheduleindex>>
    BY <1>1, <1>3
       DEF ReadGroupShare, AddGroupShare, PlaceGroup, cpuVars, indexVars
  <2>2. \A d \in CPU : d # c => pc[d] \notin Locking
    BY <2>1, Alone DEF Locking, Building
  <2>3. taken' = taken
    <3>1. \A d \in CPU : ~Picks(d) /\ ~Builds(d)
      BY <2>1 DEF Picks, Builds
    <3>. QED
      BY <3>1, NothingTaken
  <2>4. taken = processschedule
    BY <2>1 DEF TakenInv
  <2>. QED
    BY <1>1, <2>1, <2>2, <2>3, <2>4 DEF TakenInv, Locking, Building
<1>4. CASE GroupsPlaced(c)
  <2>1. /\ pc[c] = "place" /\ pc'[c] = "procs"
        /\ \A d \in CPU : d # c => pc'[d] = pc[d]
    BY <1>1, <1>4 DEF GroupsPlaced
  <2>2. \A d \in CPU : d # c => pc[d] \notin Locking
    BY <2>1, Alone DEF Locking, Building
  <2>3. taken' = <<>>
    BY <2>1 DEF History, Builds
  <2>. QED
    BY <2>1, <2>2, <2>3 DEF TakenInv, Locking, Building
<1>5. CASE ScanProcess(c)
  <2>1. pc[c] = "procs" /\ pc' = pc
    BY <1>5 DEF ScanProcess, cpuVars
  <2>2. \A d \in CPU : d # c => pc[d] \notin Locking
    BY <2>1, Alone DEF Locking, Building
  <2>3. taken' = taken
    <3>1. \A d \in CPU : ~Picks(d) /\ ~Builds(d)
      BY <2>1 DEF Picks, Builds
    <3>. QED
      BY <3>1, NothingTaken
  <2>. QED
    BY <2>1, <2>2, <2>3 DEF TakenInv, Locking, Building
<1>6. CASE FinishSchedule(c)
  <2>1. /\ pc[c] = "procs" /\ pc'[c] \in {"top", "pick"}
        /\ \A d \in CPU : d # c => pc'[d] = pc[d]
        /\ processschedule' = processschedule /\ processscheduleindex' = 0
    BY <1>1, <1>6 DEF FinishSchedule
  <2>2. \A d \in CPU : d # c => pc[d] \notin Locking
    BY <2>1, Alone DEF Locking, Building
  <2>3. taken' = taken /\ taken = <<>>
    <3>1. \A d \in CPU : ~Picks(d) /\ ~Builds(d)
      BY <2>1, <2>2 DEF Picks, Builds, Locking, Building
    <3>. QED
      BY <2>1, <3>1, NothingTaken DEF TakenInv
  <2>4. \A d \in CPU : pc'[d] \notin Building \cup {"advance"}
    BY <2>1, <2>2 DEF Locking, Building
  <2>. QED
    BY <1>1, <2>1, <2>3, <2>4 DEF TakenInv, GivenUpTo, Building
<1>7. CASE Pick(c)
  <2>1. /\ pc[c] = "pick" /\ pc'[c] = "advance"
        /\ \A d \in CPU : d # c => pc'[d] = pc[d]
        /\ UNCHANGED <<processschedule, processscheduleindex>>
        /\ chosen'[c] = processschedule[k + 1]
    BY <1>1, <1>7 DEF Pick, indexVars, TypeOK
  <2>2. \A d \in CPU : d # c => pc[d] \notin Locking
    BY <2>1, Alone DEF Locking, Building
  <2>3. k < L /\ k + 1 \in 1..L
    BY <1>1, <2>1 DEF ChosenOK
  <2>4. taken' = Append(taken, processschedule[k + 1])
    <3>1. Picks(c) /\ \A d \in CPU : Picks(d) => d = c
      BY <2>1, <2>2 DEF Picks, Locking
    <3>2. \A d \in CPU : ~Builds(d)
      BY <2>1, <2>2 DEF Builds, Locking, Building
    <3>3. (CHOOSE d \in CPU : Picks(d)) = c
      BY <3>1
    <3>. QED
      BY <2>1, <3>1, <3>2, <3>3 DEF History
  <2>5. GivenUpTo(k)
    <3>1. \A d \in CPU : pc[d] \notin Building \cup {"advance"}
      BY <2>1, <2>2 DEF Locking, Building
    <3>. QED
      BY <3>1 DEF TakenInv
  <2>6. processschedule[k + 1] \in Proc
    BY <1>1, <2>3, EntryType, Zenon
  <2>7. /\ taken' \in Seq(Proc) /\ Len(taken') = k + 1
        /\ taken'[k + 1] = processschedule[k + 1]
        /\ \A i \in 1..k : taken'[i] = taken[i]
    BY <1>1, <2>4, <2>5, <2>6 DEF GivenUpTo
  <2>8. GivenUpTo(k + 1)'
    BY <1>1, <2>1, <2>5, <2>7 DEF GivenUpTo
  <2>. QED
    BY <2>1, <2>2, <2>7, <2>8 DEF TakenInv, Locking, Building, GivenUpTo
<1>8. CASE Advance(c)
  <2>1. /\ pc[c] = "advance" /\ pc'[c] = "dispatch"
        /\ \A d \in CPU : d # c => pc'[d] = pc[d]
        /\ processschedule' = processschedule /\ processscheduleindex' = k + 1
    BY <1>1, <1>8 DEF Advance
  <2>2. \A d \in CPU : d # c => pc[d] \notin Locking
    BY <2>1, Alone DEF Locking, Building
  <2>3. taken' = taken
    <3>1. \A d \in CPU : ~Picks(d) /\ ~Builds(d)
      BY <2>1, <2>2 DEF Picks, Builds, Locking, Building
    <3>. QED
      BY <3>1, NothingTaken
  <2>4. k + 1 <= L /\ GivenUpTo(k + 1)
    BY <1>1, <2>1 DEF ChosenOK, TakenInv
  <2>5. \A d \in CPU : pc'[d] \notin Building \cup {"advance"}
    BY <2>1, <2>2 DEF Locking, Building
  <2>. QED
    BY <1>1, <2>1, <2>3, <2>4, <2>5 DEF TakenInv, GivenUpTo, Building
<1>. QED
  BY <1>2, <1>3, <1>4, <1>5, <1>6, <1>7, <1>8

(* Every step with its history keeps the invariant.                          *)
LEMMA StepTaken == IInv /\ TakenInv /\ [HNext]_hvars => TakenInv'
<1> SUFFICES ASSUME IInv, TakenInv, [HNext]_hvars PROVE TakenInv'
    OBVIOUS
<1>1. pc \in [CPU -> PCs]
  BY DEF IInv, Types, TypeOK
<1>2. CASE UNCHANGED hvars
  BY <1>2 DEF hvars, vars, cpuVars, indexVars, TakenInv, GivenUpTo
<1>3. CASE HNext
  <2>1. History
    BY <1>3 DEF HNext
  <2>2. ASSUME NEW c \in CPU, Dispatch(c) \/ SwitchBack(c)
        PROVE  TakenInv'
    <3>1. /\ \A d \in CPU : \/ pc'[d] = pc[d]
                            \/ pc[d] \in {"dispatch", "switch"}
                               /\ pc'[d] \in {"top", "run"}
          /\ UNCHANGED <<processschedule, processscheduleindex>>
      BY <1>1, <2>2 DEF Dispatch, SwitchBack, indexVars
    <3>. QED
      BY <2>1, <3>1, TakenKept DEF Building
  <2>3. ASSUME NEW c \in CPU, SchedulerStep(c)
        PROVE  TakenInv'
    BY <2>1, <2>2, <2>3, LockedTaken DEF SchedulerStep
  <2>4. ASSUME NEW c \in CPU, NEW s, LeaveCPU(c, s)
        PROVE  TakenInv'
    <3>1. /\ \A d \in CPU : \/ pc'[d] = pc[d]
                            \/ pc[d] = "run" /\ pc'[d] = "switch"
          /\ UNCHANGED <<processschedule, processscheduleindex>>
      BY <1>1, <2>4 DEF LeaveCPU, indexVars
    <3>. QED
      BY <2>1, <3>1, TakenKept DEF Building
  <2>5. ASSUME NEW c \in CPU, ProcessStep(c)
        PROVE  TakenInv'
    <3>1. CASE Yield(c) \/ Sleep(c) \/ Exit(c)
      BY <2>4, <3>1 DEF Yield, Sleep, Exit
    <3>2. CASE ~(Yield(c) \/ Sleep(c) \/ Exit(c))
      <4>1. UNCHANGED <<cpuVars, indexVars>>
        BY <2>5, <3>2 DEF ProcessStep, ForkAlloc, ForkPublish, SetshareBegin,
           SetshareRead, SetshareStore, SetProcessGroup
      <4>. QED
        BY <2>1, <4>1, TakenKept DEF cpuVars, indexVars
    <3>. QED
      BY <3>1, <3>2
  <2>6. ASSUME NEW p \in Proc, Wakeup(p) \/ Reap(p)
        PROVE  TakenInv'
    <3>1. UNCHANGED <<cpuVars, indexVars>>
      BY <2>6 DEF Wakeup, Reap
    <3>. QED
      BY <2>1, <3>1, TakenKept DEF cpuVars, indexVars
  <2>. QED
    BY <1>3, <2>3, <2>5, <2>6 DEF HNext, Next
<1>. QED
  BY <1>2, <1>3

(* The history has nothing at first.                                         *)
LEMMA InitTaken == HInit => TakenInv
BY DEF HInit, Init, TakenInv, GivenUpTo, Building

(* A core that starts to build a schedule has found every entry of the one   *)
(* before given to a core, in order and once, whichever cores picked them    *)
(* and although pick and increment are steps of their own.                   *)
THEOREM EntriesGivenOnce == HSpec => EachEntryGivenOnce
<1>1. HInit => Init
  BY DEF HInit
<1>2. [HNext]_hvars => [Next]_vars
  BY DEF HNext, hvars
<1>3. TakenInv => ((\E c \in CPU : Builds(c)) => taken = processschedule)
  BY DEF TakenInv, Builds
<1>4. HSpec => Spec
  BY <1>1, <1>2, PTL DEF HSpec, Spec
<1>5. HSpec => []IInv
  BY <1>4, Invariance, PTL
<1>6. HSpec => []TakenInv
  BY <1>5, InitTaken, StepTaken, PTL DEF HSpec
<1>. QED
  BY <1>3, <1>6, PTL DEF EachEntryGivenOnce
=============================================================================
