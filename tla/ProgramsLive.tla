---------------------------- MODULE ProgramsLive ----------------------------
(* What must come to an end, or go on, in the programs outside the kernel.   *)
(* As in Programs they are explored one at a time, each with the fairness of *)
(* its module.  The threads of UThreadPrograms come by EXTENDS, and the      *)
(* producer and the consumer run on the same threads.                        *)
EXTENDS UThreadPrograms

CONSTANTS
    MtxBuffMaxs,    \* BuffMaxs of the two programs; 1 is not among those of the
    SemBuffMaxs     \* first: con() waits for a second item (ProdConMtx, BothWork)

VARIABLES
    part,           \* what is explored
    \* ProdConMtx and ProdConSem:
    buffMax, buffSize, sem, i,
    \* RttMonitor:
    at, arg, inbox, monBusy, enterQueue, urgentQueue, urgentCurser, CVlistDict,
    condVar,
    \* ReaderWriter:
    semaphore, monList, rwCondVar, urgentNum, stage, on, numReaders,
    busyWriting, rwpc,
    \* SChat:
    exitFlag, chatpc, mailbox, buffers, content, inHand, read, accepted, output

-----------------------------------------------------------------------------

Mtx == INSTANCE ProdConMtx WITH BuffMaxs <- MtxBuffMaxs

Sem == INSTANCE ProdConSem WITH BuffMaxs <- SemBuffMaxs

(* Four threads that enter the monitor and use one condition.                *)
Monitor == INSTANCE RttMonitor WITH
    Thread <- {"t1", "t2", "t3", "t4"}, Cond <- {0}

Rw == INSTANCE ReaderWriter WITH
    Reader <- {"r1", "r2"}, Writer <- {"w1"}, Thread <- {"r1", "r2", "w1"},
    Cond <- {"OKtoRead", "OKtoWrite"}, condVar <- rwCondVar, pc <- rwpc

Chat == INSTANCE SChat WITH
    QUEUESIZE <- 2, MaxRead <- 2, pc <- chatpc, list <- buffers

ASSUME ProdConsAssumption == Mtx!ProdConAssumption /\ Sem!ProdConAssumption
ASSUME /\ Monitor!MonitorAssumption /\ Chat!SChatAssumption
       /\ Rw!ReaderWriterAssumption /\ Rw!SemMonitorAssumption

-----------------------------------------------------------------------------

prodVars == <<buffMax, buffSize, sem, i>>
monitorVars == <<at, arg, inbox, monBusy, enterQueue, urgentQueue, urgentCurser,
                 CVlistDict, condVar>>
rwVars == <<semaphore, monList, rwCondVar, urgentNum, stage, on, numReaders,
            busyWriting, rwpc>>
chatVars == <<exitFlag, chatpc, mailbox, buffers, content, inHand, read,
              accepted, output>>
mtxVars == <<uthreadVars, pc, buffMax, buffSize>>
semVars == <<mtxVars, sem, i>>
threadVars == <<semVars, holds>>
liveVars == <<part, threadVars, monitorVars, rwVars, chatVars>>

ThreadInit ==
    CASE part = "mtx" ->
             Mtx!Init /\ sem = <<>> /\ i = <<>>
      [] part = "sem" -> Sem!Init
      [] OTHER ->
             /\ Init
             /\ buffMax = 0 /\ buffSize = 0 /\ sem = <<>> /\ i = <<>>

LiveInit ==
    /\ part \in {"threads", "mtx", "sem", "monitor", "rw", "chat"}
    /\ ThreadInit /\ holds = [t \in Thread |-> "none"]
    /\ Monitor!Init /\ Rw!Init /\ Chat!Init

ThreadStep ==
    /\ \/ part = "threads" /\ Next /\ UNCHANGED prodVars
       \/ part = "mtx" /\ Mtx!Next /\ UNCHANGED <<holds, sem, i>>
       \/ part = "sem" /\ Sem!Next /\ UNCHANGED holds
    /\ UNCHANGED <<monitorVars, rwVars, chatVars>>

MonitorStep ==
    /\ part = "monitor" /\ Monitor!Next
    /\ UNCHANGED <<threadVars, rwVars, chatVars>>

RwStep ==
    /\ part = "rw" /\ Rw!Next
    /\ UNCHANGED <<threadVars, monitorVars, chatVars>>

ChatStep ==
    /\ part = "chat" /\ Chat!Next
    /\ UNCHANGED <<threadVars, monitorVars, rwVars>>

LiveNext ==
    /\ UNCHANGED part
    /\ ThreadStep \/ MonitorStep \/ RwStep \/ ChatStep

(* The fairness of the modules, for the part that is explored.               *)
Explored(p) == []<>(part = p)

LiveFairness ==
    \/ /\ Explored("threads")
       /\ WF_vars(part = "threads" /\ GoesOn)
       /\ SF_vars(part = "threads" /\ Switches)
    \/ Explored("mtx") /\ WF_mtxVars(part = "mtx" /\ Mtx!Next)
    \/ Explored("sem") /\ WF_semVars(part = "sem" /\ Sem!Next)
    \/ /\ Explored("monitor")
       /\ WF_monitorVars(part = "monitor" /\ Monitor!MonServer)
       /\ \A t \in {"t1", "t2", "t3", "t4"} :
             SF_monitorVars(part = "monitor" /\ Monitor!GivesUp(t))
    \/ /\ Explored("rw")
       /\ \A t \in {"r1", "r2", "w1"} : WF_rwVars(part = "rw" /\ Rw!Step(t))
    \/ /\ Explored("chat")
       /\ \A t \in Chat!Thread : WF_chatVars(part = "chat" /\ Chat!Steps(t))

LiveSpec == LiveInit /\ [][LiveNext]_liveVars /\ LiveFairness

(***************************************************************************)
(* Properties.  NearsTurn and OneHolder are those of UThreadPrograms; the  *)
(* first is also about the threads of the producer and the consumer.       *)
(***************************************************************************)

(* prod() and con() keep the buffer within its bounds, although each tests   *)
(* it before it yields and changes it after; with a mutex they are never     *)
(* both between test and change.                                             *)
BufferBounds ==
    /\ part \in {"mtx", "sem"} => Mtx!BufferBounds
    /\ part = "mtx" => Mtx!SectionLocked

(* A thread that is ready runs, and both prod() and con() change the buffer  *)
(* again and again, unless main() of the semaphore version is killed by the  *)
(* mutex that its memory happens to hold.  With a buffer of one place con()  *)
(* of the mutex version never takes the item, since it tests buffSize > 1    *)
(* (prod-con-mtx.c:39).                                                      *)
ThreadsGoOn ==
    /\ part = "threads" => ReadyRuns
    /\ part \in {"mtx", "sem"} =>
          (part = "sem" /\ Sem!IsLocked(Sem!noMutex)) \/ Mtx!BothWork

(* A thread that asked for the monitor of assignment 4 gets in once no more  *)
(* enter and signal, and a reader of assignment 2 gets to read.              *)
EveryoneGetsIn == Monitor!EveryoneGetsIn /\ Rw!EveryReaderReads

(* A message that the chat server queued is written, unless the server ends. *)
QueuedIsWritten == Chat!QueuedIsWritten
=============================================================================
