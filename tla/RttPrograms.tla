----------------------------- MODULE RttPrograms ----------------------------
(* The programs of assignment 2 on RT Threads: readers and writers, the      *)
(* philosophers and the chat.  They have nothing in common while they run,   *)
(* so one of them is explored at a time, as in KernelParts.  TLC does so in  *)
(* Programs, which adds parts to these.                                      *)
EXTENDS Naturals

CONSTANTS
    Readers, Writers,           \* of ReaderWriter
    philNum, MaxUnits,          \* of Philosophers
    QUEUESIZE, MaxRead          \* of SChat

VARIABLES
    part,           \* what is explored
    \* ReaderWriter:
    semaphore, monList, condVar, urgentNum, stage, on, numReaders, busyWriting,
    pc,
    \* Philosophers:
    sem, state, at,
    \* SChat:
    exitFlag, chatpc, mailbox, buffers, content, inHand, read, accepted, output

-----------------------------------------------------------------------------

Rw == INSTANCE ReaderWriter WITH
    Reader <- Readers, Writer <- Writers, Thread <- Readers \cup Writers,
    Cond <- {"OKtoRead", "OKtoWrite"}

Phil == INSTANCE Philosophers WITH semaphore <- sem, pc <- at

Chat == INSTANCE SChat WITH pc <- chatpc, list <- buffers

ASSUME RttProgramsAssumption ==
    /\ Rw!ReaderWriterAssumption /\ Rw!SemMonitorAssumption
    /\ Phil!PhilosophersAssumption /\ Chat!SChatAssumption

-----------------------------------------------------------------------------

rwVars == <<semaphore, monList, condVar, urgentNum, stage, on, numReaders,
            busyWriting, pc>>
philVars == <<sem, state, at>>
chatVars == <<exitFlag, chatpc, mailbox, buffers, content, inHand, read,
              accepted, output>>
rttVars == <<part, rwVars, philVars, chatVars>>

(* part is chosen by the initial states of the module that runs this.        *)
RttInit == Rw!Init /\ Phil!init /\ Chat!Init

RwStep ==
    /\ part = "rw" /\ Rw!Next
    /\ UNCHANGED <<philVars, chatVars>>

PhilStep ==
    /\ part = "phil" /\ Phil!Next
    /\ UNCHANGED <<rwVars, chatVars>>

ChatStep ==
    /\ part = "chat" /\ Chat!Next
    /\ UNCHANGED <<rwVars, philVars>>

RttNext ==
    /\ UNCHANGED part
    /\ RwStep \/ PhilStep \/ ChatStep

RttSpec == RttInit /\ [][RttNext]_rttVars

(***************************************************************************)
(* Properties.  Each says what a part promises while it is explored.       *)
(***************************************************************************)

(* The semaphore monitor of assignment 2: wherever the threads are between   *)
(* their P()s and V()s, the monitor is one unit, urgentNum counts those that *)
(* signalled, and monList those that wait, so that no signal is lost.        *)
RwMonitorSound ==
    part = "rw" =>
        Rw!TypeOK /\ Rw!OneUnit /\ Rw!UrgentCounted /\ Rw!WaitersCounted

(* Nobody reads while a writer writes, although a thread that waited does    *)
(* not look again, and the counters say who does whenever the monitor is     *)
(* free.                                                                     *)
ReadersOrWriter == part = "rw" => Rw!ReadersOrWriter /\ Rw!CountersAgree

(* The philosophers' states are read and changed by one at a time, one that  *)
(* waits for its chopsticks included.                                        *)
OneHoldsMutex == part = "phil" => Phil!TypeOK /\ Phil!OneHoldsMutex

(* The chat server loses no buffer, what it queued is written in order and   *)
(* once, and it takes a writer for ready just while one waits for an answer. *)
ChatSound ==
    part = "chat" =>
        /\ Chat!TypeOK /\ Chat!BuffersAccounted
        /\ Chat!WrittenInOrder /\ Chat!ReadyMeansWaiting
=============================================================================
