---------------------------- MODULE ReaderWriter ----------------------------
(* Readers and writers of assignment 2 (a2_phase2/reader-writer-monitor.c,   *)
(* and the threads of reader-writer.c), in the monitor of SemMonitor.        *)
EXTENDS SemMonitor

CONSTANTS Reader, Writer

ReaderWriterAssumption ==
    /\ Reader \cup Writer = Thread /\ Reader \cap Writer = {}
    /\ Cond = {"OKtoRead", "OKtoWrite"} /\ IsFiniteSet(Thread)

VARIABLES numReaders, busyWriting,
          pc            \* per thread, where it is in its procedure

shared == <<numReaders, busyWriting>>
vars == <<monitor, shared, pc>>

Init ==
    /\ MonInit("OKtoRead")
    /\ numReaders = 0
    /\ busyWriting = FALSE
    /\ pc = [t \in Thread |-> "sleep"]

Go(t, to) == pc' = [pc EXCEPT ![t] = to]

(* A call of MonEnter(), and the end of a procedure with MonLeave().         *)
Enter(t, from, to) ==
    pc[t] = from /\ MonEnter(t) /\ Go(t, to) /\ UNCHANGED shared
Leave(t, from, to) ==
    pc[t] = from /\ MonLeave(t) /\ Go(t, to) /\ UNCHANGED shared

(* Signal c, or go on at once if nobody waits for it.                        *)
Signal(t, from, c, to) ==
    /\ pc[t] = from /\ Inside(t)
    /\ \/ MonSignal(t, c)
       \/ monList[c] = 0 /\ UNCHANGED monitor
    /\ Go(t, to)
    /\ UNCHANGED shared

(* The thread has the monitor and is at this point of its procedure.         *)
Runs(t, from) == pc[t] = from /\ Inside(t)

StartRead(t) ==
    /\ Runs(t, "start read")
    /\ IF busyWriting THEN MonWait(t, "OKtoRead") ELSE UNCHANGED monitor
    /\ Go(t, "may read")
    /\ UNCHANGED shared

CountReader(t) ==
    /\ Runs(t, "may read")
    /\ numReaders' = numReaders + 1
    /\ Go(t, "signal reader")
    /\ UNCHANGED <<monitor, busyWriting>>

StopRead(t) ==
    /\ Runs(t, "stop read")
    /\ numReaders' = numReaders - 1
    /\ Go(t, IF numReaders = 1 THEN "signal writer" ELSE "leave")
    /\ UNCHANGED <<monitor, busyWriting>>

(* Mutant: a writer looks for writers only.                                  *)
StartWriteAmongReaders(t) ==
    /\ Runs(t, "start write")
    /\ IF busyWriting THEN MonWait(t, "OKtoWrite") ELSE UNCHANGED monitor
    /\ Go(t, "may write")
    /\ UNCHANGED shared

StartWrite(t) ==
    /\ Runs(t, "start write")
    /\ IF numReaders # 0 \/ busyWriting
       THEN MonWait(t, "OKtoWrite") ELSE UNCHANGED monitor
    /\ Go(t, "may write")
    /\ UNCHANGED shared

SetBusy(t) ==
    /\ Runs(t, "may write")
    /\ busyWriting' = TRUE
    /\ Go(t, "leave to write")
    /\ UNCHANGED <<monitor, numReaders>>

(* Mutant: busyWriting is not reset.                                         *)
StopWriteStaysBusy(t) ==
    /\ Runs(t, "stop write")
    /\ Go(t, "signal readers")
    /\ UNCHANGED <<monitor, shared>>

StopWrite(t) ==
    /\ Runs(t, "stop write")
    /\ busyWriting' = FALSE
    /\ Go(t, "signal readers")
    /\ UNCHANGED <<monitor, numReaders>>

ReaderSteps(t) ==
    \/ StartRead(t) \/ CountReader(t)
    \/ Signal(t, "signal reader", "OKtoRead", "leave to read")
    \/ Leave(t, "leave to read", "reading")
    \/ Enter(t, "reading", "stop read")
    \/ StopRead(t)
    \/ Signal(t, "signal writer", "OKtoWrite", "leave")
    \/ Leave(t, "leave", "sleep")

WriterSteps(t) ==
    \/ StartWrite(t) \/ SetBusy(t)
    \/ Leave(t, "leave to write", "writing")
    \/ Enter(t, "writing", "stop write")
    \/ StopWrite(t)
    \/ Signal(t, "signal readers", "OKtoRead", "leave")
    \/ Leave(t, "leave", "sleep")

(* From its sleep a thread calls StartRead() or StartWrite() again.          *)
Start(t) ==
    Enter(t, "sleep", IF t \in Reader THEN "start read" ELSE "start write")

InMonitor(t) == Goes(t) /\ UNCHANGED <<shared, pc>>

Step(t) ==
    \/ Start(t) \/ InMonitor(t)
    \/ t \in Reader /\ ReaderSteps(t)
    \/ t \in Writer /\ WriterSteps(t)

Next == \E t \in Thread : Step(t)

Spec == Init /\ [][Next]_vars

(* Every thread that can go on does; the sleeps end.                         *)
Fairness == \A t \in Thread : WF_vars(Step(t))
FairSpec == Spec /\ Fairness

(***************************************************************************)
(* Properties.                                                             *)
(***************************************************************************)

(* Every variable has its type.                                              *)
TypeOK ==
    /\ MonitorTypeOK
    /\ numReaders \in 0..Cardinality(Reader)
    /\ busyWriting \in BOOLEAN

Reading == {t \in Reader : pc[t] \in {"leave to read", "reading"}}
Writing == {t \in Writer : pc[t] \in {"leave to write", "writing"}}

(* Nobody reads while a writer writes, and writers are alone, although a     *)
(* thread that waited does not look again at what it waited for.             *)
ReadersOrWriter ==
    /\ Cardinality(Writing) <= 1
    /\ Writing # {} => Reading = {}

(* Whenever nobody has the monitor its counters tell who reads and writes.   *)
CountersAgree ==
    semaphore["mutex"].count = 1 =>
        /\ numReaders = Cardinality(Reading)
        /\ busyWriting <=> Writing # {}

(* A reader that asks gets to read, whatever the writers do.                 *)
EveryReaderReads ==
    \A t \in Reader : pc[t] = "start read" ~> pc[t] = "reading"

(* A writer waits only while somebody reads or writes.                       *)
WriterWaitsForReason ==
    semaphore["mutex"].count = 1 /\ monList["OKtoWrite"] > 0
        => numReaders # 0 \/ busyWriting
=============================================================================
