------------------------------- MODULE PipeIO -------------------------------
(* A pipe of xv6 (a3/xv6-riscv/kernel/pipe.c) and the files of its two ends  *)
(* (file.c): processes that share the ends read, write, duplicate and close. *)
(* The pipe's lock and sleep are those of SleepWakeup.  Loops under the lock *)
(* move one byte at a step.                                                  *)
EXTENDS SleepWakeup, SequencesExt

CONSTANTS
    PIPESIZE,
    UINT,           \* one more than the largest value of nread and nwrite
    Size,           \* bytes asked for by one call
    MaxBytes,       \* bounds of this model: bytes written,
    MaxRef          \* and files of an end that may be duplicated

PipeIOAssumption ==
    /\ Lock = {"pipe"}
    /\ PIPESIZE \in Nat \ {0} /\ UINT \in Nat /\ UINT % PIPESIZE = 0
    /\ UINT > PIPESIZE
    /\ Size \in Nat \ {0} /\ MaxBytes \in Nat /\ MaxRef \in Nat
    /\ IsFiniteSet(Proc) /\ Cardinality(Proc) <= MaxRef

End == {"read", "write"}

VARIABLES
    data, nread, nwrite, open,  \* struct pipe; open[e]: readopen, writeopen
    freed,
    ref,            \* per end, the references of its files
    ofile,          \* per process and end, the files it has of it
    pc, end, i,     \* per process, where it is in its call, the end the call
                    \* is about, and its i
    sent, received  \* all bytes that went in, and that came out

pipe == <<data, nread, nwrite>>
ends == <<open, freed, ref, ofile>>
locals == <<end, i>>
history == <<sent, received>>
vars == <<sleepVars, pipe, ends, pc, locals, history>>

(* pipealloc(), and a fork for each process.                                 *)
Init ==
    /\ state = [p \in Proc |-> "RUNNING"]
    /\ chan = [p \in Proc |-> Free]
    /\ killed = [p \in Proc |-> FALSE]
    /\ plock = [p \in Proc |-> Free]
    /\ held = [l \in Lock |-> Free]
    /\ data = [k \in 0..(PIPESIZE - 1) |-> 0]
    /\ nread = 0 /\ nwrite = 0
    /\ open = [e \in End |-> TRUE]
    /\ freed = FALSE
    /\ ref = [e \in End |-> Cardinality(Proc)]
    /\ ofile = [p \in Proc |-> [e \in End |-> 1]]
    /\ pc = [p \in Proc |-> "user"]
    /\ end = [p \in Proc |-> "read"]
    /\ i = [p \in Proc |-> 0]
    /\ sent = <<>> /\ received = <<>>

At(p, where) == state[p] = "RUNNING" /\ pc[p] = where
Go(p, where) == pc' = [pc EXCEPT ![p] = where]
Calls(p, e) == At(p, "user") /\ ~killed[p] /\ ofile[p][e] > 0

(* Wake those that sleep on c, give up the lock and return.                  *)
WakeAndReturn(p, c) ==
    /\ wakeup(p, c)
    /\ release(p, "pipe")
    /\ Go(p, "user")

(***************************************************************************)
(* pipewrite() and piperead().                                             *)
(***************************************************************************)

(* acquire(&pi->lock), at the beginning, and at the end of sleep().          *)
PipeLock(p, e) ==
    /\ Calls(p, e)
    /\ acquire(p, "pipe")
    /\ i' = [i EXCEPT ![p] = 0] /\ end' = [end EXCEPT ![p] = e]
    /\ Go(p, e)
    /\ UNCHANGED <<state, chan, killed, plock, pipe, ends, history>>

LockAgain(p) ==
    /\ At(p, "woken")
    /\ acquire(p, "pipe")
    /\ Go(p, end[p])
    /\ UNCHANGED <<state, chan, killed, plock, pipe, ends, locals, history>>

Writes(p) == At(p, "write") /\ i[p] < Size
Full == nwrite = (nread + PIPESIZE) % UINT
Empty == nread = nwrite

WriteFails(p) ==
    /\ Writes(p) /\ (~open["read"] \/ killed[p])
    /\ release(p, "pipe")
    /\ Go(p, "user")
    /\ UNCHANGED <<state, chan, killed, plock, pipe, ends, locals, history>>

MayWrite(p) == Writes(p) /\ open["read"] /\ ~killed[p]

(* Mutant: a writer of a full pipe does not wake the readers.                *)
WriterWaitsSilent(p) ==
    /\ MayWrite(p) /\ Full
    /\ Go(p, "sleep")
    /\ UNCHANGED <<sleepVars, pipe, ends, locals, history>>

WriterWaits(p) ==
    /\ MayWrite(p) /\ Full
    /\ wakeup(p, "nread")
    /\ Go(p, "sleep")
    /\ UNCHANGED <<chan, killed, plock, held, pipe, ends, locals, history>>

Put(p) ==
    /\ data' = [data EXCEPT ![nwrite % PIPESIZE] = Len(sent) + 1]
    /\ nwrite' = (nwrite + 1) % UINT
    /\ sent' = Append(sent, Len(sent) + 1)
    /\ i' = [i EXCEPT ![p] = @ + 1]
    /\ UNCHANGED <<sleepVars, nread, ends, pc, end, received>>

(* Mutant: the pipe takes a byte too many.                                   *)
WriteByteIntoFull(p) == MayWrite(p) /\ Len(sent) < MaxBytes /\ Put(p)

WriteByte(p) == MayWrite(p) /\ Len(sent) < MaxBytes /\ ~Full /\ Put(p)

(* All is written, or copyin() failed.                                       *)
WriteEnds(p) ==
    /\ At(p, "write") /\ (i[p] < Size => MayWrite(p) /\ ~Full)
    /\ WakeAndReturn(p, "nread")
    /\ UNCHANGED <<chan, killed, plock, pipe, ends, locals, history>>

ReadFails(p) ==
    /\ At(p, "read") /\ Empty /\ open["write"] /\ killed[p]
    /\ release(p, "pipe")
    /\ Go(p, "user")
    /\ UNCHANGED <<state, chan, killed, plock, pipe, ends, locals, history>>

ReaderWaits(p) ==
    /\ At(p, "read") /\ Empty /\ open["write"] /\ ~killed[p]
    /\ Go(p, "sleep")
    /\ UNCHANGED <<sleepVars, pipe, ends, locals, history>>

MayRead(p) == At(p, "read") /\ (Empty => ~open["write"])

Take == nread' = (nread + 1) % UINT

(* copyout() of the byte may fail: it is gone, and the loop ends.            *)
ReadByte(p) ==
    /\ MayRead(p) \/ At(p, "copy")
    /\ ~Empty /\ i[p] < Size
    /\ Take
    /\ received' = Append(received, data[nread % PIPESIZE])
    /\ \/ i' = [i EXCEPT ![p] = @ + 1] /\ Go(p, "copy")
       \/ i' = i /\ Go(p, "copied")
    /\ UNCHANGED <<sleepVars, data, nwrite, ends, end, sent>>

ReadEnds(p) ==
    /\ \/ MayRead(p) /\ Empty
       \/ At(p, "copy") /\ (Empty \/ i[p] = Size)
       \/ At(p, "copied")
    /\ WakeAndReturn(p, "nwrite")
    /\ UNCHANGED <<chan, killed, plock, pipe, ends, locals, history>>

Channel(e) == IF e = "read" THEN "nread" ELSE "nwrite"

PipeSleep(p) ==
    /\ At(p, "sleep")
    /\ GiveUp(p, "pipe")
    /\ Go(p, "falls asleep")
    /\ UNCHANGED <<pipe, ends, locals, history>>

PipeSleeps(p) ==
    /\ At(p, "falls asleep")
    /\ FallAsleep(p, Channel(end[p]))
    /\ Go(p, "woken")
    /\ UNCHANGED <<pipe, ends, locals, history>>

(***************************************************************************)
(* Files.  ftable.lock covers no other lock: its sections are one step.    *)
(***************************************************************************)

filedup(p, e) ==
    /\ Calls(p, e) /\ ref[e] < MaxRef
    /\ ref' = [ref EXCEPT ![e] = @ + 1]
    /\ ofile' = [ofile EXCEPT ![p][e] = @ + 1]
    /\ UNCHANGED <<sleepVars, pipe, open, freed, pc, locals, history>>

(* Mutant: the end is closed with its first file.                            *)
filecloseFirst(p, e) ==
    /\ At(p, "user") /\ ofile[p][e] > 0
    /\ ref' = [ref EXCEPT ![e] = @ - 1]
    /\ ofile' = [ofile EXCEPT ![p][e] = @ - 1]
    /\ IF open[e] THEN Go(p, "close") ELSE UNCHANGED pc
    /\ end' = [end EXCEPT ![p] = e]
    /\ UNCHANGED <<sleepVars, pipe, open, freed, i, history>>

(* close(), or the end of the process.                                       *)
fileclose(p, e) ==
    /\ At(p, "user") /\ ofile[p][e] > 0
    /\ ref' = [ref EXCEPT ![e] = @ - 1]
    /\ ofile' = [ofile EXCEPT ![p][e] = @ - 1]
    /\ IF ref[e] = 1 THEN Go(p, "close") ELSE UNCHANGED pc
    /\ end' = [end EXCEPT ![p] = e]
    /\ UNCHANGED <<sleepVars, pipe, open, freed, i, history>>

(* Mutant: the pipe is freed with its first end.                             *)
pipecloseFreesFirst(p) ==
    /\ At(p, "close") /\ held["pipe"] = Free
    /\ open' = [open EXCEPT ![end[p]] = FALSE]
    /\ wakeup(p, IF end[p] = "write" THEN "nread" ELSE "nwrite")
    /\ freed' = TRUE
    /\ Go(p, "user")
    /\ UNCHANGED <<chan, killed, plock, held, pipe, ref, ofile, locals, history>>

(* Who closes one end wakes those at the other.                              *)
pipeclose(p) ==
    /\ At(p, "close") /\ held["pipe"] = Free
    /\ open' = [open EXCEPT ![end[p]] = FALSE]
    /\ wakeup(p, IF end[p] = "write" THEN "nread" ELSE "nwrite")
    /\ freed' = (\A f \in End : ~open'[f])
    /\ Go(p, "user")
    /\ UNCHANGED <<chan, killed, plock, held, pipe, ref, ofile, locals, history>>

(***************************************************************************)
(* The processes.                                                          *)
(***************************************************************************)

KillOne(q) == ~killed[q] /\ Kill(q) /\ UNCHANGED <<pipe, ends, pc, locals, history>>
scheduler(p) == RunAgain(p) /\ UNCHANGED <<pipe, ends, pc, locals, history>>

InKernel(p) ==
    \/ WriteFails(p) \/ WriterWaits(p) \/ WriteByte(p) \/ WriteEnds(p)
    \/ ReadFails(p) \/ ReaderWaits(p) \/ ReadByte(p) \/ ReadEnds(p)
    \/ PipeSleep(p) \/ PipeSleeps(p) \/ LockAgain(p)
    \/ pipeclose(p) \/ scheduler(p)

Next ==
    \E p \in Proc :
        \/ InKernel(p) \/ KillOne(p)
        \/ \E e \in End : PipeLock(p, e) \/ filedup(p, e) \/ fileclose(p, e)

Spec == Init /\ [][Next]_vars

(* A process goes on in the kernel, and gets a lock that is free again and   *)
(* again; in the end it closes what it has.                                  *)
Fairness ==
    \A p \in Proc : SF_vars(InKernel(p)) /\ WF_vars(\E e \in End : fileclose(p, e))

FairSpec == Spec /\ Fairness

(***************************************************************************)
(* Properties.                                                             *)
(***************************************************************************)

(* Every variable has its type.                                              *)
TypeOK ==
    /\ state \in [Proc -> {"RUNNING", "RUNNABLE", "SLEEPING"}]
    /\ chan \in [Proc -> {"nread", "nwrite", Free}]
    /\ nread \in 0..(UINT - 1) /\ nwrite \in 0..(UINT - 1)
    /\ ref \in [End -> 0..MaxRef]
    /\ i \in [Proc -> 0..Size]

Unread == (nwrite + UINT - nread) % UINT

(* What went in and did not come out is in the pipe, in order, also when the *)
(* counters overflow.                                                        *)
BytesInOrder ==
    sent = received \o
           [k \in 1..Unread |-> data[((nread + k - 1) % UINT) % PIPESIZE]]

AsleepOn(c) == {p \in Proc : Sleeps(p, c)}

Killed == \E p \in Proc : killed[p]

(* Nobody sleeps that could go on: readers sleep while the pipe is empty and *)
(* may still be written, writers while it is full and may still be read.  (A *)
(* writer that is killed may leave bytes without waking anybody.)            *)
NoSleeperMissed ==
    held["pipe"] = Free =>
        /\ AsleepOn("nread") # {} => (Empty \/ Killed) /\ open["write"]
        /\ AsleepOn("nwrite") # {} => Full /\ open["read"]

(* Readers sleep only while there is nothing to read.                        *)
ReadersSleepIfEmpty ==
    held["pipe"] = Free /\ AsleepOn("nread") # {} => Empty

(* The pipe is freed once both ends are closed, and nobody is in it then.    *)
FreedUnused ==
    freed => \A p \in Proc : pc[p] = "user" /\ ~\E e \in End : ofile[p][e] > 0

(* An end counts as open while a process has a file of it.                   *)
OpenWhileReferred ==
    \A e \in End : (\E p \in Proc : ofile[p][e] > 0) => open[e]

(* A reader that sleeps runs again, for data or for the end of the file,     *)
(* unless all who could write sleep for data themselves.                     *)
ReaderWakes ==
    LET stuck ==
            /\ open["write"]
            /\ \A q \in Proc : ofile[q]["write"] > 0 => Sleeps(q, "nread")
    IN  \A p \in Proc : Sleeps(p, "nread") ~> state[p] = "RUNNING" \/ stuck
=============================================================================
