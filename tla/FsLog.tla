------------------------------- MODULE FsLog -------------------------------
(* The file-system log of xv6 (a3/xv6-riscv/kernel/log.c) between the system *)
(* calls above it and the buffer cache (bio.c) below it.                     *)
(*                                                                           *)
(* A system call runs between begin_op() and end_op(); it changes blocks in  *)
(* the cache and has them logged with log_write().  The last end_op() writes *)
(* the logged blocks to the log, then the header, copies the blocks home and *)
(* erases the header.  A restart does the last two again.  The machine may   *)
(* crash at any time, in the middle of a block too.                          *)
(*                                                                           *)
(* The steps are the critical sections of log.lock and the single writes to  *)
(* the disk.  A write that returned is durable: bwrite() waits for it.  The  *)
(* header is written whole, as it lies in one sector.                        *)
EXTENDS Naturals, SequencesExt, FiniteSets

CONSTANTS
    Proc,           \* the processes in file-system calls
    Block,          \* the blocks outside the log
    Data,           \* what a block may contain
    Torn,           \* what a write that a crash cut short leaves
    None,           \* no buffer holds the block; no block
    MAXOPBLOCKS,    \* how many blocks a call writes at most
    LOGSIZE,        \* blocks a transaction may have
    NLOG            \* log.size: the log's blocks on the disk with its header

ASSUME LogAssumption ==
    /\ IsFiniteSet(Proc)
    /\ Torn \notin Data
    /\ None \notin Data \cup Block \cup {Torn}
    /\ MAXOPBLOCKS \in Nat /\ LOGSIZE \in Nat /\ NLOG \in Nat

VARIABLES
    \* the disk: home blocks, and the log's header and blocks
    home, head, logblock,
    \* the buffer cache: contents, references by bpin(), who locks a buffer
    cache, pins, buf,
    \* struct log in memory
    lh, outstanding, committing,
    \* where each process is, what it wrote in this call
    pc, wrote,
    \* what initlog() or commit() does, and the position of its loop
    phase, tail

diskVars == <<home, head, logblock>>
bioVars  == <<cache, pins, buf>>
logVars  == <<lh, outstanding, committing>>
opVars   == <<pc, wrote>>
vars == <<diskVars, bioVars, logVars, opVars, phase, tail>>

(* The machine is up: no initlog() runs and nothing has panicked.            *)
Up == phase \in {"up", "write_log", "install", "committed"}

(* The disk is as mkfs leaves it, with an empty log.                         *)
Init ==
    /\ home \in [Block -> Data]
    /\ head = <<>>
    /\ \E d \in Data : logblock = [i \in 1..LOGSIZE |-> d]
    /\ cache = [b \in Block |-> None]
    /\ pins = [b \in Block |-> 0]
    /\ buf = [p \in Proc |-> None]
    /\ lh = <<>>
    /\ outstanding = 0
    /\ committing = FALSE
    /\ pc = [p \in Proc |-> "idle"]
    /\ wrote = [p \in Proc |-> {}]
    /\ phase = "read_head"
    /\ tail = 1

(***************************************************************************)
(* initlog(): recover_from_log().  No call runs before it is done.         *)
(***************************************************************************)

ReadHead ==
    /\ phase = "read_head"
    /\ lh' = head
    /\ tail' = 1
    /\ phase' = "recover"
    /\ UNCHANGED <<diskVars, bioVars, outstanding, committing, opVars>>

(* install_trans(): one block is copied from the log to its home, and        *)
(* unpinned unless this is the recovery.                                     *)
InstallTrans ==
    /\ phase \in {"recover", "install"}
    /\ tail <= Len(lh)
    /\ home' = [home EXCEPT ![lh[tail]] = logblock[tail]]
    /\ cache' = [cache EXCEPT ![lh[tail]] = logblock[tail]]
    /\ pins' = IF phase = "install"
               THEN [pins EXCEPT ![lh[tail]] = @ - 1] ELSE pins
    /\ tail' = tail + 1
    /\ UNCHANGED <<head, logblock, buf, logVars, opVars, phase>>

(* log.lh.n = 0 and write_head(), after install_trans().                     *)
EraseHead ==
    /\ phase \in {"recover", "install"}
    /\ tail > Len(lh)
    /\ lh' = <<>>
    /\ head' = <<>>
    /\ phase' = IF phase = "recover" THEN "up" ELSE "committed"
    /\ UNCHANGED <<home, logblock, bioVars, outstanding, committing, opVars,
                   tail>>

(***************************************************************************)
(* The system calls.                                                       *)
(***************************************************************************)

(* wakeup(&log): those that sleep in begin_op() test again.                  *)
Woken == [p \in Proc |-> IF pc[p] = "asleep" THEN "begin" ELSE pc[p]]

(* Mutant: the new call itself is not counted.                               *)
BeginOpUnreserved(p) ==
    /\ Up
    /\ pc[p] \in {"idle", "begin"}
    /\ IF committing \/ Len(lh) + outstanding * MAXOPBLOCKS > LOGSIZE
       THEN pc' = [pc EXCEPT ![p] = "asleep"] /\ UNCHANGED outstanding
       ELSE pc' = [pc EXCEPT ![p] = "in"] /\ outstanding' = outstanding + 1
    /\ UNCHANGED <<diskVars, bioVars, lh, committing, wrote, phase, tail>>

(* Mutant: a commit in progress is not waited for.                           *)
BeginOpDuringCommit(p) ==
    /\ Up
    /\ pc[p] \in {"idle", "begin"}
    /\ IF Len(lh) + (outstanding + 1) * MAXOPBLOCKS > LOGSIZE
       THEN pc' = [pc EXCEPT ![p] = "asleep"] /\ UNCHANGED outstanding
       ELSE pc' = [pc EXCEPT ![p] = "in"] /\ outstanding' = outstanding + 1
    /\ UNCHANGED <<diskVars, bioVars, lh, committing, wrote, phase, tail>>

(* begin_op(): one turn of its loop.                                         *)
BeginOp(p) ==
    /\ Up
    /\ pc[p] \in {"idle", "begin"}
    /\ IF committing \/ Len(lh) + (outstanding + 1) * MAXOPBLOCKS > LOGSIZE
       THEN pc' = [pc EXCEPT ![p] = "asleep"] /\ UNCHANGED outstanding
       ELSE pc' = [pc EXCEPT ![p] = "in"] /\ outstanding' = outstanding + 1
    /\ UNCHANGED <<diskVars, bioVars, lh, committing, wrote, phase, tail>>

(* A call gets the buffer of a block with bread() and changes it; it changes *)
(* at most MAXOPBLOCKS blocks (param.h:9).                                   *)
Modify(p, b, v) ==
    /\ Up
    /\ pc[p] = "in"
    /\ \A q \in Proc : buf[q] # b
    /\ Cardinality(wrote[p] \cup {b}) <= MAXOPBLOCKS
    /\ cache' = [cache EXCEPT ![b] = v]
    /\ buf' = [buf EXCEPT ![p] = b]
    /\ wrote' = [wrote EXCEPT ![p] = @ \cup {b}]
    /\ pc' = [pc EXCEPT ![p] = "modified"]
    /\ UNCHANGED <<diskVars, pins, logVars, phase, tail>>

TooBig == Len(lh) >= LOGSIZE \/ Len(lh) >= NLOG - 1

Logged(b) == b \in ToSet(lh)

(* log_write(), with absorption, then brelse().                              *)
LogWrite(p) ==
    /\ pc[p] = "modified"
    /\ Up
    /\ IF TooBig
       THEN phase' = "panic" /\ UNCHANGED <<pins, lh, pc, buf>>
       ELSE /\ IF Logged(buf[p])
               THEN UNCHANGED <<pins, lh>>
               ELSE /\ pins' = [pins EXCEPT ![buf[p]] = @ + 1]
                    /\ lh' = Append(lh, buf[p])
            /\ pc' = [pc EXCEPT ![p] = "in"]
            /\ buf' = [buf EXCEPT ![p] = None]
            /\ UNCHANGED phase
    /\ UNCHANGED <<diskVars, cache, outstanding, committing, wrote, tail>>

(* end_op() up to commit(), which does nothing if nothing was logged.        *)
EndOp(p) ==
    /\ Up
    /\ pc[p] = "in"
    /\ outstanding' = outstanding - 1
    /\ wrote' = [wrote EXCEPT ![p] = {}]
    /\ IF outstanding = 1
       THEN /\ committing' = TRUE
            /\ pc' = [pc EXCEPT ![p] = "commit"]
            /\ phase' = IF lh = <<>> THEN "committed" ELSE "write_log"
            /\ tail' = 1
       ELSE /\ pc' = [Woken EXCEPT ![p] = "idle"]
            /\ UNCHANGED <<committing, phase, tail>>
    /\ UNCHANGED <<diskVars, bioVars, lh>>

(***************************************************************************)
(* commit(), by the process whose end_op() was the last.                   *)
(***************************************************************************)

(* write_log(): one block is copied from the cache to the log.               *)
WriteLog ==
    /\ phase = "write_log"
    /\ tail <= Len(lh)
    /\ logblock' = [logblock EXCEPT ![tail] = cache[lh[tail]]]
    /\ tail' = tail + 1
    /\ UNCHANGED <<home, head, bioVars, logVars, opVars, phase>>

(* Mutant: the header goes before the last log block.                        *)
WriteHeadEarly ==
    /\ phase = "write_log"
    /\ tail >= Len(lh)
    /\ head' = lh
    /\ tail' = 1
    /\ phase' = "install"
    /\ UNCHANGED <<home, logblock, bioVars, logVars, opVars>>

(* write_head(): the commit.                                                 *)
WriteHead ==
    /\ phase = "write_log"
    /\ tail > Len(lh)
    /\ head' = lh
    /\ tail' = 1
    /\ phase' = "install"
    /\ UNCHANGED <<home, logblock, bioVars, logVars, opVars>>

(* Mutant: end_op() wakes nobody.                                            *)
FinishNoWakeup ==
    /\ phase = "committed"
    /\ committing' = FALSE
    /\ pc' = [p \in Proc |-> IF pc[p] = "commit" THEN "idle" ELSE pc[p]]
    /\ phase' = "up"
    /\ UNCHANGED <<diskVars, bioVars, lh, outstanding, wrote, tail>>

(* end_op() after commit().                                                  *)
Finish ==
    /\ phase = "committed"
    /\ committing' = FALSE
    /\ pc' = [p \in Proc |-> IF pc[p] = "commit" THEN "idle" ELSE Woken[p]]
    /\ phase' = "up"
    /\ UNCHANGED <<diskVars, bioVars, lh, outstanding, wrote, tail>>

(***************************************************************************)
(* The buffer cache, and crashes.                                          *)
(***************************************************************************)

(* bread() of a call that only reads.                                        *)
Bread(b) ==
    /\ Up
    /\ cache[b] = None
    /\ cache' = [cache EXCEPT ![b] = home[b]]
    /\ UNCHANGED <<diskVars, pins, buf, logVars, opVars, phase, tail>>

(* bget() recycles a buffer that nobody refers to for another block.         *)
Bget(b) ==
    /\ Up
    /\ cache[b] # None
    /\ pins[b] = 0
    /\ \A p \in Proc : buf[p] # b
    /\ cache' = [cache EXCEPT ![b] = None]
    /\ UNCHANGED <<diskVars, pins, buf, logVars, opVars, phase, tail>>

(* Power is lost, or the machine is restarted after a panic.  The block that *)
(* is being written may be torn.                                             *)
Crash ==
    /\ \/ UNCHANGED <<home, logblock>>
       \/ /\ phase \in {"recover", "install"}
          /\ tail <= Len(lh)
          /\ home' = [home EXCEPT ![lh[tail]] = Torn]
          /\ UNCHANGED logblock
       \/ /\ phase = "write_log"
          /\ tail <= Len(lh)
          /\ logblock' = [logblock EXCEPT ![tail] = Torn]
          /\ UNCHANGED home
    /\ UNCHANGED head
    /\ cache' = [b \in Block |-> None]
    /\ pins' = [b \in Block |-> 0]
    /\ buf' = [p \in Proc |-> None]
    /\ lh' = <<>>
    /\ outstanding' = 0
    /\ committing' = FALSE
    /\ pc' = [p \in Proc |-> "idle"]
    /\ wrote' = [p \in Proc |-> {}]
    /\ phase' = "read_head"
    /\ tail' = 1

OpStep(p) ==
    \/ BeginOp(p)
    \/ \E b \in Block, v \in Data : Modify(p, b, v)
    \/ LogWrite(p)
    \/ EndOp(p)

LogStep ==
    \/ ReadHead \/ InstallTrans \/ EraseHead
    \/ WriteLog \/ WriteHead \/ Finish

Next ==
    \/ \E p \in Proc : OpStep(p)
    \/ LogStep
    \/ \E b \in Block : Bread(b) \/ Bget(b)
    \/ Crash

Spec == Init /\ [][Next]_vars

(* initlog() and commit() go on, a call that has changed a buffer goes on to *)
(* log it, and every call reaches its end_op() at last.                      *)
Fairness ==
    /\ WF_vars(LogStep)
    /\ \A p \in Proc : WF_vars(LogWrite(p)) /\ SF_vars(EndOp(p))

FairSpec == Spec /\ Fairness

(***************************************************************************)
(* Properties.                                                             *)
(***************************************************************************)

Active == {p \in Proc : pc[p] \in {"in", "modified"}}

(* Every variable has its type; a logged block is pinned once, however often *)
(* it is written, and any other block not at all.                            *)
TypeOK ==
    /\ home \in [Block -> Data \cup {Torn}]
    /\ head \in Seq(Block)
    /\ logblock \in [1..LOGSIZE -> Data \cup {Torn}]
    /\ cache \in [Block -> Data \cup {Torn, None}]
    /\ pins \in [Block -> {0, 1}]
    /\ buf \in [Proc -> Block \cup {None}]
    /\ lh \in Seq(Block)
    /\ outstanding \in Nat
    /\ committing \in BOOLEAN
    /\ pc \in [Proc -> {"idle", "begin", "asleep", "in", "modified", "commit"}]
    /\ wrote \in [Proc -> SUBSET Block]
    /\ phase \in {"read_head", "recover", "up", "write_log", "install",
                  "committed", "panic"}
    /\ tail \in Nat \ {0}

(* A commit has the system to itself: while one process commits no other is  *)
(* between begin_op() and end_op(), so end_op() never panics and the blocks  *)
(* it copies do not change meanwhile.                                        *)
CommitAlone ==
    /\ committing => Active = {} /\ outstanding = 0
    /\ committing <=> \E p \in Proc : pc[p] = "commit"
    /\ \A p, q \in Proc : pc[p] = "commit" /\ pc[q] = "commit" => p = q

(* One element for each block that an active call may still add to the log.  *)
ToCome ==
    {r \in Active \X (1..MAXOPBLOCKS) :
        r[2] > Cardinality(wrote[r[1]] \cap ToSet(lh))}

(* What begin_op() reserves is enough: the blocks logged so far with what    *)
(* the active calls may still log never exceed LOGSIZE.                      *)
LogHasRoom == Len(lh) + Cardinality(ToCome) <= LOGSIZE

(* No wakeup is lost: a process sleeps in begin_op() only while what it      *)
(* waits for has not come.                                                   *)
SleepersHaveReason ==
    phase # "panic" =>
        \A p \in Proc : pc[p] = "asleep" =>
            committing \/ Len(lh) + (outstanding + 1) * MAXOPBLOCKS > LOGSIZE

(* What a restart would find: the header's blocks as they are in the log.    *)
Recovered ==
    [b \in Block |->
        IF b \in ToSet(head)
        THEN logblock[CHOOSE i \in 1..Len(head) : head[i] = b]
        ELSE home[b]]

(* What bread() finds.                                                       *)
Contents ==
    IF phase \in {"read_head", "recover"} THEN Recovered
    ELSE [b \in Block |-> IF cache[b] = None THEN home[b] ELSE cache[b]]

(* A transaction is on the disk wholly or not at all, wherever a crash or    *)
(* several strike, and it is there when the last end_op() returns.           *)
Store == INSTANCE AtomicStore
    WITH store <- Recovered, mem <- Contents, active <- Active,
         ending <- {p \in Proc : pc[p] = "commit"}
StoreSpec == Store!Spec

(* Whoever sleeps in begin_op() is woken, unless the kernel panics.          *)
SleepersWake ==
    \A p \in Proc : pc[p] = "asleep" ~> (pc[p] # "asleep" \/ phase = "panic")

(* log.c:134: a call that might exhaust the log waits in begin_op(), so no   *)
(* transaction of calls that write at most MAXOPBLOCKS blocks is too big.    *)
NeverTooBig == phase # "panic"
=============================================================================
