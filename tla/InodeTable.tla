----------------------------- MODULE InodeTable -----------------------------
(* The inodes of xv6, in memory and on disk, under the system calls on the   *)
(* files of one directory (a3/xv6-riscv/kernel/fs.c, sysfile.c, file.c).     *)
(* Every call is in a transaction; what the log promises is in AtomicStore:  *)
(* when no call is in progress all that was done is on disk.                 *)
EXTENDS Integers, FiniteSets

CONSTANTS
    Proc,
    Name,           \* the names in the directory
    Inum,           \* the inodes on disk
    Block,          \* the blocks for the content of files
    NINODE,         \* the entries of itable
    MaxCrash,       \* bound of this model: crashes
    Nil

InodeAssumption ==
    /\ IsFiniteSet(Proc) /\ IsFiniteSet(Name)
    /\ NINODE \in Nat /\ Inum \subseteq Nat /\ MaxCrash \in Nat
    /\ Nil \notin Proc \cup Name \cup Nat

Slot == 1..NINODE

VARIABLES
    \* the blocks, as the calls in progress have them in the buffer cache:
    dinode,         \* struct dinode; a type 0 is FALSE
    dir,            \* the directory: the inode of each name
    bitmap,         \* the blocks in use
    stored,         \* the same on disk
    itable,         \* the inodes in memory, but their sleep-locks:
    ilocked,        \* who has each
    rootlock,       \* who has the one of the directory
    file,           \* the inode of the file a process has open
    pc, ip, name,   \* where a process is in its call, and its variables
    crashes

blocks == <<dinode, dir, bitmap>>
vars == <<blocks, stored, itable, ilocked, rootlock, file, pc, ip, name, crashes>>

FreeDinode == [type |-> FALSE, nlink |-> 0, addrs |-> {}]
FreeEntry == [inum |-> 0, ref |-> 0, valid |-> FALSE, copy |-> FreeDinode]

Start ==
    /\ itable = [s \in Slot |-> FreeEntry]
    /\ ilocked = [s \in Slot |-> Nil]
    /\ rootlock = Nil
    /\ file = [p \in Proc |-> Nil]
    /\ pc = [p \in Proc |-> "idle"]
    /\ ip = [p \in Proc |-> Nil]
    /\ name = [p \in Proc |-> Nil]

Init ==
    /\ dinode = [i \in Inum |-> FreeDinode]
    /\ dir = [n \in Name |-> Nil]
    /\ bitmap = {}
    /\ stored = blocks
    /\ Start
    /\ crashes = 0

At(p, where) == pc[p] = where
Go(p, where) == pc' = [pc EXCEPT ![p] = where] /\ UNCHANGED stored

(* end_op(): the last call in progress commits.                              *)
Return(p) ==
    /\ pc' = [pc EXCEPT ![p] = "idle"]
    /\ stored' = IF \A q \in Proc \ {p} : pc[q] = "idle" THEN blocks' ELSE stored

Lowest(i, s) == i \in s /\ \A j \in s : i <= j

(* Mutant: it takes a free entry always.                                     *)
igetFree(p, i) ==
    \E s \in Slot :
        /\ Lowest(s, {t \in Slot : itable[t].ref = 0})
        /\ itable' = [itable EXCEPT ![s] =
                          [FreeEntry EXCEPT !.inum = i, !.ref = 1]]
        /\ ip' = [ip EXCEPT ![p] = s]

(* iget(): the entry of the inode, or the first that is free.                *)
Holding(i) == {s \in Slot : itable[s].ref > 0 /\ itable[s].inum = i}
iget(p, i) ==
    \E s \in Slot :
        /\ IF Holding(i) # {}
           THEN /\ s \in Holding(i)
                /\ itable' = [itable EXCEPT ![s].ref = @ + 1]
           ELSE /\ Lowest(s, {t \in Slot : itable[t].ref = 0})
                /\ itable' = [itable EXCEPT ![s] =
                             [FreeEntry EXCEPT !.inum = i, !.ref = 1]]
        /\ ip' = [ip EXCEPT ![p] = s]

(* ilock(): the copy, read from disk if need be; change it, and iupdate().   *)
Copy(s) ==
    IF itable[s].valid THEN itable[s].copy ELSE dinode[itable[s].inum]
SetCopy(s, copy) ==
    itable' = [itable EXCEPT ![s].copy = copy, ![s].valid = TRUE]
iupdate(s, copy) ==
    SetCopy(s, copy) /\ dinode' = [dinode EXCEPT ![itable[s].inum] = copy]
MoreLinks(s, n) == [Copy(s) EXCEPT !.nlink = @ + n]

Unlocked(s) == ilocked[s] = Nil
Lock(p, s) == Unlocked(s) /\ ilocked' = [ilocked EXCEPT ![s] = p]
Unlock(s) == ilocked' = [ilocked EXCEPT ![s] = Nil]

(* sys_open(): namei(), also for a name that create() finds.                 *)
Open(p, n) ==
    /\ At(p, "idle") /\ file[p] = Nil /\ rootlock = Nil /\ dir[n] # Nil
    /\ iget(p, dir[n])
    /\ Go(p, "open")
    /\ UNCHANGED <<blocks, ilocked, rootlock, file, name, crashes>>

OpenLock(p) ==
    /\ At(p, "open") /\ Lock(p, ip[p]) /\ SetCopy(ip[p], Copy(ip[p]))
    /\ Go(p, "opens")
    /\ UNCHANGED <<blocks, rootlock, file, ip, name, crashes>>

(* It gets a file, and truncates it or not; or there is no file left.        *)
OpenFile(p) ==
    /\ At(p, "opens") /\ Unlock(ip[p])
    /\ \/ UNCHANGED <<dinode, bitmap, itable>>
       \/ /\ iupdate(ip[p], [Copy(ip[p]) EXCEPT !.addrs = {}])
          /\ bitmap' = bitmap \ Copy(ip[p]).addrs
    /\ file' = [file EXCEPT ![p] = ip[p]]
    /\ ip' = [ip EXCEPT ![p] = Nil]
    /\ UNCHANGED <<dir, rootlock, name, crashes>>
    /\ Return(p)

OpenFails(p) ==
    /\ At(p, "opens") /\ Unlock(ip[p])
    /\ Go(p, "put")
    /\ UNCHANGED <<blocks, itable, rootlock, file, ip, name, crashes>>

(* create(): ialloc() takes the first inode that is free on disk.            *)
Create(p, n) ==
    /\ At(p, "idle") /\ file[p] = Nil /\ rootlock = Nil /\ dir[n] = Nil
    /\ \E i \in Inum :
          /\ Lowest(i, {j \in Inum : ~dinode[j].type})
          /\ dinode' = [dinode EXCEPT ![i] = [FreeDinode EXCEPT !.type = TRUE]]
          /\ ip' = [ip EXCEPT ![p] = i]
    /\ rootlock' = p
    /\ name' = [name EXCEPT ![p] = n]
    /\ Go(p, "create")
    /\ UNCHANGED <<dir, bitmap, itable, ilocked, file, crashes>>

(* iget() of the inode, whose number is in ip[p] until then.                 *)
CreateGet(p) ==
    /\ At(p, "create") /\ iget(p, ip[p])
    /\ Go(p, "creates")
    /\ UNCHANGED <<blocks, ilocked, rootlock, file, name, crashes>>

CreateLink(p) ==
    /\ At(p, "creates") /\ Lock(p, ip[p])
    /\ iupdate(ip[p], [Copy(ip[p]) EXCEPT !.nlink = 1])
    /\ dir' = [dir EXCEPT ![name[p]] = itable[ip[p]].inum]
    /\ rootlock' = Nil
    /\ name' = [name EXCEPT ![p] = Nil]
    /\ Go(p, "opens")
    /\ UNCHANGED <<bitmap, file, ip, crashes>>

(* There is no block for the entry; the directory is locked until the end.   *)
CreateFails(p) ==
    /\ At(p, "creates") /\ Unlocked(ip[p])
    /\ iupdate(ip[p], [Copy(ip[p]) EXCEPT !.nlink = 0])
    /\ name' = [name EXCEPT ![p] = Nil]
    /\ Go(p, "put")
    /\ UNCHANGED <<dir, bitmap, ilocked, rootlock, file, ip, crashes>>

(* filewrite() of a new block, if there is one.                              *)
Write(p) ==
    /\ At(p, "idle") /\ file[p] # Nil
    /\ Lock(p, file[p]) /\ SetCopy(file[p], Copy(file[p]))
    /\ Go(p, "write")
    /\ UNCHANGED <<blocks, rootlock, file, ip, name, crashes>>

WriteBlock(p) ==
    /\ At(p, "write") /\ Unlock(file[p])
    /\ \/ \E b \in Block \ bitmap :
             /\ bitmap' = bitmap \cup {b}
             /\ iupdate(file[p], [Copy(file[p]) EXCEPT !.addrs = @ \cup {b}])
       \/ Block \subseteq bitmap /\ UNCHANGED <<dinode, bitmap, itable>>
    /\ UNCHANGED <<dir, rootlock, file, ip, name, crashes>>
    /\ Return(p)

Close(p) ==
    /\ At(p, "idle") /\ file[p] # Nil
    /\ ip' = [ip EXCEPT ![p] = file[p]]
    /\ file' = [file EXCEPT ![p] = Nil]
    /\ Go(p, "put")
    /\ UNCHANGED <<blocks, itable, ilocked, rootlock, name, crashes>>

(* sys_unlink(): it has the directory while it waits for the inode.          *)
Unlink(p, n) ==
    /\ At(p, "idle") /\ rootlock = Nil /\ dir[n] # Nil
    /\ iget(p, dir[n])
    /\ rootlock' = p
    /\ name' = [name EXCEPT ![p] = n]
    /\ Go(p, "unlink")
    /\ UNCHANGED <<blocks, ilocked, file, crashes>>

UnlinkName(p) ==
    /\ At(p, "unlink") /\ Lock(p, ip[p]) /\ SetCopy(ip[p], Copy(ip[p]))
    /\ dir' = [dir EXCEPT ![name[p]] = Nil]
    /\ rootlock' = Nil
    /\ name' = [name EXCEPT ![p] = Nil]
    /\ Go(p, "unlinks")
    /\ UNCHANGED <<dinode, bitmap, file, ip, crashes>>

UnlinkInode(p) ==
    /\ At(p, "unlinks") /\ Unlock(ip[p])
    /\ iupdate(ip[p], MoreLinks(ip[p], -1))
    /\ Go(p, "put")
    /\ UNCHANGED <<dir, bitmap, rootlock, file, ip, name, crashes>>

(* sys_link(): the link is counted before the name is there.                 *)
Link(p, old, new) ==
    /\ At(p, "idle") /\ rootlock = Nil /\ dir[old] # Nil
    /\ iget(p, dir[old])
    /\ name' = [name EXCEPT ![p] = new]
    /\ Go(p, "link")
    /\ UNCHANGED <<blocks, ilocked, rootlock, file, crashes>>

(* Mutant: it is counted without being written.                              *)
LinkInodeUnwritten(p) ==
    /\ At(p, "link") /\ Unlocked(ip[p])
    /\ SetCopy(ip[p], MoreLinks(ip[p], 1))
    /\ Go(p, "links")
    /\ UNCHANGED <<blocks, ilocked, rootlock, file, ip, name, crashes>>

LinkInode(p) ==
    /\ At(p, "link") /\ Unlocked(ip[p])
    /\ iupdate(ip[p], MoreLinks(ip[p], 1))
    /\ Go(p, "links")
    /\ UNCHANGED <<dir, bitmap, ilocked, rootlock, file, ip, name, crashes>>

LinkName(p) ==
    /\ At(p, "links") /\ rootlock = Nil /\ dir[name[p]] = Nil
    /\ dir' = [dir EXCEPT ![name[p]] = itable[ip[p]].inum]
    /\ name' = [name EXCEPT ![p] = Nil]
    /\ Go(p, "put")
    /\ UNCHANGED <<dinode, bitmap, itable, ilocked, rootlock, file, ip, crashes>>

(* The name is taken, or there is no block for it.                           *)
LinkFails(p) ==
    /\ At(p, "links") /\ rootlock = Nil
    /\ name' = [name EXCEPT ![p] = Nil]
    /\ Go(p, "undo")
    /\ UNCHANGED <<blocks, itable, ilocked, rootlock, file, ip, crashes>>

(* Mutant: the link stays counted.                                           *)
LinkKeptCounted(p) ==
    /\ At(p, "undo") /\ Unlocked(ip[p])
    /\ Go(p, "put")
    /\ UNCHANGED <<blocks, itable, ilocked, rootlock, file, ip, name, crashes>>

LinkUndone(p) ==
    /\ At(p, "undo") /\ Unlocked(ip[p])
    /\ iupdate(ip[p], MoreLinks(ip[p], -1))
    /\ Go(p, "put")
    /\ UNCHANGED <<dir, bitmap, ilocked, rootlock, file, ip, name, crashes>>

(* Mutant: any reference is the last.                                        *)
IsLastAny(s) == itable[s].valid /\ itable[s].copy.nlink = 0

(* iput(), with itable.lock: is the inode to be freed?                       *)
IsLast(s) ==
    /\ itable[s].ref = 1 /\ itable[s].valid /\ itable[s].copy.nlink = 0

(* The reference is dropped, and with it the directory if create() has it.   *)
(* What an entry without references has is not read again: it is forgotten.  *)
Drop(p) ==
    /\ itable' = IF itable[ip[p]].ref = 1
                 THEN [itable EXCEPT ![ip[p]] = FreeEntry]
                 ELSE [itable EXCEPT ![ip[p]].ref = @ - 1]
    /\ ip' = [ip EXCEPT ![p] = Nil]
    /\ rootlock' = IF rootlock = p THEN Nil ELSE rootlock
    /\ UNCHANGED <<blocks, ilocked, file, name, crashes>>
    /\ Return(p)

Put(p) == At(p, "put") /\ ~IsLast(ip[p]) /\ Drop(p)

(* Mutant: the sleep-lock is kept.                                           *)
FreedLocked(p) ==
    /\ At(p, "freed") /\ UNCHANGED ilocked
    /\ itable' = [itable EXCEPT ![ip[p]].valid = FALSE]
    /\ Go(p, "drop")
    /\ UNCHANGED <<blocks, rootlock, file, ip, name, crashes>>

PutLast(p) ==
    /\ At(p, "put") /\ IsLast(ip[p]) /\ Lock(p, ip[p])
    /\ Go(p, "free")
    /\ UNCHANGED <<blocks, itable, rootlock, file, ip, name, crashes>>

(* itrunc(), and the type; then other processes may allocate the inode.      *)
Free(p) ==
    /\ At(p, "free")
    /\ bitmap' = bitmap \ Copy(ip[p]).addrs
    /\ iupdate(ip[p], [Copy(ip[p]) EXCEPT !.addrs = {}, !.type = FALSE])
    /\ Go(p, "freed")
    /\ UNCHANGED <<dir, ilocked, rootlock, file, ip, name, crashes>>

(* Mutant: the copy stays valid.                                             *)
FreedValid(p) ==
    /\ At(p, "freed") /\ Unlock(ip[p])
    /\ Go(p, "drop")
    /\ UNCHANGED <<blocks, itable, rootlock, file, ip, name, crashes>>

Freed(p) ==
    /\ At(p, "freed") /\ Unlock(ip[p])
    /\ itable' = [itable EXCEPT ![ip[p]].valid = FALSE]
    /\ Go(p, "drop")
    /\ UNCHANGED <<blocks, rootlock, file, ip, name, crashes>>

PutFreed(p) == At(p, "drop") /\ Drop(p)

(* What is not on disk is lost.                                              *)
Crash ==
    /\ crashes < MaxCrash
    /\ crashes' = crashes + 1
    /\ dinode' = stored[1] /\ dir' = stored[2] /\ bitmap' = stored[3]
    /\ itable' = [s \in Slot |-> FreeEntry]
    /\ ilocked' = [s \in Slot |-> Nil]
    /\ rootlock' = Nil
    /\ file' = [p \in Proc |-> Nil]
    /\ pc' = [p \in Proc |-> "idle"]
    /\ ip' = [p \in Proc |-> Nil]
    /\ name' = [p \in Proc |-> Nil]
    /\ UNCHANGED stored

Calls(p) ==
    \/ \E n \in Name : Open(p, n) \/ Create(p, n) \/ Unlink(p, n)
    \/ \E old, new \in Name : Link(p, old, new)
    \/ Write(p) \/ Close(p)

GoesOn(p) ==
    \/ OpenLock(p) \/ OpenFile(p) \/ OpenFails(p)
    \/ CreateGet(p) \/ CreateLink(p) \/ CreateFails(p)
    \/ WriteBlock(p) \/ UnlinkName(p) \/ UnlinkInode(p)
    \/ LinkInode(p) \/ LinkName(p) \/ LinkFails(p) \/ LinkUndone(p)
    \/ Put(p) \/ PutLast(p) \/ Free(p) \/ Freed(p) \/ PutFreed(p)

Next == Crash \/ \E p \in Proc : Calls(p) \/ GoesOn(p)

Spec == Init /\ [][Next]_vars

(* A call in progress gets a lock that is free again and again.              *)
Fairness == \A p \in Proc : SF_vars(GoesOn(p))
FairSpec == Spec /\ Fairness

(***************************************************************************)
(* Properties.                                                             *)
(***************************************************************************)

Dinode == [type : BOOLEAN, nlink : Nat, addrs : SUBSET Block]

(* Every variable has its type.                                              *)
TypeOK ==
    /\ dinode \in [Inum -> Dinode]
    /\ dir \in [Name -> Inum \cup {Nil}] /\ bitmap \subseteq Block
    /\ itable \in [Slot -> [inum : Inum \cup {0}, ref : Nat, valid : BOOLEAN,
                            copy : Dinode]]
    /\ {ilocked[s] : s \in Slot} \cup {rootlock} \subseteq Proc \cup {Nil}
    /\ file \in [Proc -> Slot \cup {Nil}]
    /\ name \in [Proc -> Name \cup {Nil}]

(* The references of an entry are the variables and files that name it, and  *)
(* an inode has one entry, so that its sleep-lock excludes everybody.        *)
RefsExact ==
    /\ \A s \in Slot : itable[s].ref =
          Cardinality({p \in Proc : ip[p] = s /\ pc[p] # "create"})
          + Cardinality({p \in Proc : file[p] = s})
    /\ \A i \in Inum : Cardinality(Holding(i)) <= 1

(* A copy that counts as valid is that of the disk, unless somebody who has  *)
(* it locked is changing it: also when an inode is freed and given to        *)
(* another file while its entry is still in use.                             *)
CopyIsTrue ==
    \A s \in Slot :
        itable[s].ref > 0 /\ itable[s].valid /\ Unlocked(s) =>
            itable[s].copy = dinode[itable[s].inum]

(* iput() takes the sleep-lock with a spinlock held, so it must be free.     *)
PutNeedNotWait ==
    \A p \in Proc : At(p, "put") /\ IsLast(ip[p]) => Unlocked(ip[p])

(* ilock() finds an inode in use, and sys_unlink() one that has a link.      *)
NoPanic ==
    \A p \in Proc :
        /\ pc[p] \in {"open", "creates", "unlink", "link", "undo"}
        /\ Unlocked(ip[p])
        => Copy(ip[p]).type /\ (At(p, "unlink") => Copy(ip[p]).nlink > 0)

(* What a crash leaves, or a restart finds: an inode has as many links as    *)
(* names, a block in use belongs to one file, and each name has an inode.    *)
StoredConsistent ==
    LET d == stored[1]
        inUse == {i \in Inum : d[i].type}
    IN  /\ \A i \in inUse :
              d[i].nlink = Cardinality({n \in Name : stored[2][n] = i})
        /\ \A n \in Name : stored[2][n] \in inUse \cup {Nil}
        /\ stored[3] = UNION {d[i].addrs : i \in inUse}
        /\ \A i, j \in inUse : i # j => d[i].addrs \cap d[j].addrs = {}

(* When no call is in progress an inode without a name is free, unless a     *)
(* process has it open.                                                      *)
NoOrphan ==
    (\A p \in Proc : pc[p] = "idle") =>
        \A i \in Inum :
            dinode[i].type /\ dinode[i].nlink = 0 =>
                \E p \in Proc : file[p] # Nil /\ itable[file[p]].inum = i

(* A call returns: nobody waits for a lock in a circle, or for ever.         *)
CallReturns == \A p \in Proc : pc[p] # "idle" ~> pc[p] = "idle"
=============================================================================
