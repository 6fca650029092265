---------------------------- MODULE InodeProofs -----------------------------
(* The table of inodes and the disk of InodeTable, for any number of         *)
(* processes, names, inodes and blocks.                                      *)
EXTENDS InodeTable, FiniteSetTheorems, TLAPS

-----------------------------------------------------------------------------
(* The invariant.                                                            *)

Stage == {"idle", "open", "opens", "create", "creates", "write", "put", "unlink",
          "unlinks", "link", "links", "undo", "free", "freed", "drop"}

(* A process refers to an inode by the entry in ip, by that of its file, or  *)
(* by the number that ialloc() returned.                                     *)
HasEntry(p) == pc[p] \notin {"idle", "write", "create"}
On(p, i) == HasEntry(p) /\ itable[ip[p]].inum = i
Opens(p, i) == file[p] # Nil /\ itable[file[p]].inum = i
Makes(p, i) == pc[p] = "create" /\ ip[p] = i

Ips(s) == {p \in Proc : ip[p] = s /\ pc[p] # "create"}
Files(s) == {p \in Proc : file[p] = s}
Names(names, i) == {n \in Name : names[n] = i}

(* The processes whose link to an inode is counted and has no name.          *)
Pending(i) ==
    {p \in Proc : pc[p] \in {"links", "undo", "unlinks"} /\ On(p, i)}

(* What the variables of a process are in each of its states, and who has    *)
(* the directory.                                                            *)
StageOf(p) ==
    /\ pc[p] \in {"idle", "write"} => ip[p] = Nil
    /\ pc[p] = "create" => ip[p] \in Inum
    /\ HasEntry(p) => ip[p] \in Slot
    /\ pc[p] \in {"open", "opens", "create", "creates"} => file[p] = Nil
    /\ pc[p] = "write" => file[p] # Nil
    /\ pc[p] \in {"create", "creates", "unlink", "link", "links"} =>
          name[p] \in Name
    /\ pc[p] \in {"create", "creates"} => rootlock = p /\ dir[name[p]] = Nil
    /\ pc[p] = "unlink" => rootlock = p /\ On(p, dir[name[p]])
    /\ rootlock = p =>
          pc[p] \in {"create", "creates", "unlink", "put", "free", "freed", "drop"}
StagesFit ==
    /\ pc \in [Proc -> Stage] /\ ip \in [Proc -> Slot \cup Inum \cup {Nil}]
    /\ \A p \in Proc : StageOf(p)

(* Who has the sleep-lock of an entry.                                       *)
Locks(p, s) ==
    \/ pc[p] \in {"opens", "unlinks", "free", "freed"} /\ ip[p] = s
    \/ pc[p] = "write" /\ file[p] = s
LocksFit ==
    /\ ilocked \in [Slot -> Proc \cup {Nil}]
    /\ \A s \in Slot, p \in Proc : ilocked[s] = p <=> Locks(p, s)

(* The count of an entry, and that an inode has one.                         *)
CountFits(s) == itable[s].ref = Cardinality(Ips(s)) + Cardinality(Files(s))
EntriesFit ==
    /\ \A s \in Slot : CountFits(s)
    /\ \A s \in Slot : itable[s].ref > 0 => itable[s].inum \in Inum
    /\ \A s, t \in Slot :
          itable[s].ref > 0 /\ itable[t].ref > 0
             /\ itable[s].inum = itable[t].inum => s = t

(* An inode that somebody uses is not free on disk.                          *)
RefsLive ==
    \A p \in Proc, i \in Inum :
        \/ On(p, i) /\ pc[p] \notin {"freed", "drop"}
        \/ Opens(p, i)
        \/ Makes(p, i)
        => dinode[i].type

(* An inode that create() makes is its own but for those that freed it.      *)
Newborn ==
    \A p \in Proc, i \in Inum :
        Makes(p, i) \/ (pc[p] = "creates" /\ On(p, i)) =>
            /\ dinode[i].nlink = 0
            /\ \A q \in Proc \ {p} : On(q, i) => pc[q] \in {"freed", "drop"}
            /\ \A q \in Proc : ~Opens(q, i)

(* An inode that iput() is to free has no other reference.                   *)
FreeAlone ==
    \A p \in Proc, i \in Inum :
        pc[p] = "free" /\ On(p, i) =>
            /\ dinode[i].nlink = 0
            /\ \A q \in Proc \ {p} : ~On(q, i)
            /\ \A q \in Proc : ~Opens(q, i)

(* A valid copy is that of an inode in use, and true, until it was freed.    *)
CopyFits(s) ==
    itable[s].ref > 0 /\ itable[s].valid =>
        \/ /\ itable[s].copy = dinode[itable[s].inum]
           /\ dinode[itable[s].inum].type
        \/ \E p \in Proc : pc[p] = "freed" /\ ip[p] = s
CopiesFit == \A s \in Slot : CopyFits(s)

(* What is in the blocks, but for the links: names have inodes, what is free *)
(* is empty, and a block has one owner.                                      *)
DiskFits(d, names, used) ==
    /\ \A i \in Inum : ~d[i].type => d[i] = FreeDinode
    /\ \A n \in Name : names[n] # Nil => d[names[n]].type
    /\ used = UNION {d[i].addrs : i \in Inum}
    /\ \A i, j \in Inum : i # j => d[i].addrs \cap d[j].addrs = {}

LinksExact ==
    \A i \in Inum :
        dinode[i].nlink = Cardinality(Names(dir, i)) + Cardinality(Pending(i))

StoredFits ==
    /\ stored = <<stored[1], stored[2], stored[3]>>
    /\ stored[1] \in [Inum -> Dinode]
    /\ stored[2] \in [Name -> Inum \cup {Nil}]
    /\ stored[3] \subseteq Block
    /\ DiskFits(stored[1], stored[2], stored[3])
    /\ \A i \in Inum :
          stored[1][i].nlink = Cardinality(Names(stored[2], i))

InodeInv ==
    /\ TypeOK /\ StagesFit /\ LocksFit /\ EntriesFit
    /\ RefsLive /\ Newborn /\ FreeAlone /\ CopiesFit
    /\ DiskFits(dinode, dir, bitmap) /\ LinksExact
    /\ StoredFits

-----------------------------------------------------------------------------
(* Counting.                                                                 *)

Bit(b) == IF b THEN 1 ELSE 0

(* Sets that differ in one element at most.                                  *)
LEMMA BitCount ==
    ASSUME NEW A, NEW B, IsFiniteSet(A), NEW x,
           \A y : y # x => (y \in A <=> y \in B)
    PROVE  /\ IsFiniteSet(B)
           /\ Cardinality(A) \in Nat /\ Cardinality(B) \in Nat
           /\ Cardinality(B) + Bit(x \in A) = Cardinality(A) + Bit(x \in B)
<1>1. CASE x \in A /\ x \notin B
    <2>1. B = A \ {x}
        BY <1>1
    <2>2. IsFiniteSet(B) /\ Cardinality(B) = Cardinality(A) - 1
        BY <2>1, <1>1, FS_RemoveElement
    <2> QED BY <2>2, <1>1, FS_CardinalityType DEF Bit
<1>2. CASE x \notin A /\ x \in B
    <2>1. B = A \cup {x}
        BY <1>2
    <2>2. IsFiniteSet(B) /\ Cardinality(B) = Cardinality(A) + 1
        BY <2>1, <1>2, FS_AddElement
    <2> QED BY <2>2, <1>2, FS_CardinalityType DEF Bit
<1>3. CASE x \in A <=> x \in B
    <2>1. A = B
        BY <1>3
    <2> QED BY <2>1, FS_CardinalityType DEF Bit
<1> QED BY <1>1, <1>2, <1>3

LEMMA NotEmpty ==
    ASSUME NEW A, IsFiniteSet(A), NEW x \in A
    PROVE  Cardinality(A) \in Nat /\ Cardinality(A) > 0
<1>1. Cardinality(A) \in Nat /\ Cardinality(A) # 0
    BY FS_CardinalityType, FS_EmptySet
<1> QED BY <1>1

(* The subsets of what is finite that the invariant counts.                  *)
LEMMA Finite ==
    ASSUME InodeAssumption
    PROVE  /\ \A s : IsFiniteSet(Ips(s)) /\ IsFiniteSet(Files(s))
           /\ \A i : IsFiniteSet(Pending(i))
           /\ \A names, i : IsFiniteSet(Names(names, i))
<1>1. IsFiniteSet(Proc) /\ IsFiniteSet(Name)
    BY DEF InodeAssumption
<1>2. \A s : Ips(s) \in SUBSET Proc /\ Files(s) \in SUBSET Proc
    BY DEF Ips, Files
<1>3. \A i : Pending(i) \in SUBSET Proc
    BY Zenon DEF Pending
<1>4. \A names, i : Names(names, i) \in SUBSET Name
    BY DEF Names
<1>5. \A T : IsFiniteSet(T) => \A S \in SUBSET T : IsFiniteSet(S)
    BY FS_Subset
<1>6. \A s : IsFiniteSet(Ips(s)) /\ IsFiniteSet(Files(s))
    BY <1>1, <1>2, <1>5, Zenon
<1>7. \A i : IsFiniteSet(Pending(i))
    BY <1>1, <1>3, <1>5, Zenon
<1>8. \A names, i : IsFiniteSet(Names(names, i))
    BY <1>1, <1>4, <1>5, Zenon
<1> QED BY <1>6, <1>7, <1>8

LEMMA Apart ==
    ASSUME InodeAssumption
    PROVE  /\ Nil \notin Proc /\ Nil \notin Name
           /\ Nil \notin Inum /\ Nil \notin Slot
           /\ Slot \subseteq Nat /\ Inum \subseteq Nat
<1>1. Slot \subseteq Nat
    BY DEF Slot
<1> QED BY <1>1 DEF InodeAssumption

(* Who refers to an entry is counted in it.                                  *)
LEMMA Referred ==
    ASSUME InodeAssumption, TypeOK, StagesFit, EntriesFit, NEW p \in Proc
    PROVE  /\ HasEntry(p) =>
                 /\ ip[p] \in Slot /\ p \in Ips(ip[p])
                 /\ itable[ip[p]].ref > 0 /\ itable[ip[p]].inum \in Inum
           /\ file[p] # Nil =>
                 /\ file[p] \in Slot /\ p \in Files(file[p])
                 /\ itable[file[p]].ref > 0 /\ itable[file[p]].inum \in Inum
<1>1. ASSUME HasEntry(p)
      PROVE  /\ ip[p] \in Slot /\ p \in Ips(ip[p])
             /\ itable[ip[p]].ref > 0 /\ itable[ip[p]].inum \in Inum
    <2>1. ip[p] \in Slot /\ p \in Ips(ip[p])
        BY <1>1 DEF StagesFit, StageOf, Ips, HasEntry
    <2>2. /\ Cardinality(Ips(ip[p])) \in Nat /\ Cardinality(Ips(ip[p])) > 0
          /\ Cardinality(Files(ip[p])) \in Nat
        BY <2>1, Finite, NotEmpty, FS_CardinalityType
    <2> QED BY <2>1, <2>2 DEF EntriesFit, CountFits
<1>2. ASSUME file[p] # Nil
      PROVE  /\ file[p] \in Slot /\ p \in Files(file[p])
             /\ itable[file[p]].ref > 0 /\ itable[file[p]].inum \in Inum
    <2>1. file[p] \in Slot /\ p \in Files(file[p])
        BY <1>2 DEF TypeOK, Files
    <2>2. /\ Cardinality(Files(file[p])) \in Nat /\ Cardinality(Files(file[p])) > 0
          /\ Cardinality(Ips(file[p])) \in Nat
        BY <2>1, Finite, NotEmpty, FS_CardinalityType
    <2> QED BY <2>1, <2>2 DEF EntriesFit, CountFits
<1> QED BY <1>1, <1>2

(* Who has the only reference to an entry.                                   *)
LEMMA OnlyReference ==
    ASSUME InodeAssumption, TypeOK, StagesFit, EntriesFit,
           NEW p \in Proc, HasEntry(p), itable[ip[p]].ref = 1
    PROVE  /\ \A q \in Proc \ {p} : HasEntry(q) => ip[q] # ip[p]
           /\ \A q \in Proc : file[q] # ip[p]
<1> DEFINE s == ip[p]
           A == Ips(s)
           B == Files(s)
<1>1. s \in Slot /\ p \in A
    BY Referred
<1>2. IsFiniteSet(A) /\ IsFiniteSet(B)
    BY Finite
<1>3. /\ Cardinality(A) \in Nat /\ Cardinality(A) > 0 /\ Cardinality(B) \in Nat
      /\ Cardinality(A) + Cardinality(B) = 1
    BY <1>1, <1>2, NotEmpty, FS_CardinalityType DEF EntriesFit, CountFits
<1>4. Cardinality(A) = 1 /\ Cardinality(B) = 0
    BY <1>3
<1>5. B = {}
    BY <1>4, <1>2, FS_EmptySet
<1>6. A \ {p} = {}
    <2>1. IsFiniteSet(A \ {p}) /\ Cardinality(A \ {p}) = 0
        BY <1>1, <1>2, <1>4, FS_RemoveElement
    <2> QED BY <2>1, FS_EmptySet
<1> QED BY <1>5, <1>6 DEF Ips, Files, HasEntry

-----------------------------------------------------------------------------
(* What any step of p leaves to the others, and what it makes of an entry.   *)

SameRest(p) ==
    \A q \in Proc \ {p} :
        /\ pc'[q] = pc[q] /\ ip'[q] = ip[q]
        /\ name'[q] = name[q] /\ file'[q] = file[q]

LEMMA StepTyped ==
    ASSUME InodeAssumption, TypeOK, StagesFit, NEW p \in Proc, Calls(p) \/ GoesOn(p)
    PROVE  /\ SameRest(p)
           /\ pc' \in [Proc -> Stage] /\ ip' \in [Proc -> Slot \cup Inum \cup {Nil}]
           /\ file' \in [Proc -> Slot \cup {Nil}]
           /\ name' \in [Proc -> Name \cup {Nil}]
<1> USE DEF SameRest, Stage, Go, Return
<1>1. /\ pc \in [Proc -> Stage] /\ ip \in [Proc -> Slot \cup Inum \cup {Nil}]
      /\ file \in [Proc -> Slot \cup {Nil}] /\ name \in [Proc -> Name \cup {Nil}]
    BY DEF TypeOK, StagesFit
<1>2. ASSUME NEW n \in Name, Open(p, n)
      PROVE  /\ SameRest(p)
             /\ pc' \in [Proc -> Stage]
             /\ ip' \in [Proc -> Slot \cup Inum \cup {Nil}]
             /\ file' \in [Proc -> Slot \cup {Nil}]
             /\ name' \in [Proc -> Name \cup {Nil}]
    BY <1>1, <1>2 DEF Open, iget
<1>3. ASSUME NEW n \in Name, Create(p, n)
      PROVE  /\ SameRest(p)
             /\ pc' \in [Proc -> Stage]
             /\ ip' \in [Proc -> Slot \cup Inum \cup {Nil}]
             /\ file' \in [Proc -> Slot \cup {Nil}]
             /\ name' \in [Proc -> Name \cup {Nil}]
    BY <1>1, <1>3 DEF Create
<1>4. ASSUME NEW n \in Name, Unlink(p, n)
      PROVE  /\ SameRest(p)
             /\ pc' \in [Proc -> Stage]
             /\ ip' \in [Proc -> Slot \cup Inum \cup {Nil}]
             /\ file' \in [Proc -> Slot \cup {Nil}]
             /\ name' \in [Proc -> Name \cup {Nil}]
    BY <1>1, <1>4 DEF Unlink, iget
<1>5. ASSUME NEW old \in Name, NEW new \in Name, Link(p, old, new)
      PROVE  /\ SameRest(p)
             /\ pc' \in [Proc -> Stage]
             /\ ip' \in [Proc -> Slot \cup Inum \cup {Nil}]
             /\ file' \in [Proc -> Slot \cup {Nil}]
             /\ name' \in [Proc -> Name \cup {Nil}]
    BY <1>1, <1>5 DEF Link, iget
<1>6. CASE Write(p)
    BY <1>1, <1>6 DEF Write
<1>7. CASE Close(p)
    BY <1>1, <1>7 DEF Close
<1>8. CASE OpenLock(p)
    BY <1>1, <1>8 DEF OpenLock
<1>9. CASE OpenFile(p)
    <2>1. /\ pc' = [pc EXCEPT ![p] = "idle"] /\ ip' = [ip EXCEPT ![p] = Nil]
          /\ file' = [file EXCEPT ![p] = ip[p]] /\ name' = name
          /\ pc[p] = "opens"
        BY <1>9, Zenon DEF OpenFile, At
    <2>2. ip[p] \in Slot
        BY <2>1 DEF StagesFit, StageOf, HasEntry
    <2> QED BY <1>1, <2>1, <2>2
<1>10. CASE OpenFails(p)
    BY <1>1, <1>10 DEF OpenFails
<1>11. CASE CreateGet(p)
    BY <1>1, <1>11 DEF CreateGet, iget
<1>12. CASE CreateLink(p)
    BY <1>1, <1>12 DEF CreateLink
<1>13. CASE CreateFails(p)
    BY <1>1, <1>13 DEF CreateFails
<1>14. CASE WriteBlock(p)
    BY <1>1, <1>14 DEF WriteBlock
<1>15. CASE UnlinkName(p)
    BY <1>1, <1>15 DEF UnlinkName
<1>16. CASE UnlinkInode(p)
    BY <1>1, <1>16 DEF UnlinkInode
<1>17. CASE LinkInode(p)
    BY <1>1, <1>17 DEF LinkInode
<1>18. CASE LinkName(p)
    BY <1>1, <1>18 DEF LinkName
<1>19. CASE LinkFails(p)
    BY <1>1, <1>19 DEF LinkFails
<1>20. CASE LinkUndone(p)
    BY <1>1, <1>20 DEF LinkUndone
<1>21. CASE Put(p)
    BY <1>1, <1>21 DEF Put, Drop
<1>22. CASE PutLast(p)
    BY <1>1, <1>22 DEF PutLast
<1>23. CASE Free(p)
    BY <1>1, <1>23 DEF Free
<1>24. CASE Freed(p)
    BY <1>1, <1>24 DEF Freed
<1>25. CASE PutFreed(p)
    BY <1>1, <1>25 DEF PutFreed, Drop
<1> QED BY <1>2, <1>3, <1>4, <1>5, <1>6, <1>7, <1>8, <1>9, <1>10, <1>11, <1>12, <1>13, <1>14, <1>15, <1>16, <1>17, <1>18, <1>19, <1>20, <1>21, <1>22, <1>23, <1>24, <1>25 DEF Calls, GoesOn

(* The references of p to an entry.                                          *)
Mine(p, s) == Bit(ip[p] = s /\ pc[p] # "create") + Bit(file[p] = s)

(* The counts follow the references of p, and only p finds a free entry.     *)
RefsMove(p) ==
    \A s \in Slot :
        /\ itable'[s].ref + Mine(p, s) = itable[s].ref + Mine(p, s)'
        /\ itable'[s].ref > 0 =>
              \/ itable[s].ref > 0 /\ itable'[s].inum = itable[s].inum
              \/ /\ itable[s].ref = 0 /\ s = ip'[p] /\ itable'[s].inum \in Inum
                 /\ \A t \in Slot :
                       itable[t].ref > 0 => itable[t].inum # itable'[s].inum

(* The others refer to the inodes they did.                                  *)
OtherRefs(p) ==
    \A q \in Proc \ {p} :
        /\ pc'[q] = pc[q] /\ name'[q] = name[q] /\ (HasEntry(q)' <=> HasEntry(q))
        /\ \A i : /\ On(q, i)' <=> On(q, i)
                  /\ Opens(q, i)' <=> Opens(q, i)
                  /\ Makes(q, i)' <=> Makes(q, i)

LEMMA Counted ==
    ASSUME InodeAssumption, TypeOK, EntriesFit, NEW p \in Proc, SameRest(p),
           NEW s \in Slot
    PROVE  /\ IsFiniteSet(Ips(s)') /\ IsFiniteSet(Files(s)')
           /\ itable[s].ref \in Nat
           /\ Cardinality(Ips(s)') + Cardinality(Files(s)') \in Nat
           /\ Cardinality(Ips(s)') + Cardinality(Files(s)') + Mine(p, s)
                 = itable[s].ref + Mine(p, s)'
<1> DEFINE A == Ips(s)
           B == Files(s)
<1>1. IsFiniteSet(A) /\ IsFiniteSet(B)
    BY Finite
<1>2. \A q : q # p => (q \in A <=> q \in A')
    BY DEF SameRest, Ips
<1>3. \A q : q # p => (q \in B <=> q \in B')
    BY DEF SameRest, Files
<1>4. /\ p \in A <=> ip[p] = s /\ pc[p] # "create"
      /\ p \in A' <=> (ip[p] = s /\ pc[p] # "create")'
      /\ p \in B <=> file[p] = s
      /\ p \in B' <=> (file[p] = s)'
    BY DEF Ips, Files
<1>5. itable[s].ref = Cardinality(A) + Cardinality(B) /\ itable[s].ref \in Nat
    BY DEF EntriesFit, CountFits, TypeOK
<1> HIDE DEF A, B
<1>6. /\ IsFiniteSet(A') /\ Cardinality(A) \in Nat /\ Cardinality(A') \in Nat
      /\ Cardinality(A') + Bit(p \in A) = Cardinality(A) + Bit(p \in A')
    BY <1>1, <1>2, BitCount
<1>7. /\ IsFiniteSet(B') /\ Cardinality(B) \in Nat /\ Cardinality(B') \in Nat
      /\ Cardinality(B') + Bit(p \in B) = Cardinality(B) + Bit(p \in B')
    BY <1>1, <1>3, BitCount
<1>8. Cardinality(A') + Cardinality(B') + Mine(p, s) = itable[s].ref + Mine(p, s)'
    BY <1>4, <1>5, <1>6, <1>7 DEF Mine, Bit
<1> QED BY <1>5, <1>6, <1>7, <1>8 DEF A, B

LEMMA EntriesStep ==
    ASSUME InodeAssumption, TypeOK, StagesFit, EntriesFit, NEW p \in Proc,
           SameRest(p), RefsMove(p), itable' \in [Slot -> [inum : Inum \cup {0},
               ref : Nat, valid : BOOLEAN, copy : Dinode]],
           file' \in [Proc -> Slot \cup {Nil}]
    PROVE  EntriesFit' /\ OtherRefs(p)
<1>1. \A s \in Slot : CountFits(s)'
    <2> SUFFICES ASSUME NEW s \in Slot PROVE CountFits(s)'
        OBVIOUS
    <2>1. Mine(p, s) \in Nat /\ Mine(p, s)' \in Nat /\ itable'[s].ref \in Nat
        BY DEF Mine, Bit
    <2>2. itable'[s].ref + Mine(p, s) = itable[s].ref + Mine(p, s)'
        BY DEF RefsMove
    <2> DEFINE n == Cardinality(Ips(s)') + Cardinality(Files(s)')
    <2>3. n \in Nat /\ n + Mine(p, s) = itable[s].ref + Mine(p, s)'
        BY Counted, Zenon
    <2>4. itable'[s].ref = n
        <3> HIDE DEF n
        <3> QED BY <2>1, <2>2, <2>3
    <2> QED BY <2>4 DEF CountFits
<1>2. \A s \in Slot : itable'[s].ref > 0 => itable'[s].inum \in Inum
    BY DEF RefsMove, EntriesFit
<1>3. \A s, t \in Slot :
         itable'[s].ref > 0 /\ itable'[t].ref > 0
            /\ itable'[s].inum = itable'[t].inum => s = t
    BY DEF RefsMove, EntriesFit
<1>4. ASSUME NEW q \in Proc \ {p}
      PROVE  /\ HasEntry(q) => itable'[ip[q]].inum = itable[ip[q]].inum
             /\ file[q] # Nil => itable'[file[q]].inum = itable[file[q]].inum
    <2>1. /\ pc'[q] = pc[q] /\ ip'[q] = ip[q] /\ file'[q] = file[q]
        BY DEF SameRest
    <2>2. ASSUME NEW s \in Slot, q \in Ips(s)' \/ q \in Files(s)', itable[s].ref > 0
          PROVE  itable'[s].inum = itable[s].inum
        <3>1. /\ IsFiniteSet(Ips(s)') /\ IsFiniteSet(Files(s)')
              /\ itable[s].ref \in Nat
            BY Counted
        <3>2. /\ Cardinality(Ips(s)') \in Nat /\ Cardinality(Files(s)') \in Nat
              /\ Cardinality(Ips(s)') > 0 \/ Cardinality(Files(s)') > 0
            BY <3>1, <2>2, NotEmpty, FS_CardinalityType
        <3>3. itable'[s].ref > 0
            BY <3>2, <1>1 DEF CountFits
        <3> QED BY <3>1, <3>3, <2>2 DEF RefsMove
    <2> QED BY <2>1, <2>2, Referred DEF Ips, Files, HasEntry
<1>5. ASSUME NEW q \in Proc \ {p}, NEW i
      PROVE  /\ pc'[q] = pc[q] /\ name'[q] = name[q] /\ (HasEntry(q)' <=> HasEntry(q))
             /\ On(q, i)' <=> On(q, i)
             /\ Opens(q, i)' <=> Opens(q, i)
             /\ Makes(q, i)' <=> Makes(q, i)
    <2>1. /\ pc'[q] = pc[q] /\ ip'[q] = ip[q] /\ file'[q] = file[q]
          /\ name'[q] = name[q]
        BY DEF SameRest
    <2>2. HasEntry(q)' <=> HasEntry(q)
        BY <2>1 DEF HasEntry
    <2> QED BY <2>1, <2>2, <1>4 DEF On, Opens, Makes
<1>6. OtherRefs(p)
    BY <1>5, Zenon DEF OtherRefs
<1> QED BY <1>1, <1>2, <1>3, <1>6 DEF EntriesFit

-----------------------------------------------------------------------------
(* Copies of inodes.                                                         *)

(* Who freed the inode of an entry has its lock.                             *)
LEMMA CopyTrue ==
    ASSUME InodeAssumption, InodeInv, NEW s \in Slot, itable[s].ref > 0,
           \/ Unlocked(s)
           \/ \E p \in Proc : Locks(p, s) /\ pc[p] # "freed"
    PROVE  Copy(s) = dinode[itable[s].inum]
<1>1. \A p \in Proc : pc[p] = "freed" /\ ip[p] = s => ilocked[s] = p
    BY DEF InodeInv, LocksFit, Locks
<1>2. \A p \in Proc : ~(pc[p] = "freed" /\ ip[p] = s)
    BY <1>1, Apart DEF Unlocked, InodeInv, LocksFit
<1> QED BY <1>2 DEF InodeInv, CopiesFit, CopyFits, Copy

(* The entry that a process has or may have locked.                          *)
Usable(s) ==
    /\ s \in Slot /\ itable[s].ref > 0
    /\ itable[s].inum \in Inum /\ dinode[itable[s].inum] \in Dinode
    /\ Copy(s) = dinode[itable[s].inum]

LEMMA EntryUsable ==
    ASSUME InodeAssumption, InodeInv, NEW p \in Proc, HasEntry(p),
           Unlocked(ip[p]) \/ pc[p] \in {"opens", "unlinks", "free"}
    PROVE  Usable(ip[p])
<1>1. ip[p] \in Slot /\ itable[ip[p]].ref > 0 /\ itable[ip[p]].inum \in Inum
    BY Referred DEF InodeInv
<1>2. Copy(ip[p]) = dinode[itable[ip[p]].inum]
    BY <1>1, CopyTrue DEF Locks
<1>3. dinode[itable[ip[p]].inum] \in Dinode
    BY <1>1 DEF InodeInv, TypeOK
<1> QED BY <1>1, <1>2, <1>3 DEF Usable

LEMMA FileUsable ==
    ASSUME InodeAssumption, InodeInv, NEW p \in Proc, file[p] # Nil,
           Unlocked(file[p]) \/ pc[p] = "write"
    PROVE  Usable(file[p])
<1>1. /\ file[p] \in Slot /\ itable[file[p]].ref > 0
      /\ itable[file[p]].inum \in Inum
    BY Referred DEF InodeInv
<1>2. Copy(file[p]) = dinode[itable[file[p]].inum]
    BY <1>1, CopyTrue DEF Locks
<1>3. dinode[itable[file[p]].inum] \in Dinode
    BY <1>1 DEF InodeInv, TypeOK
<1> QED BY <1>1, <1>2, <1>3 DEF Usable

Itables == [Slot -> [inum : Inum \cup {0}, ref : Nat, valid : BOOLEAN, copy : Dinode]]

(* The copy of an entry is written, and nothing else of the table.           *)
Wrote(s, c) ==
    /\ itable' \in Itables
    /\ \A t \in Slot :
          /\ itable'[t].ref = itable[t].ref /\ itable'[t].inum = itable[t].inum
          /\ t # s => itable'[t] = itable[t]
    /\ itable'[s].valid /\ itable'[s].copy = c

LEMMA CopySet ==
    ASSUME TypeOK, NEW s \in Slot, NEW c \in Dinode, SetCopy(s, c)
    PROVE  Wrote(s, c)
BY DEF TypeOK, SetCopy, Wrote, Itables

(* Entries without changes but in what one of them has valid.                *)
SameCounts ==
    \A s \in Slot :
        itable'[s].ref = itable[s].ref /\ itable'[s].inum = itable[s].inum

LEMMA WroteCounts == \A s, c : Wrote(s, c) => SameCounts
BY DEF Wrote, SameCounts

(* An inode with a link that is counted and has no name has a count.         *)
LEMMA LinkCounted ==
    ASSUME InodeAssumption, InodeInv, NEW p \in Proc,
           pc[p] \in {"links", "undo", "unlinks"}
    PROVE  dinode[itable[ip[p]].inum].nlink > 0
<1> DEFINE i == itable[ip[p]].inum
<1>1. HasEntry(p)
    BY DEF HasEntry
<1>2. i \in Inum
    BY <1>1, Referred DEF InodeInv
<1>3. p \in Pending(i)
    BY <1>1 DEF Pending, On
<1>4. Cardinality(Pending(i)) \in Nat /\ Cardinality(Pending(i)) > 0
    BY <1>3, Finite, NotEmpty
<1>5. Cardinality(Names(dir, i)) \in Nat
    BY Finite, FS_CardinalityType
<1>6. dinode[i].nlink = Cardinality(Names(dir, i)) + Cardinality(Pending(i))
    BY <1>2 DEF InodeInv, LinksExact
<1> QED BY <1>4, <1>5, <1>6

LEMMA NameCounted ==
    ASSUME InodeAssumption, InodeInv, NEW n \in Name, dir[n] # Nil
    PROVE  /\ dir[n] \in Inum /\ dinode[dir[n]].nlink > 0
           /\ dinode[dir[n]].type
<1> DEFINE i == dir[n]
<1>1. i \in Inum /\ dinode[i].type
    BY DEF InodeInv, TypeOK, DiskFits
<1>2. n \in Names(dir, i)
    BY DEF Names
<1>3. Cardinality(Names(dir, i)) \in Nat /\ Cardinality(Names(dir, i)) > 0
    BY <1>2, Finite, NotEmpty
<1>4. Cardinality(Pending(i)) \in Nat
    BY Finite, FS_CardinalityType
<1>5. dinode[i].nlink = Cardinality(Names(dir, i)) + Cardinality(Pending(i))
    BY <1>1 DEF InodeInv, LinksExact
<1> QED BY <1>1, <1>3, <1>4, <1>5

-----------------------------------------------------------------------------
(* What the steps do to the table.                                           *)

(* iget(): p refers to the inode i, and the other entries are as they were.  *)
Got(p, i) ==
    /\ itable' \in Itables /\ RefsMove(p)
    /\ ip'[p] \in Slot /\ itable'[ip'[p]].inum = i
    /\ \A s \in Slot \ {ip'[p]} : itable'[s] = itable[s]
    /\ \A s \in Slot : itable[s].ref > 0 => itable'[s].inum = itable[s].inum
    /\ itable'[ip'[p]].valid =>
          /\ itable[ip'[p]].ref > 0 /\ itable[ip'[p]].inum = i
          /\ itable[ip'[p]].valid /\ itable'[ip'[p]].copy = itable[ip'[p]].copy

LEMMA EntryGot ==
    ASSUME InodeAssumption, InodeInv, NEW p \in Proc, NEW i \in Inum, iget(p, i),
           pc[p] \in {"idle", "create"}, pc'[p] # "create", file' = file
    PROVE  Got(p, i)
<1>1. PICK s \in Slot :
         /\ IF Holding(i) # {}
            THEN /\ s \in Holding(i)
                 /\ itable' = [itable EXCEPT ![s].ref = @ + 1]
            ELSE /\ Lowest(s, {t \in Slot : itable[t].ref = 0})
                 /\ itable' = [itable EXCEPT ![s] =
                              [FreeEntry EXCEPT !.inum = i, !.ref = 1]]
         /\ ip' = [ip EXCEPT ![p] = s]
    BY DEF iget
<1>2. /\ itable \in Itables /\ ip \in [Proc -> Slot \cup Inum \cup {Nil}]
      /\ pc[p] = "idle" => ip[p] = Nil
    BY DEF InodeInv, TypeOK, Itables, StagesFit, StageOf
<1>3. ip'[p] = s
    BY <1>1, <1>2
<1>4. Mine(p, s)' = Mine(p, s) + 1
    <2>1. ~(ip[p] = s /\ pc[p] # "create")
        BY <1>2, Apart
    <2> QED BY <1>3, <2>1 DEF Mine, Bit
<1>5. \A t \in Slot \ {s} : Mine(p, t)' = Mine(p, t)
    <2>1. \A t \in Slot : ~(ip[p] = t /\ pc[p] # "create")
        BY <1>2, Apart
    <2> QED BY <1>3, <2>1 DEF Mine, Bit
<1>6. \A t \in Slot : Mine(p, t) \in Nat
    BY DEF Mine, Bit
<1>7. CASE Holding(i) # {}
    <2>1. /\ s \in Holding(i) /\ itable' = [itable EXCEPT ![s].ref = @ + 1]
        BY <1>1, <1>7
    <2>2. itable[s].ref > 0 /\ itable[s].inum = i
        BY <2>1 DEF Holding
    <2>3. itable' \in Itables
        BY <2>1, <1>2 DEF Itables
    <2>4. /\ itable'[s].ref = itable[s].ref + 1 /\ itable'[s].inum = i
          /\ itable'[s].valid = itable[s].valid /\ itable'[s].copy = itable[s].copy
          /\ \A t \in Slot \ {s} : itable'[t] = itable[t]
        BY <2>1, <2>2, <1>2 DEF Itables
    <2>5. RefsMove(p)
        BY <2>2, <2>4, <1>2, <1>4, <1>5, <1>6 DEF RefsMove, Itables
    <2> QED BY <2>2, <2>3, <2>4, <2>5, <1>3 DEF Got
<1>8. CASE Holding(i) = {}
    <2>1. /\ itable[s].ref = 0
          /\ itable' = [itable EXCEPT ![s] = [inum |-> i, ref |-> 1,
                           valid |-> FALSE, copy |-> FreeDinode]]
        BY <1>1, <1>8 DEF Lowest, FreeEntry
    <2>2. FreeDinode \in Dinode
        BY DEF FreeDinode, Dinode
    <2>3. itable' \in Itables
        BY <2>1, <2>2, <1>2 DEF Itables
    <2>4. /\ itable'[s].ref = 1 /\ itable'[s].inum = i /\ ~itable'[s].valid
          /\ \A t \in Slot \ {s} : itable'[t] = itable[t]
        BY <2>1, <1>2 DEF Itables
    <2>5. \A t \in Slot : itable[t].ref > 0 => itable[t].inum # i
        BY <1>8 DEF Holding
    <2>6. RefsMove(p)
        BY <2>1, <2>4, <2>5, <1>2, <1>3, <1>4, <1>5, <1>6 DEF RefsMove, Itables
    <2>7. \A t \in Slot : itable[t].ref > 0 => itable'[t].inum = itable[t].inum
        BY <2>1, <2>4
    <2> QED BY <2>3, <2>4, <2>6, <2>7, <1>3 DEF Got
<1> QED BY <1>7, <1>8

(* iput(): p refers to the entry no more.                                    *)
Dropped(p) ==
    /\ itable' \in Itables /\ RefsMove(p)
    /\ \A s \in Slot : itable'[s].ref > 0 =>
          /\ itable[s].ref > 0 /\ itable'[s].inum = itable[s].inum
          /\ itable'[s].valid = itable[s].valid
          /\ itable'[s].copy = itable[s].copy

LEMMA EntryDropped ==
    ASSUME InodeAssumption, InodeInv, NEW p \in Proc, HasEntry(p), Drop(p)
    PROVE  Dropped(p)
<1>0. PICK s \in Slot : s = ip[p]
    BY Referred DEF InodeInv
<1>1. /\ itable \in Itables /\ ip \in [Proc -> Slot \cup Inum \cup {Nil}]
      /\ itable[s].ref > 0 /\ pc[p] # "create"
    BY <1>0, Referred DEF InodeInv, TypeOK, Itables, StagesFit, HasEntry
<1>2. /\ itable' = IF itable[s].ref = 1 THEN [itable EXCEPT ![s] = FreeEntry]
                   ELSE [itable EXCEPT ![s].ref = @ - 1]
      /\ ip' = [ip EXCEPT ![p] = Nil] /\ file' = file
    BY <1>0 DEF Drop
<1>3. ip'[p] = Nil
    BY <1>1, <1>2
<1>4. Mine(p, s) = Mine(p, s)' + 1 /\ Mine(p, s)' \in Nat
    BY <1>0, <1>1, <1>2, <1>3, Apart DEF Mine, Bit
<1>5. \A t \in Slot \ {s} : Mine(p, t)' = Mine(p, t) /\ Mine(p, t) \in Nat
    BY <1>0, <1>1, <1>2, <1>3, Apart DEF Mine, Bit
<1>6. /\ itable' \in Itables
      /\ itable'[s].ref = itable[s].ref - 1
      /\ \A t \in Slot \ {s} : itable'[t] = itable[t]
      /\ itable'[s].ref > 0 =>
             /\ itable'[s].inum = itable[s].inum
             /\ itable'[s].valid = itable[s].valid
             /\ itable'[s].copy = itable[s].copy
    <2>1. CASE itable[s].ref = 1
        <3>1. itable' = [itable EXCEPT ![s] = FreeEntry]
            BY <1>2, <2>1
        <3>2. /\ FreeEntry \in [inum : Inum \cup {0}, ref : Nat,
                                valid : BOOLEAN, copy : Dinode]
              /\ FreeEntry.ref = 0
            BY DEF FreeEntry, FreeDinode, Dinode
        <3> QED BY <1>1, <2>1, <3>1, <3>2 DEF Itables
    <2>2. CASE itable[s].ref # 1
        <3>1. itable' = [itable EXCEPT ![s].ref = @ - 1]
            BY <1>2, <2>2
        <3> QED BY <1>1, <2>2, <3>1 DEF Itables
    <2> QED BY <2>1, <2>2
<1>7. \A t \in Slot : itable'[t].ref + Mine(p, t) = itable[t].ref + Mine(p, t)'
    <2>1. itable[s].ref \in Nat /\ \A t \in Slot : itable[t].ref \in Nat
        BY <1>1 DEF Itables
    <2>2. itable'[s].ref + Mine(p, s) = itable[s].ref + Mine(p, s)'
        BY <1>4, <1>6, <2>1
    <2>3. ASSUME NEW t \in Slot \ {s}
          PROVE  itable'[t].ref + Mine(p, t) = itable[t].ref + Mine(p, t)'
        BY <1>5, <1>6
    <2> QED BY <2>2, <2>3
<1>8. RefsMove(p)
    BY <1>1, <1>6, <1>7 DEF RefsMove
<1> QED BY <1>1, <1>6, <1>8 DEF Dropped

(* A step that keeps the counts, and the references of p.                    *)
LEMMA CountsKeep ==
    ASSUME InodeAssumption, InodeInv, NEW p \in Proc, SameCounts,
           \A s \in Slot : Mine(p, s)' = Mine(p, s)
    PROVE  RefsMove(p)
<1>1. \A s \in Slot : Mine(p, s) \in Nat /\ itable[s].ref \in Nat
    BY DEF Mine, Bit, InodeInv, TypeOK
<1> QED BY <1>1 DEF SameCounts, RefsMove

-----------------------------------------------------------------------------
(* The parts of the invariant, for a step of p.                              *)

(* The entry and the inode on disk get the same.                             *)
Rewrote(s, c) ==
    /\ Usable(s) /\ c \in Dinode /\ Wrote(s, c)
    /\ dinode' = [dinode EXCEPT ![itable[s].inum] = c]

LEMMA Rewrites ==
    ASSUME InodeInv, NEW s, Usable(s), NEW c \in Dinode, iupdate(s, c)
    PROVE  Rewrote(s, c)
<1>1. SetCopy(s, c) /\ dinode' = [dinode EXCEPT ![itable[s].inum] = c]
    BY DEF iupdate
<1>2. Wrote(s, c)
    BY <1>1, CopySet DEF Usable, InodeInv
<1> QED BY <1>1, <1>2 DEF Rewrote

LEMMA Rereads ==
    ASSUME InodeInv, NEW s, Usable(s), SetCopy(s, Copy(s)), dinode' = dinode
    PROVE  Rewrote(s, dinode[itable[s].inum])
<1>1. Wrote(s, dinode[itable[s].inum])
    BY CopySet DEF Usable, InodeInv
<1>2. dinode' = [dinode EXCEPT ![itable[s].inum] = dinode[itable[s].inum]]
    BY DEF InodeInv, TypeOK, Usable
<1> QED BY <1>1, <1>2 DEF Rewrote, Usable

LEMMA Rewritten ==
    ASSUME InodeInv, NEW s, NEW c, Rewrote(s, c)
    PROVE  /\ dinode' \in [Inum -> Dinode]
           /\ itable[s].inum \in Inum /\ dinode'[itable[s].inum] = c
           /\ \A i \in Inum : i # itable[s].inum => dinode'[i] = dinode[i]
           /\ itable' \in Itables /\ SameCounts
BY WroteCounts DEF Rewrote, Usable, Wrote, InodeInv, TypeOK

LEMMA StagesStep ==
    ASSUME InodeAssumption, StagesFit, NEW p \in Proc, SameRest(p), OtherRefs(p),
           pc' \in [Proc -> Stage], ip' \in [Proc -> Slot \cup Inum \cup {Nil}],
           dir' = dir \/ rootlock \in {p, Nil},
           rootlock' = rootlock \/ (rootlock \in {p, Nil} /\ rootlock' \in {p, Nil}),
           StageOf(p)'
    PROVE  StagesFit'
<1>1. ASSUME NEW q \in Proc \ {p}
      PROVE  StageOf(q)'
    <2>1. /\ pc'[q] = pc[q] /\ ip'[q] = ip[q] /\ file'[q] = file[q]
          /\ name'[q] = name[q]
        BY DEF SameRest
    <2>2. /\ HasEntry(q)' <=> HasEntry(q)
          /\ \A i : On(q, i)' <=> On(q, i)
        BY DEF OtherRefs
    <2>3. (rootlock = q)' <=> rootlock = q
        BY Apart
    <2>4. rootlock = q => dir' = dir
        BY Apart
    <2>5. StageOf(q)
        BY DEF StagesFit
    <2>6. /\ pc[q] = "unlink" => On(q, dir[name[q]])'
          /\ pc[q] \in {"create", "creates"} => dir'[name[q]] = Nil
        <3>1. CASE pc[q] \in {"unlink", "create", "creates"}
            <4>1. dir' = dir
                BY <2>4, <2>5, <3>1 DEF StageOf
            <4>2. /\ pc[q] = "unlink" => On(q, dir[name[q]])
                  /\ pc[q] \in {"create", "creates"} => dir[name[q]] = Nil
                BY <2>5 DEF StageOf
            <4>3. On(q, dir[name[q]])' <=> On(q, dir[name[q]])
                BY <2>1, <2>2, <4>1 DEF On
            <4> QED BY <4>1, <4>2, <4>3, <2>1
        <3> QED BY <3>1
    <2>7. (pc[q] = "unlink" => On(q, dir[name[q]]))'
        BY <2>1, <2>6 DEF On
    <2> HIDE DEF StageOf
    <2>8. /\ (pc[q] \in {"idle", "write"} => ip[q] = Nil)'
          /\ (pc[q] = "create" => ip[q] \in Inum)'
          /\ (HasEntry(q) => ip[q] \in Slot)'
          /\ (pc[q] \in {"open", "opens", "create", "creates"} => file[q] = Nil)'
          /\ (pc[q] = "write" => file[q] # Nil)'
          /\ (pc[q] \in {"create", "creates", "unlink", "link", "links"} =>
                 name[q] \in Name)'
          /\ (pc[q] \in {"create", "creates"} => rootlock = q)'
          /\ (pc[q] = "unlink" => rootlock = q)'
          /\ (rootlock = q => pc[q] \in
                 {"create", "creates", "unlink", "put", "free", "freed", "drop"})'
        BY <2>1, <2>2, <2>3, <2>5 DEF StageOf
    <2> QED BY <2>1, <2>6, <2>7, <2>8 DEF StageOf
<1> QED BY <1>1 DEF StagesFit

LEMMA LocksStep ==
    ASSUME LocksFit, NEW p \in Proc, SameRest(p),
           ilocked' \in [Slot -> Proc \cup {Nil}],
           \A s \in Slot :
              /\ ilocked'[s] = p <=> Locks(p, s)'
              /\ \A q \in Proc \ {p} : ilocked'[s] = q <=> ilocked[s] = q
    PROVE  LocksFit'
<1>1. \A s \in Slot, q \in Proc \ {p} : Locks(q, s)' <=> Locks(q, s)
    BY DEF SameRest, Locks
<1> QED BY <1>1 DEF LocksFit

(* What p does to the inodes: it changes those it refers to, and finds       *)
(* others by their names.                                                    *)
Discreet(p) ==
    /\ OtherRefs(p)
    /\ \A i \in Inum :
          /\ dinode'[i].nlink # dinode[i].nlink =>
                On(p, i) /\ pc[p] \notin {"freed", "drop"}
          /\ dinode[i].type /\ ~dinode'[i].type => On(p, i) /\ pc[p] = "free"
          /\ On(p, i)' =>
                \/ On(p, i) /\ (pc[p] \in {"freed", "drop"} => pc'[p] \in {"freed", "drop"})
                \/ Opens(p, i) \/ Makes(p, i) \/ dinode[i].nlink # 0
          /\ Opens(p, i)' => Opens(p, i) \/ (On(p, i) /\ pc[p] = "opens")

(* Two processes are not in create() at once.                                *)
LEMMA OneMaker ==
    ASSUME InodeAssumption, InodeInv, NEW p \in Proc, NEW q \in Proc,
           pc[p] \in {"create", "creates"}, pc[q] \in {"create", "creates"}
    PROVE  p = q
BY DEF InodeInv, StagesFit, StageOf

LEMMA RefsLiveStep ==
    ASSUME InodeAssumption, InodeInv, NEW p \in Proc, Discreet(p),
           \A i \in Inum :
              \/ On(p, i)' /\ pc'[p] \notin {"freed", "drop"}
              \/ Opens(p, i)'
              \/ Makes(p, i)'
              => dinode'[i].type
    PROVE  RefsLive'
<1>1. ASSUME NEW q \in Proc \ {p}, NEW i \in Inum,
             \/ On(q, i)' /\ pc'[q] \notin {"freed", "drop"}
             \/ Opens(q, i)'
             \/ Makes(q, i)'
      PROVE  dinode'[i].type
    <2>1. \/ On(q, i) /\ pc[q] \notin {"freed", "drop"}
          \/ Opens(q, i)
          \/ Makes(q, i)
        BY <1>1 DEF Discreet, OtherRefs
    <2>2. dinode[i].type
        BY <2>1 DEF InodeInv, RefsLive
    <2>3. ~(pc[p] = "free" /\ On(p, i))
        <3>1. SUFFICES ASSUME pc[p] = "free", On(p, i) PROVE FALSE
            OBVIOUS
        <3>2. ~On(q, i) /\ ~Opens(q, i)
            BY <3>1 DEF InodeInv, FreeAlone
        <3>3. Makes(q, i)
            BY <2>1, <3>2
        <3> QED BY <3>1, <3>3 DEF InodeInv, Newborn
    <2> QED BY <2>2, <2>3 DEF Discreet
<1> QED BY <1>1, Zenon DEF RefsLive

LEMMA NewbornStep ==
    ASSUME InodeAssumption, InodeInv, NEW p \in Proc, Discreet(p),
           \A i \in Inum :
              Makes(p, i)' \/ (pc'[p] = "creates" /\ On(p, i)') =>
                 /\ dinode'[i].nlink = 0
                 /\ \A q \in Proc \ {p} : On(q, i) => pc[q] \in {"freed", "drop"}
                 /\ \A q \in Proc \ {p} : ~Opens(q, i)
                 /\ ~Opens(p, i)'
    PROVE  Newborn'
<1>1. ASSUME NEW q \in Proc \ {p}, NEW i \in Inum,
             Makes(q, i)' \/ (pc'[q] = "creates" /\ On(q, i)')
      PROVE  /\ dinode'[i].nlink = 0
             /\ \A r \in Proc \ {q} : On(r, i)' => pc'[r] \in {"freed", "drop"}
             /\ \A r \in Proc : ~Opens(r, i)'
    <2>1. Makes(q, i) \/ (pc[q] = "creates" /\ On(q, i))
        BY <1>1 DEF Discreet, OtherRefs
    <2>2. /\ dinode[i].nlink = 0
          /\ \A r \in Proc \ {q} : On(r, i) => pc[r] \in {"freed", "drop"}
          /\ \A r \in Proc : ~Opens(r, i)
        BY <2>1 DEF InodeInv, Newborn
    <2>3. ~Makes(p, i)
        BY <2>1, OneMaker DEF Makes
    <2>4. On(p, i) => pc[p] \in {"freed", "drop"}
        BY <2>2
    <2>5. dinode'[i].nlink = 0
        BY <2>2, <2>4 DEF Discreet
    <2>6. On(p, i)' => pc'[p] \in {"freed", "drop"}
        BY <2>2, <2>3, <2>4 DEF Discreet
    <2>7. ~Opens(p, i)'
        BY <2>2, <2>4 DEF Discreet
    <2>8. ASSUME NEW r \in Proc \ {p, q}
          PROVE  /\ On(r, i)' => pc'[r] \in {"freed", "drop"}
                 /\ ~Opens(r, i)'
        BY <2>2 DEF Discreet, OtherRefs
    <2>9. ~Opens(q, i)'
        BY <2>2 DEF Discreet, OtherRefs
    <2> QED BY <2>5, <2>6, <2>7, <2>8, <2>9
<1>2. ASSUME NEW i \in Inum,
             Makes(p, i)' \/ (pc'[p] = "creates" /\ On(p, i)')
      PROVE  /\ dinode'[i].nlink = 0
             /\ \A r \in Proc \ {p} : On(r, i)' => pc'[r] \in {"freed", "drop"}
             /\ \A r \in Proc : ~Opens(r, i)'
    BY <1>2 DEF Discreet, OtherRefs
<1> QED BY <1>1, <1>2, Zenon DEF Newborn

LEMMA FreeAloneStep ==
    ASSUME InodeAssumption, InodeInv, NEW p \in Proc, Discreet(p),
           \A i \in Inum :
              pc'[p] = "free" /\ On(p, i)' =>
                 /\ dinode'[i].nlink = 0
                 /\ \A q \in Proc \ {p} : ~On(q, i)
                 /\ \A q \in Proc \ {p} : ~Opens(q, i)
                 /\ ~Opens(p, i)'
    PROVE  FreeAlone'
<1>1. ASSUME NEW q \in Proc \ {p}, NEW i \in Inum, pc'[q] = "free", On(q, i)'
      PROVE  /\ dinode'[i].nlink = 0
             /\ \A r \in Proc \ {q} : ~On(r, i)'
             /\ \A r \in Proc : ~Opens(r, i)'
    <2>1. pc[q] = "free" /\ On(q, i)
        BY <1>1 DEF Discreet, OtherRefs
    <2>2. /\ dinode[i].nlink = 0
          /\ \A r \in Proc \ {q} : ~On(r, i)
          /\ \A r \in Proc : ~Opens(r, i)
        BY <2>1 DEF InodeInv, FreeAlone
    <2>3. ~Makes(p, i)
        BY <2>1 DEF InodeInv, Newborn
    <2>4. /\ dinode'[i].nlink = 0 /\ ~On(p, i)' /\ ~Opens(p, i)'
        BY <2>2, <2>3 DEF Discreet
    <2>5. ASSUME NEW r \in Proc \ {p, q}
          PROVE  ~On(r, i)' /\ ~Opens(r, i)'
        BY <2>2 DEF Discreet, OtherRefs
    <2>6. ~Opens(q, i)'
        BY <2>2 DEF Discreet, OtherRefs
    <2> QED BY <2>4, <2>5, <2>6
<1>2. ASSUME NEW i \in Inum, pc'[p] = "free", On(p, i)'
      PROVE  /\ dinode'[i].nlink = 0
             /\ \A r \in Proc \ {p} : ~On(r, i)'
             /\ \A r \in Proc : ~Opens(r, i)'
    BY <1>2 DEF Discreet, OtherRefs
<1> QED BY <1>1, <1>2, Zenon DEF FreeAlone

LEMMA StillFreed ==
    ASSUME NEW p \in Proc, SameRest(p), pc[p] # "freed", NEW s \in Slot,
           \E q \in Proc : pc[q] = "freed" /\ ip[q] = s
    PROVE  \E q \in Proc : pc'[q] = "freed" /\ ip'[q] = s
BY DEF SameRest

(* An entry of which nothing changes, nor its inode on disk.                 *)
LEMMA CopyKept ==
    ASSUME InodeInv, NEW p \in Proc, SameRest(p), pc[p] # "freed", NEW s \in Slot,
           itable'[s].ref > 0 /\ itable'[s].valid =>
              /\ itable[s].ref > 0 /\ itable[s].valid
              /\ itable'[s].inum = itable[s].inum
              /\ itable'[s].copy = itable[s].copy
              /\ dinode'[itable[s].inum] = dinode[itable[s].inum]
    PROVE  CopyFits(s)'
<1> SUFFICES ASSUME itable'[s].ref > 0, itable'[s].valid
             PROVE  \/ /\ itable'[s].copy = dinode'[itable'[s].inum]
                       /\ dinode'[itable'[s].inum].type
                    \/ \E q \in Proc : pc'[q] = "freed" /\ ip'[q] = s
    BY DEF CopyFits
<1>1. \/ itable[s].copy = dinode[itable[s].inum] /\ dinode[itable[s].inum].type
      \/ \E q \in Proc : pc[q] = "freed" /\ ip[q] = s
    BY DEF InodeInv, CopiesFit, CopyFits
<1> QED BY <1>1, StillFreed

LEMMA CopiesRewritten ==
    ASSUME InodeInv, NEW p \in Proc, SameRest(p), pc[p] # "freed",
           NEW s, NEW c, Rewrote(s, c), c.type
    PROVE  CopiesFit'
<1>1. CopyFits(s)'
    <2>1. /\ s \in Slot /\ itable'[s].copy = c
          /\ itable'[s].inum = itable[s].inum
        BY DEF Rewrote, Wrote, Usable
    <2>2. dinode'[itable[s].inum] = c
        BY Rewritten
    <2> QED BY <2>1, <2>2 DEF CopyFits
<1>2. ASSUME NEW t \in Slot \ {s}
      PROVE  CopyFits(t)'
    <2>1. itable'[t] = itable[t]
        BY DEF Rewrote, Wrote
    <2>2. itable[t].ref > 0 =>
             /\ itable[t].inum \in Inum
             /\ itable[t].inum # itable[s].inum
        BY DEF InodeInv, EntriesFit, Rewrote, Usable
    <2>3. itable[t].ref > 0 => dinode'[itable[t].inum] = dinode[itable[t].inum]
        BY <2>2, Rewritten
    <2> QED BY <2>1, <2>3, CopyKept
<1> QED BY <1>1, <1>2 DEF CopiesFit

LEMMA CopiesSame ==
    ASSUME InodeInv, NEW p \in Proc, SameRest(p), pc[p] # "freed",
           dinode' = dinode,
           \/ itable' = itable
           \/ \E i : Got(p, i)
           \/ Dropped(p)
    PROVE  CopiesFit'
<1> SUFFICES ASSUME NEW s \in Slot PROVE CopyFits(s)'
    BY DEF CopiesFit
<1>1. CASE itable' = itable
    BY <1>1, CopyKept
<1>2. ASSUME NEW i, Got(p, i)
      PROVE  CopyFits(s)'
    <2>1. itable'[s].ref > 0 /\ itable'[s].valid =>
             /\ itable[s].ref > 0 /\ itable[s].valid
             /\ itable'[s].inum = itable[s].inum
             /\ itable'[s].copy = itable[s].copy
        <3>1. CASE s = ip'[p]
            BY <1>2, <3>1 DEF Got
        <3>2. CASE s # ip'[p]
            BY <1>2, <3>2 DEF Got
        <3> QED BY <3>1, <3>2
    <2> QED BY <2>1, CopyKept
<1>3. CASE Dropped(p)
    BY <1>3, CopyKept DEF Dropped
<1> QED BY <1>1, <1>2, <1>3

(* The disk, when blocks and what is free stay as they are.                  *)
LEMMA DiskStep ==
    ASSUME InodeInv, dir' \in [Name -> Inum \cup {Nil}],
           \A i \in Inum :
              /\ dinode'[i].addrs = dinode[i].addrs
              /\ ~dinode'[i].type => dinode'[i] = FreeDinode,
           \A n \in Name : dir'[n] # Nil => dinode'[dir'[n]].type,
           bitmap' = bitmap
    PROVE  DiskFits(dinode', dir', bitmap')
<1>1. /\ bitmap = UNION {dinode[i].addrs : i \in Inum}
      /\ \A i, j \in Inum : i # j => dinode[i].addrs \cap dinode[j].addrs = {}
    BY DEF InodeInv, DiskFits
<1>2. UNION {dinode[i].addrs : i \in Inum} = UNION {dinode'[i].addrs : i \in Inum}
    OBVIOUS
<1> QED BY <1>1, <1>2 DEF DiskFits

(* The file with inode i loses its blocks.                                   *)
LEMMA BlocksFreed ==
    ASSUME InodeInv, NEW i \in Inum,
           bitmap' = bitmap \ dinode[i].addrs, dinode'[i].addrs = {},
           \A j \in Inum : j # i => dinode'[j].addrs = dinode[j].addrs
    PROVE  /\ bitmap' = UNION {dinode'[j].addrs : j \in Inum}
           /\ \A j, k \in Inum : j # k => dinode'[j].addrs \cap dinode'[k].addrs = {}
<1>1. /\ bitmap = UNION {dinode[j].addrs : j \in Inum}
      /\ \A j, k \in Inum : j # k => dinode[j].addrs \cap dinode[k].addrs = {}
    BY DEF InodeInv, DiskFits
<1>2. \A b : b \in bitmap' <=> \E j \in Inum : b \in dinode'[j].addrs
    <2> SUFFICES ASSUME NEW b
                 PROVE  b \in bitmap' <=> \E j \in Inum : b \in dinode'[j].addrs
        OBVIOUS
    <2>1. b \in bitmap <=> \E j \in Inum : b \in dinode[j].addrs
        BY <1>1
    <2>2. \A j \in Inum : b \in dinode[j].addrs /\ b \in dinode[i].addrs => j = i
        BY <1>1
    <2> QED BY <2>1, <2>2
<1> QED BY <1>1, <1>2

(* It gets one that was free.                                                *)
LEMMA BlockAdded ==
    ASSUME InodeInv, NEW i \in Inum, NEW b, b \notin bitmap,
           bitmap' = bitmap \cup {b}, dinode'[i].addrs = dinode[i].addrs \cup {b},
           \A j \in Inum : j # i => dinode'[j].addrs = dinode[j].addrs
    PROVE  /\ bitmap' = UNION {dinode'[j].addrs : j \in Inum}
           /\ \A j, k \in Inum : j # k => dinode'[j].addrs \cap dinode'[k].addrs = {}
<1>1. /\ bitmap = UNION {dinode[j].addrs : j \in Inum}
      /\ \A j, k \in Inum : j # k => dinode[j].addrs \cap dinode[k].addrs = {}
    BY DEF InodeInv, DiskFits
<1>2. \A j \in Inum : b \notin dinode[j].addrs
    BY <1>1
<1>3. \A c : c \in bitmap' <=> \E j \in Inum : c \in dinode'[j].addrs
    <2> SUFFICES ASSUME NEW c
                 PROVE  c \in bitmap' <=> \E j \in Inum : c \in dinode'[j].addrs
        OBVIOUS
    <2>1. c \in bitmap <=> \E j \in Inum : c \in dinode[j].addrs
        BY <1>1
    <2> QED BY <2>1
<1>4. \A j, k \in Inum : j # k => dinode'[j].addrs \cap dinode'[k].addrs = {}
    BY <1>1, <1>2
<1> QED BY <1>3, <1>4

(* The links: p puts a name into the directory or takes it out, or becomes   *)
(* or ceases to be one whose link has no name.                               *)
LEMMA LinksStep ==
    ASSUME InodeAssumption, InodeInv, NEW p \in Proc, OtherRefs(p),
           NEW n, NEW v, n \in Name => dir' = [dir EXCEPT ![n] = v],
           n \notin Name => dir' = dir,
           \A i \in Inum :
              /\ dinode'[i].nlink \in Nat
              /\ dinode'[i].nlink + Bit(n \in Name /\ dir[n] = i) + Bit(p \in Pending(i))
                    = dinode[i].nlink + Bit(n \in Name /\ v = i) + Bit(p \in Pending(i)')
    PROVE  LinksExact'
<1> SUFFICES ASSUME NEW i \in Inum
             PROVE  dinode'[i].nlink = Cardinality(Names(dir', i))
                                       + Cardinality(Pending(i)')
    BY DEF LinksExact
<1> DEFINE A == Names(dir, i)
           A2 == Names(dir', i)
           B == Pending(i)
           B2 == Pending(i)'
<1>1. IsFiniteSet(A) /\ IsFiniteSet(B)
    BY Finite
<1>2. \A m : m # n => (m \in A <=> m \in A2)
    BY DEF Names, InodeInv, TypeOK
<1>3. /\ n \in A <=> n \in Name /\ dir[n] = i
      /\ n \in A2 <=> n \in Name /\ v = i
    BY DEF Names, InodeInv, TypeOK
<1>4. \A q : q # p => (q \in B <=> q \in B2)
    BY Zenon DEF Pending, OtherRefs
<1>5. /\ dinode[i].nlink = Cardinality(A) + Cardinality(B)
      /\ dinode[i].nlink \in Nat
    BY DEF InodeInv, LinksExact, TypeOK, Dinode
<1>6. /\ dinode'[i].nlink \in Nat
      /\ dinode'[i].nlink + Bit(n \in A) + Bit(p \in B)
            = dinode[i].nlink + Bit(n \in A2) + Bit(p \in B2)
    <2>1. /\ Bit(n \in A) = Bit(n \in Name /\ dir[n] = i)
          /\ Bit(n \in A2) = Bit(n \in Name /\ v = i)
        BY <1>3 DEF Bit
    <2> QED BY <2>1
<1> HIDE DEF A, A2, B, B2
<1>7. /\ Cardinality(A) \in Nat /\ Cardinality(A2) \in Nat
      /\ Cardinality(A2) + Bit(n \in A) = Cardinality(A) + Bit(n \in A2)
    BY <1>1, <1>2, BitCount
<1>8. /\ Cardinality(B) \in Nat /\ Cardinality(B2) \in Nat
      /\ Cardinality(B2) + Bit(p \in B) = Cardinality(B) + Bit(p \in B2)
    BY <1>1, <1>4, BitCount
<1>9. \A b : Bit(b) \in Nat
    BY DEF Bit
<1>10. dinode'[i].nlink = Cardinality(A2) + Cardinality(B2)
    BY <1>5, <1>6, <1>7, <1>8, <1>9
<1> QED BY <1>10 DEF A2, B2

-----------------------------------------------------------------------------
(* A step of p as a whole.                                                   *)

LocksMove(p) ==
    /\ ilocked' \in [Slot -> Proc \cup {Nil}]
    /\ \A s \in Slot :
          /\ ilocked'[s] = p <=> Locks(p, s)'
          /\ \A q \in Proc \ {p} : ilocked'[s] = q <=> ilocked[s] = q

RootMoves(p) ==
    /\ dir' = dir \/ rootlock \in {p, Nil}
    /\ \/ rootlock' = rootlock
       \/ rootlock \in {p, Nil} /\ rootlock' \in {p, Nil}

(* What the invariant says of p itself.                                      *)
OwnFits(p) ==
    \A i \in Inum :
        /\ \/ On(p, i)' /\ pc'[p] \notin {"freed", "drop"}
           \/ Opens(p, i)'
           \/ Makes(p, i)'
           => dinode'[i].type
        /\ Makes(p, i)' \/ (pc'[p] = "creates" /\ On(p, i)') =>
              /\ dinode'[i].nlink = 0
              /\ \A q \in Proc \ {p} : On(q, i) => pc[q] \in {"freed", "drop"}
              /\ \A q \in Proc \ {p} : ~Opens(q, i)
              /\ ~Opens(p, i)'
        /\ pc'[p] = "free" /\ On(p, i)' =>
              /\ dinode'[i].nlink = 0
              /\ \A q \in Proc \ {p} : ~On(q, i)
              /\ \A q \in Proc \ {p} : ~Opens(q, i)
              /\ ~Opens(p, i)'

BlocksTyped ==
    /\ dinode \in [Inum -> Dinode] /\ dir \in [Name -> Inum \cup {Nil}]
    /\ bitmap \subseteq Block

LEMMA StoredStep ==
    ASSUME InodeAssumption, InodeInv, NEW p \in Proc, SameRest(p),
           pc' \in [Proc -> Stage], stored' = stored \/ Return(p),
           BlocksTyped', DiskFits(dinode, dir, bitmap)', LinksExact'
    PROVE  StoredFits'
<1>1. CASE stored' = stored
    BY <1>1 DEF InodeInv, StoredFits, DiskFits
<1>2. CASE Return(p) /\ stored' # stored
    <2>1. /\ \A q \in Proc \ {p} : pc[q] = "idle"
          /\ stored' = <<dinode', dir', bitmap'>>
        BY <1>2 DEF Return, blocks
    <2>2. pc' = [pc EXCEPT ![p] = "idle"] /\ pc \in [Proc -> Stage]
        BY <1>2 DEF Return, InodeInv, StagesFit
    <2>3. \A q \in Proc : pc'[q] = "idle"
        BY <2>1, <2>2 DEF SameRest
    <2>4. \A i \in Inum : Pending(i)' = {}
        BY <2>3 DEF Pending
    <2>5. ASSUME NEW i \in Inum
          PROVE  dinode'[i].nlink = Cardinality(Names(dir', i))
        <3>1. dinode'[i].nlink = Cardinality(Names(dir', i)) + Cardinality(Pending(i)')
            BY DEF LinksExact
        <3>2. Cardinality(Pending(i)') = 0
            BY <2>4, FS_EmptySet
        <3>3. Cardinality(Names(dir', i)) \in Nat
            BY Finite, FS_CardinalityType
        <3> QED BY <3>1, <3>2, <3>3
    <2>6. stored'[1] = dinode' /\ stored'[2] = dir' /\ stored'[3] = bitmap'
        BY <2>1
    <2>7. DiskFits(stored'[1], stored'[2], stored'[3])
        BY <2>6
    <2> QED BY <2>1, <2>5, <2>6, <2>7, Zenon DEF BlocksTyped, StoredFits
<1> QED BY <1>1, <1>2

LEMMA StepKeeps ==
    ASSUME InodeAssumption, InodeInv, NEW p \in Proc, Calls(p) \/ GoesOn(p),
           itable' \in Itables, EntriesFit', Discreet(p), LocksMove(p), RootMoves(p),
           StageOf(p)', OwnFits(p), BlocksTyped', CopiesFit',
           DiskFits(dinode, dir, bitmap)', LinksExact', stored' = stored \/ Return(p)
    PROVE  InodeInv'
<1>1. /\ SameRest(p)
      /\ pc' \in [Proc -> Stage] /\ ip' \in [Proc -> Slot \cup Inum \cup {Nil}]
      /\ file' \in [Proc -> Slot \cup {Nil}]
      /\ name' \in [Proc -> Name \cup {Nil}]
    BY StepTyped DEF InodeInv
<1>2. OtherRefs(p)
    BY DEF Discreet
<1>3. StagesFit'
    BY <1>1, <1>2, StagesStep DEF InodeInv, RootMoves
<1>4. LocksFit'
    BY <1>1, LocksStep DEF InodeInv, LocksMove
<1>5. TypeOK'
    <2>1. rootlock' \in Proc \cup {Nil}
        BY DEF RootMoves, InodeInv, TypeOK
    <2>2. {ilocked'[s] : s \in Slot} \subseteq Proc \cup {Nil}
        BY DEF LocksMove
    <2> QED BY <1>1, <2>1, <2>2 DEF BlocksTyped, TypeOK, Itables
<1>6. RefsLive'
    BY RefsLiveStep DEF OwnFits
<1>7. Newborn'
    BY NewbornStep DEF OwnFits
<1>8. FreeAlone'
    BY FreeAloneStep DEF OwnFits
<1>9. StoredFits'
    BY <1>1, StoredStep
<1> QED BY <1>3, <1>4, <1>5, <1>6, <1>7, <1>8, <1>9 DEF InodeInv

-----------------------------------------------------------------------------
(* Steps of p with the entry that it has before and after.                   *)

LinkStages == {"links", "undo", "unlinks"}

Stays(p, x) ==
    /\ HasEntry(p) /\ HasEntry(p)' /\ ip'[p] = ip[p] /\ file'[p] = file[p]
    /\ x = itable[ip[p]].inum
    /\ itable' \in Itables /\ SameCounts
    /\ \A i \in Inum : i # x => dinode'[i] = dinode[i]

LEMMA StayRefs ==
    ASSUME InodeAssumption, InodeInv, NEW p \in Proc, GoesOn(p), NEW x, Stays(p, x)
    PROVE  /\ x \in Inum /\ ip[p] \in Slot
           /\ EntriesFit' /\ OtherRefs(p) /\ SameRest(p)
           /\ \A i : /\ On(p, i)' <=> i = x
                     /\ On(p, i) <=> i = x
                     /\ Opens(p, i)' <=> Opens(p, i)
                     /\ ~Makes(p, i)'
<1>1. /\ SameRest(p) /\ file' \in [Proc -> Slot \cup {Nil}]
    BY StepTyped DEF InodeInv
<1>2. ip[p] \in Slot /\ x \in Inum
    BY Referred DEF InodeInv, Stays
<1>3. \A s \in Slot : Mine(p, s)' = Mine(p, s)
    BY DEF Mine, Stays, HasEntry
<1>4. RefsMove(p)
    BY <1>3, CountsKeep DEF Stays
<1>5. EntriesFit' /\ OtherRefs(p)
    BY <1>1, <1>4, EntriesStep DEF InodeInv, Stays, Itables
<1>6. \A s \in Slot : itable'[s].inum = itable[s].inum
    BY DEF Stays, SameCounts
<1>7. file[p] # Nil => file[p] \in Slot
    BY DEF InodeInv, TypeOK
<1>8. \A i : /\ On(p, i)' <=> i = x
             /\ On(p, i) <=> i = x
             /\ Opens(p, i)' <=> Opens(p, i)
             /\ ~Makes(p, i)'
    <2>1. HasEntry(p) /\ HasEntry(p)' /\ ip'[p] = ip[p] /\ file'[p] = file[p]
          /\ x = itable[ip[p]].inum
        BY DEF Stays
    <2>2. itable'[ip'[p]].inum = x
        BY <1>2, <1>6, <2>1
    <2>3. pc'[p] # "create"
        BY <2>1 DEF HasEntry
    <2> QED BY <1>6, <1>7, <2>1, <2>2, <2>3 DEF On, Opens, Makes
<1> QED BY <1>1, <1>2, <1>5, <1>8

LEMMA StayLinks ==
    ASSUME InodeAssumption, InodeInv, NEW p \in Proc, GoesOn(p), NEW x, Stays(p, x),
           BlocksTyped', NEW n, NEW v,
           n \in Name => /\ dir' = [dir EXCEPT ![n] = v]
                         /\ dir[n] \in {x, Nil} /\ v \in {x, Nil},
           n \notin Name => dir' = dir,
           dinode'[x].nlink + Bit(n \in Name /\ dir[n] = x) + Bit(pc[p] \in LinkStages)
              = dinode[x].nlink + Bit(n \in Name /\ v = x) + Bit(pc'[p] \in LinkStages)
    PROVE  LinksExact'
<1>1. /\ x \in Inum /\ OtherRefs(p)
      /\ \A i : (On(p, i)' <=> i = x) /\ (On(p, i) <=> i = x)
    BY StayRefs
<1>2. \A i : /\ p \in Pending(i) <=> i = x /\ pc[p] \in LinkStages
             /\ p \in Pending(i)' <=> i = x /\ pc'[p] \in LinkStages
    BY <1>1, Zenon DEF Pending, LinkStages
<1>3. ASSUME NEW i \in Inum
      PROVE  /\ dinode'[i].nlink \in Nat
             /\ dinode'[i].nlink + Bit(n \in Name /\ dir[n] = i) + Bit(p \in Pending(i))
                   = dinode[i].nlink + Bit(n \in Name /\ v = i) + Bit(p \in Pending(i)')
    <2>1. dinode'[i].nlink \in Nat /\ dinode[i].nlink \in Nat
        BY DEF BlocksTyped, InodeInv, TypeOK, Dinode
    <2>2. CASE i = x
        <3>1. /\ Bit(p \in Pending(i)) = Bit(pc[p] \in LinkStages)
              /\ Bit(p \in Pending(i)') = Bit(pc'[p] \in LinkStages)
            BY <1>2, <2>2 DEF Bit
        <3> QED BY <2>1, <2>2, <3>1
    <2>3. CASE i # x
        <3>1. /\ Bit(p \in Pending(i)) = 0 /\ Bit(p \in Pending(i)') = 0
              /\ Bit(n \in Name /\ dir[n] = i) = 0 /\ Bit(n \in Name /\ v = i) = 0
            BY <1>2, <2>3, Apart DEF Bit
        <3>2. dinode'[i] = dinode[i]
            BY <2>3 DEF Stays
        <3> QED BY <2>1, <3>1, <3>2
    <2> QED BY <2>2, <2>3
<1>4. /\ n \in Name => dir' = [dir EXCEPT ![n] = v]
      /\ n \notin Name => dir' = dir
    OBVIOUS
<1>5. \A i \in Inum :
         /\ dinode'[i].nlink \in Nat
         /\ dinode'[i].nlink + Bit(n \in Name /\ dir[n] = i) + Bit(p \in Pending(i))
               = dinode[i].nlink + Bit(n \in Name /\ v = i) + Bit(p \in Pending(i)')
    BY <1>3, Zenon
<1>6. OtherRefs(p)
    BY <1>1
<1> QED BY <1>4, <1>5, <1>6, LinksStep

(* The same with neither a name nor a link counted.                          *)
LEMMA StayLinksSame ==
    ASSUME InodeAssumption, InodeInv, NEW p \in Proc, GoesOn(p), NEW x, Stays(p, x),
           BlocksTyped', dir' = dir, dinode'[x].nlink = dinode[x].nlink,
           pc[p] \in LinkStages <=> pc'[p] \in LinkStages
    PROVE  LinksExact'
<1>1. Nil \notin Name
    BY Apart
<1>2. /\ Bit(Nil \in Name /\ dir[Nil] = x) = 0 /\ Bit(Nil \in Name /\ x = x) = 0
      /\ Bit(pc[p] \in LinkStages) = Bit(pc'[p] \in LinkStages)
    BY <1>1 DEF Bit
<1>3. dinode'[x].nlink + Bit(Nil \in Name /\ dir[Nil] = x) + Bit(pc[p] \in LinkStages)
         = dinode[x].nlink + Bit(Nil \in Name /\ x = x) + Bit(pc'[p] \in LinkStages)
    BY <1>2
<1> QED BY <1>1, <1>3, StayLinks

LEMMA StayKeeps ==
    ASSUME InodeAssumption, InodeInv, NEW p \in Proc, GoesOn(p), NEW x, Stays(p, x),
           pc'[p] # "creates", pc[p] \in {"freed", "drop"} => pc'[p] = "drop",
           dinode' = dinode \/ pc[p] \notin {"freed", "drop"},
           dinode'[x].type \/ (pc[p] = "free" /\ pc'[p] = "freed") \/ pc'[p] = "drop",
           dinode' = dinode \/ dinode'[x].type \/ pc[p] = "free",
           pc'[p] = "free" =>
              /\ dinode'[x].nlink = 0
              /\ \A q \in Proc \ {p} : ~On(q, x)
              /\ \A q \in Proc : ~Opens(q, x),
           LocksMove(p), RootMoves(p), StageOf(p)', BlocksTyped',
           CopiesFit', DiskFits(dinode, dir, bitmap)', LinksExact',
           stored' = stored
    PROVE  InodeInv'
<1>1. /\ x \in Inum /\ EntriesFit' /\ OtherRefs(p)
      /\ \A i : /\ On(p, i)' <=> i = x
                /\ On(p, i) <=> i = x
                /\ Opens(p, i)' <=> Opens(p, i)
                /\ ~Makes(p, i)'
    BY StayRefs
<1>2. Discreet(p)
    BY <1>1 DEF Discreet, Stays
<1>3. OwnFits(p)
    <2> SUFFICES ASSUME NEW i \in Inum
                 PROVE  /\ \/ On(p, i)' /\ pc'[p] \notin {"freed", "drop"}
                           \/ Opens(p, i)'
                           \/ Makes(p, i)'
                           => dinode'[i].type
                        /\ Makes(p, i)' \/ (pc'[p] = "creates" /\ On(p, i)') =>
                              /\ dinode'[i].nlink = 0
                              /\ \A q \in Proc \ {p} :
                                    On(q, i) => pc[q] \in {"freed", "drop"}
                              /\ \A q \in Proc \ {p} : ~Opens(q, i)
                              /\ ~Opens(p, i)'
                        /\ pc'[p] = "free" /\ On(p, i)' =>
                              /\ dinode'[i].nlink = 0
                              /\ \A q \in Proc \ {p} : ~On(q, i)
                              /\ \A q \in Proc \ {p} : ~Opens(q, i)
                              /\ ~Opens(p, i)'
        BY Zenon DEF OwnFits
    <2>1. Opens(p, i)' => dinode'[i].type
        <3>1. Opens(p, i)' => Opens(p, i) /\ dinode[i].type
            BY <1>1 DEF InodeInv, RefsLive
        <3>2. pc[p] = "free" => (Opens(p, i) => i # x)
            BY <1>1 DEF InodeInv, FreeAlone
        <3> QED BY <1>1, <3>1, <3>2 DEF Stays
    <2>2. On(p, i)' /\ pc'[p] \notin {"freed", "drop"} => dinode'[i].type
        BY <1>1
    <2> QED BY <1>1, <2>1, <2>2
<1> QED BY <1>1, <1>2, <1>3, StepKeeps DEF Stays

LEMMA LocksSame ==
    ASSUME InodeInv, NEW p \in Proc, ilocked' = ilocked,
           \A s \in Slot : Locks(p, s)' <=> Locks(p, s)
    PROVE  LocksMove(p)
BY DEF InodeInv, LocksFit, LocksMove

LEMMA LocksTaken ==
    ASSUME InodeAssumption, InodeInv, NEW p \in Proc, NEW s \in Slot, Lock(p, s),
           \A t \in Slot : ~Locks(p, t),
           \A t \in Slot : Locks(p, t)' <=> t = s
    PROVE  LocksMove(p)
<1>1. /\ ilocked \in [Slot -> Proc \cup {Nil}]
      /\ \A t \in Slot : ilocked[t] # p
      /\ ilocked[s] = Nil /\ ilocked' = [ilocked EXCEPT ![s] = p]
    BY DEF InodeInv, LocksFit, Lock, Unlocked
<1> QED BY <1>1, Apart DEF LocksMove

LEMMA LocksLeft ==
    ASSUME InodeAssumption, InodeInv, NEW p \in Proc, NEW s \in Slot, Unlock(s),
           \A t \in Slot : Locks(p, t) <=> t = s,
           \A t \in Slot : ~Locks(p, t)'
    PROVE  LocksMove(p)
<1>1. /\ ilocked \in [Slot -> Proc \cup {Nil}]
      /\ \A t \in Slot : ilocked[t] = p <=> t = s
      /\ ilocked' = [ilocked EXCEPT ![s] = Nil]
    BY DEF InodeInv, LocksFit, Unlock
<1> QED BY <1>1, Apart DEF LocksMove

(* The inode of p has c from now on, both in memory and on disk.             *)
Updates(p, c) ==
    \/ Rewrote(ip[p], c)
    \/ c = dinode[itable[ip[p]].inum] /\ UNCHANGED <<dinode, itable>>

(* It is in use before and after, and has the same blocks.                   *)
LEMMA UpdateKeeps ==
    ASSUME InodeAssumption, InodeInv, NEW p \in Proc, GoesOn(p), NEW x, NEW c,
           x = itable[ip[p]].inum, HasEntry(p), HasEntry(p)',
           ip'[p] = ip[p], file'[p] = file[p],
           pc[p] \notin {"freed", "drop"}, pc'[p] # "creates",
           Updates(p, c), c.type, c.addrs = dinode[x].addrs,
           NEW n, NEW v,
           n \in Name => /\ dir' = [dir EXCEPT ![n] = v]
                         /\ dir[n] \in {x, Nil} /\ v \in {x, Nil},
           n \notin Name => dir' = dir,
           c.nlink + Bit(n \in Name /\ dir[n] = x) + Bit(pc[p] \in LinkStages)
              = dinode[x].nlink + Bit(n \in Name /\ v = x) + Bit(pc'[p] \in LinkStages),
           bitmap' = bitmap, stored' = stored,
           LocksMove(p), RootMoves(p), StageOf(p)',
           pc'[p] = "free" =>
              /\ c.nlink = 0
              /\ \A q \in Proc \ {p} : ~On(q, x)
              /\ \A q \in Proc : ~Opens(q, x)
    PROVE  InodeInv'
<1>0. /\ dinode \in [Inum -> Dinode] /\ dir \in [Name -> Inum \cup {Nil}]
      /\ bitmap \subseteq Block /\ itable \in Itables
      /\ ip[p] \in Slot /\ x \in Inum /\ SameRest(p)
    BY Referred, StepTyped DEF InodeInv, TypeOK, Itables
<1>1. /\ dinode' \in [Inum -> Dinode] /\ dinode'[x] = c
      /\ \A i \in Inum : i # x => dinode'[i] = dinode[i]
      /\ itable' \in Itables /\ SameCounts
    <2>1. CASE Rewrote(ip[p], c)
        BY <2>1, Rewritten
    <2>2. CASE c = dinode[itable[ip[p]].inum] /\ UNCHANGED <<dinode, itable>>
        BY <2>2, <1>0 DEF SameCounts
    <2> QED BY <2>1, <2>2 DEF Updates
<1>2. Stays(p, x)
    BY <1>1 DEF Stays
<1>3. /\ dir' \in [Name -> Inum \cup {Nil}]
      /\ \A m \in Name : dir'[m] \in {dir[m], x, Nil}
    BY <1>0
<1>4. BlocksTyped'
    BY <1>0, <1>1, <1>3 DEF BlocksTyped
<1>5. LinksExact'
    BY <1>1, <1>2, <1>4, StayLinks
<1>6. CopiesFit'
    <2>1. CASE Rewrote(ip[p], c)
        BY <2>1, <1>0, CopiesRewritten
    <2>2. CASE UNCHANGED <<dinode, itable>>
        BY <2>2, <1>0, CopiesSame
    <2> QED BY <2>1, <2>2 DEF Updates
<1>7. DiskFits(dinode', dir', bitmap')
    <2>1. \A i \in Inum :
             /\ dinode'[i].addrs = dinode[i].addrs
             /\ ~dinode'[i].type => dinode'[i] = FreeDinode
        BY <1>0, <1>1 DEF InodeInv, DiskFits
    <2>2. \A m \in Name : dir'[m] # Nil => dinode'[dir'[m]].type
        BY <1>0, <1>1, <1>3 DEF InodeInv, DiskFits
    <2> QED BY <1>3, <2>1, <2>2, DiskStep
<1>8. DiskFits(dinode, dir, bitmap)'
    BY <1>7
<1> QED BY <1>1, <1>2, <1>4, <1>5, <1>6, <1>8, StayKeeps

LEMMA UpdateUnnamed ==
    ASSUME InodeAssumption, InodeInv, NEW p \in Proc, GoesOn(p), NEW x, NEW c,
           x = itable[ip[p]].inum, HasEntry(p), HasEntry(p)',
           ip'[p] = ip[p], file'[p] = file[p],
           pc[p] \notin {"freed", "drop"}, pc'[p] # "creates",
           Updates(p, c), c.type, c.addrs = dinode[x].addrs, dir' = dir,
           c.nlink + Bit(pc[p] \in LinkStages)
              = dinode[x].nlink + Bit(pc'[p] \in LinkStages),
           c.nlink \in Nat, dinode[x].nlink \in Nat,
           bitmap' = bitmap, stored' = stored,
           LocksMove(p), RootMoves(p), StageOf(p)',
           pc'[p] = "free" =>
              /\ c.nlink = 0
              /\ \A q \in Proc \ {p} : ~On(q, x)
              /\ \A q \in Proc : ~Opens(q, x)
    PROVE  InodeInv'
<1>1. Nil \notin Name
    BY Apart
<1>2. /\ Bit(Nil \in Name /\ dir[Nil] = x) = 0 /\ Bit(Nil \in Name /\ x = x) = 0
      /\ Bit(pc[p] \in LinkStages) \in Nat /\ Bit(pc'[p] \in LinkStages) \in Nat
    BY <1>1 DEF Bit
<1>3. c.nlink + Bit(Nil \in Name /\ dir[Nil] = x) + Bit(pc[p] \in LinkStages)
         = dinode[x].nlink + Bit(Nil \in Name /\ x = x) + Bit(pc'[p] \in LinkStages)
    BY <1>2
<1> QED BY <1>1, <1>3, UpdateKeeps

LEMMA InUse ==
    ASSUME InodeAssumption, InodeInv, NEW p \in Proc, HasEntry(p)
    PROVE  /\ ip[p] \in Slot /\ itable[ip[p]].inum \in Inum
           /\ dinode[itable[ip[p]].inum] \in Dinode
           /\ dinode[itable[ip[p]].inum].nlink \in Nat
           /\ pc[p] \notin {"freed", "drop"} => dinode[itable[ip[p]].inum].type
<1>1. ip[p] \in Slot /\ itable[ip[p]].inum \in Inum
    BY Referred DEF InodeInv
<1>2. On(p, itable[ip[p]].inum)
    BY DEF On
<1>3. dinode[itable[ip[p]].inum] \in Dinode
    BY <1>1 DEF InodeInv, TypeOK
<1> QED BY <1>1, <1>2, <1>3 DEF InodeInv, RefsLive, Dinode

LEMMA OpenLockKeeps ==
    ASSUME InodeAssumption, InodeInv, NEW p \in Proc, OpenLock(p)
    PROVE  InodeInv'
<1> DEFINE x == itable[ip[p]].inum
           c == dinode[x]
<1>1. /\ pc[p] = "open" /\ pc' = [pc EXCEPT ![p] = "opens"]
      /\ Lock(p, ip[p]) /\ SetCopy(ip[p], Copy(ip[p]))
      /\ UNCHANGED <<dinode, dir, bitmap, stored, rootlock, file, ip, name>>
    BY DEF OpenLock, At, Go, blocks
<1>2. HasEntry(p) /\ pc \in [Proc -> Stage] /\ pc'[p] = "opens" /\ HasEntry(p)'
    BY <1>1 DEF HasEntry, InodeInv, StagesFit
<1>3. Updates(p, c)
    BY <1>1, <1>2, EntryUsable, Rereads DEF Updates, Lock
<1>4. LocksMove(p)
    BY <1>1, <1>2, InUse, LocksTaken DEF Locks
<1>5. StageOf(p)'
    BY <1>1, <1>2 DEF InodeInv, StagesFit, StageOf
<1>6. RootMoves(p)
    BY <1>1 DEF RootMoves
<1>7. /\ c.type /\ c.nlink \in Nat
      /\ Bit(pc[p] \in LinkStages) = Bit(pc'[p] \in LinkStages)
    BY <1>1, <1>2, InUse DEF Bit, LinkStages
<1>8. GoesOn(p)
    BY DEF GoesOn
<1> HIDE DEF c
<1> QED BY <1>1, <1>2, <1>3, <1>4, <1>5, <1>6, <1>7, <1>8, UpdateUnnamed DEF c

LEMMA OpenFailsKeeps ==
    ASSUME InodeAssumption, InodeInv, NEW p \in Proc, OpenFails(p)
    PROVE  InodeInv'
<1> DEFINE x == itable[ip[p]].inum
           c == dinode[x]
<1>1. /\ pc[p] = "opens" /\ pc' = [pc EXCEPT ![p] = "put"]
      /\ Unlock(ip[p])
      /\ UNCHANGED <<dinode, dir, bitmap, itable, stored, rootlock, file, ip, name>>
    BY DEF OpenFails, At, Go, blocks
<1>2. HasEntry(p) /\ pc \in [Proc -> Stage] /\ pc'[p] = "put" /\ HasEntry(p)'
    BY <1>1 DEF HasEntry, InodeInv, StagesFit
<1>3. /\ ip[p] \in Slot /\ x \in Inum /\ dinode[x] \in Dinode
      /\ dinode[x].type /\ dinode[x].nlink \in Nat
    BY <1>1, <1>2, InUse
<1>4. Updates(p, c)
    BY <1>1 DEF Updates
<1>5. LocksMove(p)
    BY <1>1, <1>2, <1>3, LocksLeft DEF Locks
<1>6. StageOf(p)'
    BY <1>1, <1>2 DEF InodeInv, StagesFit, StageOf
<1>7. RootMoves(p)
    BY <1>1 DEF RootMoves
<1>8. Bit(pc[p] \in LinkStages) = Bit(pc'[p] \in LinkStages)
    BY <1>1, <1>2 DEF Bit, LinkStages
<1>9. GoesOn(p)
    BY DEF GoesOn
<1> HIDE DEF c
<1> QED BY <1>1, <1>2, <1>3, <1>4, <1>5, <1>6, <1>7, <1>8, <1>9, UpdateUnnamed DEF c

LEMMA CreateFailsKeeps ==
    ASSUME InodeAssumption, InodeInv, NEW p \in Proc, CreateFails(p)
    PROVE  InodeInv'
<1> DEFINE x == itable[ip[p]].inum
           c == [dinode[x] EXCEPT !.nlink = 0]
<1>1. /\ pc[p] = "creates" /\ pc' = [pc EXCEPT ![p] = "put"]
      /\ Unlocked(ip[p])
      /\ name' = [name EXCEPT ![p] = Nil]
      /\ iupdate(ip[p], [Copy(ip[p]) EXCEPT !.nlink = 0])
      /\ UNCHANGED <<dir, bitmap, stored, ilocked, rootlock, file, ip>>
    BY DEF CreateFails, At, Go, blocks
<1>2. HasEntry(p) /\ pc \in [Proc -> Stage] /\ pc'[p] = "put" /\ HasEntry(p)'
    BY <1>1 DEF HasEntry, InodeInv, StagesFit
<1>3. /\ ip[p] \in Slot /\ x \in Inum /\ dinode[x] \in Dinode
      /\ dinode[x].type /\ dinode[x].nlink \in Nat
    BY <1>1, <1>2, InUse
<1>4. /\ c \in Dinode /\ c.type /\ c.nlink = 0 /\ c.addrs = dinode[x].addrs
      /\ dinode[x].nlink = 0
    <2>1. On(p, x)
        BY <1>2 DEF On
    <2> QED BY <1>1, <1>3, <2>1 DEF Dinode, InodeInv, Newborn
<1>5. Updates(p, c)
    <2>1. Usable(ip[p]) /\ Copy(ip[p]) = dinode[x]
        BY <1>1, <1>2, EntryUsable DEF Usable
    <2>2. iupdate(ip[p], c)
        BY <1>1, <2>1
    <2> HIDE DEF c
    <2> QED BY <1>4, <2>1, <2>2, Rewrites DEF Updates
<1>6. LocksMove(p)
    BY <1>1, <1>2, <1>3, LocksSame DEF Locks
<1>7. StageOf(p)'
    BY <1>1, <1>2 DEF InodeInv, StagesFit, StageOf
<1>8. RootMoves(p)
    BY <1>1 DEF RootMoves
<1>9. Bit(pc[p] \in LinkStages) = Bit(pc'[p] \in LinkStages)
    BY <1>1, <1>2 DEF Bit, LinkStages
<1>10. GoesOn(p)
    BY DEF GoesOn
<1> HIDE DEF c
<1> QED BY <1>1, <1>2, <1>3, <1>4, <1>5, <1>6, <1>7, <1>8, <1>9, <1>10, UpdateUnnamed

LEMMA UnlinkInodeKeeps ==
    ASSUME InodeAssumption, InodeInv, NEW p \in Proc, UnlinkInode(p)
    PROVE  InodeInv'
<1> DEFINE x == itable[ip[p]].inum
           c == [dinode[x] EXCEPT !.nlink = dinode[x].nlink + (-1)]
<1>1. /\ pc[p] = "unlinks" /\ pc' = [pc EXCEPT ![p] = "put"]
      /\ Unlock(ip[p])
      /\ iupdate(ip[p], MoreLinks(ip[p], -1))
      /\ UNCHANGED <<dir, bitmap, stored, rootlock, file, ip, name>>
    BY DEF UnlinkInode, At, Go, blocks
<1>2. HasEntry(p) /\ pc \in [Proc -> Stage] /\ pc'[p] = "put" /\ HasEntry(p)'
    BY <1>1 DEF HasEntry, InodeInv, StagesFit
<1>3. /\ ip[p] \in Slot /\ x \in Inum /\ dinode[x] \in Dinode
      /\ dinode[x].type /\ dinode[x].nlink \in Nat
    BY <1>1, <1>2, InUse
<1>4. dinode[x].nlink > 0
    BY <1>1, LinkCounted
<1>5. /\ c \in Dinode /\ c.type /\ c.nlink = dinode[x].nlink + (-1)
      /\ c.nlink \in Nat /\ c.addrs = dinode[x].addrs
    BY <1>3, <1>4 DEF Dinode
<1>6. Updates(p, c)
    <2>1. Usable(ip[p]) /\ Copy(ip[p]) = dinode[x]
        BY <1>1, <1>2, EntryUsable DEF Usable
    <2>2. iupdate(ip[p], c)
        BY <1>1, <2>1 DEF MoreLinks
    <2> HIDE DEF c
    <2> QED BY <1>5, <2>1, <2>2, Rewrites DEF Updates
<1>7. LocksMove(p)
    BY <1>1, <1>2, <1>3, LocksLeft DEF Locks
<1>8. StageOf(p)'
    BY <1>1, <1>2 DEF InodeInv, StagesFit, StageOf
<1>9. RootMoves(p)
    BY <1>1 DEF RootMoves
<1>10. Bit(pc[p] \in LinkStages) = 1 /\ Bit(pc'[p] \in LinkStages) = 0
    BY <1>1, <1>2 DEF Bit, LinkStages
<1>11. GoesOn(p)
    BY DEF GoesOn
<1> HIDE DEF c
<1>12. c.nlink + Bit(pc[p] \in LinkStages)
          = dinode[x].nlink + Bit(pc'[p] \in LinkStages)
    BY <1>3, <1>5, <1>10
<1> QED BY <1>1, <1>2, <1>3, <1>5, <1>6, <1>7, <1>8, <1>9, <1>11, <1>12,
           UpdateUnnamed

LEMMA LinkInodeKeeps ==
    ASSUME InodeAssumption, InodeInv, NEW p \in Proc, LinkInode(p)
    PROVE  InodeInv'
<1> DEFINE x == itable[ip[p]].inum
           c == [dinode[x] EXCEPT !.nlink = dinode[x].nlink + (1)]
<1>1. /\ pc[p] = "link" /\ pc' = [pc EXCEPT ![p] = "links"]
      /\ Unlocked(ip[p])
      /\ iupdate(ip[p], MoreLinks(ip[p], 1))
      /\ UNCHANGED <<dir, bitmap, stored, rootlock, file, ip, name, ilocked>>
    BY DEF LinkInode, At, Go, blocks
<1>2. HasEntry(p) /\ pc \in [Proc -> Stage] /\ pc'[p] = "links" /\ HasEntry(p)'
    BY <1>1 DEF HasEntry, InodeInv, StagesFit
<1>3. /\ ip[p] \in Slot /\ x \in Inum /\ dinode[x] \in Dinode
      /\ dinode[x].type /\ dinode[x].nlink \in Nat
    BY <1>1, <1>2, InUse
<1>4. dinode[x].nlink + 1 \in Nat
    BY <1>3
<1>5. /\ c \in Dinode /\ c.type /\ c.nlink = dinode[x].nlink + (1)
      /\ c.nlink \in Nat /\ c.addrs = dinode[x].addrs
    BY <1>3, <1>4 DEF Dinode
<1>6. Updates(p, c)
    <2>1. Usable(ip[p]) /\ Copy(ip[p]) = dinode[x]
        BY <1>1, <1>2, EntryUsable DEF Usable
    <2>2. iupdate(ip[p], c)
        BY <1>1, <2>1 DEF MoreLinks
    <2> HIDE DEF c
    <2> QED BY <1>5, <2>1, <2>2, Rewrites DEF Updates
<1>7. LocksMove(p)
    BY <1>1, <1>2, <1>3, LocksSame DEF Locks
<1>8. StageOf(p)'
    BY <1>1, <1>2 DEF InodeInv, StagesFit, StageOf
<1>9. RootMoves(p)
    BY <1>1 DEF RootMoves
<1>10. Bit(pc[p] \in LinkStages) = 0 /\ Bit(pc'[p] \in LinkStages) = 1
    BY <1>1, <1>2 DEF Bit, LinkStages
<1>11. GoesOn(p)
    BY DEF GoesOn
<1> HIDE DEF c
<1>12. c.nlink + Bit(pc[p] \in LinkStages)
          = dinode[x].nlink + Bit(pc'[p] \in LinkStages)
    BY <1>3, <1>5, <1>10
<1> QED BY <1>1, <1>2, <1>3, <1>5, <1>6, <1>7, <1>8, <1>9, <1>11, <1>12,
           UpdateUnnamed

LEMMA LinkUndoneKeeps ==
    ASSUME InodeAssumption, InodeInv, NEW p \in Proc, LinkUndone(p)
    PROVE  InodeInv'
<1> DEFINE x == itable[ip[p]].inum
           c == [dinode[x] EXCEPT !.nlink = dinode[x].nlink + (-1)]
<1>1. /\ pc[p] = "undo" /\ pc' = [pc EXCEPT ![p] = "put"]
      /\ Unlocked(ip[p])
      /\ iupdate(ip[p], MoreLinks(ip[p], -1))
      /\ UNCHANGED <<dir, bitmap, stored, rootlock, file, ip, name, ilocked>>
    BY DEF LinkUndone, At, Go, blocks
<1>2. HasEntry(p) /\ pc \in [Proc -> Stage] /\ pc'[p] = "put" /\ HasEntry(p)'
    BY <1>1 DEF HasEntry, InodeInv, StagesFit
<1>3. /\ ip[p] \in Slot /\ x \in Inum /\ dinode[x] \in Dinode
      /\ dinode[x].type /\ dinode[x].nlink \in Nat
    BY <1>1, <1>2, InUse
<1>4. dinode[x].nlink > 0
    BY <1>1, LinkCounted
<1>5. /\ c \in Dinode /\ c.type /\ c.nlink = dinode[x].nlink + (-1)
      /\ c.nlink \in Nat /\ c.addrs = dinode[x].addrs
    BY <1>3, <1>4 DEF Dinode
<1>6. Updates(p, c)
    <2>1. Usable(ip[p]) /\ Copy(ip[p]) = dinode[x]
        BY <1>1, <1>2, EntryUsable DEF Usable
    <2>2. iupdate(ip[p], c)
        BY <1>1, <2>1 DEF MoreLinks
    <2> HIDE DEF c
    <2> QED BY <1>5, <2>1, <2>2, Rewrites DEF Updates
<1>7. LocksMove(p)
    BY <1>1, <1>2, <1>3, LocksSame DEF Locks
<1>8. StageOf(p)'
    BY <1>1, <1>2 DEF InodeInv, StagesFit, StageOf
<1>9. RootMoves(p)
    BY <1>1 DEF RootMoves
<1>10. Bit(pc[p] \in LinkStages) = 1 /\ Bit(pc'[p] \in LinkStages) = 0
    BY <1>1, <1>2 DEF Bit, LinkStages
<1>11. GoesOn(p)
    BY DEF GoesOn
<1> HIDE DEF c
<1>12. c.nlink + Bit(pc[p] \in LinkStages)
          = dinode[x].nlink + Bit(pc'[p] \in LinkStages)
    BY <1>3, <1>5, <1>10
<1> QED BY <1>1, <1>2, <1>3, <1>5, <1>6, <1>7, <1>8, <1>9, <1>11, <1>12,
           UpdateUnnamed

LEMMA LinkFailsKeeps ==
    ASSUME InodeAssumption, InodeInv, NEW p \in Proc, LinkFails(p)
    PROVE  InodeInv'
<1> DEFINE x == itable[ip[p]].inum
           c == dinode[x]
<1>1. /\ pc[p] = "links" /\ pc' = [pc EXCEPT ![p] = "undo"]
      /\ name' = [name EXCEPT ![p] = Nil]
      /\ UNCHANGED <<dinode, dir, bitmap, itable, stored, ilocked, rootlock, file, ip>>
    BY DEF LinkFails, At, Go, blocks
<1>2. HasEntry(p) /\ pc \in [Proc -> Stage] /\ pc'[p] = "undo" /\ HasEntry(p)'
    BY <1>1 DEF HasEntry, InodeInv, StagesFit
<1>3. /\ ip[p] \in Slot /\ x \in Inum /\ dinode[x] \in Dinode
      /\ dinode[x].type /\ dinode[x].nlink \in Nat
    BY <1>1, <1>2, InUse
<1>4. Updates(p, c)
    BY <1>1 DEF Updates
<1>5. LocksMove(p)
    BY <1>1, <1>2, <1>3, LocksSame DEF Locks
<1>6. StageOf(p)'
    BY <1>1, <1>2 DEF InodeInv, StagesFit, StageOf
<1>7. RootMoves(p)
    BY <1>1 DEF RootMoves
<1>8. Bit(pc[p] \in LinkStages) = Bit(pc'[p] \in LinkStages)
    BY <1>1, <1>2 DEF Bit, LinkStages
<1>9. GoesOn(p)
    BY DEF GoesOn
<1> HIDE DEF c
<1> QED BY <1>1, <1>2, <1>3, <1>4, <1>5, <1>6, <1>7, <1>8, <1>9, UpdateUnnamed DEF c

LEMMA PutLastKeeps ==
    ASSUME InodeAssumption, InodeInv, NEW p \in Proc, PutLast(p)
    PROVE  InodeInv'
<1> DEFINE x == itable[ip[p]].inum
           c == dinode[x]
<1>1. /\ pc[p] = "put" /\ pc' = [pc EXCEPT ![p] = "free"]
      /\ IsLast(ip[p])
      /\ Lock(p, ip[p])
      /\ UNCHANGED <<dinode, dir, bitmap, itable, stored, rootlock, file, ip, name>>
    BY DEF PutLast, At, Go, blocks
<1>2. HasEntry(p) /\ pc \in [Proc -> Stage] /\ pc'[p] = "free" /\ HasEntry(p)'
    BY <1>1 DEF HasEntry, InodeInv, StagesFit
<1>3. /\ ip[p] \in Slot /\ x \in Inum /\ dinode[x] \in Dinode
      /\ dinode[x].type /\ dinode[x].nlink \in Nat
    BY <1>1, <1>2, InUse
<1>4. Updates(p, c)
    BY <1>1 DEF Updates
<1>5. LocksMove(p)
    BY <1>1, <1>2, <1>3, LocksTaken DEF Locks
<1>6. StageOf(p)'
    BY <1>1, <1>2 DEF InodeInv, StagesFit, StageOf
<1>7. RootMoves(p)
    BY <1>1 DEF RootMoves
<1>8. Bit(pc[p] \in LinkStages) = Bit(pc'[p] \in LinkStages)
    BY <1>1, <1>2 DEF Bit, LinkStages
<1>9. GoesOn(p)
    BY DEF GoesOn
<1>10. dinode[x].nlink = 0
    <2>1. Copy(ip[p]) = dinode[x]
        BY <1>1, <1>2, EntryUsable DEF Usable, Lock
    <2> QED BY <1>1, <2>1 DEF IsLast, Copy
<1>11. /\ \A q \in Proc \ {p} : ~On(q, x)
       /\ \A q \in Proc : ~Opens(q, x)
    <2>1. /\ \A q \in Proc \ {p} : HasEntry(q) => ip[q] # ip[p]
          /\ \A q \in Proc : file[q] # ip[p]
        BY <1>1, <1>2, OnlyReference DEF IsLast, InodeInv
    <2>2. itable[ip[p]].ref > 0
        BY <1>1 DEF IsLast
    <2>3. \A s \in Slot : itable[s].ref > 0 /\ itable[s].inum = x => s = ip[p]
        BY <1>3, <2>2 DEF InodeInv, EntriesFit
    <2> QED BY <2>1, <2>3, Referred DEF On, Opens, InodeInv
<1> HIDE DEF c
<1> QED BY <1>1, <1>2, <1>3, <1>4, <1>5, <1>6, <1>7, <1>8, <1>9, <1>10, <1>11,
           UpdateUnnamed DEF c

LEMMA CreateLinkKeeps ==
    ASSUME InodeAssumption, InodeInv, NEW p \in Proc, CreateLink(p)
    PROVE  InodeInv'
<1> DEFINE x == itable[ip[p]].inum
           c == [dinode[x] EXCEPT !.nlink = 1]
           n == name[p]
<1>1. /\ pc[p] = "creates" /\ pc' = [pc EXCEPT ![p] = "opens"]
      /\ Lock(p, ip[p]) /\ iupdate(ip[p], [Copy(ip[p]) EXCEPT !.nlink = 1])
      /\ dir' = [dir EXCEPT ![n] = x]
      /\ rootlock' = Nil /\ name' = [name EXCEPT ![p] = Nil]
      /\ UNCHANGED <<bitmap, stored, file, ip>>
    BY DEF CreateLink, At, Go
<1>2. HasEntry(p) /\ pc \in [Proc -> Stage] /\ pc'[p] = "opens" /\ HasEntry(p)'
    BY <1>1 DEF HasEntry, InodeInv, StagesFit
<1>3. /\ ip[p] \in Slot /\ x \in Inum /\ dinode[x] \in Dinode
      /\ dinode[x].type /\ dinode[x].nlink \in Nat
    BY <1>1, <1>2, InUse
<1>4. /\ c \in Dinode /\ c.type /\ c.nlink = 1 /\ c.addrs = dinode[x].addrs
      /\ dinode[x].nlink = 0
    <2>1. On(p, x)
        BY <1>2 DEF On
    <2> QED BY <1>1, <1>3, <2>1 DEF Dinode, InodeInv, Newborn
<1>5. Updates(p, c)
    <2>1. Usable(ip[p]) /\ Copy(ip[p]) = dinode[x]
        BY <1>1, <1>2, EntryUsable DEF Usable, Lock
    <2>2. iupdate(ip[p], c)
        BY <1>1, <2>1
    <2> HIDE DEF c
    <2> QED BY <1>4, <2>1, <2>2, Rewrites DEF Updates
<1>6. LocksMove(p)
    BY <1>1, <1>2, <1>3, LocksTaken DEF Locks
<1>7. n \in Name /\ dir[n] = Nil /\ rootlock = p /\ file[p] = Nil
    BY <1>1 DEF InodeInv, StagesFit, StageOf
<1>8. StageOf(p)'
    BY <1>1, <1>2, <1>3, <1>7, Apart DEF StageOf
<1>9. RootMoves(p)
    BY <1>1, <1>7 DEF RootMoves
<1>10. /\ Bit(pc[p] \in LinkStages) = 0 /\ Bit(pc'[p] \in LinkStages) = 0
       /\ Bit(n \in Name /\ dir[n] = x) = 0 /\ Bit(n \in Name /\ x = x) = 1
    BY <1>1, <1>2, <1>3, <1>7, Apart DEF Bit, LinkStages
<1>11. GoesOn(p)
    BY DEF GoesOn
<1> HIDE DEF c
<1>12. c.nlink + Bit(n \in Name /\ dir[n] = x) + Bit(pc[p] \in LinkStages)
          = dinode[x].nlink + Bit(n \in Name /\ x = x) + Bit(pc'[p] \in LinkStages)
    BY <1>4, <1>10
<1> QED BY <1>1, <1>2, <1>3, <1>4, <1>5, <1>6, <1>7, <1>8, <1>9, <1>11, <1>12,
           UpdateKeeps

LEMMA UnlinkNameKeeps ==
    ASSUME InodeAssumption, InodeInv, NEW p \in Proc, UnlinkName(p)
    PROVE  InodeInv'
<1> DEFINE x == itable[ip[p]].inum
           c == dinode[x]
           n == name[p]
<1>1. /\ pc[p] = "unlink" /\ pc' = [pc EXCEPT ![p] = "unlinks"]
      /\ Lock(p, ip[p]) /\ SetCopy(ip[p], Copy(ip[p]))
      /\ dir' = [dir EXCEPT ![n] = Nil]
      /\ rootlock' = Nil /\ name' = [name EXCEPT ![p] = Nil]
      /\ UNCHANGED <<dinode, bitmap, stored, file, ip>>
    BY DEF UnlinkName, At, Go
<1>2. HasEntry(p) /\ pc \in [Proc -> Stage] /\ pc'[p] = "unlinks" /\ HasEntry(p)'
    BY <1>1 DEF HasEntry, InodeInv, StagesFit
<1>3. /\ ip[p] \in Slot /\ x \in Inum /\ dinode[x] \in Dinode
      /\ dinode[x].type /\ dinode[x].nlink \in Nat
    BY <1>1, <1>2, InUse
<1>4. Updates(p, c)
    BY <1>1, <1>2, EntryUsable, Rereads DEF Updates, Lock
<1>5. LocksMove(p)
    BY <1>1, <1>2, <1>3, LocksTaken DEF Locks
<1>6. n \in Name /\ dir[n] = x /\ rootlock = p
    BY <1>1 DEF InodeInv, StagesFit, StageOf, On
<1>7. StageOf(p)'
    BY <1>1, <1>2, <1>3, <1>6, Apart DEF StageOf
<1>8. RootMoves(p)
    BY <1>1, <1>6 DEF RootMoves
<1>9. /\ Bit(pc[p] \in LinkStages) = 0 /\ Bit(pc'[p] \in LinkStages) = 1
      /\ Bit(n \in Name /\ dir[n] = x) = 1 /\ Bit(n \in Name /\ Nil = x) = 0
    BY <1>1, <1>2, <1>3, <1>6, Apart DEF Bit, LinkStages
<1>10. GoesOn(p)
    BY DEF GoesOn
<1>11. c.nlink + Bit(n \in Name /\ dir[n] = x) + Bit(pc[p] \in LinkStages)
          = dinode[x].nlink + Bit(n \in Name /\ Nil = x) + Bit(pc'[p] \in LinkStages)
    BY <1>3, <1>9
<1> QED BY <1>1, <1>2, <1>3, <1>4, <1>5, <1>6, <1>7, <1>8, <1>10, <1>11, UpdateKeeps

LEMMA LinkNameKeeps ==
    ASSUME InodeAssumption, InodeInv, NEW p \in Proc, LinkName(p)
    PROVE  InodeInv'
<1> DEFINE x == itable[ip[p]].inum
           c == dinode[x]
           n == name[p]
<1>1. /\ pc[p] = "links" /\ pc' = [pc EXCEPT ![p] = "put"]
      /\ rootlock = Nil /\ dir[n] = Nil /\ dir' = [dir EXCEPT ![n] = x]
      /\ name' = [name EXCEPT ![p] = Nil]
      /\ UNCHANGED <<dinode, bitmap, itable, stored, ilocked, rootlock, file, ip>>
    BY DEF LinkName, At, Go
<1>2. HasEntry(p) /\ pc \in [Proc -> Stage] /\ pc'[p] = "put" /\ HasEntry(p)'
    BY <1>1 DEF HasEntry, InodeInv, StagesFit
<1>3. /\ ip[p] \in Slot /\ x \in Inum /\ dinode[x] \in Dinode
      /\ dinode[x].type /\ dinode[x].nlink \in Nat
    BY <1>1, <1>2, InUse
<1>4. Updates(p, c)
    BY <1>1 DEF Updates
<1>5. LocksMove(p)
    BY <1>1, <1>2, <1>3, LocksSame DEF Locks
<1>6. n \in Name
    BY <1>1 DEF InodeInv, StagesFit, StageOf
<1>7. StageOf(p)'
    BY <1>1, <1>2, <1>3, Apart DEF StageOf
<1>8. RootMoves(p)
    BY <1>1 DEF RootMoves
<1>9. /\ Bit(pc[p] \in LinkStages) = 1 /\ Bit(pc'[p] \in LinkStages) = 0
      /\ Bit(n \in Name /\ dir[n] = x) = 0 /\ Bit(n \in Name /\ x = x) = 1
    BY <1>1, <1>2, <1>3, <1>6, Apart DEF Bit, LinkStages
<1>10. GoesOn(p)
    BY DEF GoesOn
<1>11. c.nlink + Bit(n \in Name /\ dir[n] = x) + Bit(pc[p] \in LinkStages)
          = dinode[x].nlink + Bit(n \in Name /\ x = x) + Bit(pc'[p] \in LinkStages)
    BY <1>3, <1>9
<1> QED BY <1>1, <1>2, <1>3, <1>4, <1>5, <1>6, <1>7, <1>8, <1>10, <1>11, UpdateKeeps

LEMMA FreeKeeps ==
    ASSUME InodeAssumption, InodeInv, NEW p \in Proc, Free(p)
    PROVE  InodeInv'
<1> DEFINE x == itable[ip[p]].inum
           c == [dinode[x] EXCEPT !.addrs = {}, !.type = FALSE]
<1>1. /\ pc[p] = "free" /\ pc' = [pc EXCEPT ![p] = "freed"]
      /\ bitmap' = bitmap \ Copy(ip[p]).addrs
      /\ iupdate(ip[p], [Copy(ip[p]) EXCEPT !.addrs = {}, !.type = FALSE])
      /\ UNCHANGED <<dir, stored, ilocked, rootlock, file, ip, name>>
    BY DEF Free, At, Go
<1>2. HasEntry(p) /\ pc \in [Proc -> Stage] /\ pc'[p] = "freed" /\ HasEntry(p)'
    BY <1>1 DEF HasEntry, InodeInv, StagesFit
<1>3. /\ ip[p] \in Slot /\ x \in Inum /\ dinode[x] \in Dinode
      /\ dinode[x].type /\ dinode[x].nlink \in Nat
    BY <1>1, <1>2, InUse
<1>4. dinode[x].nlink = 0
    <2>1. On(p, x)
        BY <1>2 DEF On
    <2> QED BY <1>1, <1>3, <2>1 DEF InodeInv, FreeAlone
<1>5. c \in Dinode /\ c = FreeDinode
    <2>1. PICK d : d = dinode[x]
        OBVIOUS
    <2>2. d \in [type : BOOLEAN, nlink : Nat, addrs : SUBSET Block] /\ d.nlink = 0
        BY <1>3, <1>4, <2>1 DEF Dinode
    <2> DEFINE e == [d EXCEPT !.addrs = {}, !.type = FALSE]
    <2>3. /\ e \in [type : BOOLEAN, nlink : Nat, addrs : SUBSET Block]
          /\ e.type = FALSE /\ e.nlink = 0 /\ e.addrs = {}
        BY <2>2
    <2> HIDE DEF e
    <2>4. e = [type |-> FALSE, nlink |-> 0, addrs |-> {}]
        BY <2>3
    <2> QED BY <2>1, <2>3, <2>4 DEF e, Dinode, FreeDinode
<1>6. Rewrote(ip[p], c) /\ Copy(ip[p]) = dinode[x]
    <2>1. Usable(ip[p]) /\ Copy(ip[p]) = dinode[x]
        BY <1>1, <1>2, EntryUsable DEF Usable
    <2>2. iupdate(ip[p], c)
        BY <1>1, <2>1
    <2> HIDE DEF c
    <2> QED BY <1>5, <2>1, <2>2, Rewrites
<1> HIDE DEF c
<1>7. /\ dinode' \in [Inum -> Dinode] /\ dinode'[x] = c
      /\ \A i \in Inum : i # x => dinode'[i] = dinode[i]
      /\ itable' \in Itables /\ SameCounts
    BY <1>6, Rewritten
<1>8. Stays(p, x) /\ SameRest(p) /\ GoesOn(p)
    BY <1>1, <1>2, <1>7, StepTyped DEF Stays, GoesOn, InodeInv
<1>9. BlocksTyped'
    BY <1>1, <1>7 DEF BlocksTyped, InodeInv, TypeOK
<1>10. LinksExact'
    <2>1. dinode'[x].nlink = dinode[x].nlink
        BY <1>4, <1>5, <1>7 DEF FreeDinode
    <2> QED BY <1>1, <1>2, <1>8, <1>9, <2>1, StayLinksSame DEF LinkStages
<1>11. CopiesFit'
    <2>1. CopyFits(ip[p])'
        BY <1>1, <1>2 DEF CopyFits
    <2>2. ASSUME NEW t \in Slot \ {ip[p]}
          PROVE  CopyFits(t)'
        <3>1. itable'[t] = itable[t]
            BY <1>6, <2>2 DEF Rewrote, Wrote
        <3>2. itable[t].ref > 0 => itable[t].inum \in Inum /\ itable[t].inum # x
            BY <1>3, <1>6, <2>2 DEF InodeInv, EntriesFit, Rewrote, Usable
        <3>3. itable[t].ref > 0 => dinode'[itable[t].inum] = dinode[itable[t].inum]
            BY <3>2, <1>7
        <3>4. pc[p] # "freed"
            BY <1>1
        <3> QED BY <1>8, <3>1, <3>3, <3>4, CopyKept
    <2>3. ip'[p] = ip[p]
        BY <1>1
    <2> QED BY <1>3, <2>1, <2>2, <2>3 DEF CopiesFit, CopyFits
<1>12. DiskFits(dinode, dir, bitmap)'
    <2>1. /\ bitmap' = UNION {dinode'[j].addrs : j \in Inum}
          /\ \A j, k \in Inum : j # k => dinode'[j].addrs \cap dinode'[k].addrs = {}
        BY <1>1, <1>3, <1>5, <1>6, <1>7, BlocksFreed DEF FreeDinode
    <2>2. \A i \in Inum : ~dinode'[i].type => dinode'[i] = FreeDinode
        BY <1>5, <1>7 DEF InodeInv, DiskFits
    <2>3. \A n \in Name : dir'[n] # Nil => dinode'[dir'[n]].type
        BY <1>1, <1>4, <1>7, NameCounted
    <2> QED BY <2>1, <2>2, <2>3 DEF DiskFits
<1>13. LocksMove(p)
    BY <1>1, <1>2, <1>3, LocksSame DEF Locks
<1>14. StageOf(p)'
    BY <1>1, <1>2 DEF InodeInv, StagesFit, StageOf
<1>15. RootMoves(p)
    BY <1>1 DEF RootMoves
<1> QED BY <1>1, <1>2, <1>8, <1>9, <1>10, <1>11, <1>12, <1>13, <1>14, <1>15, StayKeeps

LEMMA FreedKeeps ==
    ASSUME InodeAssumption, InodeInv, NEW p \in Proc, Freed(p)
    PROVE  InodeInv'
<1> DEFINE x == itable[ip[p]].inum
<1>1. /\ pc[p] = "freed" /\ pc' = [pc EXCEPT ![p] = "drop"] /\ Unlock(ip[p])
      /\ itable' = [itable EXCEPT ![ip[p]].valid = FALSE]
      /\ UNCHANGED <<dinode, dir, bitmap, stored, rootlock, file, ip, name>>
    BY DEF Freed, At, Go, blocks
<1>2. HasEntry(p) /\ pc \in [Proc -> Stage] /\ pc'[p] = "drop" /\ HasEntry(p)'
    BY <1>1 DEF HasEntry, InodeInv, StagesFit
<1>3. /\ ip[p] \in Slot /\ x \in Inum /\ itable \in Itables
    BY <1>2, InUse DEF InodeInv, TypeOK, Itables
<1>4. /\ itable' \in Itables /\ SameCounts /\ ~itable'[ip[p]].valid
      /\ \A t \in Slot : t # ip[p] => itable'[t] = itable[t]
    BY <1>1, <1>3 DEF Itables, SameCounts
<1>5. Stays(p, x) /\ SameRest(p) /\ GoesOn(p)
    BY <1>1, <1>2, <1>4, StepTyped DEF Stays, GoesOn, InodeInv
<1>6. BlocksTyped'
    BY <1>1 DEF BlocksTyped, InodeInv, TypeOK
<1>7. LinksExact'
    BY <1>1, <1>2, <1>5, <1>6, StayLinksSame DEF LinkStages
<1>8. CopiesFit'
    <2>1. ASSUME NEW t \in Slot, itable'[t].ref > 0, itable'[t].valid
          PROVE  \/ /\ itable'[t].copy = dinode'[itable'[t].inum]
                    /\ dinode'[itable'[t].inum].type
                 \/ \E q \in Proc : pc'[q] = "freed" /\ ip'[q] = t
        <3>1. t # ip[p] /\ itable'[t] = itable[t]
            BY <1>4, <2>1
        <3>2. \/ itable[t].copy = dinode[itable[t].inum] /\ dinode[itable[t].inum].type
              \/ \E q \in Proc : pc[q] = "freed" /\ ip[q] = t
            BY <2>1, <3>1 DEF InodeInv, CopiesFit, CopyFits
        <3>3. ASSUME NEW q \in Proc, pc[q] = "freed", ip[q] = t
              PROVE  pc'[q] = "freed" /\ ip'[q] = t
            BY <1>5, <3>1, <3>3 DEF SameRest
        <3> QED BY <1>1, <3>1, <3>2, <3>3
    <2> QED BY <2>1 DEF CopiesFit, CopyFits
<1>9. DiskFits(dinode, dir, bitmap)'
    BY <1>1 DEF InodeInv, DiskFits
<1>10. LocksMove(p)
    BY <1>1, <1>2, <1>3, LocksLeft DEF Locks
<1>11. StageOf(p)'
    BY <1>1, <1>2 DEF InodeInv, StagesFit, StageOf
<1>12. RootMoves(p)
    BY <1>1 DEF RootMoves
<1> QED BY <1>1, <1>2, <1>5, <1>6, <1>7, <1>8, <1>9, <1>10, <1>11, <1>12, StayKeeps

-----------------------------------------------------------------------------
(* Steps by which p comes to an entry, or leaves it.                         *)

LEMMA QuietLinks ==
    ASSUME InodeAssumption, InodeInv, NEW p \in Proc, OtherRefs(p), dir' = dir,
           \A i \in Inum : dinode'[i].nlink = dinode[i].nlink,
           pc[p] \notin LinkStages, pc'[p] \notin LinkStages
    PROVE  LinksExact'
<1>1. Nil \notin Name
    BY Apart
<1>2. \A i : p \notin Pending(i) /\ ~(p \in Pending(i)')
    BY Zenon DEF Pending, LinkStages
<1>3. ASSUME NEW i \in Inum
      PROVE  /\ dinode'[i].nlink \in Nat
             /\ dinode'[i].nlink + Bit(Nil \in Name /\ dir[Nil] = i) + Bit(p \in Pending(i))
                   = dinode[i].nlink + Bit(Nil \in Name /\ Nil = i) + Bit(p \in Pending(i)')
    <2>1. /\ Bit(p \in Pending(i)) = 0 /\ Bit(p \in Pending(i)') = 0
          /\ Bit(Nil \in Name /\ dir[Nil] = i) = 0 /\ Bit(Nil \in Name /\ Nil = i) = 0
        BY <1>1, <1>2 DEF Bit
    <2>2. dinode'[i].nlink = dinode[i].nlink /\ dinode[i].nlink \in Nat
        BY DEF InodeInv, TypeOK, Dinode
    <2> QED BY <2>1, <2>2
<1> QED BY <1>1, <1>3, LinksStep

LEMMA GotKeeps ==
    ASSUME InodeAssumption, InodeInv, NEW p \in Proc, Calls(p) \/ GoesOn(p),
           NEW i \in Inum, iget(p, i), pc[p] \in {"idle", "create"},
           pc'[p] \in {"open", "creates", "unlink", "link"},
           dinode[i].type,
           IF pc'[p] = "creates" THEN Makes(p, i) ELSE dinode[i].nlink # 0,
           UNCHANGED <<dinode, dir, bitmap, stored, ilocked, file>>,
           RootMoves(p), Got(p, i) => StageOf(p)'
    PROVE  InodeInv'
<1>1. Got(p, i)
    BY EntryGot
<1>2. SameRest(p) /\ file' \in [Proc -> Slot \cup {Nil}]
    BY StepTyped DEF InodeInv
<1>3. EntriesFit' /\ OtherRefs(p)
    BY <1>1, <1>2, EntriesStep DEF InodeInv, Got, Itables
<1>4. \A j : On(p, j)' <=> j = i
    BY <1>1 DEF Got, On, HasEntry
<1>5. \A j : Opens(p, j)' <=> Opens(p, j)
    <2>1. file'[p] = file[p] /\ file' = file
        OBVIOUS
    <2>2. file[p] # Nil => itable'[file[p]].inum = itable[file[p]].inum
        <3>1. file[p] # Nil => file[p] \in Slot /\ itable[file[p]].ref > 0
            BY Referred DEF InodeInv
        <3> QED BY <1>1, <3>1 DEF Got
    <2> QED BY <2>1, <2>2 DEF Opens
<1>6. /\ \A j : ~Makes(p, j)'
      /\ ~HasEntry(p) /\ \A j : ~On(p, j)
    BY DEF Makes, HasEntry, On
<1>7. Discreet(p)
    BY <1>3, <1>4, <1>5 DEF Discreet
<1>8. LocksMove(p)
    BY LocksSame DEF Locks
<1>9. OwnFits(p)
    <2>1. /\ pc'[p] # "free"
          /\ pc'[p] \notin {"freed", "drop"}
          /\ \A j \in Inum : Opens(p, j) => dinode[j].type
        BY DEF InodeInv, RefsLive
    <2>2. pc'[p] = "creates" =>
             /\ dinode[i].nlink = 0
             /\ \A q \in Proc \ {p} : On(q, i) => pc[q] \in {"freed", "drop"}
             /\ \A q \in Proc : ~Opens(q, i)
        BY DEF InodeInv, Newborn
    <2> QED BY <1>4, <1>5, <1>6, <2>1, <2>2 DEF OwnFits
<1>10. BlocksTyped' /\ DiskFits(dinode, dir, bitmap)'
    BY DEF BlocksTyped, DiskFits, InodeInv, TypeOK
<1>11. CopiesFit'
    BY <1>1, <1>2, CopiesSame
<1>12. LinksExact'
    <2>1. pc[p] \notin LinkStages /\ pc'[p] \notin LinkStages
        BY DEF LinkStages
    <2> QED BY <1>3, <2>1, QuietLinks
<1>13. itable' \in Itables
    BY <1>1 DEF Got
<1> QED BY <1>1, <1>3, <1>7, <1>8, <1>9, <1>10, <1>11, <1>12, <1>13, StepKeeps

LEMMA OpenKeeps ==
    ASSUME InodeAssumption, InodeInv, NEW p \in Proc, NEW n \in Name, Open(p, n)
    PROVE  InodeInv'
<1>1. /\ pc[p] = "idle" /\ pc' = [pc EXCEPT ![p] = "open"] /\ file[p] = Nil
      /\ dir[n] # Nil /\ iget(p, dir[n]) /\ rootlock = Nil
      /\ UNCHANGED <<dinode, dir, bitmap, stored, ilocked, rootlock, file, name>>
    BY DEF Open, At, Go, blocks
<1>2. pc'[p] = "open"
    BY <1>1 DEF InodeInv, StagesFit
<1>3. dir[n] \in Inum /\ dinode[dir[n]].type /\ dinode[dir[n]].nlink # 0
    BY <1>1, NameCounted
<1>4. Got(p, dir[n]) => StageOf(p)'
    BY <1>1, <1>2, Apart DEF Got, StageOf
<1>5. RootMoves(p) /\ Calls(p)
    BY <1>1 DEF RootMoves, Calls
<1> QED BY <1>1, <1>2, <1>3, <1>4, <1>5, GotKeeps

LEMMA UnlinkKeeps ==
    ASSUME InodeAssumption, InodeInv, NEW p \in Proc, NEW n \in Name, Unlink(p, n)
    PROVE  InodeInv'
<1>1. /\ pc[p] = "idle" /\ pc' = [pc EXCEPT ![p] = "unlink"]
      /\ dir[n] # Nil /\ iget(p, dir[n]) /\ rootlock = Nil /\ rootlock' = p
      /\ name' = [name EXCEPT ![p] = n]
      /\ UNCHANGED <<dinode, dir, bitmap, stored, ilocked, file>>
    BY DEF Unlink, At, Go, blocks
<1>2. pc'[p] = "unlink" /\ name'[p] = n
    BY <1>1 DEF InodeInv, StagesFit, TypeOK
<1>3. dir[n] \in Inum /\ dinode[dir[n]].type /\ dinode[dir[n]].nlink # 0
    BY <1>1, NameCounted
<1>4. Got(p, dir[n]) => StageOf(p)'
    BY <1>1, <1>2, Apart DEF Got, StageOf, On, HasEntry
<1>5. RootMoves(p) /\ Calls(p)
    BY <1>1 DEF RootMoves, Calls
<1> QED BY <1>1, <1>2, <1>3, <1>4, <1>5, GotKeeps

LEMMA LinkKeeps ==
    ASSUME InodeAssumption, InodeInv, NEW p \in Proc, NEW old \in Name, NEW new \in Name,
           Link(p, old, new)
    PROVE  InodeInv'
<1>1. /\ pc[p] = "idle" /\ pc' = [pc EXCEPT ![p] = "link"]
      /\ dir[old] # Nil /\ iget(p, dir[old]) /\ rootlock = Nil
      /\ name' = [name EXCEPT ![p] = new]
      /\ UNCHANGED <<dinode, dir, bitmap, stored, ilocked, rootlock, file>>
    BY DEF Link, At, Go, blocks
<1>2. pc'[p] = "link" /\ name'[p] = new
    BY <1>1 DEF InodeInv, StagesFit, TypeOK
<1>3. dir[old] \in Inum /\ dinode[dir[old]].type /\ dinode[dir[old]].nlink # 0
    BY <1>1, NameCounted
<1>4. Got(p, dir[old]) => StageOf(p)'
    BY <1>1, <1>2, Apart DEF Got, StageOf
<1>5. RootMoves(p) /\ Calls(p)
    BY <1>1 DEF RootMoves, Calls
<1> QED BY <1>1, <1>2, <1>3, <1>4, <1>5, GotKeeps

LEMMA CreateGetKeeps ==
    ASSUME InodeAssumption, InodeInv, NEW p \in Proc, CreateGet(p)
    PROVE  InodeInv'
<1>1. /\ pc[p] = "create" /\ pc' = [pc EXCEPT ![p] = "creates"]
      /\ iget(p, ip[p])
      /\ UNCHANGED <<dinode, dir, bitmap, stored, ilocked, rootlock, file, name>>
    BY DEF CreateGet, At, Go, blocks
<1>2. pc'[p] = "creates"
    BY <1>1 DEF InodeInv, StagesFit
<1>3. /\ ip[p] \in Inum /\ Makes(p, ip[p]) /\ name[p] \in Name
      /\ rootlock = p /\ dir[name[p]] = Nil /\ file[p] = Nil
    BY <1>1 DEF InodeInv, StagesFit, StageOf, Makes
<1>4. dinode[ip[p]].type
    BY <1>3 DEF InodeInv, RefsLive
<1>5. Got(p, ip[p]) => StageOf(p)'
    BY <1>1, <1>2, <1>3 DEF Got, StageOf
<1>6. RootMoves(p) /\ GoesOn(p)
    BY <1>1 DEF RootMoves, GoesOn
<1> QED BY <1>1, <1>2, <1>3, <1>4, <1>5, <1>6, GotKeeps

(* p has the inode x by an entry before and after, in ip or in its file.     *)
LEMMA MovedKeeps ==
    ASSUME InodeAssumption, InodeInv, NEW p \in Proc, Calls(p) \/ GoesOn(p),
           NEW x \in Inum, Opens(p, x) \/ (On(p, x) /\ pc[p] = "opens"),
           SameCounts => \A j : On(p, j)' \/ Opens(p, j)' => j = x,
           SameCounts, itable' \in Itables, \A s \in Slot : Mine(p, s)' = Mine(p, s),
           pc[p] \in {"idle", "opens", "write"}, pc'[p] \in {"idle", "write", "put"},
           dinode'[x].nlink = dinode[x].nlink, dinode'[x].type,
           \A i \in Inum : i # x => dinode'[i] = dinode[i], dir' = dir,
           LocksMove(p), RootMoves(p), StageOf(p)', BlocksTyped',
           CopiesFit', DiskFits(dinode, dir, bitmap)', stored' = stored \/ Return(p)
    PROVE  InodeInv'
<1>1. SameRest(p) /\ file' \in [Proc -> Slot \cup {Nil}]
    BY StepTyped DEF InodeInv
<1>2. RefsMove(p)
    BY CountsKeep
<1>3. EntriesFit' /\ OtherRefs(p)
    BY <1>1, <1>2, EntriesStep DEF InodeInv, Itables
<1>4. /\ \A j : On(p, j)' \/ Opens(p, j)' => j = x
      /\ \A j : ~Makes(p, j)'
    BY DEF Makes
<1>5. Discreet(p)
    BY <1>3, <1>4 DEF Discreet
<1>6. OwnFits(p)
    BY <1>4 DEF OwnFits
<1>7. LinksExact'
    <2>1. pc[p] \notin LinkStages /\ pc'[p] \notin LinkStages
        BY DEF LinkStages
    <2>2. \A i \in Inum : dinode'[i].nlink = dinode[i].nlink
        OBVIOUS
    <2> QED BY <1>3, <2>1, <2>2, QuietLinks
<1> QED BY <1>3, <1>5, <1>6, <1>7, StepKeeps

LEMMA CloseKeeps ==
    ASSUME InodeAssumption, InodeInv, NEW p \in Proc, Close(p)
    PROVE  InodeInv'
<1> DEFINE x == itable[file[p]].inum
<1>1. /\ pc[p] = "idle" /\ pc' = [pc EXCEPT ![p] = "put"]
      /\ file[p] # Nil /\ file' = [file EXCEPT ![p] = Nil]
      /\ ip' = [ip EXCEPT ![p] = file[p]]
      /\ UNCHANGED <<dinode, dir, bitmap, itable, stored, ilocked, rootlock, name>>
    BY DEF Close, At, Go, blocks
<1>2. /\ file[p] \in Slot /\ x \in Inum
      /\ pc'[p] = "put" /\ ip'[p] = file[p] /\ file'[p] = Nil /\ ip[p] = Nil
    BY <1>1, Referred DEF InodeInv, StagesFit, StageOf, TypeOK
<1>3. Opens(p, x) /\ dinode[x].type
    BY <1>1, <1>2 DEF Opens, InodeInv, RefsLive
<1>4. \A j : On(p, j)' \/ Opens(p, j)' => j = x
    BY <1>1, <1>2 DEF On, Opens
<1>5. \A s \in Slot : Mine(p, s)' = Mine(p, s)
    BY <1>1, <1>2, Apart DEF Mine, Bit
<1>6. /\ SameCounts /\ itable' \in Itables
      /\ RootMoves(p) /\ BlocksTyped' /\ DiskFits(dinode, dir, bitmap)'
    BY <1>1
    DEF SameCounts, Itables, RootMoves, BlocksTyped, DiskFits, InodeInv, TypeOK
<1>7. LocksMove(p)
    BY <1>1, <1>2, LocksSame DEF Locks
<1>8. StageOf(p)'
    BY <1>1, <1>2 DEF StageOf, InodeInv, StagesFit
<1>9. Calls(p)
    BY DEF Calls
<1>10. CopiesFit'
    <2>1. SameRest(p)
        BY <1>9, StepTyped DEF InodeInv
    <2> QED BY <1>1, <2>1, CopiesSame
<1> QED BY <1>1, <1>2, <1>3, <1>4, <1>5, <1>6, <1>7, <1>8, <1>9, <1>10, MovedKeeps

LEMMA WriteKeeps ==
    ASSUME InodeAssumption, InodeInv, NEW p \in Proc, Write(p)
    PROVE  InodeInv'
<1> DEFINE x == itable[file[p]].inum
<1>1. /\ pc[p] = "idle" /\ pc' = [pc EXCEPT ![p] = "write"]
      /\ file[p] # Nil /\ Lock(p, file[p]) /\ SetCopy(file[p], Copy(file[p]))
      /\ UNCHANGED <<dinode, dir, bitmap, stored, rootlock, file, ip, name>>
    BY DEF Write, At, Go, blocks
<1>2. /\ file[p] \in Slot /\ x \in Inum /\ pc'[p] = "write" /\ ip[p] = Nil
    BY <1>1, Referred DEF InodeInv, StagesFit, StageOf
<1>3. Opens(p, x) /\ dinode[x].type
    BY <1>1, <1>2 DEF Opens, InodeInv, RefsLive
<1>4. Rewrote(file[p], dinode[x])
    BY <1>1, FileUsable, Rereads DEF Lock
<1>5. SameCounts /\ itable' \in Itables
    BY <1>4, Rewritten
<1>6. \A j : On(p, j)' \/ Opens(p, j)' => j = x
    BY <1>1, <1>2, <1>5 DEF On, Opens, HasEntry, SameCounts
<1>7. \A s \in Slot : Mine(p, s)' = Mine(p, s)
    BY <1>1, <1>2 DEF Mine, Bit
<1>8. RootMoves(p) /\ BlocksTyped' /\ DiskFits(dinode, dir, bitmap)'
    BY <1>1 DEF RootMoves, BlocksTyped, DiskFits, InodeInv, TypeOK
<1>9. LocksMove(p)
    BY <1>1, <1>2, LocksTaken DEF Locks
<1>10. StageOf(p)'
    BY <1>1, <1>2 DEF StageOf, HasEntry, InodeInv, StagesFit
<1>11. Calls(p)
    BY DEF Calls
<1>12. CopiesFit'
    <2>1. SameRest(p)
        BY <1>11, StepTyped DEF InodeInv
    <2> QED BY <1>1, <1>3, <1>4, <2>1, CopiesRewritten
<1> QED BY <1>1, <1>2, <1>3, <1>5, <1>6, <1>7, <1>8, <1>9, <1>10, <1>11, <1>12,
           MovedKeeps

LEMMA OpenFileKeeps ==
    ASSUME InodeAssumption, InodeInv, NEW p \in Proc, OpenFile(p)
    PROVE  InodeInv'
<1>0. PICK s \in Slot : s = ip[p] /\ itable[s].inum \in Inum
    <2>1. pc[p] = "opens"
        BY DEF OpenFile, At
    <2> QED BY <2>1, InUse DEF HasEntry
<1>1. PICK x \in Inum : x = itable[s].inum
    BY <1>0
<1>2. /\ pc[p] = "opens" /\ pc' = [pc EXCEPT ![p] = "idle"] /\ Unlock(s)
      /\ file' = [file EXCEPT ![p] = s] /\ ip' = [ip EXCEPT ![p] = Nil]
      /\ UNCHANGED <<dir, rootlock, name>> /\ Return(p)
    BY <1>0 DEF OpenFile, At, Return
<1>3. /\ HasEntry(p) /\ pc'[p] = "idle" /\ ip'[p] = Nil /\ file'[p] = s
      /\ file[p] = Nil
    BY <1>2 DEF HasEntry, InodeInv, StagesFit, StageOf, TypeOK
<1>4. /\ On(p, x) /\ Usable(s) /\ dinode[x].type /\ dinode[x] \in Dinode
      /\ Copy(s) = dinode[x]
    BY <1>0, <1>1, <1>2, <1>3, InUse, EntryUsable DEF On, Usable
<1>5. GoesOn(p) /\ SameRest(p)
    BY StepTyped DEF GoesOn, InodeInv
<1> DEFINE c == [dinode[x] EXCEPT !.addrs = {}]
<1>6. c \in Dinode /\ c.type /\ c.nlink = dinode[x].nlink /\ c.addrs = {}
    BY <1>4 DEF Dinode
<1>7. \/ UNCHANGED <<dinode, bitmap, itable>>
      \/ Rewrote(s, c) /\ bitmap' = bitmap \ dinode[x].addrs
    <2>1. \/ UNCHANGED <<dinode, bitmap, itable>>
          \/ /\ iupdate(s, c)
             /\ bitmap' = bitmap \ dinode[x].addrs
        BY <1>0, <1>4 DEF OpenFile
    <2> HIDE DEF c
    <2> QED BY <1>4, <1>6, <2>1, Rewrites
<1> HIDE DEF c
<1>8. /\ SameCounts /\ itable' \in Itables /\ dinode' \in [Inum -> Dinode]
      /\ dinode'[x].type /\ dinode'[x].nlink = dinode[x].nlink
      /\ \A i \in Inum : i # x => dinode'[i] = dinode[i]
    <2>1. CASE UNCHANGED <<dinode, bitmap, itable>>
        BY <1>4, <2>1 DEF SameCounts, InodeInv, TypeOK, Itables
    <2>2. CASE Rewrote(s, c)
        BY <1>1, <1>6, <2>2, Rewritten
    <2> QED BY <1>7, <2>1, <2>2
<1>9. CopiesFit'
    <2>1. pc[p] # "freed"
        BY <1>2
    <2>2. CASE UNCHANGED <<dinode, bitmap, itable>>
        BY <1>5, <2>1, <2>2, CopiesSame
    <2>3. CASE Rewrote(s, c)
        BY <1>5, <1>6, <2>1, <2>3, CopiesRewritten
    <2> QED BY <1>7, <2>2, <2>3
<1>10. DiskFits(dinode, dir, bitmap)'
    <2>1. CASE UNCHANGED <<dinode, bitmap, itable>>
        BY <1>2, <2>1 DEF InodeInv, DiskFits
    <2>2. CASE Rewrote(s, c) /\ bitmap' = bitmap \ dinode[x].addrs
        <3>1. dinode'[x] = c
            BY <1>1, <2>2, Rewritten
        <3>2. /\ bitmap' = UNION {dinode'[j].addrs : j \in Inum}
              /\ \A j, k \in Inum :
                    j # k => dinode'[j].addrs \cap dinode'[k].addrs = {}
            BY <1>6, <1>8, <2>2, <3>1, BlocksFreed
        <3>3. \A i \in Inum : ~dinode'[i].type => dinode'[i] = FreeDinode
            BY <1>8 DEF InodeInv, DiskFits
        <3>4. \A n \in Name : dir'[n] # Nil => dinode'[dir'[n]].type
            BY <1>2, <1>8, NameCounted
        <3> QED BY <3>2, <3>3, <3>4 DEF DiskFits
    <2> QED BY <1>7, <2>1, <2>2
<1>11. BlocksTyped'
    <2>1. bitmap' \subseteq Block
        BY <1>7 DEF InodeInv, TypeOK
    <2> QED BY <1>2, <1>8, <2>1 DEF BlocksTyped, InodeInv, TypeOK
<1>12. \A j : On(p, j)' \/ Opens(p, j)' => j = x
    BY <1>1, <1>3, <1>8 DEF On, Opens, HasEntry, SameCounts
<1>13. \A t \in Slot : Mine(p, t)' = Mine(p, t)
    BY <1>0, <1>2, <1>3, Apart DEF Mine, Bit
<1>14. LocksMove(p)
    BY <1>0, <1>2, <1>3, LocksLeft DEF Locks
<1>15. StageOf(p)'
    BY <1>2, <1>3 DEF StageOf, HasEntry, InodeInv, StagesFit
<1>16. RootMoves(p)
    BY <1>2 DEF RootMoves
<1> QED BY <1>2, <1>3, <1>4, <1>5, <1>8, <1>9, <1>10, <1>11, <1>12, <1>13, <1>14,
           <1>15, <1>16, MovedKeeps

LEMMA WriteBlockKeeps ==
    ASSUME InodeAssumption, InodeInv, NEW p \in Proc, WriteBlock(p)
    PROVE  InodeInv'
<1>0. PICK s \in Slot : s = file[p] /\ itable[s].inum \in Inum
    <2>1. pc[p] = "write" /\ file[p] # Nil
        BY DEF WriteBlock, At, InodeInv, StagesFit, StageOf
    <2> QED BY <2>1, Referred DEF InodeInv
<1>1. PICK x \in Inum : x = itable[s].inum
    BY <1>0
<1>2. /\ pc[p] = "write" /\ pc' = [pc EXCEPT ![p] = "idle"] /\ Unlock(s)
      /\ UNCHANGED <<dir, rootlock, file, ip, name>> /\ Return(p)
    BY <1>0 DEF WriteBlock, At, Return
<1>3. pc'[p] = "idle" /\ ip[p] = Nil /\ s # Nil
    BY <1>2, Apart DEF InodeInv, StagesFit, StageOf
<1>4. /\ Opens(p, x) /\ Usable(s) /\ dinode[x].type /\ dinode[x] \in Dinode
      /\ Copy(s) = dinode[x]
    <2>1. Opens(p, x)
        BY <1>0, <1>1, <1>3 DEF Opens
    <2>2. Usable(s)
        BY <1>0, <1>2, <1>3, FileUsable
    <2> QED BY <1>1, <2>1, <2>2 DEF InodeInv, RefsLive, Usable
<1>5. GoesOn(p) /\ SameRest(p)
    BY StepTyped DEF GoesOn, InodeInv
<1> DEFINE c(b) == [dinode[x] EXCEPT !.addrs = dinode[x].addrs \cup {b}]
<1>6. PICK b : \/ UNCHANGED <<dinode, bitmap, itable>>
               \/ /\ b \in Block \ bitmap /\ bitmap' = bitmap \cup {b}
                  /\ iupdate(s, c(b))
    BY <1>0, <1>4 DEF WriteBlock
<1>7. b \in Block => /\ c(b) \in Dinode /\ c(b).type /\ c(b).nlink = dinode[x].nlink
                     /\ c(b).addrs = dinode[x].addrs \cup {b}
    BY <1>4 DEF Dinode
<1> HIDE DEF c
<1>8. \/ UNCHANGED <<dinode, bitmap, itable>>
      \/ /\ b \in Block \ bitmap /\ bitmap' = bitmap \cup {b}
         /\ Rewrote(s, c(b))
    BY <1>4, <1>6, <1>7, Rewrites
<1>9. /\ SameCounts /\ itable' \in Itables /\ dinode' \in [Inum -> Dinode]
      /\ dinode'[x].type /\ dinode'[x].nlink = dinode[x].nlink
      /\ \A i \in Inum : i # x => dinode'[i] = dinode[i]
    <2>1. CASE UNCHANGED <<dinode, bitmap, itable>>
        BY <1>4, <2>1 DEF SameCounts, InodeInv, TypeOK, Itables
    <2>2. CASE b \in Block /\ Rewrote(s, c(b))
        BY <1>1, <1>7, <2>2, Rewritten
    <2> QED BY <1>8, <2>1, <2>2
<1>10. CopiesFit'
    <2>1. pc[p] # "freed"
        BY <1>2
    <2>2. CASE UNCHANGED <<dinode, bitmap, itable>>
        BY <1>5, <2>1, <2>2, CopiesSame
    <2>3. CASE b \in Block /\ Rewrote(s, c(b))
        BY <1>5, <1>7, <2>1, <2>3, CopiesRewritten
    <2> QED BY <1>8, <2>2, <2>3
<1>11. DiskFits(dinode, dir, bitmap)'
    <2>1. CASE UNCHANGED <<dinode, bitmap, itable>>
        BY <1>2, <2>1 DEF InodeInv, DiskFits
    <2>2. CASE /\ b \in Block \ bitmap /\ bitmap' = bitmap \cup {b}
               /\ Rewrote(s, c(b))
        <3>1. dinode'[x] = c(b)
            BY <1>1, <2>2, Rewritten
        <3>2. /\ bitmap' = UNION {dinode'[j].addrs : j \in Inum}
              /\ \A j, k \in Inum :
                    j # k => dinode'[j].addrs \cap dinode'[k].addrs = {}
            BY <1>7, <1>9, <2>2, <3>1, BlockAdded
        <3>3. \A i \in Inum : ~dinode'[i].type => dinode'[i] = FreeDinode
            BY <1>9 DEF InodeInv, DiskFits
        <3>4. \A n \in Name : dir'[n] # Nil => dinode'[dir'[n]].type
            BY <1>2, <1>9, NameCounted
        <3> QED BY <3>2, <3>3, <3>4 DEF DiskFits
    <2> QED BY <1>8, <2>1, <2>2
<1>12. BlocksTyped'
    <2>1. bitmap' \subseteq Block
        BY <1>8 DEF InodeInv, TypeOK
    <2> QED BY <1>2, <1>9, <2>1 DEF BlocksTyped, InodeInv, TypeOK
<1>13. \A j : On(p, j)' \/ Opens(p, j)' => j = x
    BY <1>0, <1>1, <1>2, <1>3, <1>9 DEF On, Opens, HasEntry, SameCounts
<1>14. \A t \in Slot : Mine(p, t)' = Mine(p, t)
    BY <1>2, <1>3, Apart DEF Mine, Bit
<1>15. LocksMove(p)
    BY <1>0, <1>2, <1>3, LocksLeft DEF Locks
<1>16. StageOf(p)'
    BY <1>2, <1>3 DEF StageOf, HasEntry, InodeInv, StagesFit
<1>17. RootMoves(p)
    BY <1>2 DEF RootMoves
<1> QED BY <1>2, <1>3, <1>4, <1>5, <1>9, <1>10, <1>11, <1>12, <1>13, <1>14, <1>15,
           <1>16, <1>17, MovedKeeps

LEMMA CreateKeeps ==
    ASSUME InodeAssumption, InodeInv, NEW p \in Proc, NEW n \in Name, Create(p, n)
    PROVE  InodeInv'
<1>0. PICK i \in Inum :
         /\ Lowest(i, {j \in Inum : ~dinode[j].type})
         /\ dinode' = [dinode EXCEPT ![i] = [FreeDinode EXCEPT !.type = TRUE]]
         /\ ip' = [ip EXCEPT ![p] = i]
    BY DEF Create
<1>1. /\ pc[p] = "idle" /\ pc' = [pc EXCEPT ![p] = "create"] /\ file[p] = Nil
      /\ rootlock = Nil /\ rootlock' = p /\ dir[n] = Nil
      /\ name' = [name EXCEPT ![p] = n]
      /\ UNCHANGED <<dir, bitmap, itable, ilocked, file, stored>>
    BY DEF Create, At, Go
<1>2. /\ pc'[p] = "create" /\ ip'[p] = i /\ name'[p] = n /\ ip[p] = Nil
      /\ itable \in Itables
    BY <1>0, <1>1 DEF InodeInv, StagesFit, StageOf, TypeOK, Itables
<1> DEFINE c == [FreeDinode EXCEPT !.type = TRUE]
<1>3. /\ dinode[i] = FreeDinode /\ ~dinode[i].type /\ dinode[i].nlink = 0
      /\ dinode[i].addrs = {}
    BY <1>0 DEF Lowest, InodeInv, DiskFits, FreeDinode
<1>4. c \in Dinode /\ c.type /\ c.nlink = 0 /\ c.addrs = {}
    BY DEF FreeDinode, Dinode
<1>5. /\ dinode' \in [Inum -> Dinode] /\ dinode'[i] = c
      /\ \A j \in Inum : j # i => dinode'[j] = dinode[j]
    <2>1. dinode \in [Inum -> Dinode] /\ dinode' = [dinode EXCEPT ![i] = c]
        BY <1>0 DEF InodeInv, TypeOK
    <2> HIDE DEF c
    <2> QED BY <1>4, <2>1
<1> HIDE DEF c
<1>6. Calls(p) /\ SameRest(p)
    BY StepTyped DEF Calls, InodeInv
<1>7. \A s \in Slot : Mine(p, s)' = Mine(p, s)
    BY <1>1, <1>2, Apart DEF Mine, Bit
<1>8. SameCounts /\ RefsMove(p)
    BY <1>1, <1>7, CountsKeep DEF SameCounts
<1>9. EntriesFit' /\ OtherRefs(p)
    BY <1>1, <1>2, <1>6, <1>8, EntriesStep DEF InodeInv, TypeOK, Itables
<1>10. /\ \A j : ~On(p, j)' /\ ~On(p, j)
       /\ \A j : ~Opens(p, j)' /\ ~Opens(p, j)
       /\ \A j : Makes(p, j)' <=> j = i
    BY <1>1, <1>2 DEF On, Opens, Makes, HasEntry
(* Who still has the inode freed it.                                         *)
<1>11. /\ \A q \in Proc : On(q, i) => pc[q] \in {"freed", "drop"}
       /\ \A q \in Proc : ~Opens(q, i)
    BY <1>3 DEF InodeInv, RefsLive
<1>12. Discreet(p)
    BY <1>3, <1>4, <1>5, <1>9, <1>10 DEF Discreet
<1>13. OwnFits(p)
    BY <1>1, <1>2, <1>4, <1>5, <1>10, <1>11 DEF OwnFits
<1>14. CopiesFit'
    <2> SUFFICES ASSUME NEW s \in Slot PROVE CopyFits(s)'
        BY DEF CopiesFit
    <2>1. CASE itable[s].ref > 0 /\ itable[s].inum = i
        <3>1. itable[s].valid => \E q \in Proc : pc[q] = "freed" /\ ip[q] = s
            BY <1>3, <2>1 DEF InodeInv, CopiesFit, CopyFits
        <3>2. itable[s].valid => \E q \in Proc : pc'[q] = "freed" /\ ip'[q] = s
            BY <1>1, <1>6, <3>1, StillFreed
        <3> QED BY <1>1, <3>2 DEF CopyFits
    <2>2. CASE ~(itable[s].ref > 0 /\ itable[s].inum = i)
        <3>1. itable[s].ref > 0 => dinode'[itable[s].inum] = dinode[itable[s].inum]
            BY <1>5, <2>2 DEF InodeInv, EntriesFit
        <3>2. pc[p] # "freed" /\ itable'[s] = itable[s]
            BY <1>1
        <3> QED BY <1>6, <3>1, <3>2, CopyKept
    <2> QED BY <2>1, <2>2
<1>15. DiskFits(dinode, dir, bitmap)'
    <2>1. \A j \in Inum :
             /\ dinode'[j].addrs = dinode[j].addrs
             /\ ~dinode'[j].type => dinode'[j] = FreeDinode
        BY <1>3, <1>4, <1>5 DEF InodeInv, DiskFits
    <2>2. \A m \in Name : dir'[m] # Nil => dinode'[dir'[m]].type
        BY <1>1, <1>4, <1>5, NameCounted
    <2>3. dir' \in [Name -> Inum \cup {Nil}] /\ bitmap' = bitmap
        BY <1>1 DEF InodeInv, TypeOK
    <2> QED BY <2>1, <2>2, <2>3, DiskStep
<1>16. BlocksTyped'
    BY <1>1, <1>5 DEF BlocksTyped, InodeInv, TypeOK
<1>17. LinksExact'
    <2>1. \A j \in Inum : dinode'[j].nlink = dinode[j].nlink
        BY <1>3, <1>4, <1>5
    <2> QED BY <1>1, <1>2, <1>9, <2>1, QuietLinks DEF LinkStages
<1>18. LocksMove(p)
    BY <1>1, <1>2, LocksSame DEF Locks
<1>19. StageOf(p)'
    BY <1>1, <1>2 DEF StageOf, HasEntry
<1>20. RootMoves(p)
    BY <1>1 DEF RootMoves
<1>21. itable' \in Itables
    BY <1>1, <1>2
<1> QED BY <1>1, <1>6, <1>9, <1>12, <1>13, <1>14, <1>15, <1>16, <1>17, <1>18, <1>19,
           <1>20, <1>21, StepKeeps

(* iput(), of an inode that is not to be freed or was.                       *)
LEMMA DropKeeps ==
    ASSUME InodeAssumption, InodeInv, NEW p \in Proc, GoesOn(p),
           pc[p] \in {"put", "drop"}, Drop(p)
    PROVE  InodeInv'
<1>1. /\ pc' = [pc EXCEPT ![p] = "idle"] /\ ip' = [ip EXCEPT ![p] = Nil]
      /\ rootlock' = IF rootlock = p THEN Nil ELSE rootlock
      /\ UNCHANGED <<dinode, dir, bitmap, ilocked, file, name>> /\ Return(p)
    BY DEF Drop, Return, blocks
<1>2. HasEntry(p) /\ pc'[p] = "idle" /\ ip'[p] = Nil
    BY <1>1 DEF HasEntry, InodeInv, StagesFit
<1>3. Dropped(p)
    BY <1>2, EntryDropped
<1>4. SameRest(p) /\ file' \in [Proc -> Slot \cup {Nil}] /\ itable' \in Itables
    BY <1>3, StepTyped DEF InodeInv, Dropped
<1>5. EntriesFit' /\ OtherRefs(p)
    BY <1>3, <1>4, EntriesStep DEF InodeInv, Dropped, Itables
<1>6. \A j : ~On(p, j)' /\ ~Makes(p, j)'
    BY <1>2 DEF On, HasEntry, Makes
<1>7. \A j : Opens(p, j)' => Opens(p, j)
    <2>1. file[p] # Nil => /\ file[p] \in Slot /\ itable'[file[p]].ref > 0
        <3>1. SUFFICES ASSUME file[p] # Nil
                       PROVE  file[p] \in Slot /\ itable'[file[p]].ref > 0
            OBVIOUS
        <3>2. file[p] \in Slot /\ p \in Files(file[p]) /\ Files(file[p])' = Files(file[p])
            BY <1>1, <3>1, Referred DEF InodeInv, Files
        <3>3. PICK s \in Slot : s = file[p]
            BY <3>2
        <3>4. /\ IsFiniteSet(Files(s)') /\ IsFiniteSet(Ips(s)') /\ p \in Files(s)'
            BY <1>1, <1>4, <3>2, <3>3, Counted DEF InodeInv, Files
        <3>5. /\ Cardinality(Files(s)') \in Nat /\ Cardinality(Files(s)') > 0
              /\ Cardinality(Ips(s)') \in Nat
            BY <3>4, NotEmpty, FS_CardinalityType
        <3>6. itable'[s].ref = Cardinality(Ips(s)') + Cardinality(Files(s)')
            BY <1>5 DEF EntriesFit, CountFits
        <3> QED BY <3>3, <3>5, <3>6
    <2>2. file[p] # Nil => itable'[file[p]].inum = itable[file[p]].inum
        BY <1>3, <2>1 DEF Dropped
    <2> QED BY <1>1, <2>2 DEF Opens
<1>8. Discreet(p)
    BY <1>1, <1>5, <1>6, <1>7 DEF Discreet
<1>9. OwnFits(p)
    BY <1>1, <1>2, <1>6, <1>7 DEF OwnFits, InodeInv, RefsLive
<1>10. CopiesFit'
    BY <1>1, <1>3, <1>4, CopiesSame
<1>11. LinksExact'
    BY <1>1, <1>2, <1>5, QuietLinks DEF LinkStages
<1>12. LocksMove(p)
    BY <1>1, <1>2, LocksSame DEF Locks
<1>13. StageOf(p)'
    <2>1. rootlock' # p
        BY <1>1, Apart
    <2> QED BY <1>2, <2>1 DEF StageOf, HasEntry
<1>14. RootMoves(p)
    BY <1>1 DEF RootMoves
<1>15. BlocksTyped' /\ DiskFits(dinode, dir, bitmap)'
    BY <1>1 DEF BlocksTyped, DiskFits, InodeInv, TypeOK
<1> QED BY <1>1, <1>4, <1>5, <1>8, <1>9, <1>10, <1>11, <1>12, <1>13, <1>14, <1>15,
           StepKeeps

-----------------------------------------------------------------------------
(* The system starts, and starts again.                                      *)

(* Nobody has anything, and the blocks are as on disk.                       *)
Restarted ==
    /\ InodeAssumption /\ Start /\ stored = blocks
    /\ BlocksTyped /\ DiskFits(dinode, dir, bitmap)
    /\ \A i \in Inum : dinode[i].nlink = Cardinality(Names(dir, i))

LEMMA StartFits == Restarted => InodeInv
<1> SUFFICES ASSUME Restarted PROVE InodeInv
    OBVIOUS
<1>0. /\ InodeAssumption /\ BlocksTyped /\ DiskFits(dinode, dir, bitmap)
      /\ \A i \in Inum : dinode[i].nlink = Cardinality(Names(dir, i))
    BY DEF Restarted
<1>1. /\ itable = [s \in Slot |-> FreeEntry] /\ ilocked = [s \in Slot |-> Nil]
      /\ rootlock = Nil /\ file = [p \in Proc |-> Nil]
      /\ pc = [p \in Proc |-> "idle"] /\ ip = [p \in Proc |-> Nil]
      /\ name = [p \in Proc |-> Nil] /\ stored = <<dinode, dir, bitmap>>
    BY DEF Restarted, Start, blocks
<1>2. /\ FreeEntry \in [inum : Inum \cup {0}, ref : Nat, valid : BOOLEAN,
                        copy : Dinode]
      /\ FreeEntry.ref = 0
    BY DEF FreeEntry, FreeDinode, Dinode
<1>3. \A s \in Slot : itable[s] = FreeEntry /\ itable[s].ref = 0
    BY <1>1, <1>2
<1>4. \A p \in Proc : /\ pc[p] = "idle" /\ ip[p] = Nil /\ file[p] = Nil
                      /\ ~HasEntry(p)
    BY <1>1 DEF HasEntry
<1>5. \A p \in Proc : \A i : ~On(p, i) /\ ~Opens(p, i) /\ ~Makes(p, i)
    BY <1>4 DEF On, Opens, Makes
<1>6. itable \in Itables
    BY <1>1, <1>2 DEF Itables
<1>7. TypeOK
    <2>1. {ilocked[s] : s \in Slot} \subseteq {Nil}
        BY <1>1
    <2> QED BY <1>0, <1>1, <1>6, <2>1 DEF TypeOK, BlocksTyped, Itables
<1>8. StagesFit
    <2>1. pc \in [Proc -> Stage] /\ ip \in [Proc -> Slot \cup Inum \cup {Nil}]
        BY <1>1 DEF Stage
    <2>2. \A p \in Proc : rootlock # p
        BY <1>0, <1>1, Apart
    <2> QED BY <1>4, <2>1, <2>2 DEF StagesFit, StageOf
<1>9. LocksFit
    <2>1. \A s \in Slot : s # Nil /\ \A p \in Proc : p # Nil
        BY <1>0, Apart
    <2>2. \A s \in Slot, p \in Proc : ~Locks(p, s) /\ ilocked[s] # p
        BY <1>1, <1>4, <2>1 DEF Locks
    <2> QED BY <1>1, <2>2 DEF LocksFit
<1>10. EntriesFit
    <2>1. \A s \in Slot : Ips(s) = {} /\ Files(s) = {}
        BY <1>0, <1>4, Apart DEF Ips, Files
    <2>2. \A s \in Slot : CountFits(s)
        BY <1>3, <2>1, FS_EmptySet DEF CountFits
    <2> QED BY <1>3, <2>2 DEF EntriesFit
<1>11. RefsLive /\ Newborn /\ FreeAlone
    BY <1>4, <1>5 DEF RefsLive, Newborn, FreeAlone
<1>12. CopiesFit
    BY <1>3 DEF CopiesFit, CopyFits
<1>13. LinksExact
    <2>1. \A i \in Inum : Pending(i) = {}
        BY <1>4 DEF Pending
    <2>2. \A i \in Inum : Cardinality(Names(dir, i)) \in Nat
        BY <1>0, Finite, FS_CardinalityType
    <2> QED BY <1>0, <2>1, <2>2, FS_EmptySet DEF LinksExact
<1>14. StoredFits
    <2>1. stored[1] = dinode /\ stored[2] = dir /\ stored[3] = bitmap
        BY <1>1
    <2>2. DiskFits(stored[1], stored[2], stored[3])
        BY <1>0, <2>1
    <2> QED BY <1>0, <1>1, <2>1, <2>2, Zenon DEF BlocksTyped, StoredFits
<1> QED BY <1>0, <1>7, <1>8, <1>9, <1>10, <1>11, <1>12, <1>13, <1>14 DEF InodeInv

LEMMA InodesInit ==
    ASSUME InodeAssumption, Init
    PROVE  InodeInv
<1>1. /\ dinode = [i \in Inum |-> FreeDinode] /\ dir = [n \in Name |-> Nil]
      /\ bitmap = {} /\ stored = blocks /\ Start
    BY DEF Init
<1>2. FreeDinode \in Dinode /\ FreeDinode.addrs = {} /\ FreeDinode.nlink = 0
    BY DEF FreeDinode, Dinode
<1>3. BlocksTyped
    BY <1>1, <1>2 DEF BlocksTyped
<1>4. DiskFits(dinode, dir, bitmap)
    BY <1>1, <1>2 DEF DiskFits
<1>5. \A i \in Inum : dinode[i].nlink = Cardinality(Names(dir, i))
    <2>1. \A i \in Inum : Names(dir, i) = {}
        BY <1>1, Apart DEF Names
    <2> QED BY <1>1, <1>2, <2>1, FS_EmptySet
<1> QED BY <1>1, <1>3, <1>4, <1>5, StartFits DEF Restarted

LEMMA CrashRestarts ==
    ASSUME InodeAssumption, InodeInv, Crash
    PROVE  Restarted'
<1>1. /\ dinode' = stored[1] /\ dir' = stored[2] /\ bitmap' = stored[3]
      /\ stored' = stored /\ Start'
    BY DEF Crash, Start
<1>2. stored' = blocks' /\ StoredFits
    BY <1>1 DEF InodeInv, StoredFits, blocks
<1>3. BlocksTyped'
    BY <1>1, <1>2 DEF StoredFits, BlocksTyped
<1>4. DiskFits(dinode, dir, bitmap)'
    BY <1>1, <1>2 DEF StoredFits, DiskFits
<1>5. (\A i \in Inum : dinode[i].nlink = Cardinality(Names(dir, i)))'
    BY <1>1, <1>2 DEF StoredFits
<1> QED BY <1>1, <1>2, <1>3, <1>4, <1>5 DEF Restarted

LEMMA StepsKeep ==
    ASSUME InodeAssumption, InodeInv, NEW p \in Proc, Calls(p) \/ GoesOn(p)
    PROVE  InodeInv'
<1>1. ASSUME NEW n \in Name, Open(p, n) \/ Create(p, n) \/ Unlink(p, n)
      PROVE  InodeInv'
    BY <1>1, OpenKeeps, CreateKeeps, UnlinkKeeps
<1>2. ASSUME NEW old \in Name, NEW new \in Name, Link(p, old, new)
      PROVE  InodeInv'
    BY <1>2, LinkKeeps
<1>3. CASE Write(p)
    BY <1>3, WriteKeeps
<1>4. CASE Close(p)
    BY <1>4, CloseKeeps
<1>5. CASE OpenLock(p)
    BY <1>5, OpenLockKeeps
<1>6. CASE OpenFile(p)
    BY <1>6, OpenFileKeeps
<1>7. CASE OpenFails(p)
    BY <1>7, OpenFailsKeeps
<1>8. CASE CreateGet(p)
    BY <1>8, CreateGetKeeps
<1>9. CASE CreateLink(p)
    BY <1>9, CreateLinkKeeps
<1>10. CASE CreateFails(p)
    BY <1>10, CreateFailsKeeps
<1>11. CASE WriteBlock(p)
    BY <1>11, WriteBlockKeeps
<1>12. CASE UnlinkName(p)
    BY <1>12, UnlinkNameKeeps
<1>13. CASE UnlinkInode(p)
    BY <1>13, UnlinkInodeKeeps
<1>14. CASE LinkInode(p)
    BY <1>14, LinkInodeKeeps
<1>15. CASE LinkName(p)
    BY <1>15, LinkNameKeeps
<1>16. CASE LinkFails(p)
    BY <1>16, LinkFailsKeeps
<1>17. CASE LinkUndone(p)
    BY <1>17, LinkUndoneKeeps
<1>18. CASE Put(p)
    <2>1. pc[p] \in {"put", "drop"} /\ Drop(p) /\ GoesOn(p)
        BY <1>18 DEF Put, At, GoesOn
    <2> QED BY <2>1, DropKeeps
<1>19. CASE PutLast(p)
    BY <1>19, PutLastKeeps
<1>20. CASE Free(p)
    BY <1>20, FreeKeeps
<1>21. CASE Freed(p)
    BY <1>21, FreedKeeps
<1>22. CASE PutFreed(p)
    <2>1. pc[p] \in {"put", "drop"} /\ Drop(p) /\ GoesOn(p)
        BY <1>22 DEF PutFreed, At, GoesOn
    <2> QED BY <2>1, DropKeeps
<1> QED BY <1>1, <1>2, <1>3, <1>4, <1>5, <1>6, <1>7, <1>8, <1>9, <1>10, <1>11, <1>12,
           <1>13, <1>14, <1>15, <1>16, <1>17, <1>18, <1>19, <1>20, <1>21, <1>22
        DEF Calls, GoesOn

LEMMA SameKeeps ==
    ASSUME InodeInv, UNCHANGED vars
    PROVE  InodeInv'
<1>1. UNCHANGED <<dinode, dir, bitmap, stored, itable, ilocked, rootlock, file,
                  pc, ip, name, crashes>>
    BY DEF vars, blocks
<1>2. /\ \A p, i : /\ On(p, i)' <=> On(p, i)
                   /\ Opens(p, i)' <=> Opens(p, i)
                   /\ Makes(p, i)' <=> Makes(p, i)
      /\ \A p, s : Locks(p, s)' <=> Locks(p, s)
      /\ \A p : HasEntry(p)' <=> HasEntry(p)
    BY <1>1 DEF On, Opens, Makes, Locks, HasEntry
<1>3. /\ \A s : Ips(s)' = Ips(s) /\ Files(s)' = Files(s)
      /\ \A i : Pending(i)' = Pending(i)
    BY <1>1, <1>2 DEF Ips, Files, Pending
<1>4. TypeOK' /\ LocksFit'
    BY <1>1, <1>2 DEF InodeInv, TypeOK, LocksFit
<1>5. StagesFit'
    BY <1>1, <1>2 DEF InodeInv, StagesFit, StageOf
<1>6. EntriesFit' /\ LinksExact'
    BY <1>1, <1>3 DEF InodeInv, EntriesFit, CountFits, LinksExact
<1>7. RefsLive' /\ Newborn' /\ FreeAlone'
    BY <1>1, <1>2 DEF InodeInv, RefsLive, Newborn, FreeAlone
<1>8. CopiesFit' /\ DiskFits(dinode, dir, bitmap)' /\ StoredFits'
    BY <1>1 DEF InodeInv, CopiesFit, CopyFits, DiskFits, StoredFits
<1> QED BY <1>4, <1>5, <1>6, <1>7, <1>8 DEF InodeInv

LEMMA InodesInductive ==
    ASSUME InodeAssumption, InodeInv, [Next]_vars
    PROVE  InodeInv'
<1>1. CASE Crash
    <2>1. Restarted'
        BY <1>1, CrashRestarts
    <2>2. Restarted' => InodeInv'
        BY StartFits, PTL
    <2> QED BY <2>1, <2>2
<1>2. CASE \E p \in Proc : Calls(p) \/ GoesOn(p)
    BY <1>2, StepsKeep
<1>3. CASE UNCHANGED vars
    BY <1>3, SameKeeps
<1> QED BY <1>1, <1>2, <1>3 DEF Next

-----------------------------------------------------------------------------
(* What follows from the invariant.                                          *)

(* The references of an entry are counted, and an inode has one entry.       *)
LEMMA InvRefs ==
    ASSUME InodeAssumption, InodeInv
    PROVE  RefsExact
<1>1. ASSUME NEW s \in Slot
      PROVE  itable[s].ref =
                Cardinality({p \in Proc : ip[p] = s /\ pc[p] # "create"})
                + Cardinality({p \in Proc : file[p] = s})
    BY DEF InodeInv, EntriesFit, CountFits, Ips, Files
<1>2. ASSUME NEW i \in Inum
      PROVE  Cardinality(Holding(i)) <= 1
    <2>1. \A s, t \in Holding(i) : s = t
        BY DEF InodeInv, EntriesFit, Holding
    <2>2. CASE Holding(i) = {}
        BY <2>2, FS_EmptySet
    <2>3. CASE Holding(i) # {}
        <3>1. PICK s \in Holding(i) : Holding(i) = {s}
            BY <2>1, <2>3
        <3>2. Cardinality({s}) = 1
            BY FS_Singleton
        <3> QED BY <3>1, <3>2
    <2> QED BY <2>2, <2>3
<1> QED BY <1>1, <1>2 DEF RefsExact

(* A valid copy is that of the disk unless somebody has it locked.           *)
LEMMA InvCopy ==
    ASSUME InodeAssumption, InodeInv
    PROVE  CopyIsTrue
<1> SUFFICES ASSUME NEW s \in Slot, itable[s].ref > 0, itable[s].valid, Unlocked(s)
             PROVE  itable[s].copy = dinode[itable[s].inum]
    BY DEF CopyIsTrue
<1> QED BY CopyTrue DEF Copy

(* Who is to free an inode has its only reference, and nobody its lock.      *)
LEMMA InvPut ==
    ASSUME InodeAssumption, InodeInv
    PROVE  PutNeedNotWait
<1> SUFFICES ASSUME NEW p \in Proc, pc[p] = "put", IsLast(ip[p])
             PROVE  Unlocked(ip[p])
    BY DEF PutNeedNotWait, At
<1>1. HasEntry(p) /\ itable[ip[p]].ref = 1
    BY DEF HasEntry, IsLast
<1>2. ip[p] \in Slot
    BY <1>1, Referred DEF InodeInv
<1>3. /\ \A q \in Proc \ {p} : HasEntry(q) => ip[q] # ip[p]
      /\ \A q \in Proc : file[q] # ip[p]
    BY <1>1, OnlyReference DEF InodeInv
<1>4. \A q \in Proc : ~Locks(q, ip[p])
    BY <1>3 DEF Locks, HasEntry
<1> QED BY <1>2, <1>4 DEF InodeInv, LocksFit, Unlocked

(* Who reads an inode finds it in use, and by its name a link.               *)
LEMMA InvNoPanic ==
    ASSUME InodeAssumption, InodeInv
    PROVE  NoPanic
<1> SUFFICES ASSUME NEW p \in Proc,
                    pc[p] \in {"open", "creates", "unlink", "link", "undo"},
                    Unlocked(ip[p])
             PROVE  Copy(ip[p]).type /\ (pc[p] = "unlink" => Copy(ip[p]).nlink > 0)
    BY DEF NoPanic, At
<1> DEFINE x == itable[ip[p]].inum
<1>1. HasEntry(p)
    BY DEF HasEntry
<1>2. Copy(ip[p]) = dinode[x]
    BY <1>1, EntryUsable DEF Usable
<1>3. dinode[x].type
    BY <1>1, InUse
<1>4. pc[p] = "unlink" => dinode[x].nlink > 0
    <2>1. SUFFICES ASSUME pc[p] = "unlink" PROVE dinode[x].nlink > 0
        OBVIOUS
    <2>2. name[p] \in Name /\ dir[name[p]] = x
        BY <2>1 DEF InodeInv, StagesFit, StageOf, On
    <2>3. x # Nil
        BY <1>1, Referred, Apart DEF InodeInv
    <2> QED BY <2>2, <2>3, NameCounted
<1> QED BY <1>2, <1>3, <1>4

(* What is on disk is that of files with names, each block in one of them.   *)
LEMMA InvStored ==
    ASSUME InodeAssumption, InodeInv
    PROVE  StoredConsistent
<1> DEFINE d == stored[1]
           inUse == {i \in Inum : d[i].type}
<1>1. /\ stored[2] \in [Name -> Inum \cup {Nil}]
      /\ DiskFits(d, stored[2], stored[3])
      /\ \A i \in Inum : d[i].nlink = Cardinality(Names(stored[2], i))
    BY DEF InodeInv, StoredFits
<1> HIDE DEF d
<1>2. \A i \in Inum : ~d[i].type => d[i].addrs = {}
    BY <1>1 DEF DiskFits, FreeDinode
<1>3. \A i \in inUse : d[i].nlink = Cardinality({n \in Name : stored[2][n] = i})
    BY <1>1 DEF Names
<1>4. \A n \in Name : stored[2][n] \in inUse \cup {Nil}
    BY <1>1 DEF DiskFits
<1>5. stored[3] = UNION {d[i].addrs : i \in inUse}
    BY <1>1, <1>2 DEF DiskFits
<1>6. \A i, j \in inUse : i # j => d[i].addrs \cap d[j].addrs = {}
    BY <1>1 DEF DiskFits
<1> QED BY <1>3, <1>4, <1>5, <1>6 DEF StoredConsistent, d

-----------------------------------------------------------------------------
(* The table of inodes, for every number of processes, names and entries:    *)
(* iget() and iput() count the references, an inode has one entry, ilock()   *)
(* has the copy of the disk and finds an inode in use, and iput() takes a    *)
(* sleep-lock that is free.                                                  *)
THEOREM InodesFit ==
    InodeAssumption =>
        (Spec => [](TypeOK /\ RefsExact /\ CopyIsTrue /\ PutNeedNotWait /\ NoPanic))
<1> SUFFICES ASSUME InodeAssumption
             PROVE  Spec => [](TypeOK /\ RefsExact /\ CopyIsTrue /\ PutNeedNotWait
                                /\ NoPanic)
    OBVIOUS
<1>1. Init => InodeInv
    BY InodesInit
<1>2. InodeInv /\ [Next]_vars => InodeInv'
    BY InodesInductive
<1>3. InodeInv => TypeOK /\ RefsExact /\ CopyIsTrue /\ PutNeedNotWait /\ NoPanic
    BY InvRefs, InvCopy, InvPut, InvNoPanic DEF InodeInv
<1> QED BY <1>1, <1>2, <1>3, PTL DEF Spec

(* What a crash leaves on disk is consistent: sys_open(), sys_link() and     *)
(* sys_unlink() of any number of processes, and their crashes, leave as many *)
(* names of an inode as it has links, and a block to one file.               *)
THEOREM DiskFit == InodeAssumption => (Spec => []StoredConsistent)
<1> SUFFICES ASSUME InodeAssumption PROVE Spec => []StoredConsistent
    OBVIOUS
<1>1. Init => InodeInv
    BY InodesInit
<1>2. InodeInv /\ [Next]_vars => InodeInv'
    BY InodesInductive
<1>3. InodeInv => StoredConsistent
    BY InvStored
<1> QED BY <1>1, <1>2, <1>3, PTL DEF Spec
=============================================================================
