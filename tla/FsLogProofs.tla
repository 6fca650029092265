---------------------------- MODULE FsLogProofs ----------------------------
(* That transactions of FsLog are atomic, for any number of processes and    *)
(* blocks and any size of the log.                                           *)
EXTENDS FsLog, FiniteSetTheorems, TLAPS

Sequential == phase \in {"read_head", "recover"}
Installing == phase \in {"install", "recover"}

(* Who is where: processes are counted, a buffer has one owner, and a commit *)
(* runs exactly while a process is in commit().                              *)
OpsOK ==
    /\ outstanding = Cardinality(Active)
    /\ committing <=> phase \in {"write_log", "install", "committed"}
    /\ \A p \in Proc : pc[p] = "modified" <=> buf[p] # None
    /\ \A p, q \in Proc : buf[p] = buf[q] /\ buf[p] # None => p = q
    /\ Sequential => \A p \in Proc : pc[p] = "idle"

(* The header on the disk and the one in memory.                             *)
HeadsOK ==
    /\ IsInjective(lh) /\ IsInjective(head)
    /\ Len(lh) <= LOGSIZE /\ Len(head) <= LOGSIZE
    /\ Installing => head = lh
    /\ phase \in {"up", "write_log", "committed", "panic"} => head = <<>>
    /\ phase \in {"read_head", "committed"} => lh = <<>>

(* A block is pinned from log_write() until install_trans() has copied it.   *)
PinsOK ==
    \A b \in Block :
        pins[b] = 1 <=>
            \/ phase \in {"up", "write_log", "panic"} /\ b \in ToSet(lh)
            \/ phase = "install" /\ \E i \in 1..Len(lh) : i >= tail /\ lh[i] = b

(* A block that is in use is in the cache; one that is not in use is clean.  *)
CacheOK ==
    \A b \in Block :
        /\ cache[b] # Torn
        /\ pins[b] = 0 /\ (\A p \in Proc : buf[p] # b)
              => cache[b] \in {None, home[b]}
        /\ pins[b] = 1 \/ (\E p \in Proc : buf[p] = b) => cache[b] # None

(* What a restart needs is never torn.                                       *)
DiskOK ==
    /\ \A b \in Block : b \notin ToSet(head) => home[b] # Torn
    /\ \A i \in 1..Len(head) : logblock[i] # Torn

(* How far the loops of write_log() and install_trans() have come.           *)
LoopsOK ==
    \A i \in 1..Len(lh) :
        /\ phase = "write_log" /\ i < tail => logblock[i] = cache[lh[i]]
        /\ Installing /\ i < tail => home[lh[i]] = logblock[i]
        /\ phase = "install" /\ i >= tail => cache[lh[i]] = logblock[i]

IInv ==
    /\ TypeOK /\ OpsOK /\ CommitAlone /\ HeadsOK /\ PinsOK /\ CacheOK
    /\ DiskOK /\ LoopsOK

(***************************************************************************)
(* Lemmas about lists of blocks and about the calls that are active.       *)
(***************************************************************************)

(* log_write() adds a block that was not in the log.                         *)
LEMMA AppendAdds ==
    ASSUME NEW s \in Seq(Block), NEW b \in Block
    PROVE  /\ Append(s, b) \in Seq(Block)
           /\ Len(Append(s, b)) = Len(s) + 1
           /\ \A i \in 1..Len(s) : Append(s, b)[i] = s[i]
           /\ Append(s, b)[Len(s) + 1] = b
           /\ ToSet(Append(s, b)) = ToSet(s) \cup {b}
           /\ IsInjective(s) /\ b \notin ToSet(s) => IsInjective(Append(s, b))
<1>1. /\ Append(s, b) \in Seq(Block) /\ Len(Append(s, b)) = Len(s) + 1
      /\ \A i \in 1..Len(s) : Append(s, b)[i] = s[i]
      /\ Append(s, b)[Len(s) + 1] = b
    OBVIOUS
<1>2. /\ DOMAIN s = 1..Len(s) /\ Len(s) \in Nat
      /\ DOMAIN Append(s, b) = 1..(Len(s) + 1)
    OBVIOUS
<1>3. ToSet(Append(s, b)) = ToSet(s) \cup {b}
    <2>1. ASSUME NEW x \in ToSet(Append(s, b)) PROVE x \in ToSet(s) \cup {b}
        BY <1>1, <1>2 DEF ToSet
    <2>2. ASSUME NEW x \in ToSet(s) PROVE x \in ToSet(Append(s, b))
        BY <1>1, <1>2 DEF ToSet
    <2>3. b \in ToSet(Append(s, b))
        BY <1>1, <1>2 DEF ToSet
    <2> QED
        BY <2>1, <2>2, <2>3
<1>4. IsInjective(s) /\ b \notin ToSet(s) => IsInjective(Append(s, b))
    BY <1>1, <1>2 DEF ToSet, IsInjective
<1> QED
    BY <1>1, <1>3, <1>4

(* Membership in a list of blocks, by position.                              *)
LEMMA InList ==
    ASSUME NEW s \in Seq(Block)
    PROVE  /\ \A i \in 1..Len(s) : s[i] \in Block /\ s[i] \in ToSet(s)
           /\ \A b \in ToSet(s) : b \in Block /\ \E i \in 1..Len(s) : s[i] = b
           /\ ToSet(<<>>) = {}
           /\ Len(s) \in Nat
           /\ Len(s) = 0 <=> s = <<>>
           /\ IsInjective(s) =>
                 \A i, j \in 1..Len(s) : s[i] = s[j] => i = j
BY DEF ToSet, IsInjective

(* The set of active calls is finite.                                        *)
LEMMA ActiveFinite == IsFiniteSet(Active) /\ Cardinality(Active) \in Nat
BY LogAssumption, FS_Subset, FS_CardinalityType, Active \subseteq Proc
   DEF Active

(* begin_op() counts a call that was not active.                             *)
LEMMA ActiveAdded ==
    ASSUME NEW p \in Proc, p \notin Active, Active' = Active \cup {p}
    PROVE  Cardinality(Active') = Cardinality(Active) + 1
BY ActiveFinite, FS_AddElement

(* end_op() takes an active call off; it was the last one if the count is 1. *)
LEMMA ActiveRemoved ==
    ASSUME NEW p \in Active, Active' = Active \ {p}
    PROVE  /\ Cardinality(Active') = Cardinality(Active) - 1
           /\ Cardinality(Active) = 1 <=> Active' = {}
<1>1. IsFiniteSet(Active')
    BY ActiveFinite, FS_Subset, Active' \subseteq Active
<1>2. Cardinality(Active') = Cardinality(Active) - 1
    BY ActiveFinite, FS_RemoveElement
<1>3. Cardinality(Active') = 0 <=> Active' = {}
    BY <1>1, FS_EmptySet
<1> QED
    BY <1>2, <1>3, ActiveFinite

(***************************************************************************)
(* The invariant.                                                          *)
(***************************************************************************)

(* The invariant holds when the machine is first started.                    *)
LEMMA InitInv == Init => IInv
<1> SUFFICES ASSUME Init PROVE IInv
    OBVIOUS
<1> USE LogAssumption
<1>1. TypeOK
    <2>1. /\ head \in Seq(Block) /\ lh \in Seq(Block)
          /\ home \in [Block -> Data \cup {Torn}]
        BY DEF Init
    <2>2. logblock \in [1..LOGSIZE -> Data \cup {Torn}]
        BY DEF Init
    <2>3. /\ cache \in [Block -> Data \cup {Torn, None}]
          /\ buf \in [Proc -> Block \cup {None}]
          /\ pins \in [Block -> {0, 1}]
        BY DEF Init
    <2>4. wrote \in [Proc -> SUBSET Block]
        BY DEF Init
    <2>5. pc \in [Proc ->
                     {"idle", "begin", "asleep", "in", "modified", "commit"}]
        BY DEF Init
    <2>6. /\ outstanding \in Nat
          /\ tail \in Nat \ {0} /\ phase = "read_head"
        BY DEF Init
    <2>7. committing \in BOOLEAN
        BY DEF Init
    <2> QED
        BY <2>1, <2>2, <2>3, <2>4, <2>5, <2>6, <2>7 DEF TypeOK
<1>2. Active = {} /\ Cardinality({}) = 0
    BY FS_EmptySet DEF Init, Active
<1>3. OpsOK /\ CommitAlone
    BY <1>2 DEF Init, OpsOK, CommitAlone, Sequential
<1>4. HeadsOK /\ LoopsOK
    BY DEF Init, HeadsOK, LoopsOK, Installing, IsInjective
<1>5. PinsOK /\ CacheOK
    BY DEF Init, PinsOK, CacheOK
<1>6. DiskOK
    BY DEF Init, DiskOK
<1> QED
    BY <1>1, <1>3, <1>4, <1>5, <1>6 DEF IInv

(* A crash keeps it, and so do the power cut's torn blocks.                  *)
LEMMA CrashInv == IInv /\ Crash => IInv'
<1> SUFFICES ASSUME IInv, Crash PROVE IInv'
    OBVIOUS
<1> USE LogAssumption DEF IInv
<1>1. Active' = {} /\ Cardinality({}) = 0
    BY FS_EmptySet DEF Crash, Active
<1>2. TypeOK'
    <2>1. /\ home' \in [Block -> Data \cup {Torn}]
          /\ logblock' \in [1..LOGSIZE -> Data \cup {Torn}]
        BY DEF Crash, TypeOK
    <2>2. head' \in Seq(Block) /\ lh' \in Seq(Block)
        BY DEF Crash, TypeOK
    <2>3. /\ cache' \in [Block -> Data \cup {Torn, None}]
          /\ buf' \in [Proc -> Block \cup {None}]
          /\ pins' \in [Block -> {0, 1}]
        BY DEF Crash
    <2>4. wrote' \in [Proc -> SUBSET Block]
        BY DEF Crash
    <2>5. pc' \in [Proc ->
                     {"idle", "begin", "asleep", "in", "modified", "commit"}]
        BY DEF Crash
    <2>6. /\ outstanding' \in Nat
          /\ tail' \in Nat \ {0} /\ phase' = "read_head"
        BY DEF Crash
    <2>7. committing' \in BOOLEAN
        BY DEF Crash
    <2> QED
        BY <2>1, <2>2, <2>3, <2>4, <2>5, <2>6, <2>7 DEF TypeOK
<1>3. OpsOK' /\ CommitAlone'
    BY <1>1 DEF Crash, OpsOK, CommitAlone, Sequential
<1>4. HeadsOK' /\ LoopsOK'
    BY DEF Crash, HeadsOK, LoopsOK, Installing, IsInjective, TypeOK
<1>5. PinsOK' /\ CacheOK'
    BY DEF Crash, PinsOK, CacheOK
<1>6. DiskOK'
    <2>1. CASE UNCHANGED <<home, logblock>>
        BY <2>1 DEF Crash, DiskOK
    <2>2. CASE /\ phase \in {"recover", "install"}
               /\ tail <= Len(lh)
               /\ home' = [home EXCEPT ![lh[tail]] = Torn]
               /\ UNCHANGED logblock
        BY <2>2, InList DEF Crash, DiskOK, HeadsOK, Installing, TypeOK
    <2>3. CASE /\ phase = "write_log"
               /\ tail <= Len(lh)
               /\ logblock' = [logblock EXCEPT ![tail] = Torn]
               /\ UNCHANGED home
        BY <2>3 DEF Crash, DiskOK, HeadsOK, TypeOK
    <2> QED
        BY <2>1, <2>2, <2>3 DEF Crash
<1> QED
    BY <1>2, <1>3, <1>4, <1>5, <1>6

(* initlog() begins with the header from the disk.                           *)
LEMMA ReadHeadInv == IInv /\ ReadHead => IInv'
<1> SUFFICES ASSUME IInv, ReadHead PROVE IInv'
    OBVIOUS
<1> USE LogAssumption DEF IInv, ReadHead, diskVars, bioVars, opVars
<1>1. TypeOK'
    BY DEF TypeOK
<1>2. OpsOK' /\ CommitAlone'
    BY DEF OpsOK, CommitAlone, Active, Sequential
<1>3. HeadsOK' /\ LoopsOK'
    BY DEF HeadsOK, LoopsOK, Installing, TypeOK
<1>4. PinsOK' /\ CacheOK' /\ DiskOK'
    BY DEF PinsOK, CacheOK, DiskOK
<1> QED
    BY <1>1, <1>2, <1>3, <1>4

(* Copying a block home makes it clean, in a commit and in the recovery.     *)
LEMMA InstallTransInv == IInv /\ InstallTrans => IInv'
<1> SUFFICES ASSUME IInv, InstallTrans PROVE IInv'
    OBVIOUS
<1> USE LogAssumption DEF IInv
<1> DEFINE b == lh[tail]
<1>1. /\ tail \in 1..Len(lh) /\ tail \in 1..Len(head) /\ tail \in 1..LOGSIZE
      /\ b \in Block /\ b \in ToSet(lh) /\ head = lh
      /\ logblock[tail] \in Data
      /\ \A i \in 1..Len(lh) : lh[i] \in Block /\ (lh[i] = b => i = tail)
    BY InList DEF InstallTrans, TypeOK, HeadsOK, DiskOK, Installing
<1>2. phase = "install" => pins[b] = 1
    BY <1>1 DEF PinsOK
<1>3. TypeOK'
    <2>1. pins' \in [Block -> {0, 1}]
        BY <1>1, <1>2 DEF InstallTrans, TypeOK
    <2> QED
        BY <1>1, <2>1
           DEF InstallTrans, TypeOK, logVars, opVars
<1>4. OpsOK' /\ CommitAlone'
    BY DEF InstallTrans, OpsOK, CommitAlone, Active, Sequential, logVars, opVars
<1>5. HeadsOK'
    BY DEF InstallTrans, HeadsOK, Installing, logVars
<1>6. PinsOK'
    <2>1. CASE phase = "recover"
        BY <2>1 DEF InstallTrans, PinsOK, logVars
    <2>2. CASE phase = "install"
        <3> SUFFICES ASSUME NEW x \in Block
                     PROVE  pins'[x] = 1 <=>
                                \E i \in 1..Len(lh) : i >= tail + 1 /\ lh[i] = x
            BY <2>2 DEF InstallTrans, PinsOK, logVars
        <3>1. CASE x = b
            BY <3>1, <1>1, <1>2, <2>2 DEF InstallTrans, TypeOK
        <3>2. CASE x # b
            <4>1. pins'[x] = pins[x]
                BY <3>2, <2>2 DEF InstallTrans, TypeOK
            <4>2. (\E i \in 1..Len(lh) : i >= tail + 1 /\ lh[i] = x)
                    <=> \E i \in 1..Len(lh) : i >= tail /\ lh[i] = x
                BY <3>2, <1>1
            <4> QED
                BY <4>1, <4>2, <2>2 DEF PinsOK
        <3> QED
            BY <3>1, <3>2
    <2> QED
        BY <2>1, <2>2 DEF InstallTrans
<1>7. CacheOK'
    <2> SUFFICES ASSUME NEW x \in Block
                 PROVE  /\ cache'[x] # Torn
                        /\ pins'[x] = 0 /\ (\A p \in Proc : buf[p] # x)
                              => cache'[x] \in {None, home'[x]}
                        /\ pins'[x] = 1 \/ (\E p \in Proc : buf[p] = x)
                              => cache'[x] # None
        BY DEF CacheOK, InstallTrans
    <2>1. CASE x = b
        BY <2>1, <1>1 DEF InstallTrans, TypeOK
    <2>2. CASE x # b
        BY <2>2, <1>1 DEF InstallTrans, TypeOK, CacheOK
    <2> QED
        BY <2>1, <2>2
<1>8. DiskOK'
    BY <1>1 DEF InstallTrans, DiskOK, TypeOK
<1>9. LoopsOK'
    <2> SUFFICES ASSUME NEW i \in 1..Len(lh)
                 PROVE  /\ i < tail + 1 => home'[lh[i]] = logblock[i]
                        /\ phase = "install" /\ i >= tail + 1
                              => cache'[lh[i]] = logblock[i]
        BY DEF LoopsOK, InstallTrans, logVars, Installing
    <2>1. CASE i = tail
        BY <2>1, <1>1 DEF InstallTrans, TypeOK
    <2>2. CASE i # tail
        BY <2>2, <1>1 DEF InstallTrans, TypeOK, LoopsOK, Installing
    <2> QED
        BY <2>1, <2>2
<1> QED
    BY <1>3, <1>4, <1>5, <1>6, <1>7, <1>8, <1>9

(* When the header is erased all its blocks are home.                        *)
LEMMA EraseHeadInv == IInv /\ EraseHead => IInv'
<1> SUFFICES ASSUME IInv, EraseHead PROVE IInv'
    OBVIOUS
<1> USE LogAssumption DEF IInv
<1>1. /\ \A i \in 1..Len(lh) : i < tail
      /\ head = lh /\ phase' \in {"up", "committed"}
      /\ \A i \in 1..Len(lh) : home[lh[i]] = logblock[i] /\ logblock[i] # Torn
    BY DEF EraseHead, HeadsOK, LoopsOK, DiskOK, Installing, TypeOK
<1>2. \A b \in Block : pins[b] = 0 /\ home[b] # Torn
    <2>1. \A b \in Block : pins[b] # 1
        BY <1>1 DEF EraseHead, PinsOK, TypeOK
    <2>2. ASSUME NEW b \in Block PROVE home[b] # Torn
        <3>1. CASE b \notin ToSet(head)
            BY <3>1 DEF DiskOK
        <3>2. CASE b \in ToSet(head)
            <4>1. PICK i \in 1..Len(lh) : lh[i] = b
                BY <1>1, <3>2, InList DEF TypeOK
            <4> QED
                BY <4>1, <1>1
        <3> QED
            BY <3>1, <3>2
    <2> QED
        BY <2>1, <2>2 DEF TypeOK
<1>3. TypeOK'
    BY <1>1 DEF EraseHead, TypeOK, bioVars, opVars
<1>4. OpsOK'
    <2>1. phase' \in {"write_log", "install", "committed"} <=> committing
        BY DEF EraseHead, OpsOK
    <2> QED
        BY <1>1, <2>1
           DEF EraseHead, OpsOK, Active, Sequential, bioVars, opVars
<1>5. CommitAlone'
    BY DEF EraseHead, CommitAlone, Active, opVars
<1>6. HeadsOK' /\ LoopsOK'
    BY <1>1 DEF EraseHead, HeadsOK, LoopsOK, Installing, IsInjective
<1>7. PinsOK' /\ CacheOK' /\ DiskOK'
    BY <1>1, <1>2, InList
       DEF EraseHead, PinsOK, CacheOK, DiskOK, bioVars, TypeOK
<1> QED
    BY <1>3, <1>4, <1>5, <1>6, <1>7

(* begin_op() counts the call or puts the process to sleep.                  *)
LEMMA BeginOpInv == ASSUME NEW p \in Proc PROVE IInv /\ BeginOp(p) => IInv'
<1> SUFFICES ASSUME IInv, BeginOp(p) PROVE IInv'
    OBVIOUS
<1> USE LogAssumption DEF IInv, Up
<1>1. TypeOK'
    <2>1. outstanding' \in Nat
        BY DEF BeginOp, TypeOK
    <2>2. pc' \in [Proc ->
                     {"idle", "begin", "asleep", "in", "modified", "commit"}]
        BY DEF BeginOp, TypeOK
    <2> QED
        BY <2>1, <2>2 DEF BeginOp, TypeOK, diskVars, bioVars
<1>2. OpsOK'
    <2>1. CASE outstanding' = outstanding /\ pc' = [pc EXCEPT ![p] = "asleep"]
        <3>1. Active' = Active
            BY <2>1 DEF BeginOp, Active, TypeOK
        <3> QED
            BY <2>1, <3>1 DEF BeginOp, OpsOK, TypeOK, Sequential, bioVars
    <2>2. CASE outstanding' = outstanding + 1 /\ pc' = [pc EXCEPT ![p] = "in"]
        <3>1. p \notin Active /\ Active' = Active \cup {p}
            BY <2>2 DEF BeginOp, Active, TypeOK
        <3>2. outstanding' = Cardinality(Active')
            BY <2>2, <3>1, ActiveAdded DEF OpsOK
        <3> QED
            BY <2>2, <3>2 DEF BeginOp, OpsOK, TypeOK, Sequential, bioVars
    <2> QED
        BY <2>1, <2>2 DEF BeginOp
<1>3. CommitAlone'
    <2>1. \A q \in Proc : pc'[q] = "commit" <=> pc[q] = "commit"
        BY DEF BeginOp, TypeOK
    <2>2. committing => Active' = {} /\ outstanding' = 0
        BY DEF BeginOp, CommitAlone, Active, TypeOK
    <2> QED
        BY <2>1, <2>2 DEF BeginOp, CommitAlone
<1>4. /\ HeadsOK' /\ LoopsOK' /\ PinsOK' /\ CacheOK' /\ DiskOK'
    BY DEF BeginOp, HeadsOK, LoopsOK, Installing, PinsOK, CacheOK, DiskOK,
           diskVars, bioVars
<1> QED
    BY <1>1, <1>2, <1>3, <1>4

(* A call may change a buffer that no other call holds.                      *)
LEMMA ModifyInv ==
    ASSUME NEW p \in Proc, NEW b \in Block, NEW v \in Data
    PROVE  IInv /\ Modify(p, b, v) => IInv'
<1> SUFFICES ASSUME IInv, Modify(p, b, v) PROVE IInv'
    OBVIOUS
<1> USE LogAssumption DEF IInv, Up
<1>1. phase = "up"
    BY DEF Modify, CommitAlone, OpsOK, Active
<1>2. TypeOK'
    BY DEF Modify, TypeOK, diskVars, logVars
<1>3. OpsOK'
    <2>1. Active' = Active
        BY DEF Modify, Active, TypeOK
    <2> QED
        BY <2>1, <1>1 DEF Modify, OpsOK, TypeOK, Sequential, logVars
<1>4. CommitAlone'
    BY DEF Modify, CommitAlone, Active, TypeOK, logVars
<1>5. HeadsOK' /\ LoopsOK' /\ PinsOK' /\ DiskOK'
    BY <1>1 DEF Modify, HeadsOK, LoopsOK, Installing, PinsOK, DiskOK, diskVars,
           logVars
<1>6. CacheOK'
    <2> SUFFICES ASSUME NEW x \in Block
                 PROVE  /\ cache'[x] # Torn
                        /\ pins[x] = 0 /\ (\A q \in Proc : buf'[q] # x)
                              => cache'[x] \in {None, home[x]}
                        /\ pins[x] = 1 \/ (\E q \in Proc : buf'[q] = x)
                              => cache'[x] # None
        BY DEF CacheOK, Modify, diskVars
    <2>1. CASE x = b
        BY <2>1 DEF Modify, TypeOK
    <2>2. CASE x # b
        <3>1. \A q \in Proc : buf'[q] = x <=> buf[q] = x
            BY <2>2 DEF Modify, TypeOK, OpsOK
        <3> QED
            BY <2>2, <3>1 DEF Modify, TypeOK, CacheOK
    <2> QED
        BY <2>1, <2>2
<1> QED
    BY <1>2, <1>3, <1>4, <1>5, <1>6

(* log_write() pins the block, or stops the kernel.                          *)
LEMMA LogWriteInv == ASSUME NEW p \in Proc PROVE IInv /\ LogWrite(p) => IInv'
<1> SUFFICES ASSUME IInv, LogWrite(p) PROVE IInv'
    OBVIOUS
<1> USE LogAssumption DEF IInv, Up
<1> DEFINE b == buf[p]
<1>1. phase = "up" /\ ~committing
    BY DEF LogWrite, CommitAlone, OpsOK, Active
<1>2. b \in Block /\ cache[b] # None
    BY DEF LogWrite, OpsOK, TypeOK, CacheOK
<1>3. CASE TooBig
    <2>1. /\ phase' = "panic"
          /\ UNCHANGED <<diskVars, bioVars, logVars, opVars, tail>>
        BY <1>3 DEF LogWrite, diskVars, bioVars, logVars, opVars
    <2>2. TypeOK'
        BY <2>1 DEF TypeOK, diskVars, bioVars, logVars, opVars
    <2>3. OpsOK' /\ CommitAlone'
        BY <2>1, <1>1 DEF OpsOK, CommitAlone, Active, Sequential, bioVars,
                          logVars, opVars
    <2>4. HeadsOK' /\ LoopsOK'
        BY <2>1, <1>1 DEF HeadsOK, LoopsOK, Installing, diskVars, logVars
    <2>5. PinsOK' /\ CacheOK' /\ DiskOK'
        BY <2>1, <1>1 DEF PinsOK, CacheOK, DiskOK, diskVars, bioVars, logVars
    <2> QED
        BY <2>2, <2>3, <2>4, <2>5
<1>4. CASE ~TooBig
    <2>1. /\ pc' = [pc EXCEPT ![p] = "in"]
          /\ buf' = [buf EXCEPT ![p] = None]
          /\ UNCHANGED <<phase, home, head, logblock, cache, outstanding,
                         committing, wrote, tail>>
        BY <1>4 DEF LogWrite, diskVars
    <2>2. /\ lh' \in Seq(Block) /\ IsInjective(lh') /\ Len(lh') <= LOGSIZE
          /\ ToSet(lh') = ToSet(lh) \cup {b}
          /\ pins' = [pins EXCEPT ![b] = 1]
        <3>1. CASE Logged(b)
            <4>1. lh' = lh /\ pins' = pins
                BY <1>4, <3>1 DEF LogWrite
            <4>2. pins[b] = 1
                BY <1>1, <1>2, <3>1 DEF PinsOK, Logged
            <4>3. pins = [pins EXCEPT ![b] = 1]
                BY <4>2 DEF TypeOK
            <4> QED
                BY <4>1, <4>3, <3>1 DEF HeadsOK, TypeOK, Logged
        <3>2. CASE ~Logged(b)
            <4>1. /\ lh' = Append(lh, b)
                  /\ pins' = [pins EXCEPT ![b] = @ + 1]
                BY <1>4, <3>2 DEF LogWrite
            <4>2. pins[b] = 0
                BY <1>1, <1>2, <3>2 DEF PinsOK, Logged, TypeOK
            <4>3. pins' = [pins EXCEPT ![b] = 1]
                BY <4>1, <4>2 DEF TypeOK
            <4>4. Len(lh) + 1 <= LOGSIZE
                BY <1>4 DEF TooBig, TypeOK
            <4> QED
                BY <4>1, <4>3, <4>4, <1>2, <3>2, AppendAdds
                   DEF HeadsOK, TypeOK, Logged
        <3> QED
            BY <3>1, <3>2
    <2>3. TypeOK'
        BY <2>1, <2>2, <1>2 DEF TypeOK
    <2>4. OpsOK'
        <3>1. Active' = Active
            BY <2>1 DEF LogWrite, Active, TypeOK
        <3> QED
            BY <2>1, <3>1, <1>1 DEF OpsOK, TypeOK, Sequential
    <2>5. CommitAlone'
        BY <2>1, <1>1 DEF LogWrite, CommitAlone, TypeOK
    <2>6. HeadsOK' /\ LoopsOK' /\ DiskOK'
        BY <2>1, <2>2, <1>1 DEF HeadsOK, LoopsOK, DiskOK, Installing
    <2>7. PinsOK'
        BY <2>1, <2>2, <1>1 DEF PinsOK, TypeOK
    <2>8. CacheOK'
        <3> SUFFICES ASSUME NEW x \in Block
                     PROVE  /\ cache[x] # Torn
                            /\ pins'[x] = 0 /\ (\A q \in Proc : buf'[q] # x)
                                  => cache[x] \in {None, home[x]}
                            /\ pins'[x] = 1 \/ (\E q \in Proc : buf'[q] = x)
                                  => cache[x] # None
            BY <2>1 DEF CacheOK
        <3>1. CASE x = b
            BY <3>1, <1>2, <2>2 DEF TypeOK, CacheOK
        <3>2. CASE x # b
            <4>1. pins'[x] = pins[x]
                BY <3>2, <2>2 DEF TypeOK
            <4>2. \A q \in Proc : buf'[q] = x <=> buf[q] = x
                BY <3>2, <2>1 DEF TypeOK
            <4> QED
                BY <4>1, <4>2 DEF CacheOK
        <3> QED
            BY <3>1, <3>2
    <2> QED
        BY <2>3, <2>4, <2>5, <2>6, <2>7, <2>8
<1> QED
    BY <1>3, <1>4

(* The last end_op() starts a commit, any other lets sleepers test again.    *)
LEMMA EndOpInv == ASSUME NEW p \in Proc PROVE IInv /\ EndOp(p) => IInv'
<1> SUFFICES ASSUME IInv, EndOp(p) PROVE IInv'
    OBVIOUS
<1> USE LogAssumption DEF IInv, Up
<1>1. /\ phase = "up" /\ ~committing /\ p \in Active
      /\ \A q \in Proc : pc[q] # "commit"
    BY DEF EndOp, CommitAlone, OpsOK, Active
<1>2. Active' = Active \ {p}
    BY DEF EndOp, Active, Woken, TypeOK
<1>3. /\ outstanding' = Cardinality(Active')
      /\ outstanding = 1 <=> Active' = {}
      /\ outstanding' \in Nat
    <2>1. /\ Cardinality(Active') = Cardinality(Active) - 1
          /\ Cardinality(Active) = 1 <=> Active' = {}
        BY <1>1, <1>2, ActiveRemoved
    <2>2. Cardinality(Active) # 0
        BY <1>1, ActiveFinite, FS_EmptySet
    <2> QED
        BY <2>1, <2>2, ActiveFinite DEF EndOp, OpsOK
<1>4. /\ pc' \in [Proc ->
                     {"idle", "begin", "asleep", "in", "modified", "commit"}]
      /\ \A q \in Proc : pc'[q] = "modified" <=> pc[q] = "modified"
      /\ \A q \in Proc : pc'[q] = "commit" <=> q = p /\ outstanding = 1
    BY <1>1 DEF EndOp, Woken, TypeOK
<1>5. /\ tail' \in Nat \ {0}
      /\ phase' = IF outstanding = 1
                  THEN IF lh = <<>> THEN "committed" ELSE "write_log"
                  ELSE "up"
      /\ outstanding = 1 => tail' = 1
      /\ outstanding # 1 => tail' = tail
      /\ UNCHANGED <<diskVars, bioVars, lh>>
    BY <1>1 DEF EndOp, TypeOK
<1>6. committing' \in BOOLEAN /\ (committing' <=> outstanding = 1)
    <2>1. CASE outstanding = 1
        BY <2>1 DEF EndOp
    <2>2. CASE outstanding # 1
        <3>1. committing' = committing
            BY <2>2 DEF EndOp
        <3>2. committing \in BOOLEAN
            BY DEF TypeOK
        <3> QED
            BY <2>2, <3>1, <3>2, <1>1
    <2> QED
        BY <2>1, <2>2
<1>7. TypeOK'
    BY <1>3, <1>4, <1>5, <1>6 DEF EndOp, TypeOK, diskVars, bioVars
<1>8. OpsOK'
    BY <1>1, <1>3, <1>4, <1>5, <1>6 DEF OpsOK, Sequential, bioVars
<1>9. CommitAlone'
    <2>1. outstanding = 1 => Active' = {} /\ outstanding' = 0
        BY <1>3 DEF EndOp
    <2> QED
        BY <2>1, <1>4, <1>5, <1>6 DEF CommitAlone
<1>10. HeadsOK' /\ LoopsOK'
    BY <1>1, <1>5 DEF HeadsOK, LoopsOK, Installing, diskVars, bioVars
<1>11. PinsOK' /\ CacheOK' /\ DiskOK'
    BY <1>1, <1>5, InList DEF PinsOK, CacheOK, DiskOK, diskVars, bioVars, TypeOK
<1> QED
    BY <1>7, <1>8, <1>9, <1>10, <1>11

(* write_log() copies blocks that are pinned, hence in the cache.            *)
LEMMA WriteLogInv == IInv /\ WriteLog => IInv'
<1> SUFFICES ASSUME IInv, WriteLog PROVE IInv'
    OBVIOUS
<1> USE LogAssumption DEF IInv
<1>1. /\ tail \in 1..Len(lh) /\ tail \in 1..LOGSIZE /\ lh[tail] \in Block
      /\ lh[tail] \in ToSet(lh) /\ head = <<>>
    BY InList DEF WriteLog, TypeOK, HeadsOK
<1>2. cache[lh[tail]] \in Data
    BY <1>1 DEF WriteLog, TypeOK, PinsOK, CacheOK
<1>3. TypeOK'
    BY <1>1, <1>2 DEF WriteLog, TypeOK, bioVars, logVars, opVars
<1>4. OpsOK' /\ CommitAlone'
    BY DEF WriteLog, OpsOK, CommitAlone, Active, Sequential, bioVars, logVars,
           opVars
<1>5. HeadsOK' /\ PinsOK' /\ CacheOK' /\ DiskOK'
    BY <1>1 DEF WriteLog, HeadsOK, Installing, PinsOK, CacheOK, DiskOK, bioVars,
                logVars
<1>6. LoopsOK'
    BY <1>1 DEF WriteLog, LoopsOK, Installing, HeadsOK, TypeOK, bioVars, logVars
<1> QED
    BY <1>3, <1>4, <1>5, <1>6

(* write_head() names the blocks that are in the log.                        *)
LEMMA WriteHeadInv == IInv /\ WriteHead => IInv'
<1> SUFFICES ASSUME IInv, WriteHead PROVE IInv'
    OBVIOUS
<1> USE LogAssumption DEF IInv
<1>1. \A i \in 1..Len(lh) :
          logblock[i] = cache[lh[i]] /\ cache[lh[i]] # Torn /\ lh[i] \in Block
    BY InList DEF WriteHead, LoopsOK, CacheOK, TypeOK
<1>2. TypeOK'
    BY DEF WriteHead, TypeOK, bioVars, logVars, opVars
<1>3. OpsOK' /\ CommitAlone'
    BY DEF WriteHead, OpsOK, CommitAlone, Active, Sequential, bioVars, logVars,
           opVars
<1>4. HeadsOK' /\ LoopsOK'
    BY <1>1
       DEF WriteHead, HeadsOK, LoopsOK, Installing, TypeOK, bioVars, logVars
<1>5. PinsOK'
    BY InList DEF WriteHead, PinsOK, TypeOK, bioVars, logVars
<1>6. CacheOK'
    BY DEF WriteHead, CacheOK, bioVars
<1>7. DiskOK'
    <2>1. \A b \in Block : home[b] # Torn
        BY InList DEF WriteHead, DiskOK, HeadsOK, TypeOK
    <2> QED
        BY <2>1, <1>1 DEF WriteHead, DiskOK
<1> QED
    BY <1>2, <1>3, <1>4, <1>5, <1>6, <1>7

(* end_op() lets the next transaction begin.                                 *)
LEMMA FinishInv == IInv /\ Finish => IInv'
<1> SUFFICES ASSUME IInv, Finish PROVE IInv'
    OBVIOUS
<1> USE LogAssumption DEF IInv
<1>1. /\ pc' \in [Proc ->
                     {"idle", "begin", "asleep", "in", "modified", "commit"}]
      /\ \A q \in Proc : pc'[q] = "modified" <=> pc[q] = "modified"
      /\ \A q \in Proc : pc'[q] # "commit"
      /\ Active' = Active /\ lh = <<>>
    BY DEF Finish, Woken, TypeOK, Active, HeadsOK
<1>2. /\ committing' = FALSE /\ phase = "committed" /\ phase' = "up"
      /\ UNCHANGED <<diskVars, bioVars, lh, outstanding, wrote, tail>>
    BY DEF Finish
<1>3. TypeOK'
    BY <1>1, <1>2 DEF TypeOK, diskVars, bioVars
<1>4. OpsOK' /\ CommitAlone'
    BY <1>1, <1>2 DEF OpsOK, CommitAlone, Sequential, bioVars
<1>5. HeadsOK' /\ LoopsOK'
    BY <1>1, <1>2 DEF Finish, HeadsOK, LoopsOK, Installing, diskVars
<1>6. PinsOK'
    <2>1. ToSet(lh) = {}
        BY <1>1, InList DEF TypeOK
    <2> QED
        BY <1>2, <2>1 DEF PinsOK, bioVars
<1>7. CacheOK' /\ DiskOK'
    BY <1>2 DEF CacheOK, DiskOK, diskVars, bioVars
<1> QED
    BY <1>3, <1>4, <1>5, <1>6, <1>7

(* Buffers come and go, but only clean ones.                                 *)
LEMMA BufferInv ==
    ASSUME NEW b \in Block
    PROVE  IInv /\ (Bread(b) \/ Bget(b)) => IInv'
<1> SUFFICES ASSUME IInv, Bread(b) \/ Bget(b) PROVE IInv'
    OBVIOUS
<1> USE LogAssumption DEF IInv, Up
<1>1. /\ UNCHANGED <<diskVars, pins, buf, logVars, opVars, phase, tail>>
      /\ pins[b] = 0 /\ (\A p \in Proc : buf[p] # b)
      /\ cache' \in {[cache EXCEPT ![b] = None], [cache EXCEPT ![b] = home[b]]}
      /\ cache'[b] = home[b] => cache[b] = None \/ cache[b] = home[b]
      /\ phase \notin {"read_head", "recover"}
    BY DEF Bread, Bget, TypeOK, CacheOK
<1>2. \A i \in 1..Len(lh) : lh[i] = b => phase = "install" /\ i < tail
    BY <1>1, InList DEF PinsOK, TypeOK, Bread, Bget, HeadsOK
<1>3. home[b] # Torn
    <2>1. CASE b \in ToSet(head)
        <3>1. phase = "install" /\ head = lh
            BY <2>1, <1>1, InList DEF Bread, Bget, HeadsOK, Installing, TypeOK
        <3>2. PICK i \in 1..Len(lh) : lh[i] = b
            BY <2>1, <3>1, InList DEF TypeOK
        <3>3. i < tail /\ home[b] = logblock[i] /\ logblock[i] # Torn
            BY <3>1, <3>2, <1>2 DEF LoopsOK, DiskOK, Installing
        <3> QED
            BY <3>3
    <2>2. CASE b \notin ToSet(head)
        BY <2>2 DEF DiskOK
    <2> QED
        BY <2>1, <2>2
<1>4. TypeOK'
    BY <1>1 DEF TypeOK, diskVars, logVars, opVars
<1>5. OpsOK' /\ CommitAlone'
    BY <1>1 DEF OpsOK, CommitAlone, Active, Sequential, logVars, opVars
<1>6. HeadsOK' /\ PinsOK' /\ DiskOK'
    BY <1>1 DEF HeadsOK, Installing, PinsOK, DiskOK, diskVars, logVars
<1>7. LoopsOK'
    BY <1>1, <1>2, InList
       DEF LoopsOK, Installing, diskVars, logVars, TypeOK
<1>8. CacheOK'
    BY <1>1, <1>3 DEF CacheOK, diskVars, TypeOK
<1> QED
    BY <1>4, <1>5, <1>6, <1>7, <1>8

(* The inductive invariant.                                                  *)
THEOREM Invariance == Spec => []IInv
<1>1. IInv /\ [Next]_vars => IInv'
    <2> SUFFICES ASSUME IInv, [Next]_vars PROVE IInv'
        OBVIOUS
    <2>1. CASE UNCHANGED vars
        BY <2>1 DEF IInv, TypeOK, OpsOK, CommitAlone, Active, HeadsOK, PinsOK,
                    CacheOK, DiskOK, LoopsOK, Installing, Sequential, vars,
                    diskVars, bioVars, logVars, opVars
    <2>2. ASSUME NEW p \in Proc, OpStep(p) PROVE IInv'
        BY <2>2, BeginOpInv, ModifyInv, LogWriteInv, EndOpInv DEF OpStep
    <2>3. CASE LogStep
        BY <2>3, ReadHeadInv, InstallTransInv, EraseHeadInv, WriteLogInv,
           WriteHeadInv, FinishInv DEF LogStep
    <2>4. CASE \E b \in Block : Bread(b) \/ Bget(b)
        BY <2>4, BufferInv
    <2>5. CASE Crash
        BY <2>5, CrashInv
    <2> QED
        BY <2>1, <2>2, <2>3, <2>4, <2>5 DEF Next
<1> QED
    BY InitInv, <1>1, PTL DEF Spec

(* Every variable has its type, and no block is pinned twice.                *)
THEOREM TypeCorrect == Spec => []TypeOK
BY Invariance, PTL DEF IInv

(* No call is active while a process commits, and only one commits.          *)
THEOREM CommitsAlone == Spec => []CommitAlone
BY Invariance, PTL DEF IInv

(***************************************************************************)
(* Sleeping in begin_op().                                                 *)
(***************************************************************************)

Sleepers == {p \in Proc : pc[p] = "asleep"}

Full == Len(lh) + (outstanding + 1) * MAXOPBLOCKS > LOGSIZE

(* A longer log and more calls leave no more room.                           *)
LEMMA NoMoreRoom ==
    ASSUME NEW n \in Nat, NEW o \in Nat, NEW m \in Nat, NEW q \in Nat,
           m >= n, q >= o,
           n + (o + 1) * MAXOPBLOCKS > LOGSIZE
    PROVE  m + (q + 1) * MAXOPBLOCKS > LOGSIZE
<1> USE LogAssumption
<1> DEFINE d == q - o
           x == (o + 1) * MAXOPBLOCKS
           y == (q + 1) * MAXOPBLOCKS
           z == d * MAXOPBLOCKS
<1>1. d \in Nat /\ q = o + d
    OBVIOUS
<1>2. x \in Nat /\ z \in Nat
    BY <1>1
<1>3. y = x + z
    <2> HIDE DEF d
    <2> QED
        BY <1>1
<1>4. n + x > LOGSIZE
    OBVIOUS
<1> HIDE DEF x, y, z
<1>5. m + y > LOGSIZE
    BY <1>2, <1>3, <1>4
<1> QED
    BY <1>5 DEF y

(* A step that keeps the reason to sleep for whoever slept before.           *)
LEMMA StillFull ==
    ASSUME IInv, IInv', SleepersHaveReason, Sleepers' \subseteq Sleepers,
           phase # "panic",
           committing => committing',
           Len(lh') >= Len(lh), outstanding' >= outstanding
    PROVE  SleepersHaveReason'
<1> SUFFICES ASSUME NEW p \in Proc, pc'[p] = "asleep", ~committing'
             PROVE  Full'
    BY DEF SleepersHaveReason, Full
<1>1. Full
    BY DEF SleepersHaveReason, Full, Sleepers
<1>2. /\ outstanding \in Nat /\ outstanding' \in Nat
      /\ Len(lh) \in Nat /\ Len(lh') \in Nat
    BY DEF IInv, TypeOK
<1> QED
    BY <1>1, <1>2, NoMoreRoom DEF Full

(* Nobody sleeps in begin_op() without a reason: no wakeup is lost.          *)
THEOREM NoLostWakeup == Spec => []SleepersHaveReason
<1>1. Init => SleepersHaveReason
    BY DEF Init, SleepersHaveReason
<1>2. IInv /\ IInv' /\ SleepersHaveReason /\ [Next]_vars => SleepersHaveReason'
    <2> SUFFICES ASSUME IInv, IInv', SleepersHaveReason, [Next]_vars
                 PROVE  SleepersHaveReason'
        OBVIOUS
    <2> USE DEF IInv
    <2>1. CASE UNCHANGED vars
        BY <2>1 DEF SleepersHaveReason, vars, logVars, opVars
    <2>2. ASSUME NEW p \in Proc, BeginOp(p) PROVE SleepersHaveReason'
        <3>1. CASE committing \/ Full
            BY <2>2, <3>1 DEF BeginOp, Full, SleepersHaveReason, TypeOK
        <3>2. CASE ~(committing \/ Full)
            <4>1. /\ Sleepers' \subseteq Sleepers /\ phase # "panic"
                  /\ committing' = committing /\ lh' = lh
                  /\ outstanding' = outstanding + 1
                BY <2>2, <3>2 DEF BeginOp, Full, Sleepers, TypeOK, Up
            <4>2. outstanding' >= outstanding /\ Len(lh') >= Len(lh)
                BY <4>1 DEF TypeOK
            <4> QED
                BY <4>1, <4>2, StillFull
        <3> QED
            BY <3>1, <3>2
    <2>3. ASSUME NEW p \in Proc, NEW b \in Block, NEW v \in Data,
                 Modify(p, b, v)
          PROVE  SleepersHaveReason'
        BY <2>3 DEF Modify, SleepersHaveReason, TypeOK, logVars, Up
    <2>4. ASSUME NEW p \in Proc, LogWrite(p) PROVE SleepersHaveReason'
        <3>1. CASE TooBig
            BY <2>4, <3>1 DEF LogWrite, SleepersHaveReason
        <3>2. CASE ~TooBig
            <4>1. /\ Sleepers' \subseteq Sleepers /\ phase # "panic"
                  /\ UNCHANGED <<committing, outstanding>>
                BY <2>4, <3>2 DEF LogWrite, Sleepers, TypeOK, Up
            <4>2. Len(lh') >= Len(lh)
                <5>1. lh \in Seq(Block) /\ buf[p] \in Block
                    BY <2>4 DEF LogWrite, TypeOK, OpsOK
                <5>2. lh' = lh \/ lh' = Append(lh, buf[p])
                    BY <2>4, <3>2 DEF LogWrite
                <5> QED
                    BY <5>1, <5>2
            <4>3. outstanding' >= outstanding
                BY <4>1 DEF TypeOK
            <4> QED
                BY <4>1, <4>2, <4>3, StillFull
        <3> QED
            BY <3>1, <3>2
    <2>5. ASSUME NEW p \in Proc, EndOp(p) PROVE SleepersHaveReason'
        <3>1. CASE outstanding = 1
            BY <2>5, <3>1 DEF EndOp, SleepersHaveReason
        <3>2. CASE outstanding # 1
            <4>1. \A q \in Proc : pc'[q] # "asleep"
                <5>1. \A q \in Proc : Woken[q] # "asleep"
                    BY DEF Woken
                <5>2. pc' = [Woken EXCEPT ![p] = "idle"]
                    BY <2>5, <3>2 DEF EndOp
                <5>3. DOMAIN Woken = Proc
                    BY DEF Woken
                            <5> QED
                    BY <5>1, <5>2, <5>3
            <4> QED
                BY <4>1 DEF SleepersHaveReason
        <3> QED
            BY <3>1, <3>2
    <2>6. CASE ReadHead \/ InstallTrans \/ EraseHead \/ WriteLog \/ WriteHead
        <3>1. UNCHANGED <<pc, committing>>
            BY <2>6 DEF ReadHead, InstallTrans, EraseHead, WriteLog, WriteHead,
                        opVars, logVars
        <3>2. committing \/ \A p \in Proc : pc[p] = "idle"
            BY <2>6 DEF ReadHead, InstallTrans, EraseHead, WriteLog, WriteHead,
                        OpsOK, Sequential
        <3> QED
            BY <3>1, <3>2 DEF SleepersHaveReason
    <2>7. CASE Finish
        BY <2>7 DEF Finish, SleepersHaveReason, Woken, TypeOK
    <2>8. CASE \E b \in Block : Bread(b) \/ Bget(b)
        BY <2>8 DEF Bread, Bget, SleepersHaveReason, logVars, opVars
    <2>9. CASE Crash
        BY <2>9 DEF Crash, SleepersHaveReason
    <2> QED
        BY <2>1, <2>2, <2>3, <2>4, <2>5, <2>6, <2>7, <2>8, <2>9
           DEF Next, OpStep, LogStep
<1> QED
    BY <1>1, <1>2, Invariance, PTL DEF Spec

(***************************************************************************)
(* What begin_op() reserves.                                               *)
(***************************************************************************)

(* A call writes no more than it announced, and logs what it wrote.          *)
WritesOK ==
    \A p \in Proc :
        /\ IsFiniteSet(wrote[p]) /\ Cardinality(wrote[p]) <= MAXOPBLOCKS
        /\ pc[p] = "modified" => buf[p] \in wrote[p]

RoomInv == WritesOK /\ LogHasRoom

(* There is no more to come than begin_op() has counted.                     *)
ToComeFits ==
    /\ IsFiniteSet(ToCome) /\ Cardinality(ToCome) \in Nat
    /\ Cardinality(ToCome) <= Cardinality(Active) * MAXOPBLOCKS

LEMMA ToComeBounded == ToComeFits
<1>1. IsFiniteSet(1..MAXOPBLOCKS) /\ Cardinality(1..MAXOPBLOCKS) = MAXOPBLOCKS
    BY LogAssumption, FS_Interval
<1>2. /\ IsFiniteSet(Active \X (1..MAXOPBLOCKS))
      /\ Cardinality(Active \X (1..MAXOPBLOCKS))
            = Cardinality(Active) * MAXOPBLOCKS
    BY <1>1, ActiveFinite, FS_Product
<1>3. ToCome \in SUBSET (Active \X (1..MAXOPBLOCKS))
    BY DEF ToCome
<1> QED
    BY <1>2, <1>3, FS_Subset, FS_CardinalityType DEF ToComeFits

LEMMA ToComeBoundedNext == ToComeFits'
BY ToComeBounded, PTL

(* With no call active the log is not too long.                              *)
NoneActive == Active = {}

LEMMA NothingToCome == IInv /\ NoneActive => LogHasRoom
<1> SUFFICES ASSUME IInv, NoneActive PROVE LogHasRoom
    OBVIOUS
<1>1. ToCome = {}
    BY DEF ToCome, NoneActive
<1> QED
    BY <1>1, FS_EmptySet, LogAssumption DEF IInv, HeadsOK, LogHasRoom, TypeOK

LEMMA NothingToComeNext == IInv' /\ NoneActive' => LogHasRoom'
BY NothingToCome, PTL

(* With as long a log and no more to come there is room.                     *)
LEMMA LessToCome ==
    ASSUME IInv, LogHasRoom, UNCHANGED lh, ToCome' \subseteq ToCome
    PROVE  LogHasRoom'
<1>1. Cardinality(ToCome') <= Cardinality(ToCome)
    BY ToComeBounded, FS_Subset DEF ToComeFits
<1> QED
    BY <1>1, ToComeBounded, ToComeBoundedNext, LogAssumption
    DEF ToComeFits, LogHasRoom, IInv, TypeOK

LEMMA BeginOpRoom ==
    ASSUME IInv, IInv', RoomInv, NEW p \in Proc, BeginOp(p)
    PROVE  RoomInv'
<1> USE DEF IInv
<1>1. WritesOK'
    BY DEF BeginOp, bioVars, WritesOK, RoomInv, TypeOK
<1>2. CASE pc' = [pc EXCEPT ![p] = "asleep"]
    <2>1. UNCHANGED <<lh, wrote>>
        BY DEF BeginOp
    <2>2. Active' = Active
        BY <1>2 DEF BeginOp, Active, TypeOK
    <2>3. ToCome' = ToCome
        BY <2>1, <2>2 DEF ToCome
    <2> QED
        BY <1>1, <2>1, <2>3, LessToCome DEF RoomInv
<1>3. CASE pc' # [pc EXCEPT ![p] = "asleep"]
    <2>1. /\ outstanding' = outstanding + 1 /\ lh' = lh
          /\ ~(Len(lh) + (outstanding + 1) * MAXOPBLOCKS > LOGSIZE)
        BY <1>3 DEF BeginOp
    <2>2. outstanding' = Cardinality(Active')
        BY DEF OpsOK
    <2>3. Len(lh) + outstanding' * MAXOPBLOCKS <= LOGSIZE
        <3>1. Len(lh) \in Nat /\ outstanding + 1 \in Nat
            BY DEF TypeOK
        <3>2. (outstanding + 1) * MAXOPBLOCKS \in Nat
            BY <3>1, LogAssumption
        <3> QED
            BY <2>1, <3>1, <3>2, LogAssumption
    <2>4. /\ Cardinality(ToCome') <= outstanding' * MAXOPBLOCKS
          /\ Cardinality(ToCome') \in Nat
        BY <2>2, ToComeBoundedNext DEF ToComeFits
    <2>5. LogHasRoom'
        <3> DEFINE m == outstanding' * MAXOPBLOCKS
        <3>1. m \in Nat /\ Len(lh) \in Nat
            BY <2>1, LogAssumption DEF TypeOK
        <3>2. Len(lh) + m <= LOGSIZE /\ Cardinality(ToCome') <= m
            BY <2>3, <2>4
        <3> HIDE DEF m
        <3> QED
            BY <2>1, <2>4, <3>1, <3>2, LogAssumption DEF LogHasRoom
    <2> QED
        BY <1>1, <2>5 DEF RoomInv
<1> QED
    BY <1>2, <1>3

LEMMA ModifyRoom ==
    ASSUME IInv, RoomInv, NEW p \in Proc, NEW b \in Block, NEW v \in Data,
           Modify(p, b, v)
    PROVE  RoomInv'
<1> USE DEF IInv
<1>1. /\ wrote' = [wrote EXCEPT ![p] = wrote[p] \cup {b}]
      /\ Cardinality(wrote[p] \cup {b}) <= MAXOPBLOCKS
      /\ buf' = [buf EXCEPT ![p] = b] /\ pc' = [pc EXCEPT ![p] = "modified"]
      /\ pc[p] = "in" /\ UNCHANGED lh
    BY DEF Modify, logVars
<1>2. IsFiniteSet(wrote[p] \cup {b})
    BY FS_AddElement DEF RoomInv, WritesOK
<1>3. WritesOK'
    BY <1>1, <1>2 DEF WritesOK, RoomInv, TypeOK
<1>4. Active' = Active
    BY <1>1 DEF Active, TypeOK
<1>5. ASSUME NEW q \in Proc
      PROVE  Cardinality(wrote[q] \cap ToSet(lh))
                <= Cardinality(wrote'[q] \cap ToSet(lh))
    <2>1. wrote[q] \subseteq wrote'[q] /\ IsFiniteSet(wrote'[q])
        BY <1>1, <1>2 DEF TypeOK, RoomInv, WritesOK
    <2>2. IsFiniteSet(wrote'[q] \cap ToSet(lh))
        BY <2>1, FS_Subset
    <2>3. wrote[q] \cap ToSet(lh) \in SUBSET (wrote'[q] \cap ToSet(lh))
        BY <2>1
    <2> QED
        BY <2>2, <2>3, FS_Subset
<1>6. ToCome' \subseteq ToCome
    <2> SUFFICES ASSUME NEW r \in ToCome' PROVE r \in ToCome
        OBVIOUS
    <2>1. /\ r \in Active \X (1..MAXOPBLOCKS)
          /\ r[2] > Cardinality(wrote'[r[1]] \cap ToSet(lh))
        BY <1>1, <1>4 DEF ToCome
    <2>2. r[1] \in Proc /\ r[2] \in Nat
        BY <2>1 DEF Active
    <2>3. r[2] > Cardinality(wrote[r[1]] \cap ToSet(lh))
        <3>1. /\ Cardinality(wrote[r[1]] \cap ToSet(lh)) \in Nat
              /\ Cardinality(wrote'[r[1]] \cap ToSet(lh)) \in Nat
            BY <1>3, <2>2, FS_Subset, FS_CardinalityType DEF WritesOK, RoomInv
        <3> QED
            BY <1>5, <2>1, <2>2, <3>1
    <2> QED
        BY <2>1, <2>3 DEF ToCome
<1> QED
    BY <1>1, <1>3, <1>6, LessToCome DEF RoomInv

(* log_write() takes one from what is to come, unless it absorbs.            *)
LEMMA LogWriteRoom ==
    ASSUME IInv, IInv', RoomInv, NEW p \in Proc, LogWrite(p)
    PROVE  RoomInv'
<1> USE DEF IInv
<1>1. /\ pc[p] = "modified" /\ wrote' = wrote
      /\ \/ UNCHANGED <<pc, buf>>
         \/ /\ pc' = [pc EXCEPT ![p] = "in"]
            /\ buf' = [buf EXCEPT ![p] = None]
    BY DEF LogWrite
<1>2. WritesOK'
    BY <1>1 DEF WritesOK, RoomInv, TypeOK
<1>3. Active' = Active /\ p \in Active
    BY <1>1 DEF Active, TypeOK
<1>4. CASE UNCHANGED lh
    <2>1. ToCome' = ToCome
        BY <1>1, <1>3, <1>4 DEF ToCome
    <2> QED
        BY <1>2, <1>4, <2>1, LessToCome DEF RoomInv
<1>5. CASE lh' # lh
    <2> DEFINE b == buf[p]
               n == Cardinality(wrote[p] \cap ToSet(lh)) + 1
               known(q) == wrote[q] \cap ToSet(lh)
    <2>1. lh' = Append(lh, b) /\ b \notin ToSet(lh)
        BY <1>5 DEF LogWrite, Logged
    <2>2. b \in wrote[p] /\ b \in Block /\ lh \in Seq(Block)
        BY <1>1 DEF RoomInv, WritesOK, TypeOK
    <2>3. ToSet(lh') = ToSet(lh) \cup {b} /\ Len(lh') = Len(lh) + 1
        BY <2>1, <2>2, AppendAdds
    <2>4. ASSUME NEW q \in Proc
          PROVE  /\ IsFiniteSet(known(q)) /\ Cardinality(known(q)) \in Nat
                 /\ Cardinality(wrote[q] \cap ToSet(lh')) \in Nat
                 /\ Cardinality(known(q))
                        <= Cardinality(wrote[q] \cap ToSet(lh'))
        <3>1. IsFiniteSet(wrote[q])
            BY DEF RoomInv, WritesOK
        <3>2. IsFiniteSet(known(q)) /\ IsFiniteSet(wrote[q] \cap ToSet(lh'))
            BY <3>1, FS_Subset
        <3>3. known(q) \in SUBSET (wrote[q] \cap ToSet(lh'))
            BY <2>3
        <3> QED
            BY <3>2, <3>3, FS_Subset, FS_CardinalityType
    <2>5. Cardinality(wrote[p] \cap ToSet(lh')) = n
        <3>1. wrote[p] \cap ToSet(lh') = known(p) \cup {b}
            BY <2>2, <2>3
        <3>2. b \notin known(p)
            BY <2>1
        <3> QED
            BY <2>4, <3>1, <3>2, FS_AddElement
    <2>6. n \in 1..MAXOPBLOCKS
        <3>1. Cardinality(wrote[p] \cap ToSet(lh')) <= Cardinality(wrote[p])
            BY FS_Subset DEF RoomInv, WritesOK
        <3>2. Cardinality(wrote[p]) \in Nat
            BY FS_CardinalityType DEF RoomInv, WritesOK
        <3> QED
            BY <2>4, <2>5, <3>1, <3>2, LogAssumption DEF RoomInv, WritesOK
    <2>7. <<p, n>> \in ToCome
        <3>1. n > Cardinality(wrote[p] \cap ToSet(lh)) /\ p \in Active
            <4>1. Cardinality(wrote[p] \cap ToSet(lh)) \in Nat
                BY <2>4
            <4> QED
                BY <1>3, <4>1
        <3> HIDE DEF n
        <3> QED
            BY <2>6, <3>1 DEF ToCome
    <2>8. ToCome' \subseteq ToCome \ {<<p, n>>}
        <3>1. ASSUME NEW q \in Active, NEW k \in 1..MAXOPBLOCKS,
                     k > Cardinality(wrote[q] \cap ToSet(lh'))
              PROVE  k > Cardinality(known(q)) /\ <<q, k>> # <<p, n>>
            <4>1. q \in Proc
                BY DEF Active
            <4>2. k > Cardinality(known(q))
                BY <2>4, <3>1, <4>1
            <4>3. q = p => k # n
                BY <2>4, <2>5, <3>1, <4>1
            <4> QED
                BY <4>2, <4>3
        <3>2. ASSUME NEW r \in ToCome' PROVE r \in ToCome /\ r # <<p, n>>
            <4>1. /\ r[1] \in Active /\ r[2] \in 1..MAXOPBLOCKS
                  /\ r = <<r[1], r[2]>>
                  /\ r[2] > Cardinality(wrote[r[1]] \cap ToSet(lh'))
                BY <1>1, <1>3 DEF ToCome
            <4>2. r[2] > Cardinality(known(r[1])) /\ <<r[1], r[2]>> # <<p, n>>
                BY <3>1, <4>1, Zenon
            <4> HIDE DEF n
            <4> QED
                BY <4>1, <4>2 DEF ToCome
        <3> QED
            BY <3>2
    <2>9. Cardinality(ToCome') + 1 <= Cardinality(ToCome)
        <3>1. /\ IsFiniteSet(ToCome \ {<<p, n>>})
              /\ Cardinality(ToCome \ {<<p, n>>}) = Cardinality(ToCome) - 1
            BY <2>7, ToComeBounded, FS_RemoveElement DEF ToComeFits
        <3>2. Cardinality(ToCome') <= Cardinality(ToCome \ {<<p, n>>})
            BY <2>8, <3>1, FS_Subset
        <3> QED
            BY <3>1, <3>2, ToComeBounded, ToComeBoundedNext DEF ToComeFits
    <2>10. LogHasRoom'
        <3>1. Len(lh) \in Nat
            BY <2>2
        <3> QED
            BY <2>3, <2>9, <3>1, ToComeBounded, ToComeBoundedNext, LogAssumption
            DEF ToComeFits, LogHasRoom, RoomInv
    <2> QED
        BY <1>2, <2>10 DEF RoomInv
<1> QED
    BY <1>4, <1>5

LEMMA EndOpRoom ==
    ASSUME IInv, RoomInv, NEW p \in Proc, EndOp(p)
    PROVE  RoomInv'
<1> USE DEF IInv
<1>1. /\ wrote' = [wrote EXCEPT ![p] = {}] /\ UNCHANGED <<lh, buf>>
      /\ pc[p] = "in"
    BY DEF EndOp, bioVars
<1>2. \A q \in Proc : pc'[q] = "modified" => pc[q] = "modified" /\ q # p
    BY <1>1 DEF EndOp, Woken, TypeOK
<1>3. Active' \subseteq Active \ {p}
    BY <1>1 DEF EndOp, Woken, Active, TypeOK
<1>4. IsFiniteSet({}) /\ Cardinality({}) <= MAXOPBLOCKS
    BY FS_EmptySet, LogAssumption
<1>5. WritesOK'
    BY <1>1, <1>2, <1>4 DEF WritesOK, RoomInv, TypeOK
<1>6. \A q \in Active' : wrote'[q] = wrote[q]
    BY <1>1, <1>3 DEF TypeOK, Active
<1>7. ToCome' \subseteq ToCome
    BY <1>1, <1>3, <1>6 DEF ToCome
<1> QED
    BY <1>1, <1>5, <1>7, LessToCome DEF RoomInv

(* begin_op() lets calls in only while the log has room for all that they    *)
(* and the others may log: log_write() has no need to look.                  *)
THEOREM RoomReserved == Spec => []LogHasRoom
<1>1. IInv /\ Init => RoomInv
    <2> SUFFICES ASSUME IInv, Init PROVE RoomInv
        OBVIOUS
    <2>1. Active = {}
        BY DEF Init, Active
    <2>2. WritesOK
        BY FS_EmptySet, LogAssumption DEF Init, WritesOK
    <2> QED
        BY <2>1, <2>2, NothingToCome DEF RoomInv, NoneActive
<1>2. IInv /\ IInv' /\ RoomInv /\ [Next]_vars => RoomInv'
    <2> SUFFICES ASSUME IInv, IInv', RoomInv, [Next]_vars
                 PROVE  RoomInv'
        OBVIOUS
    <2>1. CASE UNCHANGED <<lh, pc, wrote, buf>>
        BY <2>1 DEF RoomInv, WritesOK, LogHasRoom, ToCome, Active
    <2>2. ASSUME NEW p \in Proc, OpStep(p) PROVE RoomInv'
        BY <2>2, BeginOpRoom, ModifyRoom, LogWriteRoom, EndOpRoom DEF OpStep
    <2>3. CASE LogStep
        <3>1. Active' = {}
            <4>1. \A q \in Proc : pc'[q] \in {"in", "modified"}
                                  => pc[q] \in {"in", "modified"}
                BY <2>3 DEF LogStep, ReadHead, InstallTrans, EraseHead, WriteLog,
                            WriteHead, Finish, opVars, Woken
            <4>2. Active = {}
                BY <2>3 DEF LogStep, ReadHead, InstallTrans, EraseHead, WriteLog,
                            WriteHead, Finish, IInv, OpsOK, CommitAlone,
                            Sequential, Active
            <4> QED
                BY <4>1, <4>2 DEF Active
        <3>2. WritesOK'
            BY <2>3 DEF LogStep, ReadHead, InstallTrans, EraseHead, WriteLog,
                        WriteHead, Finish, opVars, bioVars, Woken, WritesOK,
                        RoomInv
        <3> QED
            BY <3>1, <3>2, NothingToComeNext DEF RoomInv, NoneActive
    <2>4. CASE Crash
        <3>1. Active' = {}
            BY <2>4 DEF Crash, Active
        <3>2. WritesOK'
            BY <2>4, FS_EmptySet, LogAssumption DEF Crash, WritesOK
        <3> QED
            BY <3>1, <3>2, NothingToComeNext DEF RoomInv, NoneActive
    <2> QED
        BY <2>1, <2>2, <2>3, <2>4
        DEF Next, Bread, Bget, vars, bioVars, logVars, opVars
<1>3. RoomInv => LogHasRoom
    BY DEF RoomInv
<1> QED
    BY InitInv, <1>1, <1>2, <1>3, Invariance, PTL DEF Spec

(***************************************************************************)
(* The log implements AtomicStore.                                         *)
(***************************************************************************)

Ending == {p \in Proc : pc[p] = "commit"}

(* The CHOOSE in Recovered finds the one position of a logged block.         *)
LEMMA Position ==
    ASSUME NEW s \in Seq(Block), IsInjective(s), NEW i \in 1..Len(s)
    PROVE  (CHOOSE j \in 1..Len(s) : s[j] = s[i]) = i
BY InList

(* What a restart finds, block by block.                                     *)
RecoveredOK ==
    /\ \A i \in 1..Len(head) : Recovered[head[i]] = logblock[i]
    /\ \A b \in Block : b \notin ToSet(head) => Recovered[b] = home[b]
    /\ head = <<>> => Recovered = home

(* The header's blocks are found in the log, the others at home.             *)
LEMMA RecoveredIs == IInv => RecoveredOK
<1> SUFFICES ASSUME IInv PROVE RecoveredOK
    OBVIOUS
<1>1. /\ head \in Seq(Block) /\ IsInjective(head)
      /\ home = [b \in Block |-> home[b]]
    BY DEF IInv, TypeOK, HeadsOK
<1>2. ASSUME NEW i \in 1..Len(head) PROVE Recovered[head[i]] = logblock[i]
    <2>1. head[i] \in Block /\ head[i] \in ToSet(head)
        BY <1>1, InList
    <2> QED
        BY <1>1, <2>1, Position DEF Recovered
<1>3. \A b \in Block : b \notin ToSet(head) => Recovered[b] = home[b]
    BY DEF Recovered
<1>4. head = <<>> => Recovered = home
    <2> SUFFICES ASSUME head = <<>> PROVE Recovered = home
        OBVIOUS
    <2>1. ToSet(head) = {}
        BY <1>1, InList
    <2>2. Recovered = [b \in Block |-> home[b]]
        BY <2>1 DEF Recovered
    <2> QED
        BY <1>1, <2>2
<1> QED
    BY <1>2, <1>3, <1>4 DEF RecoveredOK

(* The same of the state after a step.                                       *)
LEMMA RecoveredIsNext == IInv' => RecoveredOK'
BY RecoveredIs, PTL

(* What a restart finds is left alone by a step that changes no block that   *)
(* the header names in the log, nor any other at home.                       *)
LEMMA RecoveredKept ==
    ASSUME IInv, head' = head,
           \A i \in 1..Len(head) : logblock'[i] = logblock[i],
           \A b \in Block : b \notin ToSet(head) => home'[b] = home[b]
    PROVE  Recovered' = Recovered
<1> DEFINE pos(b) == CHOOSE i \in 1..Len(head) : head[i] = b
<1>1. ASSUME NEW b \in ToSet(head) PROVE logblock'[pos(b)] = logblock[pos(b)]
    <2>1. PICK i \in 1..Len(head) : head[i] = b
        BY InList DEF IInv, TypeOK
    <2>2. pos(b) = i
        BY <2>1, Position DEF IInv, TypeOK, HeadsOK
    <2> HIDE DEF pos
    <2> QED
        BY <2>2
<1> QED
    BY <1>1 DEF Recovered

(* Outside a transaction the cache agrees with the disk.                     *)
LEMMA CleanContents ==
    ASSUME IInv, phase \in {"read_head", "recover", "committed"}
    PROVE  Contents = Recovered
<1> USE DEF IInv
<1>1. CASE phase \in {"read_head", "recover"}
    BY <1>1 DEF Contents
<1>2. CASE phase = "committed"
    <2>1. head = <<>> /\ lh = <<>> /\ ToSet(<<>>) = {}
        BY <1>2, InList DEF HeadsOK, TypeOK
    <2>2. \A b \in Block : pins[b] = 0 /\ \A p \in Proc : buf[p] # b
        <3>1. \A b \in Block : pins[b] = 0
            BY <1>2, <2>1 DEF PinsOK, TypeOK
        <3>2. \A p \in Proc : buf[p] = None
            BY <1>2 DEF OpsOK, CommitAlone, Active
        <3> QED
            BY <3>1, <3>2, LogAssumption
    <2>3. \A b \in Block :
              (IF cache[b] = None THEN home[b] ELSE cache[b]) = home[b]
        BY <2>2 DEF CacheOK
    <2>4. Contents = [b \in Block |-> home[b]]
        BY <1>2, <2>3 DEF Contents
    <2> QED
        BY <2>1, <2>4, RecoveredIs DEF TypeOK, RecoveredOK
<1> QED
    BY <1>1, <1>2

(* The machine starts in an initial state of AtomicStore.                    *)
LEMMA StoreInit == Init => Store!Init
<1> SUFFICES ASSUME Init PROVE Store!Init
    OBVIOUS
<1>1. IInv
    BY InitInv
<1>2. Recovered = home /\ Contents = Recovered
    BY <1>1, RecoveredIs DEF Init, Contents, RecoveredOK
<1>3. Active = {} /\ Ending = {}
    BY DEF Init, Active, Ending
<1> QED
    BY <1>2, <1>3 DEF Init, Store!Init, Ending

(* begin_op() begins a call, or stutters when it sleeps.                     *)
LEMMA BeginOpStore ==
    ASSUME IInv, NEW p \in Proc, BeginOp(p) PROVE [Store!Next]_Store!vars
<1> USE DEF IInv
<1>1. Recovered' = Recovered /\ Contents' = Contents
    BY DEF BeginOp, Recovered, Contents, diskVars, bioVars
<1>2. Ending' = Ending
    BY DEF BeginOp, Ending, TypeOK
<1>3. CASE pc' = [pc EXCEPT ![p] = "asleep"]
    <2>1. Active' = Active
        BY <1>3 DEF BeginOp, Active, TypeOK
    <2> QED
        BY <1>1, <1>2, <2>1 DEF Store!vars, Ending
<1>4. CASE pc' = [pc EXCEPT ![p] = "in"] /\ ~committing
    <2>1. p \notin Active /\ Active' = Active \cup {p}
        BY <1>4 DEF BeginOp, Active, TypeOK
    <2>2. Ending = {}
        BY <1>4 DEF CommitAlone, Ending
    <2> QED
        BY <1>1, <1>2, <2>1, <2>2 DEF Store!Next, Store!Begin, Ending
<1> QED
    BY <1>3, <1>4 DEF BeginOp

(* A call that changes a buffer writes the block.                            *)
LEMMA ModifyStore ==
    ASSUME IInv, NEW p \in Proc, NEW b \in Block, NEW v \in Data, Modify(p, b, v)
    PROVE  [Store!Next]_Store!vars
<1> USE LogAssumption DEF IInv
<1>1. Recovered' = Recovered
    BY DEF Modify, Recovered, diskVars
<1>2. p \in Active /\ Active' = Active /\ Ending' = Ending
    BY DEF Modify, Active, Ending, TypeOK
<1>3. Contents' = [Contents EXCEPT ![b] = v]
    <2>1. /\ cache' = [cache EXCEPT ![b] = v] /\ home' = home /\ phase' = phase
          /\ phase \notin {"read_head", "recover"}
        BY DEF Modify, Up, diskVars
    <2>2. \A x \in Block : cache'[x] = IF x = b THEN v ELSE cache[x]
        BY <2>1 DEF TypeOK
    <2>3. v # None
        OBVIOUS
    <2> QED
        BY <2>1, <2>2, <2>3 DEF Contents
<1> QED
    BY <1>1, <1>2, <1>3 DEF Store!Next, Store!Write, Ending

(* log_write() only takes note of what was written.                          *)
LEMMA LogWriteStore ==
    ASSUME IInv, NEW p \in Proc, LogWrite(p) PROVE UNCHANGED Store!vars
<1> USE DEF IInv
<1>1. Recovered' = Recovered /\ Contents' = Contents
    BY DEF LogWrite, Up, Recovered, Contents, diskVars
<1>2. Active' = Active /\ Ending' = Ending
    BY DEF LogWrite, Active, Ending, TypeOK
<1> QED
    BY <1>1, <1>2 DEF Store!vars, Ending

(* end_op() ends the call.                                                   *)
LEMMA EndOpStore ==
    ASSUME IInv, NEW p \in Proc, EndOp(p) PROVE [Store!Next]_Store!vars
<1> USE DEF IInv
<1>1. Recovered' = Recovered
    BY DEF EndOp, Recovered, diskVars
<1>2. Contents' = Contents
    <2>1. /\ phase' \notin {"read_head", "recover"}
          /\ phase \notin {"read_head", "recover"}
        BY DEF EndOp, Up
    <2> QED
        BY <2>1 DEF EndOp, Contents, diskVars, bioVars
<1>3. p \in Active /\ ~committing /\ Ending = {}
    BY DEF EndOp, Active, CommitAlone, Ending
<1>4. Active' = Active \ {p}
    BY DEF EndOp, Active, Woken, TypeOK
<1>5. outstanding = 1 <=> Active' = {}
    BY <1>3, <1>4, ActiveRemoved DEF OpsOK
<1>6. Ending' = IF outstanding = 1 THEN {p} ELSE {}
    <2>1. CASE outstanding = 1
        BY <2>1, <1>3 DEF EndOp, Ending, TypeOK
    <2>2. CASE outstanding # 1
        <3>1. \A q \in Proc : Woken[q] # "commit"
            BY <1>3 DEF Woken, Ending
        <3>2. DOMAIN Woken = Proc /\ pc' = [Woken EXCEPT ![p] = "idle"]
            BY <2>2 DEF EndOp, Woken
        <3>3. \A q \in Proc : pc'[q] # "commit"
            BY <3>1, <3>2
        <3> QED
            BY <2>2, <3>3 DEF Ending
    <2> QED
        BY <2>1, <2>2
<1> QED
    BY <1>1, <1>2, <1>3, <1>4, <1>5, <1>6
       DEF Store!Next, Store!End, Ending

(* Reading the header, and the copying of blocks to and from the log, leave  *)
(* alone what a restart finds and what the running system reads.             *)
LEMMA CopyStore ==
    ASSUME IInv, IInv',
           ReadHead \/ InstallTrans \/ EraseHead \/ WriteLog
    PROVE  UNCHANGED Store!vars
<1> USE DEF IInv
<1>1. Active' = Active /\ Ending' = Ending
    BY DEF ReadHead, InstallTrans, EraseHead, WriteLog, Active, Ending, opVars
<1>2. Recovered' = Recovered /\ Contents' = Contents
    <2>1. CASE ReadHead
        BY <2>1 DEF ReadHead, Recovered, Contents, diskVars
    <2>2. CASE InstallTrans
        <3>1. /\ tail \in 1..Len(lh) /\ head = lh
              /\ lh[tail] \in ToSet(head) /\ lh[tail] \in Block
            BY <2>2, InList DEF InstallTrans, TypeOK, HeadsOK, Installing
        <3>2. Recovered' = Recovered
            BY <2>2, <3>1, RecoveredKept DEF InstallTrans, TypeOK, logVars
        <3>3. CASE phase = "recover"
            BY <2>2, <3>2, <3>3 DEF InstallTrans, Contents
        <3>4. CASE phase = "install"
            <4>1. cache' = cache
                <5>1. cache[lh[tail]] = logblock[tail]
                    BY <3>1, <3>4 DEF LoopsOK
                <5> QED
                    BY <2>2, <5>1 DEF InstallTrans, TypeOK
            <4>2. cache[lh[tail]] # None
                <5>1. pins[lh[tail]] = 1
                    BY <3>1, <3>4 DEF PinsOK
                <5> QED
                    BY <3>1, <5>1 DEF CacheOK
            <4>3. \A b \in Block : cache[b] = None => home'[b] = home[b]
                BY <2>2, <4>2 DEF InstallTrans, TypeOK
            <4> QED
                BY <2>2, <3>2, <3>4, <4>1, <4>3 DEF InstallTrans, Contents
        <3> QED
            BY <2>2, <3>3, <3>4, <3>2 DEF InstallTrans
    <2>3. CASE EraseHead
        <3>1. Recovered' = home'
            BY <2>3, RecoveredIsNext DEF EraseHead, RecoveredOK
        <3>2. Recovered = home
            <4>1. ASSUME NEW b \in Block PROVE Recovered[b] = home[b]
                <5>1. CASE b \in ToSet(head)
                    <6>1. PICK i \in 1..Len(head) : head[i] = b
                        BY <5>1, InList DEF TypeOK
                    <6>2. head = lh /\ i \in 1..Len(lh) /\ i < tail
                        BY <2>3, <6>1 DEF EraseHead, HeadsOK, Installing, TypeOK
                    <6>3. home[b] = logblock[i]
                        BY <2>3, <6>1, <6>2 DEF EraseHead, LoopsOK, Installing
                    <6> QED
                        BY <6>1, <6>3, RecoveredIs DEF RecoveredOK
                <5>2. CASE b \notin ToSet(head)
                    BY <5>2, RecoveredIs DEF RecoveredOK
                <5> QED
                    BY <5>1, <5>2
            <4>2. Recovered = [b \in Block |-> Recovered[b]]
                BY DEF Recovered
            <4> QED
                BY <4>1, <4>2 DEF TypeOK
        <3>3. home' = home /\ cache' = cache
            BY <2>3 DEF EraseHead, bioVars
        <3>4. CASE phase = "install"
            BY <2>3, <3>1, <3>2, <3>3, <3>4 DEF EraseHead, Contents
        <3>5. CASE phase = "recover"
            <4>1. \A b \in Block : cache[b] \in {None, home[b]}
                <5>1. \A b \in Block : pins[b] = 0
                    BY <3>5 DEF PinsOK, TypeOK
                <5>2. \A p \in Proc : buf[p] = None
                    BY <3>5 DEF OpsOK, Sequential
                <5> QED
                    BY <5>1, <5>2, LogAssumption DEF CacheOK
            <4>2. phase' = "up"
                BY <2>3, <3>5 DEF EraseHead
            <4>3. Contents' = [b \in Block |-> home[b]]
                BY <3>3, <4>1, <4>2 DEF Contents
            <4>4. Contents = home
                BY <3>2, <3>5 DEF Contents
            <4> QED
                BY <3>1, <3>2, <3>3, <4>3, <4>4 DEF TypeOK
        <3> QED
            BY <2>3, <3>4, <3>5, <3>1, <3>2, <3>3 DEF EraseHead
    <2>4. CASE WriteLog
        <3>1. head = <<>>
            BY <2>4 DEF WriteLog, HeadsOK
        <3>2. Recovered' = Recovered
            BY <2>4, <3>1, RecoveredKept DEF WriteLog
        <3> QED
            BY <2>4, <3>2 DEF WriteLog, Contents, bioVars
    <2> QED
        BY <2>1, <2>2, <2>3, <2>4
<1> QED
    BY <1>1, <1>2 DEF Store!vars, Ending

(* Writing the header commits: a restart then finds what the system reads.   *)
LEMMA WriteHeadStore ==
    ASSUME IInv, IInv', WriteHead PROVE [Store!Next]_Store!vars
<1> USE DEF IInv
<1>1. Active' = Active /\ Ending' = Ending
    BY DEF WriteHead, Active, Ending, opVars
<1>2. Contents' = Contents
    BY DEF WriteHead, Contents, bioVars
<1>3. Ending # {}
    BY DEF WriteHead, OpsOK, CommitAlone, Ending
<1>4. Recovered' = Contents
    <2>1. ASSUME NEW b \in Block PROVE Recovered'[b] = Contents[b]
        <3>1. Contents[b] = IF cache[b] = None THEN home[b] ELSE cache[b]
            BY DEF WriteHead, Contents
        <3>2. CASE b \in ToSet(lh)
            <4>1. PICK i \in 1..Len(lh) : lh[i] = b
                BY <3>2, InList DEF TypeOK
            <4>2. logblock[i] = cache[b]
                BY <4>1 DEF WriteHead, LoopsOK, TypeOK
            <4>3. cache[b] # None
                BY <3>2 DEF WriteHead, PinsOK, CacheOK
            <4>4. Recovered'[b] = logblock[i]
                BY <4>1, RecoveredIsNext DEF WriteHead, RecoveredOK
            <4> QED
                BY <3>1, <4>2, <4>3, <4>4
        <3>3. CASE b \notin ToSet(lh)
            <4>1. Recovered'[b] = home[b]
                BY <3>3, RecoveredIsNext DEF WriteHead, RecoveredOK
            <4>2. pins[b] = 0
                BY <3>3 DEF WriteHead, PinsOK, TypeOK
            <4>3. \A p \in Proc : buf[p] = None
                BY DEF WriteHead, OpsOK, CommitAlone, Active
            <4> QED
                BY <3>1, <4>1, <4>2, <4>3, LogAssumption DEF CacheOK
        <3> QED
            BY <3>2, <3>3
    <2>2. Recovered' = [b \in Block |-> Recovered'[b]]
        BY DEF Recovered
    <2>3. Contents = [b \in Block |-> Contents[b]]
        BY DEF WriteHead, Contents
    <2> QED
        BY <2>1, <2>2, <2>3
<1> QED
    BY <1>1, <1>2, <1>3, <1>4 DEF Store!Next, Store!Commit, Ending

(* end_op() returns when the store has what the system reads.                *)
LEMMA FinishStore == ASSUME IInv, Finish PROVE [Store!Next]_Store!vars
<1> USE DEF IInv
<1>1. Recovered' = Recovered
    BY DEF Finish, Recovered, diskVars
<1>2. Contents' = Contents
    BY DEF Finish, Contents, diskVars, bioVars
<1>3. Active' = Active
    BY DEF Finish, Active, Woken, TypeOK
<1>4. Ending # {}
    BY DEF Finish, OpsOK, CommitAlone, Ending
<1>5. Ending' = {}
    BY DEF Finish, Ending, Woken
<1>6. Contents = Recovered
    BY CleanContents DEF Finish
<1> QED
    BY <1>1, <1>2, <1>3, <1>4, <1>5, <1>6 DEF Store!Next, Store!Return, Ending

(* Only clean buffers come and go.                                           *)
LEMMA BufferStore ==
    ASSUME IInv, NEW b \in Block, Bread(b) \/ Bget(b)
    PROVE  UNCHANGED Store!vars
<1> USE DEF IInv
<1>1. UNCHANGED <<diskVars, phase, pc>> /\ phase \notin {"read_head", "recover"}
    BY DEF Bread, Bget, Up, opVars
<1>2. Active' = Active /\ Ending' = Ending /\ Recovered' = Recovered
    BY <1>1 DEF Active, Ending, Recovered, diskVars
<1>3. \A x \in Block : (IF cache'[x] = None THEN home[x] ELSE cache'[x])
                           = IF cache[x] = None THEN home[x] ELSE cache[x]
    <2>1. CASE Bread(b)
        BY <2>1 DEF Bread, TypeOK
    <2>2. CASE Bget(b)
        BY <2>2 DEF Bget, TypeOK, CacheOK
    <2> QED
        BY <2>1, <2>2
<1>4. Contents' = Contents
    BY <1>1, <1>3 DEF Contents, diskVars
<1> QED
    BY <1>2, <1>4 DEF Store!vars, Ending

(* A crash leaves the store as it is, the torn block included, and what is   *)
(* read from then on is the store.                                           *)
LEMMA CrashStore == ASSUME IInv, IInv', Crash PROVE [Store!Next]_Store!vars
<1> USE DEF IInv
<1>1. Recovered' = Recovered
    <2>1. CASE UNCHANGED <<home, logblock>>
        BY <2>1 DEF Crash, Recovered
    <2>2. CASE /\ phase \in {"recover", "install"}
               /\ tail <= Len(lh)
               /\ home' = [home EXCEPT ![lh[tail]] = Torn]
               /\ UNCHANGED logblock
        <3>1. lh[tail] \in ToSet(head)
            BY <2>2, InList DEF HeadsOK, Installing, TypeOK
        <3> QED
            BY <2>2, <3>1, RecoveredKept DEF Crash, TypeOK
    <2>3. CASE /\ phase = "write_log"
               /\ tail <= Len(lh)
               /\ logblock' = [logblock EXCEPT ![tail] = Torn]
               /\ UNCHANGED home
        <3>1. head = <<>>
            BY <2>3 DEF HeadsOK
        <3> QED
            BY <2>3, <3>1, RecoveredKept DEF Crash
    <2> QED
        BY <2>1, <2>2, <2>3 DEF Crash
<1>2. Contents' = Recovered'
    BY DEF Crash, Contents
<1>3. Active' = {} /\ Ending' = {}
    BY DEF Crash, Active, Ending
<1> QED
    BY <1>1, <1>2, <1>3 DEF Store!Next, Store!Crash, Ending

(* Transactions are atomic and durable wherever the machine crashes: FsLog   *)
(* implements AtomicStore.                                                   *)
THEOREM TransactionsAtomic == Spec => StoreSpec
<1>1. IInv /\ IInv' /\ [Next]_vars => [Store!Next]_Store!vars
    <2> SUFFICES ASSUME IInv, IInv', [Next]_vars PROVE [Store!Next]_Store!vars
        OBVIOUS
    <2>1. CASE UNCHANGED vars
        BY <2>1 DEF Store!vars, Recovered, Contents, Active, vars, diskVars,
                    bioVars, opVars
    <2>2. ASSUME NEW p \in Proc, OpStep(p) PROVE [Store!Next]_Store!vars
        BY <2>2, BeginOpStore, ModifyStore, LogWriteStore, EndOpStore
           DEF OpStep
    <2>3. CASE LogStep
        BY <2>3, CopyStore, WriteHeadStore, FinishStore DEF LogStep
    <2>4. CASE \E b \in Block : Bread(b) \/ Bget(b)
        BY <2>4, BufferStore
    <2>5. CASE Crash
        BY <2>5, CrashStore
    <2> QED
        BY <2>1, <2>2, <2>3, <2>4, <2>5 DEF Next
<1> QED
    BY StoreInit, <1>1, Invariance, PTL DEF Spec, StoreSpec, Store!Spec
=============================================================================
