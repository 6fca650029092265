----------------------------- MODULE CowProofs ------------------------------
(* The counts and pages of CowMem, for any number of processes and any size  *)
(* of memory.                                                                *)
EXTENDS CowMem, FiniteSetTheorems, TLAPS

-----------------------------------------------------------------------------
(* The invariant.                                                            *)

(* p gave up its reference to the page at v, and has not yet left it.        *)
GivesUp(p, v) == at[p] \in {"store", "copyout"} /\ va[p] = v

(* The mappings that a page's count stands for.                              *)
Keeps(p, v, pg) == pt[p][v] = pg /\ ~GivesUp(p, v)
Keepers(pg) == {m \in Proc \X VPage : Keeps(m[1], m[2], pg)}
InUse(pg) == \E p \in Proc, v \in VPage : pt[p][v] = pg

(* What the memory of a process looks like in each of its states.            *)
SpaceOf(p) ==
    /\ at[p] = "unused" => \A i \in Slot : kpage[p][i] = None
    /\ at[p] \in {"unused", "used"} => sz[p] = 0 /\ writable[p] = {}
    /\ at[p] \notin {"unused", "used"} => sz[p] > 0
    /\ \A v \in VPage :
          /\ at[p] # "used" /\ v >= sz[p] => pt[p][v] = None
          /\ 0 < v /\ v < sz[p] => pt[p][v] # None
          /\ GivesUp(p, v) => pt[p][v] # None
SpaceFits == \A p \in Proc : SpaceOf(p)

(* A process that forks has a child of its own, with the pages it was given  *)
(* so far.                                                                   *)
ChildFits ==
    \A p \in Proc : at[p] = "fork" =>
        /\ child[p] \in Proc /\ at[child[p]] = "used"
        /\ va[p] < sz[p]
        /\ \A v \in VPage : pt[child[p]][v] # None <=> v < va[p]
        /\ va[p] = 0 =>
              \A i \in Slot : i # 0 => kpage[child[p]][i] = None
        /\ \A q \in Proc :
              at[q] = "fork" /\ q # p => child[q] # child[p]

(* OneUse, page by page.                                                     *)
UsedOnce ==
    /\ \A p \in Proc, v \in VPage : pt[p][v] \notin free
    /\ \A p \in Proc, i \in Slot : kpage[p][i] # None =>
          /\ kpage[p][i] \notin free
          /\ \A q \in Proc, v \in VPage : pt[q][v] # kpage[p][i]
          /\ \A q \in Proc, j \in Slot :
                kpage[q][j] = kpage[p][i] => q = p /\ j = i

Shape == TypeOK /\ (status = "ok" => SpaceFits /\ ChildFits /\ UsedOnce)

(* The count of a page is not too high, and who is about to copy it leaves   *)
(* it to someone that keeps it, or to one that will take it in place.        *)
Successor(pg) ==
    \A p \in Leaving(pg) : refCount[p] > 0 =>
        \/ Keepers(pg) # {}
        \/ \E q \in Leaving(pg) : refCount[q] <= 0
PageKept(pg) ==
    /\ InUse(pg) => count[pg] <= Cardinality(Keepers(pg))
    /\ Successor(pg)

Kernel(pg) == \E p \in Proc, i \in Slot : kpage[p][i] = pg
HasUse(pg) == pg \in free \/ InUse(pg) \/ Kernel(pg)
Accounted == \A pg \in Page : HasUse(pg)

KeptInv == status = "ok" => Accounted /\ \A pg \in Page : PageKept(pg)

-----------------------------------------------------------------------------
(* Constants.                                                                *)

LEMMA Ranges ==
    ASSUME CowAssumption
    PROVE  /\ NV \in Nat /\ NV > 0 /\ None \notin Page /\ None \notin Data
           /\ VPage = 0..(NV - 1) /\ Slot = 0..NV /\ 0 \in VPage /\ 0 \in Slot
BY DEF CowAssumption, VPage, Slot

LEMMA Quotient ==
    ASSUME NEW n \in Nat, NEW a \in Nat, n > 0
    PROVE  a \div n \in Nat /\ a \div n <= a
<1> DEFINE q == a \div n  r == a % n
<1>1. a = n * q + r /\ q \in Int /\ r \in Int /\ 0 <= r /\ r < n
    OBVIOUS
<1> HIDE DEF q, r
<1>2. q >= 0
    <2> SUFFICES ASSUME q <= 0 - 1 PROVE FALSE
        BY <1>1
    <2>1. n * q <= 0 - n
        BY <1>1
    <2> QED BY <1>1, <2>1
<1>3. n * q >= q
    BY <1>1, <1>2
<1> QED BY <1>1, <1>2, <1>3 DEF q

LEMMA TableSlot ==
    ASSUME CowAssumption, NEW v \in VPage
    PROVE  TableOf(v) \in Slot /\ TableOf(v) # 0
<1>1. v \in Nat /\ v <= NV - 1 /\ SPAN \in Nat /\ SPAN > 0 /\ NV \in Nat
    BY DEF CowAssumption, VPage
<1>2. v \div SPAN \in Nat /\ v \div SPAN <= v
    BY <1>1, Quotient
<1> QED BY <1>1, <1>2 DEF TableOf, Slot

LEMMA GivenFresh ==
    ASSUME CowAssumption, TypeOK, Kalloc({Fresh})
    PROVE  Fresh \in free /\ Fresh \in Page /\ Fresh # None
           /\ free' = free \ {Fresh}
BY Ranges DEF Kalloc, TypeOK

LEMMA GivenTwo ==
    ASSUME CowAssumption, TypeOK, Kalloc({Fresh, Fresh2})
    PROVE  /\ Fresh \in free /\ Fresh \in Page /\ Fresh # None
           /\ Fresh2 \in free /\ Fresh2 \in Page /\ Fresh2 # None
           /\ Fresh # Fresh2 /\ free' = free \ {Fresh, Fresh2}
<1>1. /\ Fresh \in free /\ Fresh2 \in free /\ free \subseteq Page
      /\ free' = free \ {Fresh, Fresh2} /\ None \notin Page
    BY Ranges DEF Kalloc, TypeOK
<1>2. free \ {Fresh} # {} => Fresh2 \in free \ {Fresh}
    BY DEF Fresh2, AnyOf
<1>3. free \ {Fresh} = {} => Fresh2 = None
    BY DEF Fresh2, AnyOf
<1> QED BY <1>1, <1>2, <1>3

-----------------------------------------------------------------------------
(* Every action keeps the shape.                                             *)

(* A process other than p.                                                   *)
Elsewhere(p) ==
    \A x \in Proc : x # p =>
        /\ at'[x] = at[x] /\ va'[x] = va[x] /\ child'[x] = child[x]
        /\ sz'[x] = sz[x] /\ writable'[x] = writable[x]
        /\ \A v \in VPage : pt'[x][v] = pt[x][v]
        /\ \A i \in Slot : kpage'[x][i] = kpage[x][i]

LEMMA OthersFit ==
    ASSUME SpaceFits, ChildFits, NEW p \in Proc, Elsewhere(p), SpaceOf(p)',
           at[p] \notin {"fork", "used"}, at'[p] # "fork"
    PROVE  SpaceFits' /\ ChildFits'
<1>1. SpaceFits'
    <2> SUFFICES ASSUME NEW x \in Proc PROVE SpaceOf(x)'
        BY DEF SpaceFits
    <2>1. CASE x = p
        BY <2>1
    <2>2. CASE x # p
        BY <2>2 DEF SpaceFits, SpaceOf, GivesUp, Elsewhere
    <2> QED BY <2>1, <2>2
<1>2. ChildFits'
    BY DEF ChildFits, Elsewhere
<1> QED BY <1>1, <1>2

LEMMA ForkShape ==
    ASSUME CowAssumption, Shape, NEW p \in Proc, NEW q \in Proc, Fork(p, q)
    PROVE  Shape'
<1>1. /\ status = "ok" /\ TypeOK /\ SpaceFits /\ ChildFits /\ UsedOnce
      /\ at[p] = "user" /\ at[q] = "unused" /\ p # q
    BY DEF Shape, Fork, Calls, Running
<1> PICK f \in free : f \in Page /\ f # None /\ free' = free \ {f}
                      /\ count' = [count EXCEPT ![f] = 1]
                      /\ kpage' = [kpage EXCEPT ![q][0] = f]
    BY <1>1, GivenFresh DEF Fork
<1>2. /\ at' = [at EXCEPT ![p] = "fork", ![q] = "used"]
      /\ va' = [va EXCEPT ![p] = 0]
      /\ child' = [child EXCEPT ![p] = q]
      /\ UNCHANGED <<mem, status, pt, writable, sz, refCount, expected>>
    BY DEF Fork
<1>3. /\ kpage' \in [Proc -> [Slot -> Page \cup {None}]]
      /\ \A x \in Proc, i \in Slot :
            kpage'[x][i] = IF x = q /\ i = 0 THEN f ELSE kpage[x][i]
    <2>1. kpage \in [Proc -> [Slot -> Page \cup {None}]] /\ f \in Page \cup {None}
        BY <1>1 DEF TypeOK
    <2>2. 0 \in Slot
        BY Ranges
    <2> QED BY <2>1, <2>2
<1>4. /\ at' \in [Proc -> {"unused", "used", "user", "killed", "fork", "store",
                            "copyout", "counting"}]
      /\ va' \in [Proc -> VPage]
      /\ child' \in [Proc -> Proc \cup {None}]
      /\ \A x \in Proc :
            /\ at'[x] = IF x = p THEN "fork" ELSE IF x = q THEN "used" ELSE at[x]
            /\ va'[x] = IF x = p THEN 0 ELSE va[x]
            /\ child'[x] = IF x = p THEN q ELSE child[x]
    BY <1>1, <1>2, Ranges DEF TypeOK
<1>5. free' \subseteq Page /\ count' \in [Page -> Int]
    BY <1>1 DEF TypeOK
<1>6. TypeOK'
    BY <1>1, <1>2, <1>3, <1>4, <1>5 DEF TypeOK
<1>7. SpaceFits'
    BY <1>1, <1>2, <1>3, <1>4, Ranges DEF SpaceFits, SpaceOf, GivesUp
<1>8. ChildFits'
    <2> SUFFICES ASSUME NEW x \in Proc, at'[x] = "fork"
                 PROVE  /\ child'[x] \in Proc /\ at'[child'[x]] = "used"
                        /\ va'[x] < sz'[x]
                        /\ \A v \in VPage : pt'[child'[x]][v] # None <=> v < va'[x]
                        /\ va'[x] = 0 => \A i \in Slot : i # 0 => kpage'[child'[x]][i] = None
                        /\ \A y \in Proc : at'[y] = "fork" /\ y # x => child'[y] # child'[x]
        BY DEF ChildFits
    <2> QED BY <1>1, <1>2, <1>3, <1>4, Ranges DEF ChildFits, SpaceFits, SpaceOf
<1>9. UsedOnce'
    BY <1>1, <1>2, <1>3, Ranges DEF UsedOnce, SpaceFits, SpaceOf
<1> QED BY <1>2, <1>6, <1>7, <1>8, <1>9 DEF Shape

(* What a turn of uvmcopy() for the page pg at v of p does.                  *)
Copies(p, q, v, pg) ==
    /\ status = "ok" /\ SpaceFits /\ ChildFits /\ UsedOnce /\ TypeOK
    /\ at[p] = "fork" /\ child[p] = q /\ va[p] = v /\ pt[p][v] = pg
    /\ at[q] = "used" /\ p # q /\ v < sz[p]
    /\ pt' \in [Proc -> [VPage -> Page \cup {None}]]
    /\ \A x \in Proc, w \in VPage :
          pt'[x][w] = IF x = q /\ w = v THEN pg ELSE pt[x][w]
    /\ writable' \in [Proc -> SUBSET VPage]
    /\ \A x \in Proc :
          writable'[x] = IF x = p THEN writable[x] \ {v} ELSE writable[x]
    /\ \/ /\ UNCHANGED <<free, kpage>>
          /\ count' = [count EXCEPT ![pg] = @ + 1]
       \/ \E f \in free :
             /\ f \in Page /\ free' = free \ {f}
             /\ count' = [count EXCEPT ![pg] = @ + 1, ![f] = 1]
             /\ kpage[q][TableOf(v)] = None
             /\ kpage' = [kpage EXCEPT ![q][TableOf(v)] = f]
    /\ \/ /\ va' = [va EXCEPT ![p] = v + 1] /\ v + 1 < sz[p]
          /\ UNCHANGED <<at, sz, child>>
       \/ /\ ~(v + 1 < sz[p]) /\ sz' = [sz EXCEPT ![q] = sz[p]]
          /\ at' = [at EXCEPT ![p] = "user", ![q] = "user"]
          /\ va' = [va EXCEPT ![p] = 0]
          /\ child' = [child EXCEPT ![p] = None]
    /\ expected' = [expected EXCEPT ![q][v] = expected[p][v]]
    /\ UNCHANGED <<mem, status, refCount>>

LEMMA ForkPageDoes ==
    ASSUME CowAssumption, Shape, NEW p \in Proc, ForkPage(p)
    PROVE  \E q \in Proc, v \in VPage, pg \in Page : Copies(p, q, v, pg)
<1> DEFINE q == child[p]  v == va[p]  pg == pt[p][v]
<1>1. /\ status = "ok" /\ TypeOK /\ SpaceFits /\ ChildFits /\ UsedOnce
      /\ at[p] = "fork" /\ pg # None
    BY DEF Shape, ForkPage, Running
<1>2. /\ q \in Proc /\ at[q] = "used" /\ p # q /\ v \in VPage /\ v < sz[p]
      /\ pg \in Page
    BY <1>1 DEF ChildFits, TypeOK
<1>3. /\ pt' = [pt EXCEPT ![q][v] = pg]
      /\ writable' = [writable EXCEPT ![p] = @ \ {v}]
    BY DEF ForkPage, Uvmcopy
<1>4. \/ UNCHANGED <<free, kpage>> /\ count' = [count EXCEPT ![pg] = @ + 1]
      \/ \E f \in free : /\ f \in Page /\ free' = free \ {f}
            /\ count' = [count EXCEPT ![pg] = @ + 1, ![f] = 1]
            /\ kpage[q][TableOf(v)] = None
            /\ kpage' = [kpage EXCEPT ![q][TableOf(v)] = f]
    BY <1>1, GivenFresh DEF ForkPage, Uvmcopy
<1>5. \/ /\ va' = [va EXCEPT ![p] = v + 1] /\ v + 1 < sz[p]
         /\ UNCHANGED <<at, sz, child>>
      \/ /\ ~(v + 1 < sz[p]) /\ sz' = [sz EXCEPT ![q] = sz[p]]
         /\ at' = [at EXCEPT ![p] = "user", ![q] = "user"]
         /\ va' = [va EXCEPT ![p] = 0]
         /\ child' = [child EXCEPT ![p] = None]
    BY DEF ForkPage, ForkEnds
<1>6. /\ expected' = [expected EXCEPT ![q][v] = expected[p][v]]
      /\ UNCHANGED <<mem, status, refCount>>
    BY DEF ForkPage
<1>7. /\ pt' \in [Proc -> [VPage -> Page \cup {None}]]
      /\ \A x \in Proc, w \in VPage :
            pt'[x][w] = IF x = q /\ w = v THEN pg ELSE pt[x][w]
    <2>1. pt \in [Proc -> [VPage -> Page \cup {None}]]
        BY <1>1 DEF TypeOK
    <2> QED BY <2>1, <1>2, <1>3
<1>8. /\ writable' \in [Proc -> SUBSET VPage]
      /\ \A x \in Proc :
            writable'[x] = IF x = p THEN writable[x] \ {v} ELSE writable[x]
    <2>1. writable \in [Proc -> SUBSET VPage]
        BY <1>1 DEF TypeOK
    <2> QED BY <2>1, <1>2, <1>3
<1> HIDE DEF q, v, pg
<1>9. Copies(p, q, v, pg)
    BY <1>1, <1>2, <1>4, <1>5, <1>6, <1>7, <1>8, Zenon DEF Copies, q, v, pg
<1> QED BY <1>2, <1>9

LEMMA ForkPageShape ==
    ASSUME CowAssumption, Shape, NEW p \in Proc, ForkPage(p)
    PROVE  Shape'
<1> PICK q \in Proc, v \in VPage, pg \in Page : Copies(p, q, v, pg)
    BY ForkPageDoes
<1>1. /\ status = "ok" /\ TypeOK /\ SpaceFits /\ ChildFits /\ UsedOnce
      /\ at[p] = "fork" /\ child[p] = q /\ va[p] = v /\ pt[p][v] = pg
      /\ at[q] = "used" /\ p # q /\ v < sz[p]
      /\ UNCHANGED <<mem, status, refCount>>
    BY DEF Copies
<1>2. /\ pt' \in [Proc -> [VPage -> Page \cup {None}]]
      /\ \A x \in Proc, w \in VPage :
            pt'[x][w] = IF x = q /\ w = v THEN pg ELSE pt[x][w]
      /\ writable' \in [Proc -> SUBSET VPage]
      /\ \A x \in Proc :
            writable'[x] = IF x = p THEN writable[x] \ {v} ELSE writable[x]
    BY DEF Copies
<1>3. /\ kpage' \in [Proc -> [Slot -> Page \cup {None}]]
      /\ free' \subseteq Page /\ count' \in [Page -> Int]
      /\ \A x \in Proc, i \in Slot : kpage'[x][i] # kpage[x][i] =>
            /\ x = q /\ i = TableOf(v)
            /\ kpage'[x][i] \in free /\ kpage'[x][i] \notin free'
      /\ free' \subseteq free
    <2>1. TableOf(v) \in Slot
        BY TableSlot
    <2>2. /\ kpage \in [Proc -> [Slot -> Page \cup {None}]]
          /\ free \subseteq Page /\ count \in [Page -> Int]
        BY <1>1 DEF TypeOK
    <2>3. CASE UNCHANGED <<free, kpage>> /\ count' = [count EXCEPT ![pg] = @ + 1]
        BY <2>2, <2>3
    <2>4. CASE \E f \in free :
                  /\ f \in Page /\ free' = free \ {f}
                  /\ count' = [count EXCEPT ![pg] = @ + 1, ![f] = 1]
                  /\ kpage[q][TableOf(v)] = None
                  /\ kpage' = [kpage EXCEPT ![q][TableOf(v)] = f]
        BY <2>1, <2>2, <2>4
    <2> QED BY <2>3, <2>4 DEF Copies
<1>4. /\ at' \in [Proc -> {"unused", "used", "user", "killed", "fork", "store",
                            "copyout", "counting"}]
      /\ va' \in [Proc -> VPage] /\ child' \in [Proc -> Proc \cup {None}]
      /\ sz' \in [Proc -> 0..NV]
      /\ \/ /\ va'[p] = v + 1 /\ v + 1 < sz[p] /\ UNCHANGED <<at, sz, child>>
         \/ /\ ~(v + 1 < sz[p]) /\ at'[p] = "user" /\ at'[q] = "user"
            /\ sz'[q] = sz[p] /\ sz'[p] = sz[p]
            /\ \A x \in Proc : x # q => sz'[x] = sz[x]
            /\ \A x \in Proc : x # q /\ x # p => at'[x] = at[x]
            /\ \A x \in Proc : x # p => child'[x] = child[x]
      /\ \A x \in Proc : x # p => va'[x] = va[x]
    <2>1. /\ at \in [Proc -> {"unused", "used", "user", "killed", "fork", "store",
                               "copyout", "counting"}]
          /\ va \in [Proc -> VPage] /\ child \in [Proc -> Proc \cup {None}]
          /\ sz \in [Proc -> 0..NV]
        BY <1>1 DEF TypeOK
    <2>2. CASE /\ va' = [va EXCEPT ![p] = v + 1] /\ v + 1 < sz[p]
               /\ UNCHANGED <<at, sz, child>>
        <3>1. v + 1 \in VPage
            BY <2>1, <2>2, Ranges
        <3> QED BY <2>1, <2>2, <3>1
    <2>3. CASE /\ ~(v + 1 < sz[p]) /\ sz' = [sz EXCEPT ![q] = sz[p]]
               /\ at' = [at EXCEPT ![p] = "user", ![q] = "user"]
               /\ va' = [va EXCEPT ![p] = 0]
               /\ child' = [child EXCEPT ![p] = None]
        BY <2>1, <2>3, Ranges, <1>1
    <2> QED BY <2>2, <2>3 DEF Copies
<1>5. TypeOK'
    <2>1. expected' \in [Proc -> [VPage -> Data]]
        <3>1. /\ expected' = [expected EXCEPT ![q][v] = expected[p][v]]
              /\ expected \in [Proc -> [VPage -> Data]]
            BY <1>1 DEF Copies, TypeOK
        <3> QED BY <3>1
    <2> QED BY <1>1, <1>2, <1>3, <1>4, <2>1 DEF TypeOK
<1>6. /\ sz[p] \in 0..NV /\ sz[q] = 0 /\ writable[q] = {} /\ pg # None
      /\ \A w \in VPage : (pt[q][w] # None) <=> (w < v)
      /\ \A w \in VPage : w >= sz[p] => pt[p][w] = None
      /\ v \in Nat
    BY <1>1, Ranges DEF SpaceFits, SpaceOf, ChildFits, TypeOK
<1>z. \A w \in VPage : pt'[q][w] # None <=> w < v \/ w = v
    <2> TAKE w \in VPage
    <2>1. pt'[q][w] = IF w = v THEN pg ELSE pt[q][w]
        BY <1>2
    <2>2. (pt[q][w] # None) <=> (w < v)
        BY <1>6
    <2> QED BY <2>1, <2>2, <1>6
<1>7. SpaceFits'
    <2> SUFFICES ASSUME NEW x \in Proc
                 PROVE  /\ at'[x] = "unused" => \A i \in Slot : kpage'[x][i] = None
                        /\ at'[x] \in {"unused", "used"} => sz'[x] = 0 /\ writable'[x] = {}
                        /\ at'[x] \notin {"unused", "used"} => sz'[x] > 0
                        /\ \A w \in VPage :
                              /\ at'[x] # "used" /\ w >= sz'[x] => pt'[x][w] = None
                              /\ 0 < w /\ w < sz'[x] => pt'[x][w] # None
                              /\ at'[x] \in {"store", "copyout"} /\ va'[x] = w => pt'[x][w] # None
        BY Zenon DEF SpaceFits, SpaceOf, GivesUp
    <2>1. CASE x = q
        <3>1. /\ writable'[q] = {} /\ v \in VPage
              /\ \A w \in VPage : pt'[q][w] # None <=> w < v \/ w = v
            BY <1>1, <1>2, <1>6, <1>z
        <3>2. CASE va'[p] = v + 1 /\ v + 1 < sz[p] /\ UNCHANGED <<at, sz, child>>
            <4>1. at'[q] = "used" /\ sz'[q] = 0
                BY <1>1, <1>6, <3>2
            <4>2. \A w \in VPage : w \in Int /\ w >= 0
                BY Ranges
            <4> QED BY <2>1, <3>1, <4>1, <4>2
        <3>3. CASE ~(v + 1 < sz[p]) /\ at'[q] = "user" /\ sz'[q] = sz[p]
            <4>1. sz[p] = v + 1
                BY <1>1, <1>6, <3>3, Ranges
            <4>2. \A w \in VPage : w \in Int /\ w >= 0
                BY Ranges
            <4> QED BY <2>1, <3>1, <3>3, <4>1, <4>2, <1>6
        <3> QED BY <3>2, <3>3, <1>4
    <2>2. CASE x # q
        <3>1. /\ \A w \in VPage : pt'[x][w] = pt[x][w]
              /\ \A i \in Slot : kpage'[x][i] = kpage[x][i]
              /\ sz'[x] = sz[x] /\ writable'[x] \subseteq writable[x]
            BY <2>2, <1>1, <1>2, <1>3, <1>4
        <3>2. \/ at'[x] = at[x] /\ (at[x] \in {"store", "copyout"} => va'[x] = va[x])
              \/ x = p /\ at'[x] = "user"
            BY <2>2, <1>1, <1>4
        <3>3. CASE at'[x] = at[x] /\ (at[x] \in {"store", "copyout"} => va'[x] = va[x])
            BY <3>1, <3>3, <1>1 DEF SpaceFits, SpaceOf, GivesUp
        <3>4. CASE x = p /\ at'[x] = "user"
            BY <3>1, <3>4, <1>1, <1>6 DEF SpaceFits, SpaceOf
        <3> QED BY <3>2, <3>3, <3>4
    <2> QED BY <2>1, <2>2
<1>8. ChildFits'
    <2> SUFFICES ASSUME NEW x \in Proc, at'[x] = "fork"
                 PROVE  /\ child'[x] \in Proc /\ at'[child'[x]] = "used"
                        /\ va'[x] < sz'[x]
                        /\ \A w \in VPage : pt'[child'[x]][w] # None <=> w < va'[x]
                        /\ va'[x] = 0 => \A i \in Slot : i # 0 => kpage'[child'[x]][i] = None
                        /\ \A y \in Proc : at'[y] = "fork" /\ y # x => child'[y] # child'[x]
        BY DEF ChildFits
    <2>1. CASE x = p
        <3>1. UNCHANGED <<at, sz, child>> /\ va'[p] = v + 1 /\ v + 1 < sz[p]
            BY <2>1, <1>1, <1>4
        <3>3. \A w \in VPage : w < v + 1 <=> w < v \/ w = v
            BY <1>6, Ranges
        <3>4. v + 1 # 0
            BY <1>6, SMT
        <3>5. \A y \in Proc : at[y] = "fork" /\ y # p => child[y] # q
            BY <1>1 DEF ChildFits
        <3> QED BY <2>1, <1>1, <3>1, <1>z, <3>3, <3>4, <3>5
    <2>2. CASE x # p
        <3>1. at[x] = "fork" /\ x # q /\ child'[x] = child[x] /\ child[x] # q
              /\ child[x] # p /\ child[x] \in Proc
            BY <2>2, <1>1, <1>4 DEF ChildFits
        <3>2. /\ at'[child[x]] = "used" /\ va'[x] = va[x] /\ sz'[x] = sz[x]
              /\ \A w \in VPage : pt'[child[x]][w] = pt[child[x]][w]
              /\ \A i \in Slot : kpage'[child[x]][i] = kpage[child[x]][i]
            BY <3>1, <2>2, <1>1, <1>2, <1>3, <1>4 DEF ChildFits
        <3>3. \A y \in Proc : at'[y] = "fork" /\ y # x => child'[y] # child[x]
            BY <3>1, <2>2, <1>1, <1>4 DEF ChildFits
        <3> QED BY <3>1, <3>2, <3>3, <1>1 DEF ChildFits
    <2> QED BY <2>1, <2>2
<1>9. UsedOnce'
    <2>2. \A x \in Proc, w \in VPage : pt'[x][w] \notin free
        BY <1>1, <1>2 DEF UsedOnce
    <2>3. \A x \in Proc, i \in Slot : kpage'[x][i] # None =>
              /\ kpage'[x][i] \notin free'
              /\ \A y \in Proc, w \in VPage : pt'[y][w] # kpage'[x][i]
        <3> TAKE x \in Proc, i \in Slot
        <3> HAVE kpage'[x][i] # None
        <3>1. CASE kpage'[x][i] = kpage[x][i]
            BY <3>1, <1>1, <1>2, <1>3 DEF UsedOnce
        <3>2. CASE kpage'[x][i] \in free /\ kpage'[x][i] \notin free'
            BY <3>2, <2>2
        <3> QED BY <3>1, <3>2, <1>3
    <2>4. \A x, y \in Proc, i, j \in Slot :
             kpage'[x][i] # None /\ kpage'[y][j] = kpage'[x][i] => y = x /\ j = i
        BY <1>1, <1>3 DEF UsedOnce
    <2> QED BY <1>3, <2>2, <2>3, <2>4 DEF UsedOnce
<1> QED BY <1>1, <1>5, <1>7, <1>8, <1>9 DEF Shape

LEMMA ForkFailsShape ==
    ASSUME CowAssumption, Shape, NEW p \in Proc, ForkFails(p)
    PROVE  Shape'
<1> DEFINE q == child[p]
<1>1. /\ status = "ok" /\ TypeOK /\ SpaceFits /\ ChildFits /\ UsedOnce
      /\ at[p] = "fork" /\ q \in Proc /\ at[q] = "used" /\ p # q
      /\ pt[p][va[p]] \in Page
    BY DEF Shape, ForkFails, Running, ChildFits, TypeOK
<1>2. /\ \A v \in VPage : pt[q][v] = None
      /\ free = {} /\ free' = KernelPages(q)
      /\ UNCHANGED <<mem, status, pt, sz, refCount, expected>>
    BY <1>1 DEF ForkFails, MappedIn
<1>3. /\ kpage' \in [Proc -> [Slot -> Page \cup {None}]]
      /\ \A i \in Slot : kpage'[q][i] = None
      /\ \A x \in Proc, i \in Slot : x # q => kpage'[x][i] = kpage[x][i]
    <2>1. /\ kpage \in [Proc -> [Slot -> Page \cup {None}]]
          /\ kpage' = [kpage EXCEPT ![q] = [i \in Slot |-> None]]
        BY <1>1 DEF TypeOK, ForkFails
    <2> HIDE DEF q
    <2> QED BY <2>1, <1>1
<1>4. /\ writable' \in [Proc -> SUBSET VPage]
      /\ \A x \in Proc : writable'[x] \subseteq writable[x]
    <2>1. /\ writable \in [Proc -> SUBSET VPage]
          /\ writable' = [writable EXCEPT ![p] = @ \ {va[p]}]
        BY <1>1 DEF TypeOK, ForkFails
    <2> QED BY <2>1
<1>5. count' \in [Page -> Int]
    <2>1. count \in [Page -> Int] /\ count' = [count EXCEPT ![pt[p][va[p]]] = @ + 1]
        BY <1>1 DEF TypeOK, ForkFails
    <2> QED BY <2>1, <1>1
<1>6. /\ at' \in [Proc -> {"unused", "used", "user", "killed", "fork", "store",
                            "copyout", "counting"}]
      /\ va' \in [Proc -> VPage] /\ child' \in [Proc -> Proc \cup {None}]
      /\ \A x \in Proc :
            /\ at'[x] = IF x = p THEN "user" ELSE IF x = q THEN "unused" ELSE at[x]
            /\ x # p => va'[x] = va[x] /\ child'[x] = child[x]
    <2>1. /\ at \in [Proc -> {"unused", "used", "user", "killed", "fork", "store",
                               "copyout", "counting"}]
          /\ va \in [Proc -> VPage] /\ child \in [Proc -> Proc \cup {None}]
          /\ at' = [at EXCEPT ![p] = "user", ![q] = "unused"]
          /\ va' = [va EXCEPT ![p] = 0] /\ child' = [child EXCEPT ![p] = None]
        BY <1>1 DEF TypeOK, ForkFails, ForkEnds
    <2> HIDE DEF q
    <2> QED BY <2>1, <1>1, Ranges
<1>7. free' \subseteq Page
    BY <1>1, <1>2 DEF KernelPages, TypeOK
<1> HIDE DEF q
<1>8. TypeOK'
    BY <1>1, <1>2, <1>3, <1>4, <1>5, <1>6, <1>7 DEF TypeOK
<1>9. SpaceFits'
    <2> SUFFICES ASSUME NEW x \in Proc PROVE SpaceOf(x)'
        BY DEF SpaceFits
    <2>1. /\ sz'[x] = sz[x] /\ \A v \in VPage : pt'[x][v] = pt[x][v]
          /\ writable'[x] \subseteq writable[x]
        BY <1>2, <1>4
    <2>2. CASE x = q
        <3>1. at'[q] = "unused" /\ sz[q] = 0 /\ writable[q] = {}
            BY <1>1, <1>6 DEF SpaceFits, SpaceOf
        <3>2. \A v \in VPage : v \in Int /\ v >= 0
            BY Ranges
        <3> QED BY <2>1, <2>2, <3>1, <3>2, <1>2, <1>3 DEF SpaceOf, GivesUp
    <2>3. CASE x = p
        BY <2>1, <2>3, <1>1, <1>6 DEF SpaceFits, SpaceOf, GivesUp
    <2>4. CASE x # p /\ x # q
        <3>1. /\ at'[x] = at[x] /\ va'[x] = va[x]
              /\ \A i \in Slot : kpage'[x][i] = kpage[x][i]
            BY <2>4, <1>3, <1>6
        <3>2. SpaceOf(x)
            BY <1>1 DEF SpaceFits
        <3> QED BY <2>1, <3>1, <3>2 DEF SpaceOf, GivesUp
    <2> QED BY <2>2, <2>3, <2>4
<1>10. ChildFits'
    <2> SUFFICES ASSUME NEW x \in Proc, at'[x] = "fork"
                 PROVE  /\ child'[x] \in Proc /\ at'[child'[x]] = "used"
                        /\ va'[x] < sz'[x]
                        /\ \A w \in VPage : pt'[child'[x]][w] # None <=> w < va'[x]
                        /\ va'[x] = 0 => \A i \in Slot : i # 0 => kpage'[child'[x]][i] = None
                        /\ \A y \in Proc : at'[y] = "fork" /\ y # x => child'[y] # child'[x]
        BY DEF ChildFits
    <2>1. x # p /\ x # q /\ at[x] = "fork"
        BY <1>1, <1>6
    <2>2. /\ child'[x] = child[x] /\ child[x] # q /\ child[x] # p
          /\ child[x] \in Proc /\ va'[x] = va[x]
        BY <2>1, <1>1, <1>6 DEF ChildFits, q
    <2>3. at'[child[x]] = "used"
        BY <2>1, <2>2, <1>1, <1>6 DEF ChildFits
    <2>4. /\ \A w \in VPage : pt'[child[x]][w] = pt[child[x]][w]
          /\ \A i \in Slot : kpage'[child[x]][i] = kpage[child[x]][i]
          /\ sz'[x] = sz[x]
        BY <2>2, <1>2, <1>3
    <2>5. \A y \in Proc : at'[y] = "fork" /\ y # x => child'[y] # child[x]
        BY <2>1, <2>2, <1>1, <1>6 DEF ChildFits
    <2> QED BY <2>1, <2>2, <2>3, <2>4, <2>5, <1>1 DEF ChildFits
<1>11. UsedOnce'
    BY <1>1, <1>2, <1>3 DEF UsedOnce, KernelPages
<1> QED BY <1>2, <1>8, <1>9, <1>10, <1>11 DEF Shape
LEMMA PanicShape ==
    ASSUME Shape, Panic
    PROVE  Shape'
BY DEF Shape, Panic, TypeOK, space, control

LEMMA WriteShape ==
    ASSUME CowAssumption, Shape, NEW p \in Proc, NEW v \in VPage,
           NEW d \in Data, Write(p, v, d)
    PROVE  Shape'
<1>1. /\ TypeOK /\ pt[p][v] \in Page /\ status = "ok" /\ SpaceFits /\ ChildFits
      /\ UsedOnce /\ UNCHANGED <<free, count, status, space, control>>
    BY DEF Shape, Write, TypeOK
<1>2. mem' \in [Page -> Data \cup {None}] /\ expected' \in [Proc -> [VPage -> Data]]
    <2>1. /\ mem \in [Page -> Data \cup {None}]
          /\ expected \in [Proc -> [VPage -> Data]]
          /\ mem' = [mem EXCEPT ![pt[p][v]] = d]
          /\ expected' = [expected EXCEPT ![p][v] = d]
        BY <1>1 DEF TypeOK, Write, WriteTo
    <2> QED BY <2>1, <1>1
<1>3. TypeOK'
    BY <1>1, <1>2 DEF TypeOK, space, control
<1>4. SpaceFits' /\ ChildFits' /\ UsedOnce'
    BY <1>1 DEF SpaceFits, SpaceOf, GivesUp, ChildFits, UsedOnce, space, control
<1> QED BY <1>3, <1>4 DEF Shape

LEMMA CountShape ==
    ASSUME CowAssumption, Shape, NEW p \in Proc, GetNumFreePages(p)
    PROVE  Shape'
<1>1. /\ TypeOK /\ status = "ok" /\ SpaceFits /\ ChildFits /\ UsedOnce
      /\ at[p] = "user" /\ free' \subseteq free
      /\ at' = [at EXCEPT ![p] = "counting"]
      /\ UNCHANGED <<count, mem, status, space, va, refCount, child, expected>>
    BY DEF Shape, GetNumFreePages, Calls, Running, Kalloc
<1>2. /\ at' \in [Proc -> {"unused", "used", "user", "killed", "fork", "store",
                            "copyout", "counting"}]
      /\ at'[p] = "counting" /\ Elsewhere(p)
    BY <1>1 DEF TypeOK, space, Elsewhere
<1>3. TypeOK'
    BY <1>1, <1>2 DEF TypeOK, space
<1>4. SpaceOf(p)'
    BY <1>1, <1>2 DEF SpaceFits, SpaceOf, GivesUp, space
<1>5. SpaceFits' /\ ChildFits'
    BY <1>1, <1>2, <1>4, OthersFit
<1>6. UsedOnce'
    BY <1>1 DEF UsedOnce, space
<1> QED BY <1>3, <1>5, <1>6 DEF Shape

LEMMA DecrementShape ==
    ASSUME CowAssumption, Shape, NEW p \in Proc, NEW v \in VPage,
           NEW op \in {"store", "copyout"}, Decrement(p, v, op)
    PROVE  Shape'
<1>1. /\ TypeOK /\ status = "ok" /\ SpaceFits /\ ChildFits /\ UsedOnce
      /\ at[p] = "user" /\ pt[p][v] \in Page
      /\ count' = [count EXCEPT ![pt[p][v]] = @ - 1]
      /\ refCount' = [refCount EXCEPT ![p] = count[pt[p][v]] - 1]
      /\ writable' = [writable EXCEPT ![p] = @ \cup {v}]
      /\ va' = [va EXCEPT ![p] = v] /\ at' = [at EXCEPT ![p] = op]
      /\ UNCHANGED <<free, mem, status, pt, kpage, sz, child, expected>>
    BY DEF Shape, Decrement, Calls, Running, TypeOK
<1>2. /\ at' \in [Proc -> {"unused", "used", "user", "killed", "fork", "store",
                            "copyout", "counting"}]
      /\ va' \in [Proc -> VPage] /\ writable' \in [Proc -> SUBSET VPage]
      /\ refCount' \in [Proc -> Int] /\ count' \in [Page -> Int]
      /\ at'[p] = op /\ va'[p] = v
    BY <1>1 DEF TypeOK
<1>3. Elsewhere(p)
    BY <1>1 DEF TypeOK, Elsewhere
<1>4. TypeOK'
    BY <1>1, <1>2 DEF TypeOK
<1>5. SpaceOf(p)'
    BY <1>1, <1>2, Ranges DEF SpaceFits, SpaceOf, GivesUp
<1>6. SpaceFits' /\ ChildFits'
    BY <1>1, <1>2, <1>3, <1>5, OthersFit
<1>7. UsedOnce'
    BY <1>1 DEF UsedOnce
<1> QED BY <1>4, <1>6, <1>7 DEF Shape

(* p is back in user space, or killed, and nothing happened to the others.   *)
Returned(p) ==
    /\ at'[p] \in {"user", "killed", "unused"} /\ va'[p] = 0
    /\ \A x \in Proc : x # p =>
          /\ at'[x] = at[x] /\ va'[x] = va[x] /\ child'[x] = child[x]
          /\ refCount'[x] = refCount[x]
    /\ at' \in [Proc -> {"unused", "used", "user", "killed", "fork", "store",
                         "copyout", "counting"}]
    /\ va' \in [Proc -> VPage] /\ refCount' \in [Proc -> Int]
    /\ child' \in [Proc -> Proc \cup {None}]

LEMMA ReturnDoes ==
    ASSUME CowAssumption, TypeOK, NEW p \in Proc,
           NEW w \in {"user", "killed", "unused"}, Return(p, w)
    PROVE  Returned(p) /\ at'[p] = w
<1>1. /\ at \in [Proc -> {"unused", "used", "user", "killed", "fork", "store",
                           "copyout", "counting"}]
      /\ va \in [Proc -> VPage] /\ refCount \in [Proc -> Int]
      /\ child \in [Proc -> Proc \cup {None}]
    BY DEF TypeOK
<1>2. /\ at' = [at EXCEPT ![p] = w] /\ va' = [va EXCEPT ![p] = 0]
      /\ refCount' = [refCount EXCEPT ![p] = 0] /\ child' = child
    BY DEF Return
<1> QED BY <1>1, <1>2, Ranges DEF Returned

LEMMA ThenWriteTyped ==
    ASSUME CowAssumption, TypeOK, NEW p \in Proc, NEW pg \in Page, NEW now,
           now \in [Page -> Data \cup {None}], ThenWrite(p, pg, now)
    PROVE  /\ mem' \in [Page -> Data \cup {None}]
           /\ expected' \in [Proc -> [VPage -> Data]]
<1>1. expected \in [Proc -> [VPage -> Data]] /\ va[p] \in VPage
    BY DEF TypeOK
<1>2. CASE mem' = now /\ UNCHANGED expected
    BY <1>1, <1>2
<1>3. CASE \E d \in Data :
             /\ mem' = [now EXCEPT ![pg] = d]
             /\ expected' = [expected EXCEPT ![p][va[p]] = d]
    BY <1>1, <1>3
<1> QED BY <1>2, <1>3 DEF ThenWrite

LEMMA TakeInPlaceShape ==
    ASSUME CowAssumption, Shape, NEW p \in Proc, TakeInPlace(p)
    PROVE  Shape'
<1> DEFINE pg == pt[p][va[p]]
<1>1. /\ TypeOK /\ status = "ok" /\ SpaceFits /\ ChildFits /\ UsedOnce
      /\ at[p] \in {"store", "copyout"} /\ count' = [count EXCEPT ![pg] = 1]
      /\ ThenWrite(p, pg, mem) /\ UNCHANGED <<free, status, space>>
    BY DEF Shape, TakeInPlace, Handling, Running
<1>2. pg \in Page
    BY <1>1 DEF SpaceFits, SpaceOf, GivesUp, TypeOK
<1>3. Returned(p) /\ at'[p] = "user"
    BY <1>1, ReturnDoes DEF TakeInPlace
<1>4. TypeOK'
    <2>1. /\ mem' \in [Page -> Data \cup {None}]
          /\ expected' \in [Proc -> [VPage -> Data]]
        BY <1>1, <1>2, ThenWriteTyped DEF TypeOK
    <2>2. count' \in [Page -> Int]
        BY <1>1, <1>2 DEF TypeOK
    <2> QED BY <1>1, <1>3, <2>1, <2>2 DEF TypeOK, Returned, space
<1>5. SpaceOf(p)'
    BY <1>1, <1>3 DEF SpaceFits, SpaceOf, GivesUp, space
<1>6. SpaceFits' /\ ChildFits'
    <2>1. Elsewhere(p)
        BY <1>1, <1>3 DEF Elsewhere, Returned, space
    <2> QED BY <1>1, <1>3, <1>5, <2>1, OthersFit
<1>7. UsedOnce'
    BY <1>1 DEF UsedOnce, space
<1> QED BY <1>1, <1>4, <1>6, <1>7 DEF Shape

(* The page at v of p becomes x, and the other mappings stay.                *)
Maps(p, v, x) ==
    /\ pt' \in [Proc -> [VPage -> Page \cup {None}]]
    /\ pt'[p][v] = x
    /\ \A q \in Proc, w \in VPage : q # p \/ w # v => pt'[q][w] = pt[q][w]

LEMMA MapsOne ==
    ASSUME TypeOK, NEW p \in Proc, NEW v \in VPage, NEW x \in Page \cup {None},
           pt' = [pt EXCEPT ![p][v] = x]
    PROVE  Maps(p, v, x)
<1>1. pt \in [Proc -> [VPage -> Page \cup {None}]]
    BY DEF TypeOK
<1> QED BY <1>1 DEF Maps

LEMMA CopyPageDoes ==
    ASSUME CowAssumption, Shape, NEW p \in Proc, CopyPage(p)
    PROVE  /\ TypeOK /\ status = "ok" /\ SpaceFits /\ ChildFits /\ UsedOnce
           /\ at[p] \in {"store", "copyout"} /\ refCount[p] > 0
           /\ va[p] \in VPage /\ pt[p][va[p]] \in Page
           /\ Fresh \in free /\ Fresh \in Page /\ free' = free \ {Fresh}
           /\ count' = [count EXCEPT ![Fresh] = 1]
           /\ Maps(p, va[p], Fresh) /\ Returned(p) /\ at'[p] = "user"
           /\ UNCHANGED <<status, writable, kpage, sz>>
<1>1. /\ TypeOK /\ status = "ok" /\ SpaceFits /\ ChildFits /\ UsedOnce
      /\ at[p] \in {"store", "copyout"} /\ ToCopy(p)
    BY DEF Shape, CopyPage, Handling, Running
<1>2. refCount[p] > 0
    BY <1>1 DEF ToCopy, TypeOK
<1>3. va[p] \in VPage /\ pt[p][va[p]] \in Page
    BY <1>1 DEF SpaceFits, SpaceOf, GivesUp, TypeOK
<1>4. Fresh \in free /\ Fresh \in Page /\ free' = free \ {Fresh}
    BY <1>1, GivenFresh DEF CopyPage
<1>5. /\ count' = [count EXCEPT ![Fresh] = 1]
      /\ UNCHANGED <<status, writable, kpage, sz>>
      /\ pt' = [pt EXCEPT ![p][va[p]] = Fresh]
    BY DEF CopyPage
<1>6. Maps(p, va[p], Fresh)
    BY <1>1, <1>3, <1>4, <1>5, MapsOne
<1>7. Returned(p) /\ at'[p] = "user"
    BY <1>1, ReturnDoes DEF CopyPage
<1> QED BY <1>1, <1>2, <1>3, <1>4, <1>5, <1>6, <1>7

LEMMA CopyPageShape ==
    ASSUME CowAssumption, Shape, NEW p \in Proc, CopyPage(p)
    PROVE  Shape'
<1>1. /\ TypeOK /\ status = "ok" /\ SpaceFits /\ ChildFits /\ UsedOnce
      /\ at[p] \in {"store", "copyout"}
      /\ va[p] \in VPage /\ pt[p][va[p]] \in Page
      /\ Fresh \in free /\ Fresh \in Page /\ free' = free \ {Fresh}
      /\ count' = [count EXCEPT ![Fresh] = 1]
      /\ Maps(p, va[p], Fresh) /\ Returned(p) /\ at'[p] = "user"
      /\ UNCHANGED <<status, writable, kpage, sz>>
    BY CopyPageDoes
<1> DEFINE now == [mem EXCEPT ![Fresh] = mem[pt[p][va[p]]]]
<1>2. ThenWrite(p, Fresh, now) /\ now \in [Page -> Data \cup {None}]
    BY <1>1 DEF CopyPage, TypeOK
<1> HIDE DEF now
<1>3. /\ mem' \in [Page -> Data \cup {None}]
      /\ expected' \in [Proc -> [VPage -> Data]]
    BY <1>1, <1>2, ThenWriteTyped
<1>4. free' \subseteq Page /\ count' \in [Page -> Int]
    BY <1>1 DEF TypeOK
<1>5. TypeOK'
    BY <1>1, <1>3, <1>4 DEF TypeOK, Returned, Maps
<1>6. SpaceOf(p)'
    <2>1. SpaceOf(p) /\ Fresh # None
        BY <1>1, Ranges DEF SpaceFits
    <2> QED BY <1>1, <2>1 DEF SpaceOf, GivesUp, Maps
<1>7. SpaceFits' /\ ChildFits'
    <2>1. Elsewhere(p)
        BY <1>1 DEF Elsewhere, Returned, Maps
    <2> QED BY <1>1, <1>6, <2>1, OthersFit
<1>8. UsedOnce'
    BY <1>1 DEF UsedOnce, Maps
<1> QED BY <1>1, <1>5, <1>7, <1>8 DEF Shape

(* What kfree() leaves, if none of the pages was in use.                     *)
Given(pages) ==
    /\ free' = free \cup pages /\ status' \in {"ok", "wild"}
    /\ mem' \in [Page -> Data \cup {None}]
    /\ status' = "ok" => \A q \in Proc, v \in VPage : pt'[q][v] \notin pages

LEMMA KfreeDoes ==
    ASSUME CowAssumption, TypeOK, status = "ok", NEW pages \in SUBSET Page,
           NEW tables, Kfree(pages, tables), pt' = tables
    PROVE  Given(pages)
<1>1. /\ free' = free \cup pages
      /\ mem' = [x \in Page |-> IF x \in pages THEN None ELSE mem[x]]
      /\ status' = IF pages \cap (free \cup UNION {MappedIn(pt', q) : q \in Proc})
                        = {}
                   THEN status ELSE "wild"
    BY DEF Kfree
<1>2. mem' \in [Page -> Data \cup {None}]
    BY <1>1 DEF TypeOK
<1>3. ASSUME status' = "ok", NEW q \in Proc, NEW v \in VPage
      PROVE  pt'[q][v] \notin pages
    <2>1. pages \cap MappedIn(pt', q) = {}
        BY <1>1, <1>3
    <2>2. pt'[q][v] # None => pt'[q][v] \in MappedIn(pt', q)
        BY DEF MappedIn
    <2> QED BY <2>1, <2>2, Ranges
<1> QED BY <1>1, <1>2, <1>3 DEF Given

LEMMA NoPageDoes ==
    ASSUME CowAssumption, Shape, NEW p \in Proc, NoPageToCopy(p)
    PROVE  /\ TypeOK /\ status = "ok" /\ SpaceFits /\ ChildFits /\ UsedOnce
           /\ at[p] \in {"store", "copyout"} /\ free = {}
           /\ pt[p][0] \in Page /\ Given({pt[p][0]}) /\ Maps(p, 0, None)
           /\ writable' = [writable EXCEPT ![p] = @ \ {0}]
           /\ Returned(p) /\ at'[p] \in {"user", "killed"}
           /\ UNCHANGED <<count, kpage, sz, expected>>
<1>1. /\ TypeOK /\ status = "ok" /\ SpaceFits /\ ChildFits /\ UsedOnce
      /\ at[p] \in {"store", "copyout"} /\ free = {} /\ pt[p][0] # None
      /\ writable' = [writable EXCEPT ![p] = @ \ {0}]
      /\ UNCHANGED <<count, kpage, sz, expected>>
      /\ pt' = [pt EXCEPT ![p][0] = None]
      /\ Kfree({pt[p][0]}, pt')
    BY DEF Shape, NoPageToCopy, Handling, Running
<1>2. pt[p][0] \in Page
    BY <1>1, Ranges DEF TypeOK
<1>3. Given({pt[p][0]})
    BY <1>1, <1>2, KfreeDoes
<1>4. Maps(p, 0, None)
    BY <1>1, Ranges, MapsOne
<1>5. CASE at[p] = "store"
    BY <1>1, <1>2, <1>3, <1>4, <1>5, ReturnDoes DEF NoPageToCopy
<1>6. CASE at[p] # "store"
    BY <1>1, <1>2, <1>3, <1>4, <1>6, ReturnDoes DEF NoPageToCopy
<1> QED BY <1>1, <1>5, <1>6

LEMMA NoPageShape ==
    ASSUME CowAssumption, Shape, NEW p \in Proc, NoPageToCopy(p)
    PROVE  Shape'
<1>1. /\ TypeOK /\ status = "ok" /\ SpaceFits /\ ChildFits /\ UsedOnce
      /\ at[p] \in {"store", "copyout"} /\ free = {}
      /\ pt[p][0] \in Page /\ Given({pt[p][0]}) /\ Maps(p, 0, None)
      /\ writable' = [writable EXCEPT ![p] = @ \ {0}]
      /\ Returned(p) /\ at'[p] \in {"user", "killed"}
      /\ UNCHANGED <<count, kpage, sz, expected>>
    BY NoPageDoes
<1>2. writable' \in [Proc -> SUBSET VPage]
    BY <1>1 DEF TypeOK
<1>3. TypeOK'
    BY <1>1, <1>2 DEF TypeOK, Given, Maps, Returned
<1> SUFFICES ASSUME status' = "ok" PROVE SpaceFits' /\ ChildFits' /\ UsedOnce'
    BY <1>3 DEF Shape
<1>4. SpaceOf(p)'
    <2>1. SpaceOf(p)
        BY <1>1 DEF SpaceFits
    <2> QED BY <1>1, <2>1 DEF SpaceOf, GivesUp, Maps
<1>5. SpaceFits' /\ ChildFits'
    <2>1. Elsewhere(p)
        BY <1>1 DEF Elsewhere, Returned, Maps, TypeOK
    <2> QED BY <1>1, <1>4, <2>1, OthersFit
<1>6. UsedOnce'
    <2>1. \A q \in Proc, v \in VPage :
             pt'[q][v] = pt[q][v] \/ pt'[q][v] = None
        BY <1>1 DEF Maps
    <2>2. \A q \in Proc, v \in VPage : pt'[q][v] \notin free'
        BY <1>1 DEF Given
    <2>3. \A q \in Proc, i \in Slot :
             kpage[q][i] # pt[p][0] \/ kpage[q][i] = None
        BY <1>1, Ranges DEF UsedOnce
    <2> QED BY <1>1, <2>1, <2>2, <2>3 DEF UsedOnce, Given
<1> QED BY <1>5, <1>6

LEMMA ShrinkDoes ==
    ASSUME CowAssumption, Shape, NEW p \in Proc, Shrink(p)
    PROVE  \E v \in VPage :
           /\ TypeOK /\ status = "ok" /\ SpaceFits /\ ChildFits /\ UsedOnce
           /\ at[p] = "user" /\ v = sz[p] - 1 /\ v > 0
           /\ pt[p][v] \in Page /\ Given({pt[p][v]}) /\ Maps(p, v, None)
           /\ writable' = [writable EXCEPT ![p] = @ \ {v}]
           /\ sz' = [sz EXCEPT ![p] = v]
           /\ UNCHANGED <<count, kpage, control, expected>>
<1> DEFINE v == sz[p] - 1
<1>1. /\ TypeOK /\ status = "ok" /\ SpaceFits /\ ChildFits /\ UsedOnce
      /\ at[p] = "user" /\ v > 0
      /\ writable' = [writable EXCEPT ![p] = @ \ {v}]
      /\ sz' = [sz EXCEPT ![p] = v]
      /\ UNCHANGED <<count, kpage, control, expected>>
      /\ pt' = [pt EXCEPT ![p][v] = None]
      /\ Kfree({pt[p][v]}, pt')
    BY DEF Shape, Shrink, Calls, Running
<1>2. sz[p] \in 0..NV /\ SpaceOf(p)
    BY <1>1 DEF TypeOK, SpaceFits
<1>3. v \in VPage /\ v < sz[p]
    BY <1>1, <1>2, Ranges
<1>4. pt[p][v] \in Page
    BY <1>1, <1>2, <1>3 DEF SpaceOf, TypeOK
<1>5. Given({pt[p][v]})
    BY <1>1, <1>4, KfreeDoes
<1>6. Maps(p, v, None)
    BY <1>1, <1>3, MapsOne
<1> QED BY <1>1, <1>3, <1>4, <1>5, <1>6

LEMMA ShrinkShape ==
    ASSUME CowAssumption, Shape, NEW p \in Proc, Shrink(p)
    PROVE  Shape'
<1> PICK v \in VPage :
      /\ TypeOK /\ status = "ok" /\ SpaceFits /\ ChildFits /\ UsedOnce
      /\ at[p] = "user" /\ v = sz[p] - 1 /\ v > 0
      /\ pt[p][v] \in Page /\ Given({pt[p][v]}) /\ Maps(p, v, None)
      /\ writable' = [writable EXCEPT ![p] = @ \ {v}]
      /\ sz' = [sz EXCEPT ![p] = v]
      /\ UNCHANGED <<count, kpage, control, expected>>
    BY ShrinkDoes
<1>2. /\ writable' \in [Proc -> SUBSET VPage] /\ sz' \in [Proc -> 0..NV]
      /\ sz'[p] = v /\ sz[p] \in Int
    BY Ranges DEF TypeOK
<1>3. TypeOK'
    BY <1>2 DEF TypeOK, Given, Maps, control
<1> SUFFICES ASSUME status' = "ok" PROVE SpaceFits' /\ ChildFits' /\ UsedOnce'
    BY <1>3 DEF Shape
<1>4. SpaceOf(p)'
    <2>1. SpaceOf(p)
        BY DEF SpaceFits
    <2>2. \A w \in VPage : w \in Int /\ (w >= v => w = v \/ w >= sz[p])
        BY <1>2, Ranges
    <2>3. \A w \in VPage : /\ w >= v => pt'[p][w] = None
                           /\ 0 < w /\ w < v => pt'[p][w] # None
        <3> TAKE w \in VPage
        <3>1. w = v => ~(w < v)
            BY <1>2, <2>2
        <3>2. w # v => pt'[p][w] = pt[p][w]
            BY DEF Maps
        <3>3. w < v => w < sz[p]
            BY <1>2, <2>2
        <3>4. pt'[p][v] = None
            BY DEF Maps
        <3> QED BY <2>1, <2>2, <3>1, <3>2, <3>3, <3>4 DEF SpaceOf
    <2>4. at'[p] = "user" /\ v > 0
        BY DEF control
    <2> QED BY <1>2, <2>3, <2>4 DEF SpaceOf, GivesUp
<1>5. SpaceFits' /\ ChildFits'
    <2>1. Elsewhere(p)
        BY DEF Elsewhere, Maps, TypeOK, control
    <2> QED BY <1>4, <2>1, OthersFit DEF control
<1>6. UsedOnce'
    <2>1. \A q \in Proc, w \in VPage :
             pt'[q][w] = pt[q][w] \/ pt'[q][w] = None
        BY DEF Maps
    <2>2. \A q \in Proc, w \in VPage : pt'[q][w] \notin free'
        <3>1. None \notin free
            BY Ranges DEF TypeOK
        <3> QED BY <2>1, <3>1 DEF Given, UsedOnce
    <2>3. \A q \in Proc, i \in Slot :
             kpage[q][i] # pt[p][v] \/ kpage[q][i] = None
        BY DEF UsedOnce
    <2> QED BY <2>1, <2>2, <2>3 DEF UsedOnce, Given
<1> QED BY <1>5, <1>6

LEMMA ExitDoes ==
    ASSUME CowAssumption, Shape, NEW p \in Proc, Exit(p)
    PROVE  /\ TypeOK /\ status = "ok" /\ SpaceFits /\ ChildFits /\ UsedOnce
           /\ at[p] \in {"user", "killed"}
           /\ Given(MappedIn(pt, p) \cup KernelPages(p))
           /\ pt' = [pt EXCEPT ![p] = [v \in VPage |-> None]]
           /\ writable' = [writable EXCEPT ![p] = {}]
           /\ kpage' = [kpage EXCEPT ![p] = [i \in Slot |-> None]]
           /\ sz' = [sz EXCEPT ![p] = 0]
           /\ Returned(p) /\ at'[p] = "unused"
           /\ UNCHANGED <<count, expected>>
<1>1. /\ TypeOK /\ status = "ok" /\ SpaceFits /\ ChildFits /\ UsedOnce
      /\ at[p] \in {"user", "killed"}
      /\ pt' = [pt EXCEPT ![p] = [v \in VPage |-> None]]
      /\ Kfree(MappedIn(pt, p) \cup KernelPages(p), pt')
      /\ writable' = [writable EXCEPT ![p] = {}]
      /\ kpage' = [kpage EXCEPT ![p] = [i \in Slot |-> None]]
      /\ sz' = [sz EXCEPT ![p] = 0]
      /\ UNCHANGED <<count, expected>>
    BY DEF Shape, Exit, Running, Freeproc
<1>2. MappedIn(pt, p) \cup KernelPages(p) \in SUBSET Page
    BY <1>1 DEF TypeOK, MappedIn, KernelPages
<1>3. Given(MappedIn(pt, p) \cup KernelPages(p))
    BY <1>1, <1>2, KfreeDoes
<1>4. Returned(p) /\ at'[p] = "unused"
    BY <1>1, ReturnDoes DEF Exit
<1> QED BY <1>1, <1>3, <1>4

LEMMA ExitShape ==
    ASSUME CowAssumption, Shape, NEW p \in Proc, Exit(p)
    PROVE  Shape'
<1> DEFINE pages == MappedIn(pt, p) \cup KernelPages(p)
<1>1. /\ TypeOK /\ status = "ok" /\ SpaceFits /\ ChildFits /\ UsedOnce
      /\ at[p] \in {"user", "killed"} /\ Given(pages)
      /\ Returned(p) /\ at'[p] = "unused" /\ UNCHANGED <<count, expected>>
    BY ExitDoes
<1>2. /\ pt' \in [Proc -> [VPage -> Page \cup {None}]]
      /\ \A v \in VPage : pt'[p][v] = None
      /\ \A x \in Proc, v \in VPage : x # p => pt'[x][v] = pt[x][v]
    <2>1. /\ pt \in [Proc -> [VPage -> Page \cup {None}]]
          /\ pt' = [pt EXCEPT ![p] = [v \in VPage |-> None]]
        BY ExitDoes DEF TypeOK
    <2> QED BY <2>1
<1>3. /\ kpage' \in [Proc -> [Slot -> Page \cup {None}]]
      /\ \A i \in Slot : kpage'[p][i] = None
      /\ \A x \in Proc, i \in Slot : x # p => kpage'[x][i] = kpage[x][i]
    <2>1. /\ kpage \in [Proc -> [Slot -> Page \cup {None}]]
          /\ kpage' = [kpage EXCEPT ![p] = [i \in Slot |-> None]]
        BY ExitDoes DEF TypeOK
    <2> QED BY <2>1
<1>4. /\ writable' \in [Proc -> SUBSET VPage] /\ sz' \in [Proc -> 0..NV]
      /\ writable'[p] = {} /\ sz'[p] = 0
      /\ \A x \in Proc : x # p => writable'[x] = writable[x] /\ sz'[x] = sz[x]
    <2>1. /\ writable \in [Proc -> SUBSET VPage] /\ sz \in [Proc -> 0..NV]
          /\ writable' = [writable EXCEPT ![p] = {}] /\ sz' = [sz EXCEPT ![p] = 0]
        BY ExitDoes DEF TypeOK
    <2> QED BY <2>1, Ranges
<1>5. pages \subseteq Page
    BY <1>1 DEF TypeOK, MappedIn, KernelPages
<1> HIDE DEF pages
<1>6. TypeOK'
    BY <1>1, <1>2, <1>3, <1>4, <1>5 DEF TypeOK, Given, Returned
<1> SUFFICES ASSUME status' = "ok" PROVE SpaceFits' /\ ChildFits' /\ UsedOnce'
    BY <1>6 DEF Shape
<1>7. SpaceOf(p)'
    <2>1. \A v \in VPage : v \in Int /\ v >= 0
        BY Ranges
    <2> QED BY <1>1, <1>2, <1>3, <1>4, <2>1 DEF SpaceOf, GivesUp
<1>8. SpaceFits' /\ ChildFits'
    <2>1. Elsewhere(p)
        BY <1>1, <1>2, <1>3, <1>4 DEF Elsewhere, Returned
    <2> QED BY <1>1, <1>7, <2>1, OthersFit
<1>9. UsedOnce'
    <2>1. \A q \in Proc, v \in VPage : pt'[q][v] \notin free'
        <3>0. None \notin free
            BY <1>1, Ranges DEF TypeOK
        <3>1. \A q \in Proc, v \in VPage : pt'[q][v] \notin free
            BY <3>0, <1>1, <1>2 DEF UsedOnce
        <3> QED BY <1>1, <3>1 DEF Given
    <2>2. \A q \in Proc, i \in Slot :
             q # p /\ kpage[q][i] # None => kpage[q][i] \notin pages
        BY <1>1 DEF UsedOnce, pages, MappedIn, KernelPages
    <2>3. \A q \in Proc, i \in Slot : kpage'[q][i] # None =>
             /\ q # p /\ kpage'[q][i] = kpage[q][i]
             /\ kpage'[q][i] \notin free'
        BY <1>1, <1>3, <2>2 DEF UsedOnce, Given
    <2>4. \A q \in Proc, v \in VPage : pt'[q][v] = pt[q][v] \/ pt'[q][v] = None
        BY <1>2
    <2> QED BY <1>1, <2>1, <2>3, <2>4 DEF UsedOnce
<1> QED BY <1>8, <1>9

LEMMA GrowDoes ==
    ASSUME CowAssumption, Shape, NEW p \in Proc, Grow(p)
    PROVE  \E v \in VPage, f \in free \cap Page :
           /\ TypeOK /\ status = "ok" /\ SpaceFits /\ ChildFits /\ UsedOnce
           /\ at[p] = "user" /\ v = sz[p] /\ pt[p][v] = None
           /\ mem' = [mem EXCEPT ![f] = Zero] /\ Maps(p, v, f)
           /\ writable' = [writable EXCEPT ![p] = @ \cup {v}]
           /\ sz' = [sz EXCEPT ![p] = v + 1]
           /\ expected' = [expected EXCEPT ![p][v] = Zero]
           /\ \/ /\ free' = free \ {f} /\ count' = [count EXCEPT ![f] = 1]
                 /\ UNCHANGED kpage
              \/ \E g \in free \cap Page :
                    /\ g # f /\ free' = free \ {f, g}
                    /\ count' = [count EXCEPT ![f] = 1, ![g] = 1]
                    /\ kpage[p][TableOf(v)] = None
                    /\ kpage' = [kpage EXCEPT ![p][TableOf(v)] = g]
           /\ UNCHANGED <<status, control>>
<1> DEFINE v == sz[p]
<1>1. /\ TypeOK /\ status = "ok" /\ SpaceFits /\ ChildFits /\ UsedOnce
      /\ at[p] = "user" /\ v < NV
      /\ mem' = [mem EXCEPT ![Fresh] = Zero]
      /\ pt' = [pt EXCEPT ![p][v] = Fresh]
      /\ writable' = [writable EXCEPT ![p] = @ \cup {v}]
      /\ sz' = [sz EXCEPT ![p] = v + 1]
      /\ expected' = [expected EXCEPT ![p][v] = Zero]
      /\ UNCHANGED <<status, control>>
    BY DEF Shape, Grow, Calls, Running
<1>2. v \in VPage /\ pt[p][v] = None
    <2>1. v \in 0..NV /\ SpaceOf(p)
        BY <1>1 DEF TypeOK, SpaceFits
    <2>2. v \in VPage
        BY <1>1, <2>1, Ranges
    <2> QED BY <1>1, <2>1, <2>2 DEF SpaceOf
<1>3. /\ Fresh \in free \cap Page
      /\ \/ /\ free' = free \ {Fresh} /\ count' = [count EXCEPT ![Fresh] = 1]
            /\ UNCHANGED kpage
         \/ /\ Fresh2 \in free \cap Page
            /\ Fresh2 # Fresh /\ free' = free \ {Fresh, Fresh2}
            /\ count' = [count EXCEPT ![Fresh] = 1, ![Fresh2] = 1]
            /\ kpage[p][TableOf(v)] = None
            /\ kpage' = [kpage EXCEPT ![p][TableOf(v)] = Fresh2]
    <2>1. CASE kpage[p][TableOf(v)] # None
        BY <1>1, <2>1, GivenFresh DEF Grow
    <2>2. CASE kpage[p][TableOf(v)] = None
        BY <1>1, <2>2, GivenTwo DEF Grow
    <2> QED BY <2>1, <2>2
<1>4. Maps(p, v, Fresh)
    BY <1>1, <1>2, <1>3, MapsOne
<1> QED BY <1>1, <1>2, <1>3, <1>4

LEMMA GrowShape ==
    ASSUME CowAssumption, Shape, NEW p \in Proc, Grow(p)
    PROVE  Shape'
<1> PICK v \in VPage, f \in free \cap Page :
      /\ TypeOK /\ status = "ok" /\ SpaceFits /\ ChildFits /\ UsedOnce
      /\ at[p] = "user" /\ v = sz[p] /\ pt[p][v] = None
      /\ mem' = [mem EXCEPT ![f] = Zero] /\ Maps(p, v, f)
      /\ writable' = [writable EXCEPT ![p] = @ \cup {v}]
      /\ sz' = [sz EXCEPT ![p] = v + 1]
      /\ expected' = [expected EXCEPT ![p][v] = Zero]
      /\ \/ /\ free' = free \ {f} /\ count' = [count EXCEPT ![f] = 1]
            /\ UNCHANGED kpage
         \/ \E g \in free \cap Page :
               /\ g # f /\ free' = free \ {f, g}
               /\ count' = [count EXCEPT ![f] = 1, ![g] = 1]
               /\ kpage[p][TableOf(v)] = None
               /\ kpage' = [kpage EXCEPT ![p][TableOf(v)] = g]
      /\ UNCHANGED <<status, control>>
    BY GrowDoes
<1>1. /\ kpage' \in [Proc -> [Slot -> Page \cup {None}]]
      /\ free' \subseteq free \ {f} /\ count' \in [Page -> Int]
      /\ \A x \in Proc, i \in Slot : kpage'[x][i] # kpage[x][i] =>
            /\ x = p /\ i = TableOf(v)
            /\ kpage'[x][i] \in free \ {f} /\ kpage'[x][i] \notin free'
    <2>1. TableOf(v) \in Slot
        BY TableSlot
    <2>2. /\ kpage \in [Proc -> [Slot -> Page \cup {None}]]
          /\ count \in [Page -> Int]
        BY DEF TypeOK
    <2>3. CASE /\ free' = free \ {f} /\ count' = [count EXCEPT ![f] = 1]
               /\ UNCHANGED kpage
        BY <2>2, <2>3
    <2>4. CASE \E g \in free \cap Page :
                  /\ g # f /\ free' = free \ {f, g}
                  /\ count' = [count EXCEPT ![f] = 1, ![g] = 1]
                  /\ kpage[p][TableOf(v)] = None
                  /\ kpage' = [kpage EXCEPT ![p][TableOf(v)] = g]
        BY <2>1, <2>2, <2>4
    <2> QED BY <2>3, <2>4
<1>2. /\ writable' \in [Proc -> SUBSET VPage] /\ sz' \in [Proc -> 0..NV]
      /\ sz'[p] = v + 1 /\ v \in Nat
    BY Ranges DEF TypeOK
<1>3. /\ mem' \in [Page -> Data \cup {None}]
      /\ expected' \in [Proc -> [VPage -> Data]]
    <2>1. /\ mem \in [Page -> Data \cup {None}] /\ Zero \in Data
          /\ expected \in [Proc -> [VPage -> Data]]
        BY DEF TypeOK, CowAssumption
    <2> QED BY <2>1
<1>4. TypeOK'
    BY <1>1, <1>2, <1>3 DEF TypeOK, Maps, control
<1>5. SpaceOf(p)'
    <2>1. SpaceOf(p) /\ f # None
        BY Ranges DEF SpaceFits
    <2>2. \A w \in VPage : /\ w >= v + 1 => w # v /\ w >= sz[p]
                           /\ w < v + 1 => w = v \/ w < sz[p]
        BY <1>2, Ranges
    <2>3. at'[p] = "user"
        BY DEF control
    <2>4. \A w \in VPage : /\ w >= sz'[p] => pt'[p][w] = None
                           /\ 0 < w /\ w < sz'[p] => pt'[p][w] # None
        <3> TAKE w \in VPage
        <3>1. w = v => pt'[p][w] = f
            BY DEF Maps
        <3>2. w # v => pt'[p][w] = pt[p][w]
            BY DEF Maps
        <3>3. CASE w = v
            BY <3>1, <3>3, <1>2, <2>1, <2>2
        <3>4. CASE w # v
            BY <3>2, <3>4, <1>2, <2>1, <2>2, <2>3 DEF SpaceOf, control
        <3> QED BY <3>3, <3>4
    <2>5. v + 1 > 0
        BY <1>2
    <2> QED BY <1>2, <2>3, <2>4, <2>5 DEF SpaceOf, GivesUp
<1>6. SpaceFits' /\ ChildFits'
    <2>1. Elsewhere(p)
        BY <1>1 DEF Elsewhere, Maps, TypeOK, control
    <2> QED BY <1>5, <2>1, OthersFit DEF control
<1>7. UsedOnce'
    <2>1. \A q \in Proc, w \in VPage :
             pt'[q][w] = pt[q][w] \/ pt'[q][w] = f
        BY DEF Maps
    <2>2. \A q \in Proc, w \in VPage : pt'[q][w] \notin free'
        BY <1>1, <2>1 DEF UsedOnce
    <2>3. \A x \in Proc, i \in Slot : kpage'[x][i] # None =>
              /\ kpage'[x][i] \notin free'
              /\ \A y \in Proc, w \in VPage : pt'[y][w] # kpage'[x][i]
        <3> TAKE x \in Proc, i \in Slot
        <3> HAVE kpage'[x][i] # None
        <3>1. CASE kpage'[x][i] = kpage[x][i]
            BY <3>1, <1>1, <2>1 DEF UsedOnce
        <3>2. CASE kpage'[x][i] \in free \ {f} /\ kpage'[x][i] \notin free'
            BY <3>2, <2>1 DEF UsedOnce
        <3> QED BY <3>1, <3>2, <1>1
    <2>4. \A x, y \in Proc, i, j \in Slot :
             kpage'[x][i] # None /\ kpage'[y][j] = kpage'[x][i] => y = x /\ j = i
        BY <1>1 DEF UsedOnce
    <2> QED BY <2>2, <2>3, <2>4 DEF UsedOnce
<1> QED BY <1>4, <1>6, <1>7 DEF Shape

-----------------------------------------------------------------------------
(* A page that a step does not touch, one that it frees and one that it      *)
(* gives to a process.                                                       *)

LEMMA KeepersFinite ==
    ASSUME CowAssumption, NEW x
    PROVE  IsFiniteSet(Keepers(x)) /\ Cardinality(Keepers(x)) \in Nat
<1>1. IsFiniteSet(Proc) /\ IsFiniteSet(VPage)
    BY Ranges, FS_Interval DEF CowAssumption
<1>2. IsFiniteSet(Proc \X VPage)
    BY <1>1, FS_Product
<1>3. Keepers(x) \in SUBSET (Proc \X VPage)
    BY DEF Keepers
<1> QED BY <1>2, <1>3, FS_Subset, FS_CardinalityType

LEMMA KeepersFiniteNext ==
    ASSUME CowAssumption, NEW x
    PROVE  IsFiniteSet(Keepers(x)') /\ Cardinality(Keepers(x)') \in Nat
<1>1. IsFiniteSet(Proc) /\ IsFiniteSet(VPage)
    BY Ranges, FS_Interval DEF CowAssumption
<1>2. IsFiniteSet(Proc \X VPage)
    BY <1>1, FS_Product
<1>3. Keepers(x)' \in SUBSET (Proc \X VPage)
    BY DEF Keepers
<1> QED BY <1>2, <1>3, FS_Subset, FS_CardinalityType

Untouched(x) ==
    /\ count'[x] = count[x]
    /\ \A q \in Proc, w \in VPage :
          /\ pt'[q][w] = x <=> pt[q][w] = x
          /\ pt[q][w] = x =>
                /\ GivesUp(q, w)' <=> GivesUp(q, w)
                /\ GivesUp(q, w) => refCount'[q] = refCount[q]

LEMMA UntouchedSame ==
    ASSUME TypeOK, TypeOK', NEW x \in Page, Untouched(x)
    PROVE  /\ InUse(x)' <=> InUse(x)
           /\ Keepers(x)' = Keepers(x)
           /\ Leaving(x)' = Leaving(x)
           /\ \A q \in Leaving(x) : refCount'[q] = refCount[q]
<1>1. InUse(x)' <=> InUse(x)
    BY DEF InUse, Untouched
<1>2. \A q \in Proc, w \in VPage : Keeps(q, w, x)' <=> Keeps(q, w, x)
    BY DEF Keeps, Untouched
<1>3. Keepers(x)' = Keepers(x)
    BY <1>2 DEF Keepers
<1>4. \A q \in Proc : va[q] \in VPage /\ va'[q] \in VPage
    BY DEF TypeOK
<1>5. Leaving(x)' = Leaving(x) /\ \A q \in Leaving(x) : refCount'[q] = refCount[q]
    <2>1. ASSUME NEW q \in Leaving(x)
          PROVE  q \in Leaving(x)' /\ refCount'[q] = refCount[q]
        <3>1. q \in Proc /\ pt[q][va[q]] = x /\ GivesUp(q, va[q])
            BY DEF Leaving, GivesUp
        <3>2. q \in Leaving(x)' /\ refCount'[q] = refCount[q]
            <4> PICK w \in VPage : w = va[q]
                BY <3>1, <1>4
            <4>1. pt[q][w] = x /\ GivesUp(q, w)
                BY <3>1
            <4>2. pt'[q][w] = x /\ GivesUp(q, w)' /\ refCount'[q] = refCount[q]
                BY <4>1, <3>1 DEF Untouched
            <4> QED BY <3>1, <4>2 DEF GivesUp, Leaving
        <3> QED BY <3>2
    <2>2. ASSUME NEW q \in Leaving(x)' PROVE q \in Leaving(x)
        <3>1. q \in Proc /\ pt'[q][va'[q]] = x /\ at'[q] \in {"store", "copyout"}
            BY DEF Leaving
        <3> PICK w \in VPage : w = va'[q]
            BY <1>4, <3>1
        <3>2. GivesUp(q, w)'
            BY <3>1 DEF GivesUp
        <3>3. pt[q][w] = x /\ GivesUp(q, w)
            BY <3>1, <3>2 DEF Untouched
        <3> QED BY <3>1, <3>3 DEF Leaving, GivesUp
    <2> QED BY <2>1, <2>2
<1> QED BY <1>1, <1>3, <1>5

LEMMA UntouchedKept ==
    ASSUME TypeOK, TypeOK', NEW x \in Page, Untouched(x), PageKept(x)
    PROVE  PageKept(x)'
<1>1. /\ InUse(x)' <=> InUse(x)
      /\ Keepers(x)' = Keepers(x) /\ Leaving(x)' = Leaving(x)
      /\ \A q \in Leaving(x) : refCount'[q] = refCount[q]
      /\ count'[x] = count[x]
    BY UntouchedSame DEF Untouched
<1> QED BY <1>1 DEF PageKept, Successor

LEMMA UnmappedKept ==
    ASSUME TypeOK', NEW x \in Page,
           \A q \in Proc, w \in VPage : pt'[q][w] # x
    PROVE  PageKept(x)'
<1>1. ~InUse(x)' /\ Keepers(x)' = {} /\ Leaving(x)' = {}
    BY DEF InUse, Keepers, Keeps, Leaving, TypeOK
<1> QED BY <1>1 DEF PageKept, Successor

LEMMA NewPageKept ==
    ASSUME TypeOK', NEW x \in Page, NEW p \in Proc, NEW v \in VPage,
           count'[x] = 1, at'[p] \notin {"store", "copyout"},
           \A q \in Proc, w \in VPage : pt'[q][w] = x <=> q = p /\ w = v
    PROVE  PageKept(x)'
<1>1. Keepers(x)' = {<<p, v>>}
    <2>1. \A q \in Proc, w \in VPage : Keeps(q, w, x)' <=> q = p /\ w = v
        BY DEF Keeps, GivesUp
    <2> QED BY <2>1 DEF Keepers
<1>2. Cardinality(Keepers(x)') = 1
    BY <1>1, FS_Singleton
<1>3. Leaving(x)' = {}
    BY DEF Leaving, TypeOK
<1> QED BY <1>1, <1>2, <1>3 DEF PageKept, Successor

(* The mapping at v of p is one more that the count of x stands for, or one  *)
(* less.                                                                     *)
LEMMA KeepersMore ==
    ASSUME CowAssumption, NEW x, NEW p \in Proc, NEW v \in VPage, ~Keeps(p, v, x),
           \A q \in Proc, w \in VPage :
              Keeps(q, w, x)' <=> Keeps(q, w, x) \/ (q = p /\ w = v)
    PROVE  /\ Keepers(x)' = Keepers(x) \cup {<<p, v>>}
           /\ Cardinality(Keepers(x)') = Cardinality(Keepers(x)) + 1
<1>1. Keepers(x)' = Keepers(x) \cup {<<p, v>>} /\ <<p, v>> \notin Keepers(x)
    BY DEF Keepers
<1> QED BY <1>1, KeepersFinite, FS_AddElement

LEMMA KeepersLess ==
    ASSUME CowAssumption, NEW x, NEW p \in Proc, NEW v \in VPage, Keeps(p, v, x),
           \A q \in Proc, w \in VPage :
              Keeps(q, w, x)' <=> Keeps(q, w, x) /\ ~(q = p /\ w = v)
    PROVE  /\ Keepers(x)' = Keepers(x) \ {<<p, v>>} /\ <<p, v>> \in Keepers(x)
           /\ Cardinality(Keepers(x)') = Cardinality(Keepers(x)) - 1
<1>1. Keepers(x)' = Keepers(x) \ {<<p, v>>} /\ <<p, v>> \in Keepers(x)
    BY DEF Keepers
<1> QED BY <1>1, KeepersFinite, FS_RemoveElement

(* What becomes of most pages in a step.                                     *)
Settled(x) ==
    \/ Untouched(x)
    \/ \A q \in Proc, w \in VPage : pt'[q][w] # x
    \/ \E p \in Proc, v \in VPage :
          /\ count'[x] = 1 /\ at'[p] \notin {"store", "copyout"}
          /\ \A q \in Proc, w \in VPage : pt'[q][w] = x <=> q = p /\ w = v

LEMMA SettledKept ==
    ASSUME TypeOK, TypeOK', NEW x \in Page, Settled(x), PageKept(x)
    PROVE  PageKept(x)'
<1>1. CASE Untouched(x)
    BY <1>1, UntouchedKept
<1>2. CASE \A q \in Proc, w \in VPage : pt'[q][w] # x
    BY <1>2, UnmappedKept
<1>3. CASE \E p \in Proc, v \in VPage :
              /\ count'[x] = 1 /\ at'[p] \notin {"store", "copyout"}
              /\ \A q \in Proc, w \in VPage : pt'[q][w] = x <=> q = p /\ w = v
    BY <1>3, NewPageKept
<1> QED BY <1>1, <1>2, <1>3 DEF Settled

LEMMA ForkSettles ==
    ASSUME CowAssumption, Shape, NEW p \in Proc, NEW q \in Proc, Fork(p, q),
           NEW x \in Page
    PROVE  Settled(x)
<1>1. /\ TypeOK /\ UsedOnce /\ at[p] = "user" /\ at[q] = "unused"
      /\ Fresh \in free /\ count' = [count EXCEPT ![Fresh] = 1]
      /\ at' = [at EXCEPT ![p] = "fork", ![q] = "used"]
      /\ va' = [va EXCEPT ![p] = 0]
      /\ UNCHANGED <<pt, writable, refCount>>
    BY GivenFresh DEF Shape, Fork, Calls, Running
<1>2. CASE x = Fresh
    BY <1>1, <1>2 DEF Settled, UsedOnce
<1>3. CASE x # Fresh
    <2>1. \A y \in Proc, w \in VPage : GivesUp(y, w)' <=> GivesUp(y, w)
        BY <1>1 DEF GivesUp, TypeOK
    <2>2. Untouched(x)
        BY <1>1, <1>3, <2>1 DEF Untouched, TypeOK
    <2> QED BY <2>2 DEF Settled
<1> QED BY <1>2, <1>3

LEMMA WriteSettles ==
    ASSUME NEW p \in Proc, NEW v \in VPage, NEW d \in Data, Write(p, v, d),
           NEW x \in Page
    PROVE  Settled(x)
BY DEF Write, Settled, Untouched, GivesUp, space, control

LEMMA CountSettles ==
    ASSUME Shape, NEW p \in Proc, GetNumFreePages(p), NEW x \in Page
    PROVE  Settled(x)
<1>1. /\ TypeOK /\ at[p] = "user" /\ at' = [at EXCEPT ![p] = "counting"]
      /\ UNCHANGED <<count, pt, writable, va, refCount>>
    BY DEF Shape, GetNumFreePages, Calls, space
<1>2. \A y \in Proc, w \in VPage : GivesUp(y, w)' <=> GivesUp(y, w)
    BY <1>1 DEF GivesUp, TypeOK
<1> QED BY <1>1, <1>2 DEF Settled, Untouched

LEMMA ShrinkSettles ==
    ASSUME CowAssumption, Shape, NEW p \in Proc, Shrink(p), status' = "ok",
           NEW x \in Page
    PROVE  Settled(x)
<1> PICK v \in VPage :
      /\ TypeOK /\ at[p] = "user"
      /\ pt[p][v] \in Page /\ Given({pt[p][v]}) /\ Maps(p, v, None)
      /\ writable' = [writable EXCEPT ![p] = @ \ {v}]
      /\ UNCHANGED <<count, control>>
    BY ShrinkDoes
<1>1. CASE x = pt[p][v]
    BY <1>1 DEF Settled, Given
<1>2. CASE x # pt[p][v]
    <2>1. \A q \in Proc, w \in VPage : pt'[q][w] = x <=> pt[q][w] = x
        BY <1>2, Ranges DEF Maps
    <2>2. \A q \in Proc : writable'[q] \subseteq writable[q]
        BY DEF TypeOK
    <2> QED BY <2>1, <2>2 DEF Settled, Untouched, GivesUp, control
<1> QED BY <1>1, <1>2

LEMMA ExitSettles ==
    ASSUME CowAssumption, Shape, NEW p \in Proc, Exit(p), status' = "ok",
           NEW x \in Page
    PROVE  Settled(x)
<1>1. /\ TypeOK /\ at[p] \in {"user", "killed"}
      /\ Given(MappedIn(pt, p) \cup KernelPages(p))
      /\ Returned(p) /\ at'[p] = "unused" /\ UNCHANGED count
    BY ExitDoes
<1>2. /\ \A w \in VPage : pt'[p][w] = None
      /\ \A q \in Proc, w \in VPage : q # p => pt'[q][w] = pt[q][w]
      /\ \A q \in Proc : writable'[q] \subseteq writable[q]
    <2>1. /\ pt \in [Proc -> [VPage -> Page \cup {None}]]
          /\ writable \in [Proc -> SUBSET VPage]
          /\ pt' = [pt EXCEPT ![p] = [v \in VPage |-> None]]
          /\ writable' = [writable EXCEPT ![p] = {}]
        BY ExitDoes DEF TypeOK
    <2> QED BY <2>1
<1>3. CASE x \in MappedIn(pt, p)
    BY <1>1, <1>3 DEF Settled, Given
<1>4. CASE x \notin MappedIn(pt, p)
    <2>1. \A w \in VPage : pt[p][w] # x
        BY <1>4, Ranges DEF MappedIn
    <2>2. \A q \in Proc, w \in VPage : pt'[q][w] = x <=> pt[q][w] = x
        BY <1>2, <2>1, Ranges
    <2>3. \A q \in Proc, w \in VPage : pt[q][w] = x =>
             (GivesUp(q, w)' <=> GivesUp(q, w)) /\ refCount'[q] = refCount[q]
        BY <1>1, <2>1 DEF GivesUp, Returned
    <2>4. Untouched(x)
        BY <1>1, <1>2, <2>2, <2>3 DEF Untouched
    <2> QED BY <2>4 DEF Settled
<1> QED BY <1>3, <1>4

LEMMA GrowSettles ==
    ASSUME CowAssumption, Shape, NEW p \in Proc, Grow(p), NEW x \in Page
    PROVE  Settled(x)
<1> PICK v \in VPage, f \in free \cap Page :
      /\ TypeOK /\ UsedOnce /\ at[p] = "user" /\ pt[p][v] = None /\ Maps(p, v, f)
      /\ writable' = [writable EXCEPT ![p] = @ \cup {v}]
      /\ \/ /\ free' = free \ {f} /\ count' = [count EXCEPT ![f] = 1]
            /\ UNCHANGED kpage
         \/ \E g \in free \cap Page :
               /\ g # f /\ free' = free \ {f, g}
               /\ count' = [count EXCEPT ![f] = 1, ![g] = 1]
               /\ kpage[p][TableOf(v)] = None
               /\ kpage' = [kpage EXCEPT ![p][TableOf(v)] = g]
      /\ UNCHANGED control
    BY GrowDoes
<1>1. /\ count'[f] = 1
      /\ count'[x] # count[x] => x = f \/ x \in free
    BY DEF TypeOK
<1>2. \A q \in Proc, w \in VPage : pt[q][w] \notin free
    BY DEF UsedOnce
<1>3. CASE x = f
    <2>1. \A q \in Proc, w \in VPage : pt'[q][w] = x <=> q = p /\ w = v
        BY <1>2, <1>3 DEF Maps
    <2> QED BY <1>1, <1>3, <2>1 DEF Settled, control
<1>4. CASE x # f /\ x \in free
    <2>1. \A q \in Proc, w \in VPage : pt'[q][w] # x
        BY <1>2, <1>4 DEF Maps
    <2> QED BY <2>1 DEF Settled
<1>5. CASE x # f /\ x \notin free
    <2>1. \A q \in Proc, w \in VPage : pt'[q][w] = x <=> pt[q][w] = x
        BY <1>5, Ranges DEF Maps
    <2>2. \A q \in Proc, w \in VPage :
             pt[q][w] = x /\ w \in writable'[q] => w \in writable[q]
        BY Ranges DEF TypeOK
    <2>3. Untouched(x)
        BY <1>1, <1>5, <2>1, <2>2 DEF Untouched, GivesUp, control
    <2> QED BY <2>3 DEF Settled
<1> QED BY <1>3, <1>4, <1>5

LEMMA ForkPageSettles ==
    ASSUME CowAssumption, Shape, NEW p \in Proc, NEW q \in Proc,
           NEW v \in VPage, NEW pg \in Page, Copies(p, q, v, pg)
    PROVE  /\ \A y \in Proc, w \in VPage : GivesUp(y, w)' <=> GivesUp(y, w)
           /\ count'[pg] = count[pg] + 1
           /\ \A x \in Page : x # pg => Settled(x)
<1>1. /\ TypeOK /\ UsedOnce /\ at[p] = "fork" /\ at[q] = "used" /\ pt[p][v] = pg
      /\ \A x \in Proc, w \in VPage :
            pt'[x][w] = IF x = q /\ w = v THEN pg ELSE pt[x][w]
      /\ \A x \in Proc :
            writable'[x] = IF x = p THEN writable[x] \ {v} ELSE writable[x]
      /\ UNCHANGED refCount
    BY DEF Copies
<1>2. \A y \in Proc, w \in VPage : GivesUp(y, w)' <=> GivesUp(y, w)
    <2>1. CASE va' = [va EXCEPT ![p] = v + 1] /\ UNCHANGED at
        BY <2>1, <1>1 DEF GivesUp, TypeOK
    <2>2. CASE /\ va' = [va EXCEPT ![p] = 0]
               /\ at' = [at EXCEPT ![p] = "user", ![q] = "user"]
        BY <2>2, <1>1 DEF GivesUp, TypeOK
    <2> QED BY <2>1, <2>2 DEF Copies
<1>3. /\ count'[pg] = count[pg] + 1
      /\ \A x \in Page : x # pg => count'[x] = count[x] \/ x \in free
    <2>1. count \in [Page -> Int] /\ pg \notin free /\ free \subseteq Page
        BY <1>1 DEF TypeOK, UsedOnce
    <2>2. CASE count' = [count EXCEPT ![pg] = @ + 1]
        BY <2>1, <2>2
    <2>3. CASE \E f \in free : count' = [count EXCEPT ![pg] = @ + 1, ![f] = 1]
        BY <2>1, <2>3
    <2> QED BY <2>2, <2>3 DEF Copies
<1>4. ASSUME NEW x \in Page, x # pg PROVE Settled(x)
    <2>1. CASE x \in free
        <3>1. \A y \in Proc, w \in VPage : pt'[y][w] # x
            BY <1>1, <1>4, <2>1 DEF UsedOnce
        <3> QED BY <3>1 DEF Settled
    <2>2. CASE x \notin free
        <3>1. \A y \in Proc, w \in VPage : pt'[y][w] = x => pt[y][w] = x
            BY <1>1, <1>4
        <3>2. \A y \in Proc, w \in VPage : pt[y][w] = x => pt'[y][w] = x \/ (y = q /\ w = v)
            BY <1>1, <1>4
        <3>3. pt[q][v] = None
            BY Ranges DEF Copies, ChildFits
        <3>4. \A y \in Proc : writable'[y] \subseteq writable[y]
            BY <1>1
        <3>5. Untouched(x)
            BY <1>1, <1>2, <1>3, <1>4, <2>2, <3>1, <3>2, <3>3, <3>4, Ranges DEF Untouched
        <3> QED BY <3>5 DEF Settled
    <2> QED BY <2>1, <2>2
<1> QED BY <1>2, <1>3, <1>4

LEMMA ForkPageKept ==
    ASSUME CowAssumption, Shape, Shape', NEW p \in Proc, ForkPage(p),
           NEW x \in Page, PageKept(x)
    PROVE  PageKept(x)'
<1> PICK q \in Proc, v \in VPage, pg \in Page : Copies(p, q, v, pg)
    BY ForkPageDoes
<1>1. /\ \A y \in Proc, w \in VPage : GivesUp(y, w)' <=> GivesUp(y, w)
      /\ count'[pg] = count[pg] + 1
      /\ \A y \in Page : y # pg => Settled(y)
    BY ForkPageSettles
<1>2. TypeOK /\ TypeOK'
    BY DEF Shape
<1>3. CASE x # pg
    BY <1>1, <1>2, <1>3, SettledKept
<1>4. CASE x = pg
    <2>1. /\ at[p] = "fork" /\ at[q] = "used" /\ pt[p][v] = pg /\ p # q
          /\ \A y \in Proc, w \in VPage :
                pt'[y][w] = IF y = q /\ w = v THEN pg ELSE pt[y][w]
          /\ \A y \in Proc :
                writable'[y] = IF y = p THEN writable[y] \ {v} ELSE writable[y]
          /\ UNCHANGED refCount
        BY DEF Copies
    <2>2. pt[q][v] = None /\ writable[q] = {} /\ pg # None
        BY Ranges DEF Copies, ChildFits, SpaceFits, SpaceOf
    <2>3. /\ Keepers(pg)' = Keepers(pg) \cup {<<q, v>>}
          /\ Cardinality(Keepers(pg)') = Cardinality(Keepers(pg)) + 1
        <3>1. ~Keeps(q, v, pg)
            BY <2>2 DEF Keeps
        <3>2. \A y \in Proc, w \in VPage :
                 Keeps(y, w, pg)' <=> Keeps(y, w, pg) \/ (y = q /\ w = v)
            BY <1>1, <2>1 DEF Keeps, GivesUp
        <3> QED BY <3>1, <3>2, KeepersMore
    <2>4. <<p, v>> \in Keepers(pg) /\ InUse(pg)
        BY <2>1 DEF Keepers, Keeps, GivesUp, InUse
    <2>5. Leaving(pg)' = Leaving(pg)
        <3>1. \A y \in Proc : at[y] \in {"store", "copyout"} <=> at'[y] \in {"store", "copyout"}
            <4>1. \A y \in Proc : va[y] \in VPage /\ va'[y] \in VPage
                BY <1>2 DEF TypeOK
            <4> QED BY <1>1, <4>1 DEF GivesUp
        <3>2. \A y \in Proc : at[y] \in {"store", "copyout"} => va'[y] = va[y]
            <4>1. \A y \in Proc : va[y] \in VPage /\ va'[y] \in VPage
                BY <1>2 DEF TypeOK
            <4> QED BY <1>1, <4>1 DEF GivesUp
        <3>3. \A y \in Proc : at[y] \in {"store", "copyout"} =>
                  y # q /\ va[y] \in VPage
            BY <2>1, <1>2 DEF TypeOK
        <3> QED BY <2>1, <3>1, <3>2, <3>3 DEF Leaving
    <2>6. count[pg] \in Int /\ Cardinality(Keepers(pg)) \in Nat
        BY <1>2, KeepersFinite DEF TypeOK
    <2> QED
        BY <1>1, <1>4, <2>1, <2>3, <2>4, <2>5, <2>6 DEF PageKept, Successor
<1> QED BY <1>3, <1>4

LEMMA DecrementKept ==
    ASSUME CowAssumption, Shape, Shape', NEW p \in Proc, NEW v \in VPage,
           NEW op \in {"store", "copyout"}, Decrement(p, v, op), NEW x \in Page, PageKept(x)
    PROVE  PageKept(x)'
<1>0. TypeOK /\ pt[p][v] # None
    BY DEF Shape, Decrement
<1> PICK pg \in Page : pg = pt[p][v]
    BY <1>0 DEF TypeOK
<1>1. /\ TypeOK /\ TypeOK' /\ at[p] = "user" /\ v \notin writable[p]
      /\ count' = [count EXCEPT ![pg] = @ - 1]
      /\ refCount' = [refCount EXCEPT ![p] = count[pg] - 1]
      /\ writable' = [writable EXCEPT ![p] = @ \cup {v}]
      /\ va' = [va EXCEPT ![p] = v] /\ at' = [at EXCEPT ![p] = op]
      /\ UNCHANGED pt
    BY DEF Shape, Decrement, Calls
<1>3. /\ at'[p] = op /\ va'[p] = v /\ refCount'[p] = count[pg] - 1
      /\ count'[pg] = count[pg] - 1 /\ count[pg] \in Int
      /\ \A y \in Proc : y # p => /\ at'[y] = at[y] /\ va'[y] = va[y]
                                  /\ refCount'[y] = refCount[y]
                                  /\ writable'[y] = writable[y]
      /\ writable'[p] = writable[p] \cup {v}
      /\ \A y \in Page : y # pg => count'[y] = count[y]
    BY <1>1 DEF TypeOK
<1>4. \A y \in Proc, w \in VPage : GivesUp(y, w)' <=> GivesUp(y, w) \/ (y = p /\ w = v)
    BY <1>1, <1>3 DEF GivesUp
<1>5. CASE x # pg
    <2>1. Untouched(x)
        <3>1. ASSUME NEW y \in Proc, NEW w \in VPage, pt[y][w] = x
              PROVE  /\ GivesUp(y, w)' <=> GivesUp(y, w)
                     /\ GivesUp(y, w) => refCount'[y] = refCount[y]
            <4>1. ~(y = p /\ w = v)
                BY <1>5, <3>1
            <4>2. ~GivesUp(p, w)
                BY <1>1 DEF GivesUp
            <4> QED BY <1>3, <1>4, <4>1, <4>2
        <3> QED BY <1>1, <1>3, <1>5, <3>1 DEF Untouched
    <2> QED BY <1>1, <2>1, UntouchedKept
<1>6. CASE x = pg
    <2>1. /\ Keepers(pg)' = Keepers(pg) \ {<<p, v>>} /\ <<p, v>> \in Keepers(pg)
          /\ Cardinality(Keepers(pg)') = Cardinality(Keepers(pg)) - 1
        <3>1. Keeps(p, v, pg)
            BY <1>1 DEF Keeps, GivesUp
        <3>2. \A y \in Proc, w \in VPage :
                 Keeps(y, w, pg)' <=> Keeps(y, w, pg) /\ ~(y = p /\ w = v)
            BY <1>1, <1>4 DEF Keeps
        <3> QED BY <3>1, <3>2, KeepersLess
    <2>2. InUse(pg)
        BY DEF InUse
    <2>3. /\ Leaving(pg)' = Leaving(pg) \cup {p} /\ p \notin Leaving(pg)
          /\ \A y \in Leaving(pg) : refCount'[y] = refCount[y]
        <3>1. p \notin Leaving(pg)
            BY <1>1 DEF Leaving
        <3>2. pt'[p][va'[p]] = pg
            BY <1>1, <1>3
        <3> QED BY <1>1, <1>3, <3>1, <3>2 DEF Leaving
    <2>4. /\ Cardinality(Keepers(pg)) \in Nat
          /\ Cardinality(Keepers(pg)') \in Nat
          /\ Cardinality(Keepers(pg)') > 0 => Keepers(pg)' # {}
          /\ Cardinality(Keepers(pg)') = 0 => Keepers(pg)' = {}
        BY KeepersFinite, KeepersFiniteNext, FS_EmptySet
    <2>5. ASSUME PageKept(pg) PROVE PageKept(pg)'
        <3>1. count'[pg] <= Cardinality(Keepers(pg)')
            BY <1>3, <2>1, <2>2, <2>4, <2>5 DEF PageKept
        <3>2. Successor(pg)'
            <4>1. CASE refCount'[p] <= 0
                BY <4>1, <2>3 DEF Successor
            <4>2. CASE refCount'[p] > 0
                <5>1. Keepers(pg)' # {}
                    BY <4>2, <3>1, <1>3, <2>4
                <5> QED BY <5>1 DEF Successor
            <4>3. refCount'[p] \in Int
                BY <1>3
            <4> QED BY <4>1, <4>2, <4>3
        <3> QED BY <3>1, <3>2 DEF PageKept
    <2> QED BY <1>6, <2>5
<1> QED BY <1>5, <1>6

LEMMA TakeInPlaceKept ==
    ASSUME CowAssumption, Shape, Shape', NEW p \in Proc, TakeInPlace(p),
           NEW x \in Page, PageKept(x)
    PROVE  PageKept(x)'
<1>0. /\ TypeOK /\ SpaceFits /\ at[p] \in {"store", "copyout"}
    BY DEF Shape, TakeInPlace, Handling, Running
<1> PICK v \in VPage : v = va[p]
    BY <1>0 DEF TypeOK
<1> PICK pg \in Page : pg = pt[p][v]
    BY <1>0 DEF SpaceFits, SpaceOf, GivesUp, TypeOK
<1>1. /\ TypeOK /\ TypeOK' /\ status = "ok" /\ SpaceFits
      /\ at[p] \in {"store", "copyout"} /\ count' = [count EXCEPT ![pg] = 1]
      /\ ~ToCopy(p) /\ UNCHANGED <<pt, writable>>
    BY DEF Shape, TakeInPlace, Handling, Running, space
<1>2. GivesUp(p, v)
    BY <1>1 DEF GivesUp
<1>3. Returned(p) /\ at'[p] = "user"
    BY <1>1, ReturnDoes DEF TakeInPlace
<1>4. /\ count'[pg] = 1 /\ pt'[p][v] = pg
      /\ \A y \in Page : y # pg => count'[y] = count[y]
    BY <1>1, <1>2 DEF TypeOK
<1>5. \A y \in Proc, w \in VPage :
         /\ GivesUp(y, w)' <=> GivesUp(y, w) /\ ~(y = p /\ w = v)
         /\ y = p /\ GivesUp(y, w) => w = v
    BY <1>1, <1>3 DEF GivesUp, Returned
<1>6. CASE x # pg
    <2>1. Untouched(x)
        <3>1. ASSUME NEW y \in Proc, NEW w \in VPage, pt[y][w] = x
              PROVE  /\ GivesUp(y, w)' <=> GivesUp(y, w)
                     /\ GivesUp(y, w) => refCount'[y] = refCount[y]
            <4>1. ~(y = p /\ w = v)
                BY <1>6, <3>1
            <4> QED BY <1>3, <1>5, <4>1 DEF Returned
        <3> QED BY <1>1, <1>4, <1>6, <3>1 DEF Untouched
    <2> QED BY <1>1, <2>1, UntouchedKept
<1>7. CASE x = pg
    <2>1. /\ Keepers(pg)' = Keepers(pg) \cup {<<p, v>>}
          /\ Cardinality(Keepers(pg)') = Cardinality(Keepers(pg)) + 1
        <3>1. ~Keeps(p, v, pg)
            BY <1>2 DEF Keeps
        <3>2. \A y \in Proc, w \in VPage :
                 Keeps(y, w, pg)' <=> Keeps(y, w, pg) \/ (y = p /\ w = v)
            BY <1>1, <1>4, <1>5 DEF Keeps
        <3> QED BY <1>2, <3>1, <3>2, KeepersMore
    <2>2. /\ Cardinality(Keepers(pg)) \in Nat
          /\ Keepers(pg) = {} => Cardinality(Keepers(pg)) = 0
        BY KeepersFinite, FS_EmptySet
    <2>3. PageKept(pg)'
        <3>1. count'[pg] <= Cardinality(Keepers(pg)')
            BY <1>4, <2>1, <2>2
        <3>2. Keepers(pg)' # {}
            BY <2>1
        <3> QED BY <3>1, <3>2 DEF PageKept, Successor
    <2> QED BY <1>7, <2>3
<1> QED BY <1>6, <1>7

LEMMA CopyPageKept ==
    ASSUME CowAssumption, Shape, Shape', NEW p \in Proc, CopyPage(p),
           NEW x \in Page, PageKept(x)
    PROVE  PageKept(x)'
<1> PICK v \in VPage, pg \in Page, f \in free \cap Page :
      /\ v = va[p] /\ pg = pt[p][v] /\ refCount[p] > 0
      /\ count' = [count EXCEPT ![f] = 1] /\ Maps(p, v, f)
      /\ writable' = writable
    BY CopyPageDoes
<1>1. /\ TypeOK /\ TypeOK' /\ UsedOnce /\ at[p] \in {"store", "copyout"}
      /\ Returned(p) /\ at'[p] = "user"
    BY CopyPageDoes DEF Shape
<1>2. /\ count'[f] = 1
      /\ \A y \in Page : y # f => count'[y] = count[y]
    BY <1>1 DEF TypeOK
<1>3. \A q \in Proc, w \in VPage :
         /\ pt[q][w] # f
         /\ GivesUp(q, w)' <=> GivesUp(q, w) /\ ~(q = p /\ w = v)
    BY <1>1 DEF UsedOnce, GivesUp, Returned
<1>4. CASE x = f
    <2>1. \A q \in Proc, w \in VPage : pt'[q][w] = x <=> q = p /\ w = v
        BY <1>3, <1>4 DEF Maps
    <2>2. Settled(x)
        BY <1>1, <1>2, <1>4, <2>1 DEF Settled
    <2> QED BY <1>1, <2>2, SettledKept
<1>5. CASE x # f /\ x # pg
    <2>1. ASSUME NEW q \in Proc, NEW w \in VPage
          PROVE  /\ pt'[q][w] = x <=> pt[q][w] = x
                 /\ pt[q][w] = x =>
                       /\ GivesUp(q, w)' <=> GivesUp(q, w)
                       /\ GivesUp(q, w) => refCount'[q] = refCount[q]
        <3>1. CASE q = p /\ w = v
            BY <1>5, <3>1 DEF Maps
        <3>2. CASE ~(q = p /\ w = v)
            <4>1. q = p => ~GivesUp(q, w)
                BY <3>2 DEF GivesUp
            <4>2. pt'[q][w] = pt[q][w]
                BY <3>2 DEF Maps
            <4> QED BY <1>1, <1>3, <3>2, <4>1, <4>2 DEF Returned
        <3> QED BY <3>1, <3>2
    <2>2. Untouched(x)
        BY <1>2, <1>5, <2>1 DEF Untouched
    <2> QED BY <1>1, <2>2, UntouchedKept
<1>6. CASE x = pg
    <2>1. \A q \in Proc, w \in VPage : Keeps(q, w, pg)' <=> Keeps(q, w, pg)
        <3> TAKE q \in Proc, w \in VPage
        <3>1. CASE q = p /\ w = v
            BY <1>1, <1>3, <3>1 DEF Maps, Keeps, GivesUp
        <3>2. CASE ~(q = p /\ w = v)
            BY <1>3, <3>2 DEF Maps, Keeps
        <3> QED BY <3>1, <3>2
    <2>2. Keepers(pg)' = Keepers(pg)
        BY <2>1 DEF Keepers
    <2>3. /\ p \in Leaving(pg)
          /\ \A q \in Leaving(pg)' :
                q \in Leaving(pg) /\ q # p /\ refCount'[q] = refCount[q]
          /\ \A q \in Leaving(pg) : q # p => q \in Leaving(pg)' /\ refCount'[q] = refCount[q]
        <3>1. \A q \in Proc : va[q] \in VPage
            BY <1>1 DEF TypeOK
        <3> QED BY <1>1, <3>1 DEF Leaving, Returned, Maps
    <2>4. InUse(pg)' => InUse(pg)
        BY DEF InUse
    <2>5. count'[pg] = count[pg]
        BY <1>2, <1>3
    <2>6. ASSUME PageKept(pg) PROVE PageKept(pg)'
        <3>1. Successor(pg)'
            <4> SUFFICES ASSUME NEW q \in Leaving(pg)', refCount'[q] > 0
                         PROVE  \/ Keepers(pg)' # {}
                                \/ \E r \in Leaving(pg)' : refCount'[r] <= 0
                BY DEF Successor
            <4>1. q \in Leaving(pg) /\ refCount[q] > 0
                BY <2>3
            <4>2. CASE \E r \in Leaving(pg) : refCount[r] <= 0
                <5> PICK r \in Leaving(pg) : refCount[r] <= 0
                    BY <4>2
                <5>1. r # p
                    BY <1>1 DEF TypeOK
                <5> QED BY <5>1, <2>3
            <4> QED BY <4>1, <4>2, <2>2, <2>6 DEF PageKept, Successor
        <3> QED BY <2>2, <2>4, <2>5, <2>6, <3>1 DEF PageKept
    <2> QED BY <1>6, <2>6
<1> QED BY <1>4, <1>5, <1>6

(* Virtual page 0 of p is gone, and the page that p faulted on is kept.      *)
LEMMA NoPageKept ==
    ASSUME CowAssumption, Shape, Shape', NEW p \in Proc, NoPageToCopy(p),
           status' = "ok", NEW x \in Page, PageKept(x)
    PROVE  PageKept(x)'
<1> PICK g \in Page :
      /\ g = pt[p][0] /\ Given({g}) /\ Maps(p, 0, None)
      /\ writable' = [writable EXCEPT ![p] = @ \ {0}]
    BY NoPageDoes
<1>0. /\ TypeOK /\ TypeOK' /\ SpaceFits /\ at[p] \in {"store", "copyout"}
      /\ Returned(p) /\ at'[p] \in {"user", "killed"} /\ UNCHANGED count
    BY NoPageDoes DEF Shape
<1> PICK v \in VPage : v = va[p]
    BY <1>0 DEF TypeOK
<1>1. \A q \in Proc, w \in VPage :
         /\ GivesUp(q, w)' <=> GivesUp(q, w) /\ ~(q = p /\ w = v)
         /\ q = p /\ GivesUp(q, w) => w = v
         /\ w \in writable'[q] => w \in writable[q]
    BY <1>0 DEF GivesUp, Returned, TypeOK
<1>2. CASE x = g
    BY <1>0, <1>2, SettledKept DEF Settled, Given
<1>3. CASE x # g
    <2>1. \A q \in Proc, w \in VPage : pt'[q][w] = x <=> pt[q][w] = x
        BY <1>3, Ranges DEF Maps
    <2>2. CASE x # pt[p][v]
        <3>1. Untouched(x)
            BY <1>0, <1>1, <2>1, <2>2 DEF Untouched, Returned
        <3> QED BY <1>0, <3>1, UntouchedKept
    <2>3. CASE x = pt[p][v]
        <3>1. /\ Keepers(x)' = Keepers(x) \cup {<<p, v>>}
              /\ Cardinality(Keepers(x)') = Cardinality(Keepers(x)) + 1
            <4>1. ~Keeps(p, v, x)
                BY <1>0 DEF Keeps, GivesUp
            <4>2. \A q \in Proc, w \in VPage :
                     Keeps(q, w, x)' <=> Keeps(q, w, x) \/ (q = p /\ w = v)
                BY <1>1, <2>1, <2>3 DEF Keeps
            <4> QED BY <4>1, <4>2, KeepersMore
        <3>2. Cardinality(Keepers(x)) \in Nat /\ count[x] \in Int
            BY <1>0, KeepersFinite DEF TypeOK
        <3>3. InUse(x)
            BY <2>3 DEF InUse
        <3>4. count'[x] <= Cardinality(Keepers(x)')
            BY <1>0, <3>1, <3>2, <3>3 DEF PageKept
        <3>5. Keepers(x)' # {}
            BY <3>1
        <3> QED BY <3>4, <3>5 DEF PageKept, Successor
    <2> QED BY <2>2, <2>3
<1> QED BY <1>2, <1>3

-----------------------------------------------------------------------------
(* No page gets lost.                                                        *)

LEMMA ForkAccounts ==
    ASSUME CowAssumption, Shape, NEW p \in Proc, NEW q \in Proc, Fork(p, q),
           NEW x \in Page, HasUse(x)
    PROVE  HasUse(x)'
<1>1. /\ Fresh \in Page /\ free' = free \ {Fresh} /\ UNCHANGED pt
      /\ kpage' = [kpage EXCEPT ![q][0] = Fresh]
      /\ kpage \in [Proc -> [Slot -> Page \cup {None}]]
      /\ at[q] = "unused" /\ SpaceFits
    BY GivenFresh DEF Shape, TypeOK, Fork, Calls, Running
<1>2. kpage[q][0] = None /\ 0 \in Slot /\ x # None
    BY <1>1, Ranges DEF SpaceFits, SpaceOf
<1>3. CASE x = Fresh
    BY <1>1, <1>2, <1>3 DEF HasUse, Kernel
<1>4. CASE x # Fresh
    <2>1. Kernel(x) => Kernel(x)'
        BY <1>1, <1>2, <1>4 DEF Kernel
    <2> QED BY <1>1, <1>4, <2>1 DEF HasUse, InUse
<1> QED BY <1>3, <1>4

LEMMA ForkPageAccounts ==
    ASSUME CowAssumption, Shape, NEW p \in Proc, ForkPage(p),
           NEW x \in Page, HasUse(x)
    PROVE  HasUse(x)'
<1> PICK q \in Proc, v \in VPage, pg \in Page : Copies(p, q, v, pg)
    BY ForkPageDoes
<1>1. /\ kpage \in [Proc -> [Slot -> Page \cup {None}]]
      /\ TableOf(v) \in Slot /\ x # None
    BY TableSlot, Ranges DEF Copies, TypeOK
<1>2. InUse(x) => InUse(x)'
    <2>1. pt[q][v] = None
        BY Ranges DEF Copies, ChildFits
    <2> QED BY <1>1, <2>1 DEF InUse, Copies
<1>3. CASE UNCHANGED <<free, kpage>>
    BY <1>2, <1>3 DEF HasUse, Kernel
<1>4. CASE \E f \in free : /\ f \in Page /\ free' = free \ {f}
                           /\ kpage[q][TableOf(v)] = None
                           /\ kpage' = [kpage EXCEPT ![q][TableOf(v)] = f]
    <2> PICK f \in free : /\ f \in Page /\ free' = free \ {f}
                          /\ kpage[q][TableOf(v)] = None
                          /\ kpage' = [kpage EXCEPT ![q][TableOf(v)] = f]
        BY <1>4
    <2>1. CASE x = f
        BY <1>1, <2>1 DEF HasUse, Kernel
    <2>2. CASE x # f
        <3>1. Kernel(x) => Kernel(x)'
            BY <1>1 DEF Kernel
        <3> QED BY <1>2, <2>2, <3>1 DEF HasUse
    <2> QED BY <2>1, <2>2
<1> QED BY <1>3, <1>4 DEF Copies

(* The copy leaves the page to its successor.                                *)
LEMMA CopyPageAccounts ==
    ASSUME CowAssumption, Shape, NEW p \in Proc, CopyPage(p),
           NEW x \in Page, HasUse(x), PageKept(x)
    PROVE  HasUse(x)'
<1> PICK v \in VPage, f \in free \cap Page :
      /\ v = va[p] /\ refCount[p] > 0 /\ free' = free \ {f} /\ Maps(p, v, f)
      /\ at[p] \in {"store", "copyout"} /\ TypeOK /\ UNCHANGED kpage
    BY CopyPageDoes
<1>1. CASE x = f
    BY <1>1 DEF HasUse, InUse, Maps
<1>2. CASE x # f /\ pt[p][v] # x
    <2>1. InUse(x) => InUse(x)'
        BY <1>2 DEF InUse, Maps
    <2> QED BY <1>2, <2>1 DEF HasUse, Kernel
<1>3. CASE pt[p][v] = x
    <2>1. p \in Leaving(x)
        BY <1>3 DEF Leaving
    <2>2. CASE Keepers(x) # {}
        <3> PICK m \in Keepers(x) : TRUE
            BY <2>2
        <3>1. /\ m[1] \in Proc /\ m[2] \in VPage /\ pt[m[1]][m[2]] = x
              /\ ~GivesUp(m[1], m[2])
            BY DEF Keepers, Keeps
        <3>2. m[1] # p \/ m[2] # v
            BY <3>1 DEF GivesUp
        <3>3. pt'[m[1]][m[2]] = x
            BY <3>1, <3>2 DEF Maps
        <3> QED BY <3>1, <3>3 DEF HasUse, InUse
    <2>3. CASE \E q \in Leaving(x) : refCount[q] <= 0
        <3> PICK q \in Leaving(x) : refCount[q] <= 0
            BY <2>3
        <3>1. /\ q \in Proc /\ q # p /\ pt[q][va[q]] = x /\ va[q] \in VPage
            BY DEF Leaving, TypeOK
        <3>2. pt'[q][va[q]] = x
            BY <3>1 DEF Maps
        <3> QED BY <3>1, <3>2 DEF HasUse, InUse
    <2> QED BY <2>1, <2>2, <2>3 DEF PageKept, Successor
<1> QED BY <1>1, <1>2, <1>3

LEMMA NoPageAccounts ==
    ASSUME CowAssumption, Shape, NEW p \in Proc, NoPageToCopy(p),
           NEW x \in Page, HasUse(x)
    PROVE  HasUse(x)'
<1>1. /\ Given({pt[p][0]}) /\ Maps(p, 0, None) /\ UNCHANGED kpage
    BY NoPageDoes
<1>2. InUse(x) => x = pt[p][0] \/ InUse(x)'
    BY <1>1 DEF InUse, Maps
<1> QED BY <1>1, <1>2 DEF HasUse, Kernel, Given

LEMMA ShrinkAccounts ==
    ASSUME CowAssumption, Shape, NEW p \in Proc, Shrink(p),
           NEW x \in Page, HasUse(x)
    PROVE  HasUse(x)'
<1> PICK v \in VPage :
      Given({pt[p][v]}) /\ Maps(p, v, None) /\ UNCHANGED kpage
    BY ShrinkDoes
<1>1. InUse(x) => x = pt[p][v] \/ InUse(x)'
    BY DEF InUse, Maps
<1> QED BY <1>1 DEF HasUse, Kernel, Given

LEMMA ExitAccounts ==
    ASSUME CowAssumption, Shape, NEW p \in Proc, Exit(p),
           NEW x \in Page, HasUse(x)
    PROVE  HasUse(x)'
<1>1. /\ TypeOK /\ Given(MappedIn(pt, p) \cup KernelPages(p))
      /\ pt' = [pt EXCEPT ![p] = [v \in VPage |-> None]]
      /\ kpage' = [kpage EXCEPT ![p] = [i \in Slot |-> None]]
    BY ExitDoes
<1>2. /\ \A q \in Proc, w \in VPage : q # p => pt'[q][w] = pt[q][w]
      /\ \A q \in Proc, i \in Slot : q # p => kpage'[q][i] = kpage[q][i]
    BY <1>1 DEF TypeOK
<1>3. InUse(x) => x \in MappedIn(pt, p) \/ InUse(x)'
    BY <1>2, Ranges DEF InUse, MappedIn
<1>4. Kernel(x) => x \in KernelPages(p) \/ Kernel(x)'
    BY <1>2, Ranges DEF Kernel, KernelPages
<1> QED BY <1>1, <1>3, <1>4 DEF HasUse, Given

LEMMA GrowAccounts ==
    ASSUME CowAssumption, Shape, NEW p \in Proc, Grow(p),
           NEW x \in Page, HasUse(x)
    PROVE  HasUse(x)'
<1> PICK v \in VPage, f \in free \cap Page :
      /\ TypeOK /\ pt[p][v] = None /\ Maps(p, v, f)
      /\ \/ /\ free' = free \ {f} /\ UNCHANGED kpage
         \/ \E g \in free \cap Page :
               /\ g # f /\ free' = free \ {f, g}
               /\ kpage[p][TableOf(v)] = None
               /\ kpage' = [kpage EXCEPT ![p][TableOf(v)] = g]
    BY GrowDoes
<1>1. InUse(x) => InUse(x)'
    BY Ranges DEF InUse, Maps
<1>2. x = f => InUse(x)'
    BY DEF InUse, Maps
<1>3. CASE free' = free \ {f} /\ UNCHANGED kpage
    BY <1>1, <1>2, <1>3 DEF HasUse, Kernel
<1>4. CASE \E g \in free \cap Page :
               /\ g # f /\ free' = free \ {f, g}
               /\ kpage[p][TableOf(v)] = None
               /\ kpage' = [kpage EXCEPT ![p][TableOf(v)] = g]
    <2> PICK g \in free \cap Page :
               /\ g # f /\ free' = free \ {f, g}
               /\ kpage[p][TableOf(v)] = None
               /\ kpage' = [kpage EXCEPT ![p][TableOf(v)] = g]
        BY <1>4
    <2>1. /\ kpage \in [Proc -> [Slot -> Page \cup {None}]]
          /\ TableOf(v) \in Slot /\ x # None
        BY TableSlot, Ranges DEF TypeOK
    <2>2. Kernel(x) => Kernel(x)'
        BY <2>1 DEF Kernel
    <2>3. x = g => Kernel(x)'
        BY <2>1 DEF Kernel
    <2> QED BY <1>1, <1>2, <2>2, <2>3 DEF HasUse
<1> QED BY <1>3, <1>4
LEMMA StepAccounts ==
    ASSUME CowAssumption, Shape, Next, "count" \notin Ops,
           \A p \in Proc : ~ForkFails(p),
           NEW x \in Page, HasUse(x), PageKept(x)
    PROVE  HasUse(x)'
<1>1. ASSUME NEW p \in Proc, NEW q \in Proc, Fork(p, q) PROVE HasUse(x)'
    BY <1>1, ForkAccounts
<1>2. ASSUME NEW p \in Proc, ForkPage(p) PROVE HasUse(x)'
    BY <1>2, ForkPageAccounts
<1>3. ASSUME Panic PROVE HasUse(x)'
    BY <1>3 DEF Panic, space, HasUse, InUse, Kernel
<1>4. ASSUME NEW p \in Proc, NEW v \in VPage, NEW op, Decrement(p, v, op)
      PROVE  HasUse(x)'
    BY <1>4 DEF Decrement, HasUse, InUse, Kernel
<1>5. ASSUME NEW p \in Proc, NEW v \in VPage, NEW d \in Data, Write(p, v, d)
      PROVE  HasUse(x)'
    BY <1>5 DEF Write, space, HasUse, InUse, Kernel
<1>6. ASSUME NEW p \in Proc, TakeInPlace(p) PROVE HasUse(x)'
    BY <1>6 DEF TakeInPlace, space, HasUse, InUse, Kernel
<1>7. ASSUME NEW p \in Proc, CopyPage(p) PROVE HasUse(x)'
    BY <1>7, CopyPageAccounts
<1>8. ASSUME NEW p \in Proc, NoPageToCopy(p) PROVE HasUse(x)'
    BY <1>8, NoPageAccounts
<1>9. ASSUME NEW p \in Proc, Grow(p) PROVE HasUse(x)'
    BY <1>9, GrowAccounts
<1>10. ASSUME NEW p \in Proc, Shrink(p) PROVE HasUse(x)'
    BY <1>10, ShrinkAccounts
<1>11. ASSUME NEW p \in Proc, Exit(p) PROVE HasUse(x)'
    BY <1>11, ExitAccounts
<1>12. ASSUME NEW p \in Proc, GetNumFreePages(p) PROVE FALSE
    BY <1>12 DEF GetNumFreePages, Calls
<1> QED
    BY <1>1, <1>2, <1>3, <1>4, <1>5, <1>6, <1>7, <1>8, <1>9, <1>10, <1>11,
       <1>12
    DEF Next, ForkPanics, StoreFault, Copyout, NoPageToUnmap, BadStore, ExitPanics

LEMMA StepShape ==
    ASSUME CowAssumption, Shape, Next
    PROVE  Shape'
<1>1. ASSUME NEW p \in Proc, NEW v \in VPage, StoreFault(p, v) \/ Copyout(p, v)
      PROVE  Shape'
    BY <1>1, DecrementShape DEF StoreFault, Copyout
<1>2. ASSUME NEW p \in Proc, ForkPanics(p) \/ NoPageToUnmap(p) \/ BadStore(p) \/ ExitPanics(p)
      PROVE  Shape'
    BY <1>2, PanicShape DEF ForkPanics, NoPageToUnmap, BadStore, ExitPanics
<1> QED
    BY <1>1, <1>2, ForkShape, ForkPageShape, ForkFailsShape, WriteShape,
       TakeInPlaceShape, CopyPageShape, NoPageShape, GrowShape, ShrinkShape,
       ExitShape, CountShape
    DEF Next

LEMMA StepPageKept ==
    ASSUME CowAssumption, Shape, Next, status' = "ok",
           \A p \in Proc : ~ForkFails(p),
           NEW x \in Page, PageKept(x)
    PROVE  PageKept(x)'
<1>0. Shape' /\ TypeOK /\ TypeOK'
    BY StepShape DEF Shape
<1>1. Settled(x) => PageKept(x)'
    BY <1>0, SettledKept
<1>2. ASSUME NEW p \in Proc, NEW q \in Proc, Fork(p, q) PROVE PageKept(x)'
    BY <1>1, <1>2, ForkSettles
<1>3. ASSUME NEW p \in Proc, ForkPage(p) PROVE PageKept(x)'
    BY <1>0, <1>3, ForkPageKept
<1>4. ASSUME NEW p \in Proc, NEW v \in VPage, StoreFault(p, v) \/ Copyout(p, v)
      PROVE  PageKept(x)'
    BY <1>0, <1>4, DecrementKept DEF StoreFault, Copyout
<1>5. ASSUME NEW p \in Proc, NEW v \in VPage, NEW d \in Data, Write(p, v, d)
      PROVE  PageKept(x)'
    BY <1>1, <1>5, WriteSettles
<1>6. ASSUME NEW p \in Proc, TakeInPlace(p) PROVE PageKept(x)'
    BY <1>0, <1>6, TakeInPlaceKept
<1>7. ASSUME NEW p \in Proc, CopyPage(p) PROVE PageKept(x)'
    BY <1>0, <1>7, CopyPageKept
<1>8. ASSUME NEW p \in Proc, NoPageToCopy(p) PROVE PageKept(x)'
    BY <1>0, <1>8, NoPageKept
<1>9. ASSUME NEW p \in Proc, Grow(p) \/ Shrink(p) \/ Exit(p) \/ GetNumFreePages(p)
      PROVE  PageKept(x)'
    BY <1>1, <1>9, GrowSettles, ShrinkSettles, ExitSettles, CountSettles
<1>10. ASSUME NEW p \in Proc, ForkPanics(p) \/ NoPageToUnmap(p) \/ BadStore(p) \/ ExitPanics(p)
       PROVE  FALSE
    BY <1>10 DEF ForkPanics, NoPageToUnmap, BadStore, ExitPanics, Panic
<1> QED
    BY <1>2, <1>3, <1>4, <1>5, <1>6, <1>7, <1>8, <1>9, <1>10 DEF Next

-----------------------------------------------------------------------------
(* There is memory.                                                          *)

(* Enough for every fork.                                                    *)
RoomToFork == Cardinality(Page) > (Cardinality(Proc) - 1) * (2 * NV + 1) + 1

(* With an empty free list, each page is at one of the 2 * NV + 1 places of  *)
(* a process.                                                                *)
LEMMA PlacesHold ==
    ASSUME CowAssumption, TypeOK, NEW S \in SUBSET Proc, NEW T \in SUBSET Page,
           \A x \in T :
              \/ \E p \in S, v \in VPage : pt[p][v] = x
              \/ \E p \in S, i \in Slot : kpage[p][i] = x
    PROVE  /\ IsFiniteSet(T) /\ Cardinality(S) \in Nat
           /\ Cardinality(T) <= Cardinality(S) * (2 * NV + 1)
<1> DEFINE Places == S \X (0..(2 * NV))
           Held(m) == IF m[2] <= NV THEN kpage[m[1]][m[2]]
                      ELSE pt[m[1]][m[2] - NV - 1]
           P == {m \in Places : Held(m) \in T}
           f == [m \in P |-> Held(m)]
<1>1. NV \in Nat /\ VPage = 0..(NV - 1) /\ Slot = 0..NV
    BY Ranges
<1>2. IsFiniteSet(S) /\ Cardinality(S) \in Nat
    BY FS_Subset, FS_CardinalityType DEF CowAssumption
<1>3. /\ IsFiniteSet(Places)
      /\ Cardinality(Places) = Cardinality(S) * (2 * NV + 1)
    <2>1. /\ IsFiniteSet(0..(2 * NV)) /\ Cardinality(0..(2 * NV)) = 2 * NV + 1
        <3>1. 2 * NV \in Int /\ ~(0 > 2 * NV) /\ 2 * NV - 0 + 1 = 2 * NV + 1
            BY <1>1
        <3> QED BY <3>1, FS_Interval
    <2> QED BY <1>2, <2>1, FS_Product
<1>4. IsFiniteSet(P) /\ Cardinality(P) <= Cardinality(Places)
    BY <1>3, FS_Subset
<1>5. ASSUME NEW x \in T PROVE \E m \in P : f[m] = x
    <2>1. CASE \E p \in S, v \in VPage : pt[p][v] = x
        <3> PICK p \in S, v \in VPage : pt[p][v] = x
            BY <2>1
        <3>1. /\ v + NV + 1 \in 0..(2 * NV) /\ ~(v + NV + 1 <= NV)
              /\ (v + NV + 1) - NV - 1 = v
            BY <1>1
        <3> DEFINE m == <<p, v + NV + 1>>
        <3>2. m \in Places /\ Held(m) = x
            BY <3>1
        <3> QED BY <3>2
    <2>2. CASE \E p \in S, i \in Slot : kpage[p][i] = x
        <3> PICK p \in S, i \in Slot : kpage[p][i] = x
            BY <2>2
        <3>1. i \in 0..(2 * NV) /\ i <= NV
            BY <1>1
        <3> DEFINE m == <<p, i>>
        <3>2. m \in Places /\ Held(m) = x
            BY <3>1
        <3> QED BY <3>2
    <2> QED BY <2>1, <2>2
<1>6. f \in [P -> T]
    OBVIOUS
<1> HIDE DEF f, P
<1>7. f \in Surjection(P, T)
    BY <1>5, <1>6 DEF Surjection
<1>8. /\ IsFiniteSet(T) /\ Cardinality(T) <= Cardinality(P)
      /\ Cardinality(T) \in Nat /\ Cardinality(P) \in Nat
    BY <1>4, <1>7, FS_Surjection, FS_CardinalityType
<1>9. Cardinality(Places) \in Nat
    BY <1>3, FS_CardinalityType
<1> HIDE DEF Places
<1> QED BY <1>2, <1>3, <1>4, <1>8, <1>9

(* A child without a page of its own has one of the kernel's at most.        *)
LEMMA ForkHasRoom ==
    ASSUME CowAssumption, Shape, Accounted, RoomToFork, NEW p \in Proc
    PROVE  ~ForkFails(p)
<1> SUFFICES ASSUME ForkFails(p) PROVE FALSE
    OBVIOUS
<1>1. /\ TypeOK /\ ChildFits /\ at[p] = "fork" /\ free = {}
      /\ MappedIn(pt, child[p]) = {}
    BY DEF Shape, ForkFails, Running
<1> PICK q \in Proc : q = child[p]
    BY <1>1 DEF ChildFits
<1>2. \A v \in VPage : pt[q][v] = None
    BY <1>1 DEF MappedIn
<1>3. va[p] = 0
    <2>1. va[p] \in Nat
        BY <1>1, Ranges DEF TypeOK
    <2>2. ~(0 < va[p])
        BY <1>1, <1>2, Ranges DEF ChildFits
    <2> QED BY <2>1, <2>2
<1>4. \A i \in Slot : i # 0 => kpage[q][i] = None
    BY <1>1, <1>3 DEF ChildFits
<1> DEFINE S == Proc \ {q}  T == Page \ {kpage[q][0]}
<1>5. \A x \in T : \/ \E y \in S, v \in VPage : pt[y][v] = x
                   \/ \E y \in S, i \in Slot : kpage[y][i] = x
    <2> TAKE x \in T
    <2>1. x # None
        BY Ranges
    <2>2. CASE InUse(x)
        BY <1>2, <2>1, <2>2 DEF InUse
    <2>3. CASE Kernel(x)
        BY <1>4, <2>1, <2>3 DEF Kernel
    <2> QED BY <1>1, <2>2, <2>3 DEF Accounted, HasUse
<1>6. Cardinality(T) <= Cardinality(S) * (2 * NV + 1)
    <2>1. S \in SUBSET Proc /\ T \in SUBSET Page
        OBVIOUS
    <2> HIDE DEF S, T
    <2> QED BY <1>1, <1>5, <2>1, PlacesHold
<1>7. Cardinality(S) = Cardinality(Proc) - 1
    BY FS_RemoveElement DEF CowAssumption
<1>8. Cardinality(Page) <= Cardinality(T) + 1
    <2>1. IsFiniteSet(Page) /\ Cardinality(Page) \in Nat
        BY FS_CardinalityType DEF CowAssumption
    <2> QED BY <2>1, FS_RemoveElement
<1>9. /\ Cardinality(Page) \in Nat /\ NV \in Nat /\ Cardinality(Proc) \in Nat
      /\ Cardinality(T) \in Nat
    BY Ranges, FS_CardinalityType, FS_RemoveElement DEF CowAssumption
<1> HIDE DEF S, T
<1> QED BY <1>6, <1>7, <1>8, <1>9 DEF RoomToFork
-----------------------------------------------------------------------------
(* The start, and every step.                                                *)

(* The three pages of the first process.                                     *)
Starts(t, g, pg) ==
    /\ t # g /\ t # pg /\ g # pg
    /\ free = Page \ {t, g, pg} /\ status = "ok"
    /\ count \in [Page -> Int] /\ count[pg] = 1
    /\ \A p \in Proc, v \in VPage :
          pt[p][v] = IF p = First /\ v = 0 THEN pg ELSE None
    /\ \A p \in Proc, i \in Slot :
          kpage[p][i] = IF p = First /\ i = 0 THEN t
                        ELSE IF p = First /\ i = 1 THEN g ELSE None
    /\ \A p \in Proc :
          /\ at[p] = IF p = First THEN "user" ELSE "unused"
          /\ sz[p] = IF p = First THEN 1 ELSE 0
          /\ writable[p] = IF p = First THEN {0} ELSE {}

LEMMA InitTyped ==
    ASSUME CowAssumption, Init
    PROVE  TypeOK /\ \E t, g, pg \in Page : Starts(t, g, pg)
<1> DEFINE t == CHOOSE x \in Page : TRUE
           g == CHOOSE x \in Page \ {t} : TRUE
           pg == CHOOSE x \in Page \ {t, g} : TRUE
<1>1. /\ status = "ok"
      /\ free = Page \ {t, g, pg}
      /\ count = [x \in Page |-> IF x \in free THEN 0 ELSE 1]
      /\ mem = [x \in Page |-> IF x = pg THEN Zero ELSE None]
      /\ pt = [p \in Proc |-> [v \in VPage |->
                  IF p = First /\ v = 0 THEN pg ELSE None]]
      /\ writable = [p \in Proc |-> IF p = First THEN {0} ELSE {}]
      /\ kpage = [p \in Proc |-> [i \in Slot |->
                     IF p = First /\ i = 0 THEN t
                     ELSE IF p = First /\ i = 1 THEN g ELSE None]]
      /\ sz = [p \in Proc |-> IF p = First THEN 1 ELSE 0]
      /\ at = [p \in Proc |-> IF p = First THEN "user" ELSE "unused"]
      /\ va = [p \in Proc |-> 0]
      /\ refCount = [p \in Proc |-> 0]
      /\ child = [p \in Proc |-> None]
      /\ expected = [p \in Proc |-> [v \in VPage |-> Zero]]
    BY DEF Init
<1>2. t \in Page /\ g \in Page /\ pg \in Page /\ t # g /\ t # pg /\ g # pg
    <2>1. /\ IsFiniteSet(Page) /\ Cardinality(Page) \in Nat
          /\ Cardinality(Page) > 2
        BY FS_CardinalityType DEF CowAssumption
    <2>2. Page # {}
        BY <2>1, FS_EmptySet
    <2>3. t \in Page
        BY <2>2
    <2>4. /\ IsFiniteSet(Page \ {t})
          /\ Cardinality(Page \ {t}) = Cardinality(Page) - 1
        BY <2>1, <2>3, FS_RemoveElement
    <2>5. Page \ {t} # {}
        BY <2>1, <2>4, FS_EmptySet
    <2>6. g \in Page \ {t}
        BY <2>5
    <2>7. /\ IsFiniteSet((Page \ {t}) \ {g})
          /\ Cardinality((Page \ {t}) \ {g}) = Cardinality(Page) - 2
        BY <2>1, <2>4, <2>6, FS_RemoveElement
    <2>8. (Page \ {t}) \ {g} # {}
        BY <2>1, <2>7, FS_EmptySet
    <2>9. pg \in Page \ {t, g}
        <3>1. Page \ {t, g} # {}
            BY <2>8
        <3> QED BY <3>1
    <2> QED BY <2>3, <2>6, <2>9
<1> HIDE DEF t, g, pg
<1>3. TypeOK
    <2>1. /\ Zero \in Data /\ NV \in Nat /\ NV > 0 /\ 0 \in VPage
        BY Ranges DEF CowAssumption
    <2> QED BY <1>1, <1>2, <2>1 DEF TypeOK
<1>4. Starts(t, g, pg)
    <2>1. pg \notin free
        BY <1>1
    <2> QED BY <1>1, <1>2, <1>3, <2>1 DEF Starts, TypeOK
<1> QED BY <1>2, <1>3, <1>4

LEMMA InitShape ==
    ASSUME CowAssumption, Init
    PROVE  Shape
<1> PICK t \in Page, g \in Page, pg \in Page : Starts(t, g, pg)
    BY InitTyped
<1>1. NV > 0 /\ NV \in Nat /\ None \notin Page /\ TypeOK
    BY Ranges, InitTyped
<1>2. SpaceFits
    <2> SUFFICES ASSUME NEW p \in Proc PROVE SpaceOf(p)
        BY DEF SpaceFits
    <2>1. \A v \in VPage : v \in Nat
        BY Ranges
    <2> QED BY <1>1, <2>1 DEF Starts, SpaceOf, GivesUp
<1>3. ChildFits
    BY DEF ChildFits, Starts
<1>4. UsedOnce
    BY <1>1 DEF UsedOnce, Starts
<1> QED BY <1>1, <1>2, <1>3, <1>4 DEF Shape

LEMMA InitKept ==
    ASSUME CowAssumption, Init
    PROVE  KeptInv
<1> PICK t \in Page, g \in Page, pg \in Page : Starts(t, g, pg)
    BY InitTyped
<1>1. /\ First \in Proc /\ 0 \in VPage /\ 0 \in Slot /\ 1 \in Slot
      /\ None \notin Page
    BY Ranges DEF CowAssumption
<1>2. Accounted
    <2>1. Kernel(t) /\ Kernel(g) /\ InUse(pg)
        BY <1>1 DEF Kernel, InUse, Starts
    <2> QED BY <2>1 DEF Accounted, HasUse, Starts
<1>3. \A p \in Proc : at[p] \in {"user", "unused"}
    BY DEF Starts
<1>4. ASSUME NEW x \in Page PROVE PageKept(x)
    <2>1. Leaving(x) = {}
        BY <1>3 DEF Leaving
    <2>2. CASE x = pg
        <3>1. Keepers(x) = {<<First, 0>>}
            <4>1. \A p \in Proc, v \in VPage : Keeps(p, v, x) <=> p = First /\ v = 0
                BY <1>1, <1>3, <2>2 DEF Keeps, GivesUp, Starts
            <4> QED BY <1>1, <4>1 DEF Keepers
        <3>2. count[x] = 1 /\ Cardinality(Keepers(x)) = 1
            BY <2>2, <3>1, FS_Singleton DEF Starts
        <3> QED BY <2>1, <3>1, <3>2 DEF PageKept, Successor
    <2>3. CASE x # pg
        <3>1. ~InUse(x) /\ Keepers(x) = {}
            BY <1>1, <2>3 DEF InUse, Keepers, Keeps, Starts
        <3> QED BY <2>1, <3>1 DEF PageKept, Successor
    <2> QED BY <2>2, <2>3
<1> QED BY <1>2, <1>4 DEF KeptInv

LEMMA NextIsOk ==
    ASSUME Next
    PROVE  status = "ok"
<1>1. ASSUME Running PROVE status = "ok"
    BY <1>1 DEF Running
<1>2. ASSUME NEW p \in Proc, NEW op, Calls(p, op) PROVE status = "ok"
    BY <1>1, <1>2 DEF Calls
<1>3. ASSUME NEW p \in Proc, NEW q \in Proc,
             Fork(p, q) \/ ForkPage(p) \/ ForkFails(p) \/ ForkPanics(p)
      PROVE  status = "ok"
    BY <1>1, <1>2, <1>3 DEF Fork, ForkPage, ForkFails, ForkPanics
<1>4. ASSUME NEW p \in Proc, NEW v \in VPage, StoreFault(p, v) \/ Copyout(p, v)
      PROVE  status = "ok"
    BY <1>2, <1>4 DEF StoreFault, Copyout, Decrement
<1>5. ASSUME NEW p \in Proc, NEW v \in VPage, NEW d \in Data, Write(p, v, d)
      PROVE  status = "ok"
    BY <1>5 DEF Write
<1>6. ASSUME NEW p \in Proc, \/ TakeInPlace(p) \/ CopyPage(p)
                             \/ NoPageToCopy(p) \/ NoPageToUnmap(p)
      PROVE  status = "ok"
    BY <1>1, <1>6 DEF TakeInPlace, CopyPage, NoPageToCopy, NoPageToUnmap, Handling
<1>7. ASSUME NEW p \in Proc, \/ BadStore(p) \/ Grow(p) \/ Shrink(p) \/ Exit(p)
                             \/ ExitPanics(p) \/ GetNumFreePages(p)
      PROVE  status = "ok"
    BY <1>1, <1>2, <1>7
    DEF BadStore, Grow, Shrink, Exit, ExitPanics, GetNumFreePages
<1> QED BY <1>3, <1>4, <1>5, <1>6, <1>7 DEF Next

LEMMA ShapeStep ==
    ASSUME CowAssumption, Shape, [Next]_vars
    PROVE  Shape'
<1>1. CASE Next
    BY <1>1, StepShape
<1>2. CASE UNCHANGED vars
    BY <1>2 DEF vars, memory, space, control, Shape, TypeOK, SpaceFits, SpaceOf,
                GivesUp, ChildFits, UsedOnce
<1> QED BY <1>1, <1>2

LEMMA SameKept ==
    ASSUME UNCHANGED vars, KeptInv
    PROVE  KeptInv'
<1>1. UNCHANGED <<free, count, status, pt, writable, kpage, at, va, refCount>>
    BY DEF vars, memory, space, control
<1>2. ASSUME NEW x PROVE Keepers(x)' = Keepers(x) /\ Leaving(x)' = Leaving(x)
    BY <1>1 DEF Keepers, Keeps, GivesUp, Leaving
<1> QED BY <1>1, <1>2 DEF KeptInv, Accounted, HasUse, InUse, Kernel, PageKept,
        Successor

LEMMA KeptStep ==
    ASSUME CowAssumption, RoomToFork, "count" \notin Ops,
           Shape, KeptInv, [Next]_vars
    PROVE  KeptInv'
<1>1. CASE Next
    <2> SUFFICES ASSUME status' = "ok"
                 PROVE  Accounted' /\ \A x \in Page : PageKept(x)'
        BY DEF KeptInv
    <2>1. Accounted /\ \A x \in Page : PageKept(x)
        BY <1>1, NextIsOk DEF KeptInv
    <2>2. \A p \in Proc : ~ForkFails(p)
        BY <2>1, ForkHasRoom
    <2>3. ASSUME NEW x \in Page PROVE HasUse(x)' /\ PageKept(x)'
        BY <1>1, <2>1, <2>2, StepAccounts, StepPageKept DEF Accounted
    <2> QED BY <2>3 DEF Accounted
<1>2. CASE UNCHANGED vars
    BY <1>2, SameKept
<1> QED BY <1>1, <1>2

-----------------------------------------------------------------------------
(* What the invariant says of the properties.                                *)

LEMMA UsedIsInUse ==
    ASSUME CowAssumption, TypeOK, NEW x
    PROVE  x \in Used <=> InUse(x) /\ x # None
BY DEF Used, MappedIn, InUse

LEMMA ShapeOneUse ==
    ASSUME CowAssumption, Shape
    PROVE  OneUse
<1> SUFFICES ASSUME status = "ok" PROVE OneUse
    BY DEF OneUse
<1>1. TypeOK /\ UsedOnce
    BY DEF Shape
<1>2. free \cap Used = {}
    BY <1>1, UsedIsInUse DEF UsedOnce, InUse
<1>3. ASSUME NEW p \in Proc PROVE KernelPages(p) \cap (free \cup Used) = {}
    BY <1>1, <1>3, UsedIsInUse DEF UsedOnce, InUse, KernelPages
<1>4. ASSUME NEW p \in Proc, NEW i \in Slot, NEW j \in Slot,
             i # j, kpage[p][i] # None
      PROVE  kpage[p][i] # kpage[p][j]
    BY <1>1, <1>4 DEF UsedOnce
<1>5. ASSUME NEW p \in Proc, NEW q \in Proc, p # q
      PROVE  KernelPages(p) \cap KernelPages(q) = {}
    BY <1>1, <1>5 DEF UsedOnce, KernelPages
<1> QED BY <1>2, <1>3, <1>4, <1>5 DEF OneUse

LEMMA HoldersKeep ==
    ASSUME CowAssumption, TypeOK, NEW x
    PROVE  Holders(x) = Cardinality(Keepers(x))
<1> DEFINE L == {<<p, va[p]>> : p \in Leaving(x)}
           f == [p \in Leaving(x) |-> <<p, va[p]>>]
<1>1. \A p \in Proc : va[p] \in VPage
    BY DEF TypeOK
<1>2. Mappings(x) = Keepers(x) \cup L
    <2>1. ASSUME NEW m \in Mappings(x), m \notin Keepers(x) PROVE m \in L
        <3>1. /\ m[1] \in Proc /\ m[2] \in VPage /\ m = <<m[1], m[2]>>
              /\ pt[m[1]][m[2]] = x /\ GivesUp(m[1], m[2])
            BY <2>1 DEF Mappings, Keepers, Keeps
        <3>2. m[1] \in Leaving(x) /\ m[2] = va[m[1]]
            BY <3>1 DEF GivesUp, Leaving
        <3> QED BY <3>1, <3>2
    <2>2. L \subseteq Mappings(x)
        BY <1>1 DEF Leaving, Mappings
    <2>3. Keepers(x) \subseteq Mappings(x)
        BY DEF Keepers, Keeps, Mappings
    <2> QED BY <2>1, <2>2, <2>3
<1>3. Keepers(x) \cap L = {}
    BY DEF Keepers, Keeps, GivesUp, Leaving
<1>4. IsFiniteSet(Leaving(x)) /\ Cardinality(Leaving(x)) \in Nat
    <2>1. Leaving(x) \in SUBSET Proc
        BY DEF Leaving
    <2> QED BY <2>1, FS_Subset, FS_CardinalityType DEF CowAssumption
<1>5. f \in Bijection(Leaving(x), L)
    BY DEF Bijection, Injection, Surjection, IsInjective
<1>6. IsFiniteSet(L) /\ Cardinality(L) = Cardinality(Leaving(x))
    <2> HIDE DEF f, L
    <2>1. ExistsBijection(Leaving(x), L)
        BY <1>5 DEF ExistsBijection
    <2> QED BY <1>4, <2>1, FS_Bijection
<1> HIDE DEF f, L
<1>7. Cardinality(Mappings(x)) = Cardinality(Keepers(x)) + Cardinality(L) - 0
    BY <1>2, <1>3, <1>6, KeepersFinite, FS_Union, FS_EmptySet
<1> QED BY <1>4, <1>6, <1>7, KeepersFinite DEF Holders

LEMMA KeptNoPageLost ==
    ASSUME CowAssumption, Shape, KeptInv
    PROVE  NoPageLost
<1> SUFFICES ASSUME status = "ok" PROVE NoPageLost
    BY DEF NoPageLost
<1>1. TypeOK /\ Accounted /\ \A x \in Page : PageKept(x)
    BY DEF Shape, KeptInv
<1>2. ASSUME NEW x \in Used PROVE count[x] <= Holders(x)
    <2>1. x \in Page /\ InUse(x)
        BY <1>1, UsedIsInUse DEF InUse, TypeOK
    <2> QED BY <1>1, <2>1, HoldersKeep DEF PageKept
<1>3. Page = free \cup Used \cup UNION {KernelPages(p) : p \in Proc}
    <2>1. ASSUME NEW x \in Page
          PROVE  x \in free \cup Used \cup UNION {KernelPages(p) : p \in Proc}
        <3>1. x # None
            BY Ranges
        <3>2. HasUse(x)
            BY <1>1 DEF Accounted
        <3>3. CASE Kernel(x)
            BY <3>1, <3>3 DEF Kernel, KernelPages
        <3> QED BY <1>1, <3>1, <3>2, <3>3, UsedIsInUse DEF HasUse
    <2>2. free \subseteq Page
        BY <1>1 DEF TypeOK
    <2>3. Used \subseteq Page
        BY <1>1 DEF TypeOK, Used, MappedIn
    <2>4. UNION {KernelPages(p) : p \in Proc} \subseteq Page
        BY <1>1 DEF TypeOK, KernelPages
    <2> QED BY <2>1, <2>2, <2>3, <2>4
<1> QED BY <1>2, <1>3 DEF NoPageLost

-----------------------------------------------------------------------------
(* The theorems.                                                             *)

(* However forks and faults fail, no page has two uses: free, mapped and the *)
(* kernel's exclude each other (kalloc.c, uvmcopy(), uvmcow(), freeproc()).  *)
THEOREM CowOneUse == CowAssumption => (Spec => [](TypeOK /\ OneUse))
<1> SUFFICES ASSUME CowAssumption PROVE Spec => [](TypeOK /\ OneUse)
    OBVIOUS
<1>1. Init => Shape
    BY InitShape
<1>2. Shape /\ [Next]_vars => Shape'
    BY ShapeStep
<1>3. Shape => TypeOK /\ OneUse
    BY ShapeOneUse DEF Shape
<1> QED BY <1>1, <1>2, <1>3, PTL DEF Spec

(* With memory for every fork no page gets lost, stores, exits and sbrk()    *)
(* included: a copy leaves the old page to somebody that frees it (uvmcow(), *)
(* copyout()).  getNumFreePages() loses one and is left out.                 *)
THEOREM CowNoPageLost ==
    CowAssumption /\ RoomToFork /\ "count" \notin Ops => (Spec => []NoPageLost)
<1> SUFFICES ASSUME CowAssumption, RoomToFork, "count" \notin Ops
             PROVE  Spec => []NoPageLost
    OBVIOUS
<1>1. Init => Shape /\ KeptInv
    BY InitShape, InitKept
<1>2. Shape /\ KeptInv /\ [Next]_vars => Shape' /\ KeptInv'
    BY ShapeStep, KeptStep
<1>3. Shape /\ KeptInv => NoPageLost
    BY KeptNoPageLost
<1> QED BY <1>1, <1>2, <1>3, PTL DEF Spec
=============================================================================
