---------------------------- MODULE KernelProofs ----------------------------
(* Proofs about the machines that KernelParts checks together: the process  *)
(* table, the sleep-locks, the pipes, the disk driver and the copy-on-write *)
(* memory.  Each step of KernelParts is one of a single machine, so each    *)
(* machine has an invariant of its own, guarded by part.                    *)
EXTENDS KernelParts, SequenceTheorems, FiniteSetTheorems, TLAPS

-----------------------------------------------------------------------------
(* Remainders.                                                               *)

LEMMA DivMod ==
    ASSUME NEW n \in Nat, NEW a \in Int, n > 0
    PROVE  a = n * (a \div n) + (a % n)
OBVIOUS

LEMMA ModBounds ==
    ASSUME NEW n \in Nat, NEW a \in Int, n > 0
    PROVE  a \div n \in Int /\ a % n \in Int /\ 0 <= a % n /\ a % n < n
OBVIOUS

LEMMA SmallMultiple ==
    ASSUME NEW n \in Nat, n > 0, NEW z \in Int, NEW d \in Int, n * z = d,
           0 - n < d, d < n
    PROVE  z = 0
<1>1. CASE z >= 1
    <2>1. n * z >= n
        BY <1>1
    <2> QED BY <2>1
<1>2. CASE z <= 0 - 1
    <2>1. n * z <= 0 - n
        BY <1>2
    <2> QED BY <2>1
<1> QED BY <1>1, <1>2

LEMMA ModUnique ==
    ASSUME NEW n \in Nat, n > 0, NEW a \in Int, NEW q \in Int, NEW r \in Int,
           a = n * q + r, 0 <= r, r < n
    PROVE  a % n = r
<1> DEFINE z == a \div n - q  d == r - (a % n)
<1>1. n * z = n * (a \div n) - n * q /\ z \in Int
    BY DivMod, ModBounds
<1>2. n * z = d /\ d \in Int /\ 0 - n < d /\ d < n
    BY <1>1, DivMod, ModBounds
<1>3. z = 0
    BY <1>1, <1>2, SmallMultiple
<1> QED BY <1>2, <1>3, DivMod, ModBounds

LEMMA ModSubtracts ==
    ASSUME NEW n \in Nat, n > 0, NEW a \in Nat, a < 2 * n
    PROVE  a % n = IF a < n THEN a ELSE a - n
<1>1. CASE a < n
    BY <1>1, ModUnique, a = n * 0 + a
<1>2. CASE a >= n
    <2>1. a = n * 1 + (a - n) /\ a - n \in Int /\ 0 <= a - n /\ a - n < n
       BY <1>2
    <2> QED BY <1>2, <2>1, ModUnique
<1> QED BY <1>1, <1>2

LEMMA NextIndex ==
    ASSUME NEW m, NEW r, m \in Nat, r \in Nat, r < m
    PROVE  (r + 1) % m = IF r + 1 < m THEN r + 1 ELSE r + 1 - m
<1>1. m > 0 /\ r + 1 \in Nat /\ r + 1 < 2 * m
    OBVIOUS
<1> QED BY <1>1, ModSubtracts

LEMMA Multiple ==
    ASSUME NEW n \in Nat, NEW m \in Nat, n > 0, m % n = 0
    PROVE  m = n * (m \div n)
OBVIOUS

LEMMA ModOfMultiple ==
    ASSUME NEW n \in Nat, n > 0, NEW m \in Nat, m % n = 0, NEW a \in Nat, a >= m
    PROVE (a - m) % n = a % n
<1>1. m = n * (m \div n) /\ m \div n \in Int
    BY Multiple, ModBounds
<1>2. a = n * (a \div n) + (a % n) /\ a \div n \in Int
    BY DivMod, ModBounds
<1> DEFINE q == a \div n - m \div n
<1>3. n * q = n * (a \div n) - n * (m \div n) /\ q \in Int
    BY <1>1, <1>2
<1>4. a - m = n * q + (a % n)
    BY <1>1, <1>2, <1>3
<1>5. a - m \in Int /\ a % n \in Int /\ 0 <= a % n /\ a % n < n
    BY ModBounds
<1> HIDE DEF q
<1> QED BY <1>3, <1>4, <1>5, ModUnique

LEMMA ModApart ==
    ASSUME NEW n \in Nat, n > 0, NEW a \in Nat, NEW b \in Nat, a < b, b - a < n
    PROVE a % n # b % n
<1> SUFFICES ASSUME a % n = b % n PROVE FALSE
  OBVIOUS
<1> DEFINE z == b \div n - a \div n
<1>1. n * z = n * (b \div n) - n * (a \div n) /\ z \in Int
    BY DivMod, ModBounds
<1>2. n * z = b - a
    BY <1>1, DivMod, ModBounds
<1>3. z = 0
    BY <1>1, <1>2, SmallMultiple
<1> QED BY <1>2, <1>3

-----------------------------------------------------------------------------
(* A ring of n cells whose counters r and w are kept modulo a multiple m of  *)
(* n: how much is in it, and what, in order.                                 *)

Filled(r, w, m) == (w + m - r) % m
Cell(r, k, m, n) == ((r + k - 1) % m) % n
Window(cells, r, u, m, n) == [k \in 1..u |-> cells[Cell(r, k, m, n)]]
PutIn(cells, w, x, n) == [cells EXCEPT ![w % n] = x]
FirstIn(cells, r, n) == <<cells[r % n]>>
Divides(n, m) == m % n = 0

LEMMA FilledIs ==
    ASSUME NEW m \in Nat, NEW r \in Nat, r < m, NEW w \in Nat, w < m
    PROVE  /\ Filled(r, w, m) = IF w >= r THEN w - r ELSE w + m - r
           /\ Filled(r, w, m) \in Nat /\ Filled(r, w, m) < m
<1>1. w + m - r \in Nat /\ w + m - r < 2 * m
    OBVIOUS
<1>2. Filled(r, w, m) = IF w + m - r < m THEN w + m - r ELSE w + m - r - m
    BY <1>1, ModSubtracts DEF Filled
<1> QED BY <1>2

(* Full and empty are told apart by the counters.                            *)
LEMMA FilledLimits ==
    ASSUME NEW m \in Nat, NEW n \in Nat, n > 0, m > n,
           NEW r \in Nat, r < m, NEW w \in Nat, w < m
    PROVE  /\ w = (r + n) % m <=> Filled(r, w, m) = n
           /\ r = w <=> Filled(r, w, m) = 0
<1>1. (r + n) % m = IF r + n < m THEN r + n ELSE r + n - m
    BY ModSubtracts
<1>2. Filled(r, w, m) = IF w >= r THEN w - r ELSE w + m - r
    BY FilledIs
<1> QED BY <1>1, <1>2

LEMMA FilledPut ==
    ASSUME NEW m \in Nat, NEW n \in Nat, n > 0, m > n,
           NEW r \in Nat, r < m, NEW w \in Nat, w < m, Filled(r, w, m) < n
    PROVE  /\ (w + 1) % m \in Nat /\ (w + 1) % m < m
           /\ Filled(r, (w + 1) % m, m) = Filled(r, w, m) + 1
<1>1. (w + 1) % m = IF w + 1 < m THEN w + 1 ELSE w + 1 - m
    BY ModSubtracts
<1>2. (w + 1) % m \in Nat /\ (w + 1) % m < m
    BY <1>1
<1>3. Filled(r, w, m) = IF w >= r THEN w - r ELSE w + m - r
    BY FilledIs
<1>4. Filled(r, (w + 1) % m, m) =
          IF (w + 1) % m >= r THEN ((w + 1) % m) - r ELSE ((w + 1) % m) + m - r
    BY <1>2, FilledIs
<1> QED BY <1>1, <1>2, <1>3, <1>4

LEMMA FilledTake ==
    ASSUME NEW m \in Nat, m > 1,
           NEW r \in Nat, r < m, NEW w \in Nat, w < m, r # w
    PROVE  /\ (r + 1) % m \in Nat /\ (r + 1) % m < m
           /\ Filled((r + 1) % m, w, m) = Filled(r, w, m) - 1
<1>1. (r + 1) % m = IF r + 1 < m THEN r + 1 ELSE r + 1 - m
    BY ModSubtracts
<1>2. (r + 1) % m \in Nat /\ (r + 1) % m < m
    BY <1>1
<1>3. Filled(r, w, m) = IF w >= r THEN w - r ELSE w + m - r
    BY FilledIs
<1>4. Filled((r + 1) % m, w, m) =
          IF w >= (r + 1) % m THEN w - ((r + 1) % m) ELSE w + m - ((r + 1) % m)
    BY <1>2, FilledIs
<1> QED BY <1>1, <1>2, <1>3, <1>4

LEMMA CellIn ==
    ASSUME NEW m \in Nat, NEW n \in Nat, n > 0, m > n, NEW r \in Nat, r < m,
           NEW k \in Nat \ {0}
    PROVE  Cell(r, k, m, n) \in 0..(n - 1)
<1>1. (r + k - 1) % m \in Int
    BY ModBounds
<1> QED BY <1>1, ModBounds DEF Cell

LEMMA WindowSeq ==
    ASSUME NEW m, NEW n, NEW r, NEW cells, NEW u,
           m \in Nat, n \in Nat, n > 0, m > n, r \in Nat, r < m,
           cells \in [0..(n - 1) -> Nat], u \in Nat
    PROVE  /\ Window(cells, r, u, m, n) \in Seq(Nat)
           /\ Len(Window(cells, r, u, m, n)) = u
<1>1. \A k \in 1..u : Cell(r, k, m, n) \in 0..(n - 1)
    <2> TAKE k \in 1..u
    <2>1. k \in Nat \ {0}
        OBVIOUS
    <2> QED BY <2>1, CellIn
<1> QED BY <1>1 DEF Window

(* The next cell to be written is none of those in use.                      *)
LEMMA CellFree ==
    ASSUME NEW m \in Nat, NEW n \in Nat, n > 0, m > n, m % n = 0,
           NEW r \in Nat, r < m, NEW w \in Nat, w < m, Filled(r, w, m) < n,
           NEW k \in 1..Filled(r, w, m)
    PROVE  Cell(r, k, m, n) # w % n
<1> DEFINE a == r + k - 1
           b == r + Filled(r, w, m)
<1>0. Filled(r, w, m) = IF w >= r THEN w - r ELSE w + m - r
    BY FilledIs
<1>1. a \in Nat /\ b \in Nat /\ a < b /\ b - a < n /\ a < 2 * m
    BY <1>0
<1>2. a % m = IF a < m THEN a ELSE a - m
    BY <1>1, ModSubtracts
<1>3. (a % m) % n = a % n
    <2>1. CASE a < m
        BY <1>2, <2>1
    <2>2. CASE a >= m
        <3>1. (a - m) % n = a % n
            BY <1>1, <2>2, ModOfMultiple
        <3> QED BY <1>1, <1>2, <2>2, <3>1
    <2> QED BY <1>1, <2>1, <2>2
<1>4. w = b \/ (w = b - m /\ b >= m)
    BY <1>0
<1>5. w % n = b % n
    <2>1. b >= m => (b - m) % n = b % n
        BY <1>1, ModOfMultiple
    <2> QED BY <1>4, <2>1
<1>6. a % n # b % n
    BY <1>1, ModApart
<1> QED BY <1>3, <1>5, <1>6 DEF Cell

LEMMA CellsFree ==
    ASSUME NEW m, NEW n, NEW r, NEW w,
           m \in Nat, n \in Nat, n > 0, m > n, Divides(n, m),
           r \in Nat, r < m, w \in Nat, w < m, Filled(r, w, m) < n
    PROVE  \A k \in 1..Filled(r, w, m) : Cell(r, k, m, n) # w % n
<1>1. m % n = 0
    BY DEF Divides
<1> QED BY <1>1, CellFree

LEMMA CellNext ==
    ASSUME NEW m \in Nat, NEW n \in Nat, n > 0, m > n,
           NEW r \in Nat, r < m, NEW w \in Nat, w < m, Filled(r, w, m) < n
    PROVE  Cell(r, Filled(r, w, m) + 1, m, n) = w % n
<1> DEFINE b == r + Filled(r, w, m)
<1>0. Filled(r, w, m) = IF w >= r THEN w - r ELSE w + m - r
    BY FilledIs
<1>1. b \in Nat /\ b < 2 * m /\ (w = b \/ w = b - m)
    BY <1>0
<1>2. b % m = w
    BY <1>1, ModSubtracts
<1>3. r + (Filled(r, w, m) + 1) - 1 = b
    BY <1>0
<1> QED BY <1>2, <1>3 DEF Cell

(* A byte that is put into a ring that is not full comes last.               *)
LEMMA RingPut ==
    ASSUME NEW m, NEW n, NEW r, NEW w, NEW cells, NEW x,
           m \in Nat, n \in Nat, n > 0, m > n, Divides(n, m),
           r \in Nat, r < m, w \in Nat, w < m, Filled(r, w, m) < n,
           cells \in [0..(n - 1) -> Nat], x \in Nat
    PROVE  Window(PutIn(cells, w, x, n), r, Filled(r, w, m) + 1, m, n)
               = Append(Window(cells, r, Filled(r, w, m), m, n), x)
<1> DEFINE u == Filled(r, w, m)
           c == [cells EXCEPT ![w % n] = x]
           s == Window(cells, r, u, m, n)
           t == Window(c, r, u + 1, m, n)
<1>0. m % n = 0
    BY DEF Divides
<1>1. u \in Nat /\ w % n \in 0..(n - 1)
    <2>1. u = IF w >= r THEN w - r ELSE w + m - r
        BY FilledIs
    <2>2. w % n \in Int /\ 0 <= w % n /\ w % n < n
        BY ModBounds
    <2> QED BY <2>1, <2>2
<1>2. \A k \in 1..(u + 1) : Cell(r, k, m, n) \in 0..(n - 1)
    <2> TAKE k \in 1..(u + 1)
    <2>1. k \in Nat \ {0}
        BY <1>1
    <2> QED BY <2>1, CellIn
<1>3. s \in Seq(Nat) /\ Len(s) = u
    <2> HIDE DEF u
    <2> QED BY <1>1, WindowSeq
<1>4. t \in Seq(Nat) /\ Len(t) = u + 1
    <2> DEFINE v == u + 1
    <2>1. c \in [0..(n - 1) -> Nat] /\ v \in Nat
        BY <1>1
    <2> HIDE DEF c
    <2>2. \A k \in 1..v : c[Cell(r, k, m, n)] \in Nat
        BY <1>2, <2>1
    <2>3. t = [k \in 1..v |-> c[Cell(r, k, m, n)]]
        BY DEF Window
    <2> HIDE DEF t, v
    <2>4. t \in Seq(Nat) /\ Len(t) = v
        BY <2>1, <2>2, <2>3
    <2> QED BY <2>4 DEF v
<1>5. \A k \in 1..u : t[k] = s[k]
    <2>0. \A k \in 1..u : Cell(r, k, m, n) # w % n
        BY CellsFree
    <2> TAKE k \in 1..u
    <2>1. Cell(r, k, m, n) # w % n
        BY <2>0
    <2> QED BY <1>1, <1>2, <2>1 DEF Window
<1>6. t[u + 1] = x
    BY <1>1, <1>2, CellNext DEF Window
<1>7. /\ Append(s, x) \in Seq(Nat) /\ Len(Append(s, x)) = u + 1
      /\ \A k \in 1..u : Append(s, x)[k] = s[k]
      /\ Append(s, x)[u + 1] = x
    BY <1>3, AppendProperties
<1> HIDE DEF s, t
<1>8. \A k \in 1..(u + 1) : t[k] = Append(s, x)[k]
    BY <1>1, <1>5, <1>6, <1>7
<1>9. t = Append(s, x)
    BY <1>4, <1>7, <1>8, SeqEqual
<1> QED BY <1>9 DEF s, t, PutIn

(* What is taken out of a ring is the first.                                 *)
LEMMA RingTake ==
    ASSUME NEW m, NEW n, NEW r, NEW w, NEW cells,
           m \in Nat, n \in Nat, n > 0, m > n,
           r \in Nat, r < m, w \in Nat, w < m, r # w,
           cells \in [0..(n - 1) -> Nat]
    PROVE  Window(cells, r, Filled(r, w, m), m, n)
               = FirstIn(cells, r, n)
                 \o Window(cells, (r + 1) % m, Filled(r, w, m) - 1, m, n)
<1> DEFINE u == Filled(r, w, m)
           s == Window(cells, r, u, m, n)
           t == Window(cells, (r + 1) % m, u - 1, m, n)
           h == <<cells[r % n]>>
<1>1. u \in Nat /\ u > 0 /\ u < m
    <2>1. u = IF w >= r THEN w - r ELSE w + m - r
        BY FilledIs
    <2> QED BY <2>1
<1>2. (r + 1) % m = IF r + 1 < m THEN r + 1 ELSE r + 1 - m
    BY NextIndex
<1>3. r % n \in 0..(n - 1) /\ r % m = r
    BY ModBounds, ModSubtracts
<1>4. \A k \in 1..u : Cell(r, k, m, n) \in 0..(n - 1)
    <2> TAKE k \in 1..u
    <2>1. k \in Nat \ {0}
        BY <1>1
    <2> QED BY <2>1, CellIn
<1>5. \A k \in 1..(u - 1) : Cell((r + 1) % m, k, m, n) = Cell(r, k + 1, m, n)
    <2> TAKE k \in 1..(u - 1)
    <2> DEFINE v == (r + 1) % m
    <2>1. v \in Nat /\ ((r + 1 < m /\ v = r + 1) \/ (r + 1 = m /\ v = 0))
        BY <1>1, <1>2
    <2>2. k \in Nat /\ k > 0 /\ k < m
        BY <1>1
    <2> HIDE DEF v
    <2>3. (v + k - 1) % m = (r + (k + 1) - 1) % m
        <3> DEFINE a == v + k - 1
                   b == r + (k + 1) - 1
        <3>1. a \in Nat /\ b \in Nat /\ a < 2 * m /\ b < 2 * m /\ m > 0
            BY <2>1, <2>2
        <3>2. \/ r + 1 < m /\ a = b
              \/ r + 1 = m /\ a = b - m /\ b >= m /\ a < m
            BY <2>1, <2>2
        <3> HIDE DEF a, b
        <3>3. a % m = IF a < m THEN a ELSE a - m
            BY <3>1, ModSubtracts
        <3>4. b % m = IF b < m THEN b ELSE b - m
            BY <3>1, ModSubtracts
        <3>5. a % m = b % m
            BY <3>1, <3>2, <3>3, <3>4
        <3> QED BY <3>5 DEF a, b
    <2> QED BY <2>3 DEF Cell, v
<1>6. s \in Seq(Nat) /\ Len(s) = u
    BY <1>1, WindowSeq
<1>7. t \in Seq(Nat) /\ Len(t) = u - 1
    <2>1. (r + 1) % m \in Nat /\ (r + 1) % m < m /\ u - 1 \in Nat
        BY <1>1, <1>2
    <2> QED BY <2>1, WindowSeq
<1>8. h \in Seq(Nat) /\ Len(h) = 1 /\ h[1] = cells[r % n]
    BY <1>3
<1>9. s[1] = cells[r % n]
    <2>1. r + 1 - 1 = r
        OBVIOUS
    <2> QED BY <1>1, <1>3, <2>1 DEF Window, Cell
<1>10. \A k \in 2..u : s[k] = t[k - 1]
    <2> TAKE k \in 2..u
    <2>1. k \in 1..u /\ k - 1 \in 1..(u - 1) /\ (k - 1) + 1 = k
        BY <1>1
    <2>2. Cell((r + 1) % m, k - 1, m, n) = Cell(r, k, m, n)
        BY <1>5, <2>1
    <2> QED BY <2>1, <2>2 DEF Window
<1> HIDE DEF s, t, h
<1>11. /\ h \o t \in Seq(Nat) /\ Len(h \o t) = u
       /\ \A k \in 1..u : (h \o t)[k] = IF k <= 1 THEN h[k] ELSE t[k - 1]
    <2>1. /\ h \o t \in Seq(Nat) /\ Len(h \o t) = Len(h) + Len(t)
          /\ \A k \in 1..(Len(h) + Len(t)) : (h \o t)[k] =
                IF k <= Len(h) THEN h[k] ELSE t[k - Len(h)]
        BY <1>7, <1>8, ConcatProperties
    <2> QED BY <1>1, <1>7, <1>8, <2>1
<1>12. \A k \in 1..u : s[k] = (h \o t)[k]
    <2> TAKE k \in 1..u
    <2>1. (h \o t)[k] = IF k <= 1 THEN h[k] ELSE t[k - 1]
        BY <1>11
    <2>2. CASE k = 1
        BY <1>8, <1>9, <2>1, <2>2
    <2>3. CASE k # 1
        <3>1. k \in 2..u /\ ~(k <= 1)
            BY <1>1, <2>3
        <3> QED BY <1>10, <2>1, <3>1
    <2> QED BY <2>2, <2>3
<1>13. s = h \o t
    BY <1>6, <1>11, <1>12, SeqEqual
<1> QED BY <1>13 DEF s, t, h, FirstIn

(* What goes in last and what comes out first, behind what came out before.  *)
LEMMA PutLast ==
    ASSUME NEW s \in Seq(Nat), NEW t \in Seq(Nat), NEW x \in Nat
    PROVE  Append(s \o t, x) = s \o Append(t, x)
<1>1. <<x>> \in Seq(Nat) /\ s \o t \in Seq(Nat)
    BY ConcatProperties
<1>2. Append(s \o t, x) = (s \o t) \o <<x>> /\ Append(t, x) = t \o <<x>>
    BY <1>1, AppendIsConcat
<1>3. (s \o t) \o <<x>> = s \o (t \o <<x>>)
    BY <1>1, ConcatAssociative
<1> QED BY <1>2, <1>3

LEMMA TakeFirst ==
    ASSUME NEW s \in Seq(Nat), NEW t \in Seq(Nat), NEW x \in Nat
    PROVE  /\ s \o (<<x>> \o t) = Append(s, x) \o t
           /\ Append(s, x) \in Seq(Nat)
<1>1. <<x>> \in Seq(Nat)
    OBVIOUS
<1>2. Append(s, x) = s \o <<x>> /\ Append(s, x) \in Seq(Nat)
    BY AppendIsConcat, AppendProperties
<1>3. (s \o <<x>>) \o t = s \o (<<x>> \o t)
    BY <1>1, ConcatAssociative
<1> QED BY <1>2, <1>3

-----------------------------------------------------------------------------
(* As many things as a function counts, one set of pairs for all.            *)

Tokens(f, S) == UNION {{p} \X (1..f[p]) : p \in S}

LEMMA TokenIn ==
    ASSUME NEW S, NEW f, NEW x
    PROVE  x \in Tokens(f, S)
               <=> \E p \in S : \E k \in 1..f[p] : x = <<p, k>>
BY DEF Tokens

LEMMA TokensAdd ==
    ASSUME NEW S, NEW f \in [S -> Nat], NEW g, NEW p \in S,
           \A q \in S : g[q] = IF q = p THEN f[p] + 1 ELSE f[q],
           IsFiniteSet(Tokens(f, S))
    PROVE  /\ IsFiniteSet(Tokens(g, S))
           /\ Cardinality(Tokens(g, S)) = Cardinality(Tokens(f, S)) + 1
<1> DEFINE y == <<p, f[p] + 1>>
<1>1. 1..g[p] = (1..f[p]) \cup {f[p] + 1}
    <2>1. g[p] = f[p] + 1 /\ f[p] \in Nat
        OBVIOUS
    <2> QED BY <2>1
<1>2. \A q \in S : q # p => 1..g[q] = 1..f[q]
    OBVIOUS
<1>3. ASSUME NEW x PROVE x \in Tokens(g, S) <=> x \in Tokens(f, S) \cup {y}
    <2>1. \A k : k \in 1..g[p] <=> k \in 1..f[p] \/ k = f[p] + 1
        BY <1>1
    <2> QED BY <1>2, <2>1, TokenIn
<1>4. Tokens(g, S) = Tokens(f, S) \cup {y}
    BY <1>3
<1>5. y \notin Tokens(f, S)
    <2>1. f[p] + 1 \notin 1..f[p]
        OBVIOUS
    <2> QED BY <2>1, TokenIn
<1> HIDE DEF y
<1>6. /\ IsFiniteSet(Tokens(f, S) \cup {y})
      /\ Cardinality(Tokens(f, S) \cup {y}) = Cardinality(Tokens(f, S)) + 1
    BY <1>5, FS_AddElement
<1> QED BY <1>4, <1>6

LEMMA TokensRemove ==
    ASSUME NEW S, NEW f \in [S -> Nat], NEW g, NEW p \in S, f[p] > 0,
           \A q \in S : g[q] = IF q = p THEN f[p] - 1 ELSE f[q],
           IsFiniteSet(Tokens(f, S))
    PROVE  /\ IsFiniteSet(Tokens(g, S))
           /\ Cardinality(Tokens(g, S)) = Cardinality(Tokens(f, S)) - 1
<1> DEFINE y == <<p, f[p]>>
<1>1. 1..g[p] = (1..f[p]) \ {f[p]}
    <2>1. g[p] = f[p] - 1 /\ f[p] \in Nat
        OBVIOUS
    <2> QED BY <2>1
<1>2. \A q \in S : q # p => 1..g[q] = 1..f[q]
    OBVIOUS
<1>3. ASSUME NEW x PROVE x \in Tokens(g, S) <=> x \in Tokens(f, S) \ {y}
    <2>1. \A k : k \in 1..g[p] <=> k \in 1..f[p] /\ k # f[p]
        BY <1>1
    <2> QED BY <1>2, <2>1, TokenIn
<1>4. Tokens(g, S) = Tokens(f, S) \ {y}
    BY <1>3
<1>5. y \in Tokens(f, S)
    <2>1. f[p] \in 1..f[p]
        OBVIOUS
    <2> QED BY <2>1, TokenIn
<1> HIDE DEF y
<1>6. /\ IsFiniteSet(Tokens(f, S) \ {y})
      /\ Cardinality(Tokens(f, S) \ {y}) = Cardinality(Tokens(f, S)) - 1
    BY <1>5, FS_RemoveElement
<1> QED BY <1>4, <1>6

LEMMA TokensSome ==
    ASSUME NEW S, NEW f \in [S -> Nat], IsFiniteSet(Tokens(f, S))
    PROVE  /\ Cardinality(Tokens(f, S)) \in Nat
           /\ Cardinality(Tokens(f, S)) = 0 <=> \A p \in S : f[p] = 0
<1>1. Cardinality(Tokens(f, S)) = 0 <=> Tokens(f, S) = {}
    BY FS_EmptySet
<1>2. (\A p \in S : f[p] = 0) => Tokens(f, S) = {}
    <2> SUFFICES ASSUME \A p \in S : f[p] = 0, NEW x \in Tokens(f, S)
                 PROVE  FALSE
        OBVIOUS
    <2>1. PICK p \in S : \E k \in 1..f[p] : x = <<p, k>>
        BY TokenIn
    <2> QED BY <2>1
<1>3. ASSUME NEW p \in S, f[p] # 0 PROVE Tokens(f, S) # {}
    <2>1. 1 \in 1..f[p]
        BY <1>3
    <2>2. <<p, 1>> \in Tokens(f, S)
        BY <2>1, TokenIn
    <2> QED BY <2>2
<1> QED BY <1>1, <1>2, <1>3, FS_CardinalityType

LEMMA TokensOnes ==
    ASSUME NEW S, IsFiniteSet(S), NEW f, \A p \in S : f[p] = 1
    PROVE  /\ IsFiniteSet(Tokens(f, S))
           /\ Cardinality(Tokens(f, S)) = Cardinality(S)
<1>1. 1..1 = {1}
    OBVIOUS
<1>2. Tokens(f, S) = S \X {1}
    BY <1>1 DEF Tokens
<1>3. IsFiniteSet({1}) /\ Cardinality({1}) = 1
    BY FS_Singleton
<1>4. Cardinality(S) \in Nat
    BY FS_CardinalityType
<1>5. /\ IsFiniteSet(S \X {1})
      /\ Cardinality(S \X {1}) = Cardinality(S) * Cardinality({1})
    BY <1>3, FS_Product
<1> QED BY <1>2, <1>3, <1>4, <1>5

-----------------------------------------------------------------------------
(* A ring whose entries are forgotten when they are taken: the place of a    *)
(* cell c is how far it is from the counter r.                               *)

Place(c, r, n) == (c - r) % n
RingFits(ring, r, w, m, n, none) ==
    /\ ring \in [0..(n - 1) -> 0..(n - 1) \cup {none}]
    /\ r \in 0..(m - 1) /\ w \in 0..(m - 1)
    /\ Filled(r, w, m) <= n
    /\ \A c \in 0..(n - 1) :
          ring[c] # none <=> Place(c, r, n) < Filled(r, w, m)
    /\ \A c, e \in 0..(n - 1) : ring[c] = ring[e] /\ ring[c] # none => c = e
InRing(d, ring, n) == \E c \in 0..(n - 1) : ring[c] = d
RingSizes(m, n, none) ==
    m \in Nat /\ n \in Nat /\ n > 0 /\ m % n = 0 /\ m > n /\ none \notin Int

(* From ring to new, d is written, or taken.                                 *)
EntryWritten(ring, new, w, n, d) ==
    /\ d \in 0..(n - 1) /\ ~InRing(d, ring, n)
    /\ new = [ring EXCEPT ![w % n] = d]
EntryTaken(ring, new, r, w, n, none, d) ==
    /\ r # w /\ d = ring[r % n]
    /\ new = [ring EXCEPT ![r % n] = none]

LEMMA PlaceIn ==
    ASSUME NEW n \in Nat, n > 0, NEW c \in Int, NEW r \in Int
    PROVE  /\ Place(c, r, n) \in Nat /\ Place(c, r, n) < n
           /\ (c - r) \div n \in Int
           /\ c - r = n * ((c - r) \div n) + Place(c, r, n)
<1> DEFINE a == c - r
<1>1. a \in Int
    OBVIOUS
<1> HIDE DEF a
<1>2. a = n * (a \div n) + (a % n) /\ a \div n \in Int /\ a % n \in Int
      /\ 0 <= a % n /\ a % n < n
    BY <1>1, DivMod, ModBounds
<1> QED BY <1>2 DEF Place, a

LEMMA PlaceUnique ==
    ASSUME NEW n \in Nat, n > 0, NEW r \in Int,
           NEW c \in 0..(n - 1), NEW e \in 0..(n - 1),
           Place(c, r, n) = Place(e, r, n)
    PROVE  c = e
<1> DEFINE A == (c - r) \div n  B == (e - r) \div n
<1>0. c \in Int /\ e \in Int
    OBVIOUS
<1>1. /\ A \in Int /\ B \in Int
      /\ c - r = n * A + Place(c, r, n) /\ e - r = n * B + Place(e, r, n)
      /\ Place(c, r, n) \in Nat /\ Place(e, r, n) \in Nat
    BY <1>0, PlaceIn, Zenon
<1> HIDE DEF A, B
<1>2. n * (A - B) = n * A - n * B
    BY <1>1
<1>3. n * (A - B) = c - e /\ A - B \in Int /\ c - e \in Int /\ 0 - n < c - e
      /\ c - e < n
    BY <1>1, <1>2
<1>4. A - B = 0
    BY <1>3, SmallMultiple
<1> QED BY <1>3, <1>4

LEMMA PlaceFirst ==
    ASSUME NEW n \in Nat, n > 0, NEW r \in Nat
    PROVE  r % n \in 0..(n - 1) /\ Place(r % n, r, n) = 0
<1> DEFINE q == r \div n
<1>1. r = n * q + (r % n) /\ q \in Int /\ r % n \in Int /\ 0 <= r % n /\ r % n < n
    BY DivMod, ModBounds
<1> HIDE DEF q
<1> DEFINE z == 0 - q  a == (r % n) - r
<1>2. n * z = 0 - n * q /\ z \in Int
    BY <1>1
<1>3. a = n * z + 0 /\ a \in Int
    BY <1>1, <1>2
<1> HIDE DEF z, a
<1>4. a % n = 0
    BY <1>2, <1>3, ModUnique
<1> QED BY <1>1, <1>4 DEF Place, a

(* Where the next entry is written.                                          *)
LEMMA PlaceLast ==
    ASSUME NEW m \in Nat, NEW n \in Nat, n > 0, m % n = 0,
           NEW r \in Nat, r < m, NEW w \in Nat, w < m,
           Filled(r, w, m) < n
    PROVE  w % n \in 0..(n - 1) /\ Place(w % n, r, n) = Filled(r, w, m)
<1> DEFINE F == Filled(r, w, m)  q == w \div n  M == m \div n
<1>1. w = n * q + (w % n) /\ q \in Int /\ w % n \in Int /\ 0 <= w % n /\ w % n < n
    BY DivMod, ModBounds
<1>2. m = n * M /\ M \in Int
    BY Multiple, ModBounds
<1>3. F = (IF w >= r THEN w - r ELSE w + m - r) /\ F \in Nat /\ F < n
    BY FilledIs
<1> HIDE DEF F, q, M
<1> DEFINE a == (w % n) - r  y == 0 - q  z == 0 - q - M
<1>4. n * y = 0 - n * q /\ n * z = 0 - n * q - n * M /\ y \in Int /\ z \in Int
    BY <1>1, <1>2
<1>5. a \in Int /\ (a = n * y + F \/ a = n * z + F)
    BY <1>1, <1>2, <1>3, <1>4
<1> HIDE DEF a, y, z
<1>6. a % n = F
    <2>1. F \in Int /\ 0 <= F
        BY <1>3
    <2>2. CASE a = n * y + F
        BY <1>3, <1>4, <1>5, <2>1, <2>2, ModUnique
    <2>3. CASE a = n * z + F
        BY <1>3, <1>4, <1>5, <2>1, <2>3, ModUnique
    <2> QED BY <1>5, <2>2, <2>3
<1> QED BY <1>1, <1>6 DEF Place, a, F

(* When the first entry is taken, every other moves up.                      *)
LEMMA PlaceNext ==
    ASSUME NEW m \in Nat, NEW n \in Nat, n > 0, m % n = 0,
           NEW r \in Nat, r < m, NEW c \in Nat
    PROVE  Place(c, (r + 1) % m, n) =
              IF Place(c, r, n) = 0 THEN n - 1 ELSE Place(c, r, n) - 1
<1> DEFINE x == Place(c, r, n)  A == (c - r) \div n  M == m \div n
           s == (r + 1) % m
<1>0. c \in Int /\ r \in Int
    OBVIOUS
<1>1. x \in Nat /\ x < n /\ A \in Int /\ c - r = n * A + x
    BY <1>0, PlaceIn, Zenon
<1>2. m = n * M /\ M \in Int
    BY Multiple, ModBounds
<1>3. s = IF r + 1 < m THEN r + 1 ELSE r + 1 - m
    BY NextIndex
<1> HIDE DEF x, A, M, s
<1> DEFINE a == c - s
<1>4. a \in Int /\ (a = n * A + x - 1 \/ a = n * A + x - 1 + n * M)
    BY <1>1, <1>2, <1>3
<1> DEFINE B == A - 1  C == A + M  E == A + M - 1  z == x - 1
<1>5. /\ n * B = n * A - n /\ n * C = n * A + n * M
      /\ n * E = n * A + n * M - n
      /\ B \in Int /\ C \in Int /\ E \in Int
    BY <1>1, <1>2
<1>6. z \in Int /\ n - 1 \in Int /\ 0 <= n - 1 /\ n - 1 < n
    BY <1>1
<1>7. CASE x = 0
    <2>1. a = n * B + (n - 1) \/ a = n * E + (n - 1)
        BY <1>1, <1>2, <1>4, <1>5, <1>7
    <2> HIDE DEF a, B, C, E
    <2>2. a = n * B + (n - 1) => a % n = n - 1
        BY <1>4, <1>5, <1>6, ModUnique
    <2>3. a = n * E + (n - 1) => a % n = n - 1
        BY <1>4, <1>5, <1>6, ModUnique
    <2>4. a % n = n - 1
        BY <2>1, <2>2, <2>3
    <2> QED BY <1>7, <2>4 DEF Place, a, x, s
<1>8. CASE x # 0
    <2>1. a = n * A + z \/ a = n * C + z
        BY <1>1, <1>2, <1>4, <1>5
    <2>2. 0 <= z /\ z < n
        BY <1>1, <1>8
    <2> HIDE DEF a, B, C, E, z
    <2>3. a = n * A + z => a % n = z
        BY <1>1, <1>4, <1>6, <2>2, ModUnique
    <2>4. a = n * C + z => a % n = z
        BY <1>4, <1>5, <1>6, <2>2, ModUnique
    <2>5. a % n = z
        BY <2>1, <2>3, <2>4
    <2> QED BY <1>8, <2>5 DEF Place, a, x, s, z
<1> QED BY <1>7, <1>8

(* A full ring has every possible entry.                                     *)
LEMMA FullHasAll ==
    ASSUME NEW n \in Nat, n > 0, NEW none, NEW ring,
           ring \in [0..(n - 1) -> 0..(n - 1) \cup {none}],
           \A c \in 0..(n - 1) : ring[c] # none,
           \A c, e \in 0..(n - 1) : ring[c] = ring[e] /\ ring[c] # none => c = e,
           NEW d \in 0..(n - 1)
    PROVE  InRing(d, ring, n)
<1> SUFFICES ASSUME ~InRing(d, ring, n) PROVE FALSE
    OBVIOUS
<1> DEFINE S == 0..(n - 1)  T == S \ {d}
<1>1. IsFiniteSet(S) /\ Cardinality(S) = n
    BY FS_Interval
<1>2. IsFiniteSet(T) /\ Cardinality(T) = n - 1
    <2>1. d \in S
        OBVIOUS
    <2> HIDE DEF S
    <2> QED BY <1>1, <2>1, FS_RemoveElement
<1>3. ring \in Injection(S, T)
    BY DEF InRing, Injection, IsInjective
<1>4. Cardinality(S) <= Cardinality(T)
    BY <1>2, <1>3, FS_Injection
<1> QED BY <1>1, <1>2, <1>4

LEMMA RingRoom ==
    ASSUME NEW m \in Nat, NEW n \in Nat, n > 0, NEW none, none \notin Int,
           NEW ring, NEW r, NEW w, RingFits(ring, r, w, m, n, none),
           NEW d \in 0..(n - 1), ~InRing(d, ring, n)
    PROVE  Filled(r, w, m) < n
<1>1. r \in Nat /\ r < m /\ w \in Nat /\ w < m /\ Filled(r, w, m) <= n
    BY DEF RingFits
<1>2. Filled(r, w, m) \in Nat
    BY <1>1, FilledIs
<1>3. CASE Filled(r, w, m) = n
    <2>1. \A c \in 0..(n - 1) : ring[c] # none
        <3> TAKE c \in 0..(n - 1)
        <3>1. Place(c, r, n) < n
            BY <1>1, c \in Int, r \in Int, PlaceIn
        <3> QED BY <1>3, <3>1 DEF RingFits
    <2>2. InRing(d, ring, n)
        BY <2>1, FullHasAll DEF RingFits
    <2> QED BY <2>2
<1> QED BY <1>1, <1>2, <1>3

LEMMA RingAdds ==
    ASSUME NEW m, NEW n, NEW none, RingSizes(m, n, none),
           NEW ring, NEW r, NEW w, RingFits(ring, r, w, m, n, none),
           NEW d, NEW new, EntryWritten(ring, new, w, n, d)
    PROVE  /\ RingFits(new, r, (w + 1) % m, m, n, none)
           /\ \A x \in 0..(n - 1) : InRing(x, new, n) <=> x = d \/ InRing(x, ring, n)
<1> DEFINE F == Filled(r, w, m)  v == (w + 1) % m  k == w % n
<1>0. /\ m \in Nat /\ n \in Nat /\ n > 0 /\ m % n = 0 /\ m > n
      /\ none \notin Int /\ d \in 0..(n - 1) /\ ~InRing(d, ring, n)
      /\ new = [ring EXCEPT ![w % n] = d]
    BY DEF RingSizes, EntryWritten
<1>1. /\ r \in Nat /\ r < m /\ w \in Nat /\ w < m
      /\ ring \in [0..(n - 1) -> 0..(n - 1) \cup {none}]
    BY <1>0 DEF RingFits
<1>2. F < n
    BY <1>0, RingRoom
<1>3. v \in Nat /\ v < m /\ Filled(r, v, m) = F + 1 /\ F \in Nat
    BY <1>0, <1>1, <1>2, FilledPut, FilledIs
<1>4. k \in 0..(n - 1) /\ Place(k, r, n) = F
    BY <1>0, <1>1, <1>2, PlaceLast
<1>5. ring[k] = none
    BY <1>0, <1>3, <1>4 DEF RingFits
<1>6. new \in [0..(n - 1) -> 0..(n - 1) \cup {none}] /\ new[k] = d
      /\ \A c \in 0..(n - 1) : c # k => new[c] = ring[c]
    BY <1>0, <1>1, <1>4
<1> HIDE DEF v, k
<1>7. ASSUME NEW c \in 0..(n - 1)
      PROVE  new[c] # none <=> Place(c, r, n) < F + 1
    <2>1. CASE c = k
        BY <1>0, <1>3, <1>4, <1>6, <2>1
    <2>2. CASE c # k
        <3>1. Place(c, r, n) # F
            BY <1>0, <1>1, <1>4, <2>2, r \in Int, PlaceUnique
        <3>2. Place(c, r, n) \in Nat
            BY <1>0, <1>1, c \in Int, r \in Int, PlaceIn
        <3>3. ring[c] # none <=> Place(c, r, n) < F
            BY <1>0 DEF RingFits
        <3> QED BY <1>0, <1>3, <1>6, <2>2, <3>1, <3>2, <3>3
    <2> QED BY <2>1, <2>2
<1>8. \A c, e \in 0..(n - 1) : new[c] = new[e] /\ new[c] # none => c = e
    BY <1>0, <1>6 DEF InRing, RingFits
<1>9. \A x \in 0..(n - 1) : InRing(x, new, n) <=> x = d \/ InRing(x, ring, n)
    BY <1>0, <1>4, <1>5, <1>6 DEF InRing
<1>10. r \in 0..(m - 1) /\ v \in 0..(m - 1) /\ F + 1 <= n
    BY <1>0, <1>1, <1>2, <1>3
<1>11. RingFits(new, r, v, m, n, none)
    BY <1>0, <1>3, <1>6, <1>7, <1>8, <1>10 DEF RingFits
<1> QED BY <1>0, <1>9, <1>11 DEF v

LEMMA RingTakes ==
    ASSUME NEW m, NEW n, NEW none, RingSizes(m, n, none),
           NEW ring, NEW r, NEW w, RingFits(ring, r, w, m, n, none),
           NEW d, NEW new, EntryTaken(ring, new, r, w, n, none, d)
    PROVE  /\ d \in 0..(n - 1) /\ InRing(d, ring, n)
           /\ RingFits(new, (r + 1) % m, w, m, n, none)
           /\ \A x \in 0..(n - 1) :
                 InRing(x, new, n) <=> x # d /\ InRing(x, ring, n)
<1> DEFINE F == Filled(r, w, m)  s == (r + 1) % m  k == r % n
<1>0. /\ m \in Nat /\ n \in Nat /\ n > 0 /\ m % n = 0 /\ m > n
      /\ none \notin Int /\ r # w
      /\ new = [ring EXCEPT ![r % n] = none]
    BY DEF RingSizes, EntryTaken
<1>1. /\ r \in Nat /\ r < m /\ w \in Nat /\ w < m /\ F <= n
      /\ ring \in [0..(n - 1) -> 0..(n - 1) \cup {none}]
    BY <1>0 DEF RingFits
<1>2. F \in Nat /\ F # 0
    <2>1. F \in Nat
        BY <1>0, <1>1, FilledIs, Zenon
    <2>2. F # 0
        BY <1>0, <1>1, FilledLimits
    <2> QED BY <2>1, <2>2
<1>3. s \in Nat /\ s < m /\ Filled(s, w, m) = F - 1
    BY <1>0, <1>1, FilledTake
<1>4. k \in 0..(n - 1) /\ Place(k, r, n) = 0
    BY <1>0, <1>1, PlaceFirst
<1>5. ring[k] # none
    BY <1>0, <1>2, <1>4 DEF RingFits
<1>6. new \in [0..(n - 1) -> 0..(n - 1) \cup {none}] /\ new[k] = none
      /\ \A c \in 0..(n - 1) : c # k => new[c] = ring[c]
    BY <1>0, <1>1, <1>4
<1> HIDE DEF s, k
<1>7. ASSUME NEW c \in 0..(n - 1)
      PROVE  new[c] # none <=> Place(c, s, n) < F - 1
    <2>1. c \in Nat
        OBVIOUS
    <2>2. Place(c, s, n) =
              IF Place(c, r, n) = 0 THEN n - 1 ELSE Place(c, r, n) - 1
        BY <1>0, <1>1, <2>1, PlaceNext DEF s
    <2>3. Place(c, r, n) \in Nat
        BY <1>0, <1>1, c \in Int, r \in Int, PlaceIn
    <2>4. CASE c = k
        BY <1>0, <1>1, <1>2, <1>4, <1>6, <2>2, <2>4
    <2>5. CASE c # k
        <3>1. Place(c, r, n) # 0
            BY <1>0, <1>1, <1>4, <2>5, r \in Int, PlaceUnique
        <3>2. ring[c] # none <=> Place(c, r, n) < F
            BY <1>0 DEF RingFits
        <3> QED BY <1>0, <1>2, <1>6, <2>2, <2>3, <2>5, <3>1, <3>2
    <2> QED BY <2>4, <2>5
<1>8. \A c, e \in 0..(n - 1) : new[c] = new[e] /\ new[c] # none => c = e
    BY <1>0, <1>6 DEF RingFits
<1>9. \A x \in 0..(n - 1) : InRing(x, new, n) <=> x # ring[k] /\ InRing(x, ring, n)
    BY <1>0, <1>4, <1>5, <1>6 DEF InRing, RingFits
<1>10. w \in 0..(m - 1) /\ s \in 0..(m - 1) /\ F - 1 <= n
    BY <1>0, <1>1, <1>2, <1>3
<1>11. RingFits(new, s, w, m, n, none)
    BY <1>0, <1>3, <1>6, <1>7, <1>8, <1>10 DEF RingFits
<1>12. ring[k] \in 0..(n - 1) /\ InRing(ring[k], ring, n)
    BY <1>0, <1>1, <1>4, <1>5 DEF InRing
<1> QED BY <1>0, <1>9, <1>11, <1>12 DEF s, k, EntryTaken

-----------------------------------------------------------------------------
(* The process table.  Its invariant is one of pairs of slots.               *)

Where == {"off", "user", "fork", "forked", "reparent", "exit", "switch",
          "wait", "sleep", "falls asleep", "woken"}
LifeTypes ==
    /\ Life!TypeOK
    /\ killed \in [Slot -> BOOLEAN] /\ newborn \in [Slot -> Slot]
    /\ nextpid \in Nat /\ nextpid > 1
    /\ pc \in [Slot -> Where]

(* wait_lock belongs to who scans the table, and the p->lock of a process is *)
(* taken while it leaves its core.                                           *)
LifeLocksTaken(p) ==
    /\ held["wait_lock"] = p
          <=> pc[p] \in {"reparent", "exit", "wait", "sleep"}
    /\ plock[p] = IF pc[p] \in {"falls asleep", "switch"} THEN p ELSE Nil

(* Where a process can be in each state; who sleeps does so on itself.       *)
StateFits(p) ==
    /\ state[p] \in {"UNUSED", "USED"} => pc[p] = "off"
    /\ state[p] = "RUNNABLE" => pc[p] \in {"user", "woken"}
    /\ state[p] = "SLEEPING" => pc[p] = "woken" /\ chan[p] = p
    /\ state[p] = "RUNNING" => pc[p] \notin {"off", "switch"}
    /\ state[p] = "ZOMBIE" => pc[p] \in {"off", "switch"}

(* fork() has a slot that is in use and not yet alive, and each its own.     *)
Forking(p) == pc[p] \in {"fork", "forked"}
NewbornKept(p) ==
    Forking(p) => /\ state[newborn[p]] = "USED"
                  /\ parent[newborn[p]] = IF pc[p] = "fork" THEN Nil ELSE p
ForksApart(p, q) ==
    Forking(p) /\ Forking(q) /\ newborn[p] = newborn[q] => p = q

(* Init lives and does not exit.                                             *)
Alive(p) == state[p] \in Life!Lives
InitLives == Alive(0) /\ pc[0] \notin {"reparent", "exit"}

(* Whoever is a parent lives, and all that live or ended have one but init.  *)
HasParent(q) ==
    /\ q # 0 /\ (Alive(q) \/ state[q] = "ZOMBIE") => parent[q] # Nil
    /\ state[q] = "UNUSED" => parent[q] = Nil
ParentLives(p, q) == parent[q] = p => Alive(p)

(* exit() leaves no child behind what it scanned.                            *)
Reparented(p, q) ==
    parent[q] = p => /\ pc[p] = "reparent" => scan[p] <= q
                     /\ pc[p] # "exit"

PidsGiven(p, q) ==
    /\ p # q /\ pid[p] = pid[q] => pid[p] = 0
    /\ pid[p] = 0 <=> state[p] = "UNUSED"
    /\ pid[p] < nextpid

(* A parent looks at each child before it sleeps, and it is awake when a     *)
(* child is about to end.                                                    *)
ZombieSeen(p, q) ==
    parent[q] = p =>
        /\ state[q] = "ZOMBIE" =>
              /\ state[p] # "SLEEPING"
              /\ pc[p] \notin {"sleep", "falls asleep"}
              /\ pc[p] = "wait" => scan[p] <= q
        /\ pc[q] = "exit" => state[p] # "SLEEPING" /\ pc[p] # "falls asleep"

LifePair(p, q) ==
    /\ LifeLocksTaken(p) /\ StateFits(p)
    /\ NewbornKept(p) /\ ForksApart(p, q)
    /\ HasParent(p) /\ ParentLives(p, q)
    /\ Reparented(p, q) /\ PidsGiven(p, q) /\ ZombieSeen(p, q)

LifeInv == LifeTypes /\ InitLives /\ \A p, q \in Slot : LifePair(p, q)

LEMMA SlotCount ==
    /\ Life!Cardinality(Slot) = NPROC
    /\ NPROC \in Nat \ {0} /\ MaxPid \in Nat \ {0}
<1>1. Cardinality(Slot) = NPROC
    BY FS_Interval, KernelAssumption DEF KernelAssumption, Slot
<1>2. Life!Cardinality(Slot) = Cardinality(Slot)
    BY DEF Life!Cardinality, Cardinality
<1> QED
    BY <1>1, <1>2, KernelAssumption DEF KernelAssumption, Life!ProcLifeAssumption

LEMMA SlotBounds ==
    \A q \in Slot : q \in Int /\ 0 <= q /\ q < NPROC
BY SlotCount DEF Slot

LEMMA NilNotSlot == Nil \notin Slot /\ 0 \in Slot
BY KernelAssumption DEF KernelAssumption, Life!SleepWakeupAssumption, Slot

LEMMA LifeInit == Life!Init => LifeInv
<1> SUFFICES ASSUME Life!Init PROVE LifeInv
    OBVIOUS
<1>1. LifeTypes
    <2>1. pid \in [Slot -> 0..MaxPid] /\ scan \in [Slot -> 0..Life!Cardinality(Slot)]
        BY SlotCount DEF Life!Init
    <2> QED
        BY <2>1, NilNotSlot
           DEF Life!Init, LifeTypes, Life!TypeOK, Where, Life!initproc
<1>2. InitLives
    BY NilNotSlot DEF Life!Init, InitLives, Alive, Life!Lives, Life!initproc
<1>3. ASSUME NEW p \in Slot, NEW q \in Slot
      PROVE  LifePair(p, q)
    BY NilNotSlot
       DEF Life!Init, LifePair, LifeLocksTaken, StateFits, NewbornKept, Forking,
           ForksApart, HasParent, Alive, Life!Lives, ParentLives, Reparented,
           PidsGiven, ZombieSeen, Life!initproc
<1> QED BY <1>1, <1>2, <1>3 DEF LifeInv

LEMMA Typed ==
    ASSUME LifeInv
    PROVE  /\ held["wait_lock"] \in Slot \cup {Nil}
           /\ newborn \in [Slot -> Slot] /\ nextpid \in Nat /\ nextpid > 1
           /\ \A q \in Slot : /\ parent[q] \in Slot \cup {Nil}
                              /\ pid[q] \in Nat /\ scan[q] \in 0..NPROC
<1>1. /\ held["wait_lock"] \in Slot \cup {Nil}
      /\ \A q \in Slot : parent[q] \in Slot \cup {Nil}
    BY DEF LifeInv, LifeTypes, Life!TypeOK
<1>2. newborn \in [Slot -> Slot] /\ nextpid \in Nat /\ nextpid > 1
    BY DEF LifeInv, LifeTypes
<1>3. \A q \in Slot : pid[q] \in 0..MaxPid /\ scan[q] \in 0..NPROC
    BY SlotCount DEF LifeInv, LifeTypes, Life!TypeOK
<1> QED BY <1>1, <1>2, <1>3, SlotCount

LEMMA LifeNext ==
    ASSUME LifeInv, Life!Next
    PROVE  LifeInv'
<1> SUFFICES ASSUME NEW p \in Slot,
                    \/ \E q \in Slot : Life!allocproc(p, q) \/ Life!kill(p, q)
                    \/ Life!SetParent(p) \/ Life!StartChild(p)
                    \/ Life!ExitLocks(p) \/ Life!Exits(p)
                    \/ Life!WaitLocks(p) \/ Life!Waits(p)
                    \/ Life!scheduler(p)
             PROVE  LifeInv'
    BY DEF Life!Next
<1>1. ASSUME NEW q \in Slot, Life!allocproc(p, q) PROVE LifeInv'
    <2>1. /\ state[p] = "RUNNING" /\ pc[p] = "user"
          /\ state[q] = "UNUSED" /\ plock[q] = Nil
          /\ \A r \in Slot : state'[r] = IF r = q THEN "USED" ELSE state[r]
          /\ \A r \in Slot : pid'[r] = IF r = q THEN nextpid ELSE pid[r]
          /\ nextpid' = nextpid + 1
          /\ \A r \in Slot : pc'[r] = IF r = p THEN "fork" ELSE pc[r]
          /\ \A r \in Slot : newborn'[r] = IF r = p THEN q ELSE newborn[r]
          /\ UNCHANGED <<chan, plock, held, parent, scan>>
        BY <1>1
           DEF Life!allocproc, Life!Calls, LifeInv, LifeTypes, Life!TypeOK,
               Life!At, Life!Go, Life!sleepVars, Life!table, Life!locals,
               Life!initproc
    <2>2. LifeTypes'
        <3>1. pc' \in [Slot -> Where]
            BY <1>1, <2>1, NilNotSlot, Zenon
               DEF Life!allocproc, Life!Calls, LifeInv, LifeTypes, Life!At,
                   Life!Go, Life!sleepVars, Life!table, Life!locals,
                   Life!initproc, Where
        <3>2. /\ scan' \in [Slot -> 0..Life!Cardinality(Slot)]
              /\ pid' \in [Slot -> 0..MaxPid]
            <4>1. nextpid \in 0..MaxPid
                BY <1>1, SlotCount DEF LifeInv, LifeTypes, Life!allocproc
            <4> QED
                BY <1>1, <4>1
                   DEF Life!allocproc, Life!Calls, LifeInv, LifeTypes,
                       Life!TypeOK, Life!At, Life!Go, Life!sleepVars,
                       Life!table, Life!locals, Life!initproc
        <3> QED
            BY <1>1, <3>1, <3>2, NilNotSlot
               DEF Life!allocproc, Life!Calls, LifeInv, LifeTypes,
                   Life!TypeOK, Life!At, Life!Go, Life!sleepVars, Life!table,
                   Life!locals, Life!initproc
    <2>3. InitLives'
        BY <2>1, NilNotSlot DEF LifeInv, InitLives, Alive, Life!Lives
    <2>4. ASSUME NEW r \in Slot, NEW t \in Slot
          PROVE  LifePair(r, t)'
        <3>1. /\ LifePair(r, t) /\ LifePair(t, r)
              /\ LifePair(p, r) /\ LifePair(r, p)
              /\ LifePair(p, t) /\ LifePair(t, p)
            BY DEF LifeInv
        <3>2. /\ LifePair(q, r) /\ LifePair(r, q)
              /\ LifePair(q, t) /\ LifePair(t, q)
              /\ LifePair(p, q) /\ LifePair(q, p)
            BY <2>1, Typed DEF LifeInv
        <3>3. LifeLocksTaken(r)'
            BY <2>1, <3>1, Typed, NilNotSlot, Zenon DEF LifePair, LifeLocksTaken
        <3>4. StateFits(r)'
            BY <2>1, <3>1, Typed, NilNotSlot, Zenon
               DEF LifePair, StateFits, LifeLocksTaken
        <3>5. NewbornKept(r)'
            BY <2>1, <3>1, <3>2, Typed, NilNotSlot
               DEF LifePair, NewbornKept, Forking, StateFits, HasParent
        <3>6. ForksApart(r, t)'
            BY <2>1, <3>1, <3>2, Typed, NilNotSlot
               DEF LifePair, ForksApart, NewbornKept, Forking
        <3>7. HasParent(r)'
            BY <2>1, <3>1, <3>2, Typed, NilNotSlot
               DEF LifePair, HasParent, Alive, Life!Lives, NewbornKept,
                   Forking
        <3>8. ParentLives(r, t)'
            BY <2>1, <3>1, <3>2, Typed, NilNotSlot
               DEF LifePair, ParentLives, Alive, Life!Lives, Reparented
        <3>9. Reparented(r, t)'
            BY <2>1, <3>1, <3>2, Typed, NilNotSlot, Zenon
               DEF LifePair, Reparented, LifeLocksTaken, ParentLives, Alive,
                   Life!Lives
        <3>10. PidsGiven(r, t)'
            BY <2>1, <3>1, <3>2, Typed, NilNotSlot DEF LifePair, PidsGiven
        <3>11. ZombieSeen(r, t)'
            BY <2>1, <3>1, <3>2, Typed, NilNotSlot, Zenon
               DEF LifePair, ZombieSeen, LifeLocksTaken, StateFits
        <3> QED BY <3>3, <3>4, <3>5, <3>6, <3>7, <3>8, <3>9, <3>10, <3>11
                   DEF LifePair
    <2> QED BY <2>2, <2>3, <2>4 DEF LifeInv
<1>2. ASSUME NEW q \in Slot, Life!kill(p, q) PROVE LifeInv'
    <2>1. /\ plock[q] = Nil
          /\ \A r \in Slot : state'[r] =
                IF r = q /\ state[q] = "SLEEPING" THEN "RUNNABLE" ELSE state[r]
          /\ UNCHANGED <<chan, plock, held, parent, pid, nextpid, pc, newborn,
                          scan>>
        BY <1>2
           DEF Life!kill, Life!Calls, Life!Kill, LifeInv, LifeTypes,
               Life!TypeOK, Life!At, Life!Go, Life!sleepVars, Life!table,
               Life!locals, Life!initproc
    <2>2. LifeTypes'
        <3>1. pc' \in [Slot -> Where]
            BY <1>2, <2>1, NilNotSlot, Zenon
               DEF Life!kill, Life!Calls, Life!Kill, LifeInv, LifeTypes,
                   Life!At, Life!Go, Life!sleepVars, Life!table, Life!locals,
                   Life!initproc, Where
        <3> QED
            BY <1>2, <3>1, NilNotSlot
               DEF Life!kill, Life!Calls, Life!Kill, LifeInv, LifeTypes,
                   Life!TypeOK, Life!At, Life!Go, Life!sleepVars, Life!table,
                   Life!locals, Life!initproc
    <2>3. InitLives'
        BY <2>1, NilNotSlot DEF LifeInv, InitLives, Alive, Life!Lives
    <2>4. ASSUME NEW r \in Slot, NEW t \in Slot
          PROVE  LifePair(r, t)'
        <3>1. /\ LifePair(r, t) /\ LifePair(t, r)
              /\ LifePair(p, r) /\ LifePair(r, p)
              /\ LifePair(p, t) /\ LifePair(t, p)
            BY DEF LifeInv
        <3>2. /\ LifePair(q, r) /\ LifePair(r, q)
              /\ LifePair(q, t) /\ LifePair(t, q)
              /\ LifePair(p, q) /\ LifePair(q, p)
            BY <2>1, Typed DEF LifeInv
        <3>3. LifeLocksTaken(r)'
            BY <2>1, <3>1, Typed, NilNotSlot, Zenon DEF LifePair, LifeLocksTaken
        <3>4. StateFits(r)'
            BY <2>1, <3>1, Typed, NilNotSlot, Zenon
               DEF LifePair, StateFits, LifeLocksTaken
        <3>5. NewbornKept(r)'
            BY <2>1, <3>1, <3>2, Typed, NilNotSlot
               DEF LifePair, NewbornKept, Forking, StateFits, HasParent
        <3>6. ForksApart(r, t)'
            BY <2>1, <3>1, <3>2, Typed, NilNotSlot
               DEF LifePair, ForksApart, NewbornKept, Forking
        <3>7. HasParent(r)'
            BY <2>1, <3>1, <3>2, Typed, NilNotSlot
               DEF LifePair, HasParent, Alive, Life!Lives, NewbornKept,
                   Forking
        <3>8. ParentLives(r, t)'
            BY <2>1, <3>1, <3>2, Typed, NilNotSlot
               DEF LifePair, ParentLives, Alive, Life!Lives, Reparented
        <3>9. Reparented(r, t)'
            BY <2>1, <3>1, <3>2, Typed, NilNotSlot, Zenon
               DEF LifePair, Reparented, LifeLocksTaken, ParentLives, Alive,
                   Life!Lives
        <3>10. PidsGiven(r, t)'
            BY <2>1, <3>1, <3>2, Typed, NilNotSlot DEF LifePair, PidsGiven
        <3>11. ZombieSeen(r, t)'
            BY <2>1, <3>1, <3>2, Typed, NilNotSlot, Zenon
               DEF LifePair, ZombieSeen, LifeLocksTaken, StateFits
        <3> QED BY <3>3, <3>4, <3>5, <3>6, <3>7, <3>8, <3>9, <3>10, <3>11
                   DEF LifePair
    <2> QED BY <2>2, <2>3, <2>4 DEF LifeInv
<1>3. CASE Life!SetParent(p)
    <2>1. /\ state[p] = "RUNNING" /\ pc[p] = "fork"
          /\ held["wait_lock"] = Nil
          /\ \A r \in Slot : parent'[r] =
                IF r = newborn[p] THEN p ELSE parent[r]
          /\ \A r \in Slot : pc'[r] = IF r = p THEN "forked" ELSE pc[r]
          /\ UNCHANGED <<state, chan, plock, held, pid, nextpid, newborn,
                          scan>>
        BY <1>3
           DEF Life!SetParent, LifeInv, LifeTypes, Life!TypeOK, Life!At,
               Life!Go, Life!sleepVars, Life!table, Life!locals, Life!initproc
    <2>2. LifeTypes'
        <3>1. pc' \in [Slot -> Where]
            BY <1>3, <2>1, NilNotSlot, Zenon
               DEF Life!SetParent, LifeInv, LifeTypes, Life!At, Life!Go,
                   Life!sleepVars, Life!table, Life!locals, Life!initproc,
                   Where
        <3> QED
            BY <1>3, <3>1, NilNotSlot
               DEF Life!SetParent, LifeInv, LifeTypes, Life!TypeOK, Life!At,
                   Life!Go, Life!sleepVars, Life!table, Life!locals,
                   Life!initproc
    <2>3. InitLives'
        BY <2>1, NilNotSlot DEF LifeInv, InitLives, Alive, Life!Lives
    <2>4. ASSUME NEW r \in Slot, NEW t \in Slot
          PROVE  LifePair(r, t)'
        <3>1. /\ LifePair(r, t) /\ LifePair(t, r)
              /\ LifePair(p, r) /\ LifePair(r, p)
              /\ LifePair(p, t) /\ LifePair(t, p)
            BY DEF LifeInv
        <3>2. /\ LifePair(newborn[p], r) /\ LifePair(r, newborn[p])
              /\ LifePair(newborn[p], t) /\ LifePair(t, newborn[p])
              /\ LifePair(p, newborn[p]) /\ LifePair(newborn[p], p)
            BY <2>1, Typed DEF LifeInv
        <3>3. LifeLocksTaken(r)'
            BY <2>1, <3>1, Typed, NilNotSlot, Zenon DEF LifePair, LifeLocksTaken
        <3>4. StateFits(r)'
            BY <2>1, <3>1, Typed, NilNotSlot, Zenon
               DEF LifePair, StateFits, LifeLocksTaken
        <3>5. NewbornKept(r)'
            BY <2>1, <3>1, <3>2, Typed, NilNotSlot
               DEF LifePair, NewbornKept, Forking, StateFits, HasParent,
                   ForksApart
        <3>6. ForksApart(r, t)'
            BY <2>1, <3>1, <3>2, Typed, NilNotSlot
               DEF LifePair, ForksApart, NewbornKept, Forking
        <3>7. HasParent(r)'
            BY <2>1, <3>1, <3>2, Typed, NilNotSlot
               DEF LifePair, HasParent, Alive, Life!Lives, NewbornKept,
                   Forking
        <3>8. ParentLives(r, t)'
            BY <2>1, <3>1, <3>2, Typed, NilNotSlot
               DEF LifePair, ParentLives, Alive, Life!Lives, Reparented
        <3>9. Reparented(r, t)'
            BY <2>1, <3>1, <3>2, Typed, NilNotSlot, Zenon
               DEF LifePair, Reparented, LifeLocksTaken, ParentLives, Alive,
                   Life!Lives
        <3>10. PidsGiven(r, t)'
            BY <2>1, <3>1, <3>2, Typed, NilNotSlot DEF LifePair, PidsGiven
        <3>11. ZombieSeen(r, t)'
            BY <2>1, <3>1, <3>2, Typed, NilNotSlot, Zenon
               DEF LifePair, ZombieSeen, LifeLocksTaken, StateFits
        <3> QED BY <3>3, <3>4, <3>5, <3>6, <3>7, <3>8, <3>9, <3>10, <3>11
                   DEF LifePair
    <2> QED BY <2>2, <2>3, <2>4 DEF LifeInv
<1>4. CASE Life!StartChild(p)
    <2>1. /\ state[p] = "RUNNING" /\ pc[p] = "forked"
          /\ plock[newborn[p]] = Nil
          /\ \A r \in Slot : state'[r] =
                IF r = newborn[p] THEN "RUNNABLE" ELSE state[r]
          /\ \A r \in Slot : pc'[r] =
                IF r \in {p, newborn[p]} THEN "user" ELSE pc[r]
          /\ UNCHANGED <<chan, plock, held, parent, pid, nextpid, newborn,
                          scan>>
        BY <1>4
           DEF Life!StartChild, LifeInv, LifeTypes, Life!TypeOK, Life!At,
               Life!Go, Life!sleepVars, Life!table, Life!locals, Life!initproc
    <2>2. LifeTypes'
        <3>1. pc' \in [Slot -> Where]
            BY <1>4, <2>1, NilNotSlot, Zenon
               DEF Life!StartChild, LifeInv, LifeTypes, Life!At, Life!Go,
                   Life!sleepVars, Life!table, Life!locals, Life!initproc,
                   Where
        <3> QED
            BY <1>4, <3>1, NilNotSlot, <2>1
               DEF Life!StartChild, LifeInv, LifeTypes, Life!TypeOK, Life!At,
                   Life!Go, Life!sleepVars, Life!table, Life!locals,
                   Life!initproc
    <2>3. InitLives'
        BY <2>1, NilNotSlot
           DEF LifeInv, InitLives, Alive, Life!Lives, LifePair, ParentLives,
               HasParent, NewbornKept, Forking
    <2>4. ASSUME NEW r \in Slot, NEW t \in Slot
          PROVE  LifePair(r, t)'
        <3>1. /\ LifePair(r, t) /\ LifePair(t, r)
              /\ LifePair(p, r) /\ LifePair(r, p)
              /\ LifePair(p, t) /\ LifePair(t, p)
            BY DEF LifeInv
        <3>2. /\ LifePair(newborn[p], r) /\ LifePair(r, newborn[p])
              /\ LifePair(newborn[p], t) /\ LifePair(t, newborn[p])
              /\ LifePair(p, newborn[p]) /\ LifePair(newborn[p], p)
            BY <2>1, Typed DEF LifeInv
        <3>3. LifeLocksTaken(r)'
            BY <2>1, <3>1, <3>2, Typed, NilNotSlot, Zenon
               DEF LifePair, LifeLocksTaken, NewbornKept, Forking, StateFits
        <3>4. StateFits(r)'
            BY <2>1, <3>1, <3>2, Typed, NilNotSlot, Zenon
               DEF LifePair, StateFits, LifeLocksTaken
        <3>5. NewbornKept(r)'
            BY <2>1, <3>1, <3>2, Typed, NilNotSlot
               DEF LifePair, NewbornKept, Forking, StateFits, HasParent
        <3>6. ForksApart(r, t)'
            BY <2>1, <3>1, <3>2, Typed, NilNotSlot
               DEF LifePair, ForksApart, NewbornKept, Forking
        <3>7. HasParent(r)'
            BY <2>1, <3>1, <3>2, Typed, NilNotSlot
               DEF LifePair, HasParent, Alive, Life!Lives, NewbornKept,
                   Forking
        <3>8. ParentLives(r, t)'
            BY <2>1, <3>1, <3>2, Typed, NilNotSlot
               DEF LifePair, ParentLives, Alive, Life!Lives, Reparented
        <3>9. Reparented(r, t)'
            BY <2>1, <3>1, <3>2, Typed, NilNotSlot, Zenon
               DEF LifePair, Reparented, LifeLocksTaken, ParentLives, Alive,
                   Life!Lives
        <3>10. PidsGiven(r, t)'
            BY <2>1, <3>1, <3>2, Typed, NilNotSlot
               DEF LifePair, PidsGiven, NewbornKept, Forking
        <3>11. ZombieSeen(r, t)'
            BY <2>1, <3>1, <3>2, Typed, NilNotSlot, Zenon
               DEF LifePair, ZombieSeen, LifeLocksTaken, StateFits
        <3> QED BY <3>3, <3>4, <3>5, <3>6, <3>7, <3>8, <3>9, <3>10, <3>11
                   DEF LifePair
    <2> QED BY <2>2, <2>3, <2>4 DEF LifeInv
<1>5. CASE Life!ExitLocks(p)
    <2>1. /\ state[p] = "RUNNING" /\ pc[p] = "user" /\ p # 0
          /\ held["wait_lock"] = Nil
          /\ held'["wait_lock"] = p
          /\ \A r \in Slot : pc'[r] = IF r = p THEN "reparent" ELSE pc[r]
          /\ \A r \in Slot : scan'[r] = IF r = p THEN 0 ELSE scan[r]
          /\ UNCHANGED <<state, chan, plock, parent, pid, nextpid, newborn>>
        BY <1>5
           DEF Life!ExitLocks, Life!acquire, LifeInv, LifeTypes, Life!TypeOK,
               Life!At, Life!Go, Life!sleepVars, Life!table, Life!locals,
               Life!initproc
    <2>2. LifeTypes'
        <3>1. pc' \in [Slot -> Where]
            BY <1>5, <2>1, NilNotSlot, Zenon
               DEF Life!ExitLocks, Life!acquire, LifeInv, LifeTypes, Life!At,
                   Life!Go, Life!sleepVars, Life!table, Life!locals,
                   Life!initproc, Where
        <3>2. /\ scan' \in [Slot -> 0..Life!Cardinality(Slot)]
              /\ pid' \in [Slot -> 0..MaxPid]
            BY <1>5, SlotCount
               DEF Life!ExitLocks, Life!acquire, LifeInv, LifeTypes,
                   Life!TypeOK, Life!At, Life!Go, Life!sleepVars, Life!table,
                   Life!locals, Life!initproc
        <3> QED
            BY <1>5, <3>1, <3>2, NilNotSlot
               DEF Life!ExitLocks, Life!acquire, LifeInv, LifeTypes,
                   Life!TypeOK, Life!At, Life!Go, Life!sleepVars, Life!table,
                   Life!locals, Life!initproc
    <2>3. InitLives'
        BY <2>1, NilNotSlot DEF LifeInv, InitLives, Alive, Life!Lives
    <2>4. ASSUME NEW r \in Slot, NEW t \in Slot
          PROVE  LifePair(r, t)'
        <3>1. /\ LifePair(r, t) /\ LifePair(t, r)
              /\ LifePair(p, r) /\ LifePair(r, p)
              /\ LifePair(p, t) /\ LifePair(t, p)
            BY DEF LifeInv
        <3>2. /\ r \in Int /\ t \in Int /\ 0 <= t /\ scan[p] \in Int
              /\ scan[r] \in Int
            BY Typed, SlotBounds, SlotCount
        <3>3. LifeLocksTaken(r)'
            BY <2>1, <3>1, Typed, NilNotSlot, Zenon DEF LifePair, LifeLocksTaken
        <3>4. StateFits(r)'
            BY <2>1, <3>1, Typed, NilNotSlot, Zenon
               DEF LifePair, StateFits, LifeLocksTaken
        <3>5. NewbornKept(r)'
            BY <2>1, <3>1, <3>2, Typed, NilNotSlot
               DEF LifePair, NewbornKept, Forking, StateFits, HasParent
        <3>6. ForksApart(r, t)'
            BY <2>1, <3>1, <3>2, Typed, NilNotSlot
               DEF LifePair, ForksApart, NewbornKept, Forking
        <3>7. HasParent(r)'
            BY <2>1, <3>1, <3>2, Typed, NilNotSlot
               DEF LifePair, HasParent, Alive, Life!Lives, NewbornKept,
                   Forking
        <3>8. ParentLives(r, t)'
            BY <2>1, <3>1, <3>2, Typed, NilNotSlot
               DEF LifePair, ParentLives, Alive, Life!Lives, Reparented
        <3>9. Reparented(r, t)'
            BY <2>1, <3>1, <3>2, Zenon
               DEF LifePair, Reparented, LifeLocksTaken, ParentLives, Alive,
                   Life!Lives
        <3>10. PidsGiven(r, t)'
            BY <2>1, <3>1, <3>2, Typed, NilNotSlot DEF LifePair, PidsGiven
        <3>11. ZombieSeen(r, t)'
            BY <2>1, <3>1, <3>2, Zenon
               DEF LifePair, ZombieSeen, LifeLocksTaken, StateFits
        <3> QED BY <3>3, <3>4, <3>5, <3>6, <3>7, <3>8, <3>9, <3>10, <3>11
                   DEF LifePair
    <2> QED BY <2>2, <2>3, <2>4 DEF LifeInv
<1>6. CASE Life!reparent(p)
    <2> DEFINE q == scan[p]
    <2>1. /\ state[p] = "RUNNING" /\ pc[p] = "reparent" /\ q \in Slot
          /\ \A r \in Slot : scan'[r] = IF r = p THEN q + 1 ELSE scan[r]
          /\ UNCHANGED <<chan, plock, held, pid, nextpid, pc, newborn>>
        BY <1>6 DEF Life!reparent, LifeInv, LifeTypes, Life!TypeOK, Life!At
    <2>2. /\ parent[q] = p =>
                /\ \A r \in Slot : parent'[r] = IF r = q THEN 0 ELSE parent[r]
                /\ \A r \in Slot \ {p} : plock[r] = Nil
                /\ \A r \in Slot : state'[r] =
                      IF r # p /\ state[r] = "SLEEPING" /\ chan[r] = 0
                      THEN "RUNNABLE" ELSE state[r]
          /\ parent[q] # p => UNCHANGED <<parent, state>>
        BY <1>6, <2>1
           DEF Life!reparent, LifeInv, LifeTypes, Life!TypeOK, Life!initproc,
               Life!wakeup, Life!CanWake, Life!Awake, Life!Sleeps
    <2>3. LifeTypes'
        <3>1. scan' \in [Slot -> 0..Life!Cardinality(Slot)]
            <4>1. q + 1 \in 0..NPROC
                BY <2>1, SlotCount DEF Slot
            <4> QED
                BY <1>6, <4>1, SlotCount DEF Life!reparent, LifeInv, LifeTypes, Life!TypeOK
        <3>2. state' \in [Slot -> {"UNUSED", "USED", "RUNNABLE", "RUNNING",
                                  "SLEEPING", "ZOMBIE"}]
            <4>1. state' = state \/ state' = Life!Awake(p, 0)
                BY <1>6 DEF Life!reparent, Life!wakeup, Life!initproc
            <4>2. state \in [Slot -> {"UNUSED", "USED", "RUNNABLE", "RUNNING",
                                     "SLEEPING", "ZOMBIE"}]
                BY DEF LifeInv, LifeTypes, Life!TypeOK
            <4> QED BY <4>1, <4>2 DEF Life!Awake
        <3>3. parent' \in [Slot -> Slot \cup {Nil}]
            BY <1>6, NilNotSlot
               DEF Life!reparent, LifeInv, LifeTypes, Life!TypeOK, Life!initproc
        <3> QED
            BY <1>6, <3>1, <3>2, <3>3
               DEF Life!reparent, LifeInv, LifeTypes, Life!TypeOK
    <2>4. p # 0
        BY <2>1 DEF LifeInv, InitLives
    <2>5. InitLives'
        BY <2>1, <2>2, NilNotSlot DEF LifeInv, InitLives, Alive, Life!Lives
    <2>6. ASSUME NEW r \in Slot, NEW t \in Slot
          PROVE  LifePair(r, t)'
        <3>1. /\ LifePair(r, t) /\ LifePair(t, r) /\ LifePair(p, r)
              /\ LifePair(r, p) /\ LifePair(p, t) /\ LifePair(t, p)
              /\ LifePair(p, q) /\ LifePair(q, p) /\ InitLives
            BY <2>1 DEF LifeInv
        <3>2. r \in Int /\ t \in Int /\ q \in Int /\ scan[r] \in Int
            BY <2>1, SlotBounds, SlotCount, Typed
        <3>3. CASE parent[q] # p
            <4>1. LifeLocksTaken(r)' /\ StateFits(r)'
                BY <2>1, <2>2, <3>1, <3>3, Zenon
                DEF LifePair, LifeLocksTaken, StateFits
            <4>2. NewbornKept(r)' /\ ForksApart(r, t)'
                BY <2>1, <2>2, <3>1, <3>3
                   DEF LifePair, NewbornKept, ForksApart, Forking
            <4>3. HasParent(r)' /\ ParentLives(r, t)'
                BY <2>1, <2>2, <3>1, <3>3
                   DEF LifePair, HasParent, ParentLives, Alive, Life!Lives
            <4>4. Reparented(r, t)'
                BY <2>1, <2>2, <3>1, <3>3, <3>2 DEF LifePair, Reparented
            <4>5. PidsGiven(r, t)' /\ ZombieSeen(r, t)'
                BY <2>1, <2>2, <3>1, <3>3, Typed, Zenon
                   DEF LifePair, PidsGiven, ZombieSeen, LifeLocksTaken
            <4> QED BY <4>1, <4>2, <4>3, <4>4, <4>5 DEF LifePair
        <3>4. CASE parent[q] = p
            <4>1. LifeLocksTaken(r)' /\ StateFits(r)'
                BY <2>1, <2>2, <3>1, <3>4, Zenon
                DEF LifePair, LifeLocksTaken, StateFits
            <4>2. NewbornKept(r)' /\ ForksApart(r, t)'
                BY <2>1, <2>2, <3>1, <3>4, Typed, NilNotSlot
                   DEF LifePair, NewbornKept, ForksApart, Forking, StateFits
            <4>3. HasParent(r)' /\ ParentLives(r, t)'
                BY <2>1, <2>2, <3>1, <3>4, <2>4, NilNotSlot
                   DEF LifePair, HasParent, ParentLives, InitLives, Alive, Life!Lives
            <4>4. Reparented(r, t)'
                <5>1. CASE t = q
                    BY <2>1, <2>2, <2>4, <3>4, <5>1 DEF LifeInv, InitLives, Reparented
                <5>2. CASE t # q /\ r = p
                    <6>1. q <= t => q + 1 <= t
                        BY <3>2, <5>2
                    <6> QED
                        BY <2>1, <2>2, <3>1, <3>4, <5>2, <6>1 DEF LifePair, Reparented
                <5>3. CASE t # q /\ r # p
                    BY <2>1, <2>2, <3>1, <3>4, <5>3 DEF LifePair, Reparented
                <5> QED BY <5>1, <5>2, <5>3
            <4>5. PidsGiven(r, t)'
                BY <2>1, <2>2, <3>1, <3>4 DEF LifePair, PidsGiven
            <4>6. ZombieSeen(r, t)'
                <5>1. CASE t # q
                    BY <2>1, <2>2, <3>1, <3>4, <5>1, Zenon
                       DEF LifePair, ZombieSeen, LifeLocksTaken
                <5>2. CASE t = q
                    <6>1. /\ LifeLocksTaken(0) /\ LifeLocksTaken(p) /\ StateFits(0)
                          /\ 0 \in Slot \ {p}
                        BY <2>4, NilNotSlot DEF LifeInv, LifePair
                    <6>2. parent'[t] = 0 /\ plock[0] = Nil
                        BY <2>2, <3>4, <5>2, <6>1
                    <6>3. state'[0] # "SLEEPING"
                        BY <2>2, <2>4, <3>4, <6>1 DEF StateFits
                    <6>4. pc[0] \notin {"wait", "sleep"}
                        BY <2>1, <2>4, <6>1, Zenon DEF LifeLocksTaken
                    <6>5. pc[0] # "falls asleep"
                        BY <6>1, <6>2, NilNotSlot, Zenon DEF LifeLocksTaken
                    <6>6. pc' = pc
                        BY <2>1
                    <6> QED BY <6>2, <6>3, <6>4, <6>5, <6>6, Zenon
                            DEF ZombieSeen
                <5> QED BY <5>1, <5>2
            <4> QED BY <4>1, <4>2, <4>3, <4>4, <4>5, <4>6 DEF LifePair
        <3> QED BY <3>3, <3>4
    <2> QED BY <2>3, <2>5, <2>6 DEF LifeInv
<1>7. CASE Life!WakeParent(p)
    <2>1. /\ state[p] = "RUNNING" /\ pc[p] = "reparent" /\ scan[p] \notin Slot
          /\ \A r \in Slot \ {p} : plock[r] = Nil
          /\ \A r \in Slot : state'[r] =
                 IF r # p /\ state[r] = "SLEEPING" /\ chan[r] = parent[p]
                THEN "RUNNABLE" ELSE state[r]
          /\ \A r \in Slot : pc'[r] = IF r = p THEN "exit" ELSE pc[r]
          /\ UNCHANGED <<chan, plock, held, parent, pid, nextpid, newborn,
                          scan>>
        BY <1>7
           DEF Life!WakeParent, Life!wakeup, Life!CanWake, Life!Awake,
               Life!Sleeps, LifeInv, LifeTypes, Life!TypeOK, Life!At, Life!Go,
               Life!sleepVars, Life!table, Life!locals, Life!initproc
    <2>2. LifeTypes'
        <3>1. pc' \in [Slot -> Where]
            BY <1>7, <2>1, NilNotSlot, Zenon
               DEF Life!WakeParent, Life!wakeup, Life!CanWake, Life!Awake,
                   Life!Sleeps, LifeInv, LifeTypes, Life!At, Life!Go,
                   Life!sleepVars, Life!table, Life!locals, Life!initproc,
                   Where
        <3> QED
            BY <1>7, <3>1, NilNotSlot
               DEF Life!WakeParent, Life!wakeup, Life!CanWake, Life!Awake,
                   Life!Sleeps, LifeInv, LifeTypes, Life!TypeOK, Life!At,
                   Life!Go, Life!sleepVars, Life!table, Life!locals,
                   Life!initproc
    <2>3. InitLives'
        BY <2>1, NilNotSlot DEF LifeInv, InitLives, Alive, Life!Lives
    <2>4. ASSUME NEW r \in Slot, NEW t \in Slot
          PROVE  LifePair(r, t)'
        <3>1. /\ LifePair(r, t) /\ LifePair(t, r)
              /\ LifePair(p, r) /\ LifePair(r, p)
              /\ LifePair(p, t) /\ LifePair(t, p)
            BY DEF LifeInv
        <3>2. /\ r \in Int /\ t \in Int /\ 0 <= t /\ scan[p] \in Int
              /\ scan[r] \in Int
            BY Typed, SlotBounds, SlotCount
        <3>3. scan[p] > t
            <4>1. scan[p] \in 0..NPROC
                BY Typed
            <4>2. scan[p] \notin 0..(NPROC - 1)
                BY <2>1 DEF Slot
            <4> QED BY <4>1, <4>2, SlotBounds, SlotCount
        <3>4. LifeLocksTaken(r)'
            BY <2>1, <3>1, Typed, NilNotSlot, Zenon DEF LifePair, LifeLocksTaken
        <3>5. StateFits(r)'
            BY <2>1, <3>1, Typed, NilNotSlot, Zenon
               DEF LifePair, StateFits, LifeLocksTaken
        <3>6. NewbornKept(r)'
            BY <2>1, <3>1, <3>2, <3>3, Typed, NilNotSlot
               DEF LifePair, NewbornKept, Forking, StateFits, HasParent
        <3>7. ForksApart(r, t)'
            BY <2>1, <3>1, <3>2, <3>3, Typed, NilNotSlot
               DEF LifePair, ForksApart, NewbornKept, Forking
        <3>8. HasParent(r)'
            BY <2>1, <3>1, <3>2, <3>3, Typed, NilNotSlot
               DEF LifePair, HasParent, Alive, Life!Lives, NewbornKept,
                   Forking
        <3>9. ParentLives(r, t)'
            BY <2>1, <3>1, <3>2, <3>3, Typed, NilNotSlot
               DEF LifePair, ParentLives, Alive, Life!Lives, Reparented
        <3>10. Reparented(r, t)'
            <4>1. parent[t] # p
                <5>1. ~(scan[p] <= t)
                    BY <3>2, <3>3
                <5> QED BY <2>1, <3>1, <5>1 DEF LifePair, Reparented
            <4> QED BY <2>1, <3>1, <4>1 DEF LifePair, Reparented
        <3>11. PidsGiven(r, t)'
            BY <2>1, <3>1, <3>2, <3>3, Typed, NilNotSlot
               DEF LifePair, PidsGiven
        <3>12. ZombieSeen(r, t)'
            <4>1. parent[t] # p
                <5>1. ~(scan[p] <= t)
                    BY <3>2, <3>3
                <5> QED BY <2>1, <3>1, <5>1 DEF LifePair, Reparented
            <4>2. CASE t # p
                BY <2>1, <3>1, <4>2, Zenon
                DEF LifePair, ZombieSeen, LifeLocksTaken
            <4>3. CASE t = p
                BY <2>1, <3>1, <4>1, <4>3, Typed, NilNotSlot, Zenon
                   DEF LifePair, ZombieSeen, LifeLocksTaken, StateFits
            <4> QED BY <4>2, <4>3
        <3> QED BY <3>4, <3>5, <3>6, <3>7, <3>8, <3>9, <3>10, <3>11, <3>12
                   DEF LifePair
    <2> QED BY <2>2, <2>3, <2>4 DEF LifeInv
<1>8. CASE Life!BecomeZombie(p)
    <2>1. /\ state[p] = "RUNNING" /\ pc[p] = "exit"
          /\ held["wait_lock"] = p /\ plock[p] = Nil
          /\ \A r \in Slot : state'[r] = IF r = p THEN "ZOMBIE" ELSE state[r]
          /\ \A r \in Slot : plock'[r] = IF r = p THEN p ELSE plock[r]
          /\ held'["wait_lock"] = Nil
          /\ \A r \in Slot : pc'[r] = IF r = p THEN "switch" ELSE pc[r]
          /\ UNCHANGED <<chan, parent, pid, nextpid, newborn, scan>>
        BY <1>8
           DEF Life!BecomeZombie, Life!release, LifeInv, LifeTypes,
               Life!TypeOK, Life!At, Life!Go, Life!sleepVars, Life!table,
               Life!locals, Life!initproc
    <2>2. LifeTypes'
        <3>1. pc' \in [Slot -> Where]
            BY <1>8, <2>1, NilNotSlot, Zenon
               DEF Life!BecomeZombie, Life!release, LifeInv, LifeTypes,
                   Life!At, Life!Go, Life!sleepVars, Life!table, Life!locals,
                   Life!initproc, Where
        <3> QED
            BY <1>8, <3>1, NilNotSlot
               DEF Life!BecomeZombie, Life!release, LifeInv, LifeTypes,
                   Life!TypeOK, Life!At, Life!Go, Life!sleepVars, Life!table,
                   Life!locals, Life!initproc
    <2>3. InitLives'
        BY <2>1, NilNotSlot
           DEF LifeInv, InitLives, Alive, Life!Lives, LifePair, ParentLives,
               HasParent, NewbornKept, Forking
    <2>4. ASSUME NEW r \in Slot, NEW t \in Slot
          PROVE  LifePair(r, t)'
        <3>1. /\ LifePair(r, t) /\ LifePair(t, r)
              /\ LifePair(p, r) /\ LifePair(r, p)
              /\ LifePair(p, t) /\ LifePair(t, p)
            BY DEF LifeInv
        <3>2. LifeLocksTaken(r)'
            BY <2>1, <3>1, Typed, NilNotSlot, Zenon DEF LifePair, LifeLocksTaken
        <3>3. StateFits(r)'
            BY <2>1, <3>1, Typed, NilNotSlot, Zenon
               DEF LifePair, StateFits, LifeLocksTaken
        <3>4. NewbornKept(r)'
            BY <2>1, <3>1, Typed, NilNotSlot
               DEF LifePair, NewbornKept, Forking, StateFits, HasParent
        <3>5. ForksApart(r, t)'
            BY <2>1, <3>1, Typed, NilNotSlot
               DEF LifePair, ForksApart, NewbornKept, Forking
        <3>6. HasParent(r)'
            BY <2>1, <3>1, Typed, NilNotSlot
               DEF LifePair, HasParent, Alive, Life!Lives, NewbornKept,
                   Forking
        <3>7. ParentLives(r, t)'
            BY <2>1, <3>1, Typed, NilNotSlot
               DEF LifePair, ParentLives, Alive, Life!Lives, Reparented
        <3>8. Reparented(r, t)'
            BY <2>1, <3>1, Typed, NilNotSlot, Zenon
               DEF LifePair, Reparented, LifeLocksTaken, ParentLives, Alive,
                   Life!Lives
        <3>9. PidsGiven(r, t)'
            BY <2>1, <3>1, Typed, NilNotSlot DEF LifePair, PidsGiven
        <3>10. ZombieSeen(r, t)'
            BY <2>1, <3>1, Typed, NilNotSlot, Zenon
               DEF LifePair, ZombieSeen, LifeLocksTaken, StateFits
        <3> QED BY <3>2, <3>3, <3>4, <3>5, <3>6, <3>7, <3>8, <3>9, <3>10
                   DEF LifePair
    <2> QED BY <2>2, <2>3, <2>4 DEF LifeInv
<1>9. CASE Life!SwitchAway(p)
    <2>1. /\ pc[p] = "switch" /\ plock[p] = p
          /\ \A r \in Slot : plock'[r] = IF r = p THEN Nil ELSE plock[r]
          /\ \A r \in Slot : pc'[r] = IF r = p THEN "off" ELSE pc[r]
          /\ UNCHANGED <<state, chan, held, parent, pid, nextpid, newborn,
                          scan>>
        BY <1>9
           DEF Life!SwitchAway, LifeInv, LifeTypes, Life!TypeOK, Life!At,
               Life!Go, Life!sleepVars, Life!table, Life!locals, Life!initproc
    <2>2. LifeTypes'
        <3>1. pc' \in [Slot -> Where]
            BY <1>9, <2>1, NilNotSlot, Zenon
               DEF Life!SwitchAway, LifeInv, LifeTypes, Life!At, Life!Go,
                   Life!sleepVars, Life!table, Life!locals, Life!initproc,
                   Where
        <3> QED
            BY <1>9, <3>1, NilNotSlot
               DEF Life!SwitchAway, LifeInv, LifeTypes, Life!TypeOK, Life!At,
                   Life!Go, Life!sleepVars, Life!table, Life!locals,
                   Life!initproc
    <2>3. InitLives'
        BY <2>1, NilNotSlot DEF LifeInv, InitLives, Alive, Life!Lives
    <2>4. ASSUME NEW r \in Slot, NEW t \in Slot
          PROVE  LifePair(r, t)'
        <3>1. /\ LifePair(r, t) /\ LifePair(t, r)
              /\ LifePair(p, r) /\ LifePair(r, p)
              /\ LifePair(p, t) /\ LifePair(t, p)
            BY DEF LifeInv
        <3>2. LifeLocksTaken(r)'
            BY <2>1, <3>1, Typed, NilNotSlot, Zenon DEF LifePair, LifeLocksTaken
        <3>3. StateFits(r)'
            BY <2>1, <3>1, Typed, NilNotSlot, Zenon
               DEF LifePair, StateFits, LifeLocksTaken
        <3>4. NewbornKept(r)'
            BY <2>1, <3>1, Typed, NilNotSlot
               DEF LifePair, NewbornKept, Forking, StateFits, HasParent
        <3>5. ForksApart(r, t)'
            BY <2>1, <3>1, Typed, NilNotSlot
               DEF LifePair, ForksApart, NewbornKept, Forking
        <3>6. HasParent(r)'
            BY <2>1, <3>1, Typed, NilNotSlot
               DEF LifePair, HasParent, Alive, Life!Lives, NewbornKept,
                   Forking
        <3>7. ParentLives(r, t)'
            BY <2>1, <3>1, Typed, NilNotSlot
               DEF LifePair, ParentLives, Alive, Life!Lives, Reparented
        <3>8. Reparented(r, t)'
            BY <2>1, <3>1, Typed, NilNotSlot, Zenon
               DEF LifePair, Reparented, LifeLocksTaken, ParentLives, Alive,
                   Life!Lives
        <3>9. PidsGiven(r, t)'
            BY <2>1, <3>1, Typed, NilNotSlot DEF LifePair, PidsGiven
        <3>10. ZombieSeen(r, t)'
            BY <2>1, <3>1, Typed, NilNotSlot, Zenon
               DEF LifePair, ZombieSeen, LifeLocksTaken, StateFits
        <3> QED BY <3>2, <3>3, <3>4, <3>5, <3>6, <3>7, <3>8, <3>9, <3>10
                   DEF LifePair
    <2> QED BY <2>2, <2>3, <2>4 DEF LifeInv
<1>10. CASE Life!WaitLocks(p)
    <2>1. /\ state[p] = "RUNNING" /\ pc[p] \in {"user", "woken"}
          /\ held["wait_lock"] = Nil
          /\ held'["wait_lock"] = p
          /\ \A r \in Slot : pc'[r] = IF r = p THEN "wait" ELSE pc[r]
          /\ \A r \in Slot : scan'[r] = IF r = p THEN 0 ELSE scan[r]
          /\ UNCHANGED <<state, chan, plock, parent, pid, nextpid, newborn>>
        BY <1>10
           DEF Life!WaitLocks, Life!Calls, Life!acquire, LifeInv, LifeTypes,
               Life!TypeOK, Life!At, Life!Go, Life!sleepVars, Life!table,
               Life!locals, Life!initproc
    <2>2. LifeTypes'
        <3>1. pc' \in [Slot -> Where]
            BY <1>10, <2>1, NilNotSlot, Zenon
               DEF Life!WaitLocks, Life!Calls, Life!acquire, LifeInv,
                   LifeTypes, Life!At, Life!Go, Life!sleepVars, Life!table,
                   Life!locals, Life!initproc, Where
        <3>2. /\ scan' \in [Slot -> 0..Life!Cardinality(Slot)]
              /\ pid' \in [Slot -> 0..MaxPid]
            BY <1>10, SlotCount
               DEF Life!WaitLocks, Life!Calls, Life!acquire, LifeInv,
                   LifeTypes, Life!TypeOK, Life!At, Life!Go, Life!sleepVars,
                   Life!table, Life!locals, Life!initproc
        <3> QED
            BY <1>10, <3>1, <3>2, NilNotSlot
               DEF Life!WaitLocks, Life!Calls, Life!acquire, LifeInv,
                   LifeTypes, Life!TypeOK, Life!At, Life!Go, Life!sleepVars,
                   Life!table, Life!locals, Life!initproc
    <2>3. InitLives'
        BY <2>1, NilNotSlot DEF LifeInv, InitLives, Alive, Life!Lives
    <2>4. ASSUME NEW r \in Slot, NEW t \in Slot
          PROVE  LifePair(r, t)'
        <3>1. /\ LifePair(r, t) /\ LifePair(t, r)
              /\ LifePair(p, r) /\ LifePair(r, p)
              /\ LifePair(p, t) /\ LifePair(t, p)
            BY DEF LifeInv
        <3>2. /\ r \in Int /\ t \in Int /\ 0 <= t /\ scan[p] \in Int
              /\ scan[r] \in Int
            BY Typed, SlotBounds, SlotCount
        <3>3. LifeLocksTaken(r)'
            BY <2>1, <3>1, Typed, NilNotSlot, Zenon DEF LifePair, LifeLocksTaken
        <3>4. StateFits(r)'
            BY <2>1, <3>1, Typed, NilNotSlot, Zenon
               DEF LifePair, StateFits, LifeLocksTaken
        <3>5. NewbornKept(r)'
            BY <2>1, <3>1, <3>2, Typed, NilNotSlot
               DEF LifePair, NewbornKept, Forking, StateFits, HasParent
        <3>6. ForksApart(r, t)'
            BY <2>1, <3>1, <3>2, Typed, NilNotSlot
               DEF LifePair, ForksApart, NewbornKept, Forking
        <3>7. HasParent(r)'
            BY <2>1, <3>1, <3>2, Typed, NilNotSlot
               DEF LifePair, HasParent, Alive, Life!Lives, NewbornKept,
                   Forking
        <3>8. ParentLives(r, t)'
            BY <2>1, <3>1, <3>2, Typed, NilNotSlot
               DEF LifePair, ParentLives, Alive, Life!Lives, Reparented
        <3>9. Reparented(r, t)'
            BY <2>1, <3>1, <3>2, Zenon
               DEF LifePair, Reparented, LifeLocksTaken, ParentLives, Alive,
                   Life!Lives
        <3>10. PidsGiven(r, t)'
            BY <2>1, <3>1, <3>2, Typed, NilNotSlot DEF LifePair, PidsGiven
        <3>11. ZombieSeen(r, t)'
            BY <2>1, <3>1, <3>2, Zenon
               DEF LifePair, ZombieSeen, LifeLocksTaken, StateFits
        <3> QED BY <3>3, <3>4, <3>5, <3>6, <3>7, <3>8, <3>9, <3>10, <3>11
                   DEF LifePair
    <2> QED BY <2>2, <2>3, <2>4 DEF LifeInv
<1>11. CASE Life!SkipSlot(p)
    <2>1. /\ state[p] = "RUNNING" /\ pc[p] = "wait" /\ scan[p] \in Slot
          /\ parent[scan[p]] # p
          /\ \A r \in Slot : scan'[r] = IF r = p THEN scan[p] + 1 ELSE scan[r]
          /\ UNCHANGED <<state, chan, plock, held, parent, pid, nextpid, pc,
                          newborn>>
        BY <1>11
           DEF Life!SkipSlot, Life!Looks, Life!NextSlot, LifeInv, LifeTypes,
               Life!TypeOK, Life!At, Life!Go, Life!sleepVars, Life!table,
               Life!locals, Life!initproc
    <2>2. LifeTypes'
        <3>1. pc' \in [Slot -> Where]
            BY <1>11, <2>1, NilNotSlot, Zenon
               DEF Life!SkipSlot, Life!Looks, Life!NextSlot, LifeInv,
                   LifeTypes, Life!At, Life!Go, Life!sleepVars, Life!table,
                   Life!locals, Life!initproc, Where
        <3>2. /\ scan' \in [Slot -> 0..Life!Cardinality(Slot)]
              /\ pid' \in [Slot -> 0..MaxPid]
            <4>1. scan[p] + 1 \in 0..NPROC
                BY <2>1, SlotCount DEF Slot
            <4> QED
                BY <1>11, <4>1, SlotCount
                   DEF Life!SkipSlot, Life!Looks, Life!NextSlot, LifeInv,
                       LifeTypes, Life!TypeOK, Life!At, Life!Go,
                       Life!sleepVars, Life!table, Life!locals, Life!initproc
        <3> QED
            BY <1>11, <3>1, <3>2, NilNotSlot
               DEF Life!SkipSlot, Life!Looks, Life!NextSlot, LifeInv,
                   LifeTypes, Life!TypeOK, Life!At, Life!Go, Life!sleepVars,
                   Life!table, Life!locals, Life!initproc
    <2>3. InitLives'
        BY <2>1, NilNotSlot DEF LifeInv, InitLives, Alive, Life!Lives
    <2>4. ASSUME NEW r \in Slot, NEW t \in Slot
          PROVE  LifePair(r, t)'
        <3>1. /\ LifePair(r, t) /\ LifePair(t, r)
              /\ LifePair(p, r) /\ LifePair(r, p)
              /\ LifePair(p, t) /\ LifePair(t, p)
            BY DEF LifeInv
        <3>2. /\ r \in Int /\ t \in Int /\ 0 <= t /\ scan[p] \in Int
              /\ scan[r] \in Int
            BY Typed, SlotBounds, SlotCount
        <3>3. LifeLocksTaken(r)'
            BY <2>1, <3>1, Typed, NilNotSlot, Zenon DEF LifePair, LifeLocksTaken
        <3>4. StateFits(r)'
            BY <2>1, <3>1, Typed, NilNotSlot, Zenon
               DEF LifePair, StateFits, LifeLocksTaken
        <3>5. NewbornKept(r)'
            BY <2>1, <3>1, <3>2, Typed, NilNotSlot
               DEF LifePair, NewbornKept, Forking, StateFits, HasParent
        <3>6. ForksApart(r, t)'
            BY <2>1, <3>1, <3>2, Typed, NilNotSlot
               DEF LifePair, ForksApart, NewbornKept, Forking
        <3>7. HasParent(r)'
            BY <2>1, <3>1, <3>2, Typed, NilNotSlot
               DEF LifePair, HasParent, Alive, Life!Lives, NewbornKept,
                   Forking
        <3>8. ParentLives(r, t)'
            BY <2>1, <3>1, <3>2, Typed, NilNotSlot
               DEF LifePair, ParentLives, Alive, Life!Lives, Reparented
        <3>9. Reparented(r, t)'
            BY <2>1, <3>1, <3>2, Zenon
               DEF LifePair, Reparented, LifeLocksTaken, ParentLives, Alive,
                   Life!Lives
        <3>10. PidsGiven(r, t)'
            BY <2>1, <3>1, <3>2, Typed, NilNotSlot DEF LifePair, PidsGiven
        <3>11. ZombieSeen(r, t)'
            <4>1. /\ scan'[r] = IF r = p THEN scan[p] + 1 ELSE scan[r]
                  /\ UNCHANGED <<state, parent, pc>> /\ parent[scan[p]] # p
                BY <2>1
            <4>2. CASE r = p /\ t # scan[p]
                <5>1. scan[p] <= t => scan[p] + 1 <= t
                    BY <3>2, <4>2
                <5> QED BY <3>1, <4>1, <4>2, <5>1, Zenon
                        DEF LifePair, ZombieSeen
            <4>3. CASE r # p \/ t = scan[p]
                BY <2>1, <3>1, <4>1, <4>3, Zenon
                DEF LifePair, ZombieSeen, LifeLocksTaken
            <4> QED BY <4>2, <4>3
        <3> QED BY <3>3, <3>4, <3>5, <3>6, <3>7, <3>8, <3>9, <3>10, <3>11
                   DEF LifePair
    <2> QED BY <2>2, <2>3, <2>4 DEF LifeInv
<1>12. CASE Life!SeeChild(p)
    <2>1. /\ state[p] = "RUNNING" /\ pc[p] = "wait" /\ scan[p] \in Slot
          /\ state[scan[p]] # "ZOMBIE"
          /\ \A r \in Slot : scan'[r] = IF r = p THEN scan[p] + 1 ELSE scan[r]
          /\ UNCHANGED <<state, chan, plock, held, parent, pid, nextpid, pc,
                          newborn>>
        BY <1>12
           DEF Life!SeeChild, Life!Looks, Life!NextSlot, LifeInv, LifeTypes,
               Life!TypeOK, Life!At, Life!Go, Life!sleepVars, Life!table,
               Life!locals, Life!initproc
    <2>2. LifeTypes'
        <3>1. pc' \in [Slot -> Where]
            BY <1>12, <2>1, NilNotSlot, Zenon
               DEF Life!SeeChild, Life!Looks, Life!NextSlot, LifeInv,
                   LifeTypes, Life!At, Life!Go, Life!sleepVars, Life!table,
                   Life!locals, Life!initproc, Where
        <3>2. /\ scan' \in [Slot -> 0..Life!Cardinality(Slot)]
              /\ pid' \in [Slot -> 0..MaxPid]
            <4>1. scan[p] + 1 \in 0..NPROC
                BY <2>1, SlotCount DEF Slot
            <4> QED
                BY <1>12, <4>1, SlotCount
                   DEF Life!SeeChild, Life!Looks, Life!NextSlot, LifeInv,
                       LifeTypes, Life!TypeOK, Life!At, Life!Go,
                       Life!sleepVars, Life!table, Life!locals, Life!initproc
        <3> QED
            BY <1>12, <3>1, <3>2, NilNotSlot
               DEF Life!SeeChild, Life!Looks, Life!NextSlot, LifeInv,
                   LifeTypes, Life!TypeOK, Life!At, Life!Go, Life!sleepVars,
                   Life!table, Life!locals, Life!initproc
    <2>3. InitLives'
        BY <2>1, NilNotSlot DEF LifeInv, InitLives, Alive, Life!Lives
    <2>4. ASSUME NEW r \in Slot, NEW t \in Slot
          PROVE  LifePair(r, t)'
        <3>1. /\ LifePair(r, t) /\ LifePair(t, r)
              /\ LifePair(p, r) /\ LifePair(r, p)
              /\ LifePair(p, t) /\ LifePair(t, p)
            BY DEF LifeInv
        <3>2. /\ r \in Int /\ t \in Int /\ 0 <= t /\ scan[p] \in Int
              /\ scan[r] \in Int
            BY Typed, SlotBounds, SlotCount
        <3>3. LifeLocksTaken(r)'
            BY <2>1, <3>1, Typed, NilNotSlot, Zenon DEF LifePair, LifeLocksTaken
        <3>4. StateFits(r)'
            BY <2>1, <3>1, Typed, NilNotSlot, Zenon
               DEF LifePair, StateFits, LifeLocksTaken
        <3>5. NewbornKept(r)'
            BY <2>1, <3>1, <3>2, Typed, NilNotSlot
               DEF LifePair, NewbornKept, Forking, StateFits, HasParent
        <3>6. ForksApart(r, t)'
            BY <2>1, <3>1, <3>2, Typed, NilNotSlot
               DEF LifePair, ForksApart, NewbornKept, Forking
        <3>7. HasParent(r)'
            BY <2>1, <3>1, <3>2, Typed, NilNotSlot
               DEF LifePair, HasParent, Alive, Life!Lives, NewbornKept,
                   Forking
        <3>8. ParentLives(r, t)'
            BY <2>1, <3>1, <3>2, Typed, NilNotSlot
               DEF LifePair, ParentLives, Alive, Life!Lives, Reparented
        <3>9. Reparented(r, t)'
            BY <2>1, <3>1, <3>2, Zenon
               DEF LifePair, Reparented, LifeLocksTaken, ParentLives, Alive,
                   Life!Lives
        <3>10. PidsGiven(r, t)'
            BY <2>1, <3>1, <3>2, Typed, NilNotSlot DEF LifePair, PidsGiven
        <3>11. ZombieSeen(r, t)'
            <4>1. /\ scan'[r] = IF r = p THEN scan[p] + 1 ELSE scan[r]
                  /\ UNCHANGED <<state, parent, pc>> /\ state[scan[p]] # "ZOMBIE"
                BY <2>1
            <4>2. CASE r = p /\ t # scan[p]
                <5>1. scan[p] <= t => scan[p] + 1 <= t
                    BY <3>2, <4>2
                <5> QED BY <3>1, <4>1, <4>2, <5>1, Zenon
                        DEF LifePair, ZombieSeen
            <4>3. CASE r # p \/ t = scan[p]
                BY <2>1, <3>1, <4>1, <4>3, Zenon
                DEF LifePair, ZombieSeen, LifeLocksTaken
            <4> QED BY <4>2, <4>3
        <3> QED BY <3>3, <3>4, <3>5, <3>6, <3>7, <3>8, <3>9, <3>10, <3>11
                   DEF LifePair
    <2> QED BY <2>2, <2>3, <2>4 DEF LifeInv
<1>13. CASE Life!Reap(p)
    <2>1. /\ state[p] = "RUNNING" /\ pc[p] = "wait" /\ scan[p] \in Slot
          /\ parent[scan[p]] = p
          /\ plock[scan[p]] = Nil /\ state[scan[p]] = "ZOMBIE"
          /\ held["wait_lock"] = p
          /\ \A r \in Slot : state'[r] =
                IF r = scan[p] THEN "UNUSED" ELSE state[r]
          /\ \A r \in Slot : chan'[r] = IF r = scan[p] THEN Nil ELSE chan[r]
          /\ held'["wait_lock"] = Nil
          /\ \A r \in Slot : parent'[r] =
                IF r = scan[p] THEN Nil ELSE parent[r]
          /\ \A r \in Slot : pid'[r] = IF r = scan[p] THEN 0 ELSE pid[r]
          /\ \A r \in Slot : pc'[r] = IF r = p THEN "user" ELSE pc[r]
          /\ UNCHANGED <<plock, nextpid, newborn, scan>>
        BY <1>13
           DEF Life!Reap, Life!Looks, Life!release, LifeInv, LifeTypes,
               Life!TypeOK, Life!At, Life!Go, Life!sleepVars, Life!table,
               Life!locals, Life!initproc
    <2>2. LifeTypes'
        <3>1. pc' \in [Slot -> Where]
            BY <1>13, <2>1, NilNotSlot, Zenon
               DEF Life!Reap, Life!Looks, Life!release, LifeInv, LifeTypes,
                   Life!At, Life!Go, Life!sleepVars, Life!table, Life!locals,
                   Life!initproc, Where
        <3>2. /\ scan' \in [Slot -> 0..Life!Cardinality(Slot)]
              /\ pid' \in [Slot -> 0..MaxPid]
            BY <1>13, SlotCount
               DEF Life!Reap, Life!Looks, Life!release, LifeInv, LifeTypes,
                   Life!TypeOK, Life!At, Life!Go, Life!sleepVars, Life!table,
                   Life!locals, Life!initproc
        <3> QED
            BY <1>13, <3>1, <3>2, NilNotSlot, <2>1
               DEF Life!Reap, Life!Looks, Life!release, LifeInv, LifeTypes,
                   Life!TypeOK, Life!At, Life!Go, Life!sleepVars, Life!table,
                   Life!locals, Life!initproc
    <2>3. InitLives'
        BY <2>1, NilNotSlot
           DEF LifeInv, InitLives, Alive, Life!Lives, LifePair, ParentLives,
               HasParent, NewbornKept, Forking
    <2>4. ASSUME NEW r \in Slot, NEW t \in Slot
          PROVE  LifePair(r, t)'
        <3>1. /\ LifePair(r, t) /\ LifePair(t, r)
              /\ LifePair(p, r) /\ LifePair(r, p)
              /\ LifePair(p, t) /\ LifePair(t, p)
            BY DEF LifeInv
        <3>2. /\ LifePair(scan[p], r) /\ LifePair(r, scan[p])
              /\ LifePair(scan[p], t) /\ LifePair(t, scan[p])
              /\ LifePair(p, scan[p]) /\ LifePair(scan[p], p)
            BY <2>1, Typed DEF LifeInv
        <3>3. LifeLocksTaken(r)'
            <4>1. /\ pc'[r] = IF r = p THEN "user" ELSE pc[r]
                  /\ held'["wait_lock"] = Nil /\ plock' = plock
                  /\ held["wait_lock"] = p
                BY <2>1
            <4> QED BY <3>1, <4>1, NilNotSlot, Zenon
                    DEF LifePair, LifeLocksTaken
        <3>4. StateFits(r)'
            <4>1. /\ pc'[r] = IF r = p THEN "user" ELSE pc[r]
                  /\ state'[r] = IF r = scan[p] THEN "UNUSED" ELSE state[r]
                  /\ chan'[r] = IF r = scan[p] THEN Nil ELSE chan[r]
                  /\ pc[p] = "wait" /\ state[p] = "RUNNING"
                  /\ plock[scan[p]] = Nil /\ state[scan[p]] = "ZOMBIE"
                BY <2>1
            <4> QED
                BY <3>1, <3>2, <4>1, NilNotSlot, Zenon
                   DEF LifePair, StateFits, LifeLocksTaken
        <3>5. NewbornKept(r)'
            BY <2>1, <3>1, <3>2, Typed, NilNotSlot
               DEF LifePair, NewbornKept, Forking, StateFits, HasParent
        <3>6. ForksApart(r, t)'
            BY <2>1, <3>1, <3>2, Typed, NilNotSlot
               DEF LifePair, ForksApart, NewbornKept, Forking
        <3>7. HasParent(r)'
            BY <2>1, <3>1, <3>2, Typed, NilNotSlot
               DEF LifePair, HasParent, Alive, Life!Lives, NewbornKept,
                   Forking
        <3>8. ParentLives(r, t)'
            BY <2>1, <3>1, <3>2, Typed, NilNotSlot
               DEF LifePair, ParentLives, Alive, Life!Lives, Reparented
        <3>9. Reparented(r, t)'
            BY <2>1, <3>1, <3>2, Typed, NilNotSlot, Zenon
               DEF LifePair, Reparented, LifeLocksTaken, ParentLives, Alive,
                   Life!Lives
        <3>10. PidsGiven(r, t)'
            BY <2>1, <3>1, <3>2, Typed, NilNotSlot DEF LifePair, PidsGiven
        <3>11. ZombieSeen(r, t)'
            BY <2>1, <3>1, <3>2, Typed, NilNotSlot, Zenon
               DEF LifePair, ZombieSeen, LifeLocksTaken, StateFits
        <3> QED BY <3>3, <3>4, <3>5, <3>6, <3>7, <3>8, <3>9, <3>10, <3>11
                   DEF LifePair
    <2> QED BY <2>2, <2>3, <2>4 DEF LifeInv
<1>14. CASE Life!ReapFails(p)
    <2>1. /\ state[p] = "RUNNING" /\ pc[p] = "wait"
          /\ held["wait_lock"] = p
          /\ held'["wait_lock"] = Nil
          /\ \A r \in Slot : pc'[r] = IF r = p THEN "user" ELSE pc[r]
          /\ UNCHANGED <<state, chan, plock, parent, pid, nextpid, newborn,
                          scan>>
        BY <1>14
           DEF Life!ReapFails, Life!Looks, Life!release, LifeInv, LifeTypes,
               Life!TypeOK, Life!At, Life!Go, Life!sleepVars, Life!table,
               Life!locals, Life!initproc
    <2>2. LifeTypes'
        <3>1. pc' \in [Slot -> Where]
            BY <1>14, <2>1, NilNotSlot, Zenon
               DEF Life!ReapFails, Life!Looks, Life!release, LifeInv,
                   LifeTypes, Life!At, Life!Go, Life!sleepVars, Life!table,
                   Life!locals, Life!initproc, Where
        <3> QED
            BY <1>14, <3>1, NilNotSlot
               DEF Life!ReapFails, Life!Looks, Life!release, LifeInv,
                   LifeTypes, Life!TypeOK, Life!At, Life!Go, Life!sleepVars,
                   Life!table, Life!locals, Life!initproc
    <2>3. InitLives'
        BY <2>1, NilNotSlot DEF LifeInv, InitLives, Alive, Life!Lives
    <2>4. ASSUME NEW r \in Slot, NEW t \in Slot
          PROVE  LifePair(r, t)'
        <3>1. /\ LifePair(r, t) /\ LifePair(t, r)
              /\ LifePair(p, r) /\ LifePair(r, p)
              /\ LifePair(p, t) /\ LifePair(t, p)
            BY DEF LifeInv
        <3>2. LifeLocksTaken(r)'
            BY <2>1, <3>1, Typed, NilNotSlot, Zenon DEF LifePair, LifeLocksTaken
        <3>3. StateFits(r)'
            BY <2>1, <3>1, Typed, NilNotSlot, Zenon
               DEF LifePair, StateFits, LifeLocksTaken
        <3>4. NewbornKept(r)'
            BY <2>1, <3>1, Typed, NilNotSlot
               DEF LifePair, NewbornKept, Forking, StateFits, HasParent
        <3>5. ForksApart(r, t)'
            BY <2>1, <3>1, Typed, NilNotSlot
               DEF LifePair, ForksApart, NewbornKept, Forking
        <3>6. HasParent(r)'
            BY <2>1, <3>1, Typed, NilNotSlot
               DEF LifePair, HasParent, Alive, Life!Lives, NewbornKept,
                   Forking
        <3>7. ParentLives(r, t)'
            BY <2>1, <3>1, Typed, NilNotSlot
               DEF LifePair, ParentLives, Alive, Life!Lives, Reparented
        <3>8. Reparented(r, t)'
            BY <2>1, <3>1, Typed, NilNotSlot, Zenon
               DEF LifePair, Reparented, LifeLocksTaken, ParentLives, Alive,
                   Life!Lives
        <3>9. PidsGiven(r, t)'
            BY <2>1, <3>1, Typed, NilNotSlot DEF LifePair, PidsGiven
        <3>10. ZombieSeen(r, t)'
            BY <2>1, <3>1, Typed, NilNotSlot, Zenon
               DEF LifePair, ZombieSeen, LifeLocksTaken, StateFits
        <3> QED BY <3>2, <3>3, <3>4, <3>5, <3>6, <3>7, <3>8, <3>9, <3>10
                   DEF LifePair
    <2> QED BY <2>2, <2>3, <2>4 DEF LifeInv
<1>15. CASE Life!NoReasonToWait(p)
    <2>1. /\ state[p] = "RUNNING" /\ pc[p] = "wait"
          /\ held["wait_lock"] = p
          /\ held'["wait_lock"] = Nil
          /\ \A r \in Slot : pc'[r] = IF r = p THEN "user" ELSE pc[r]
          /\ UNCHANGED <<state, chan, plock, parent, pid, nextpid, newborn,
                          scan>>
        BY <1>15
           DEF Life!NoReasonToWait, Life!Scanned, Life!release, LifeInv,
               LifeTypes, Life!TypeOK, Life!At, Life!Go, Life!sleepVars,
               Life!table, Life!locals, Life!initproc
    <2>2. LifeTypes'
        <3>1. pc' \in [Slot -> Where]
            BY <1>15, <2>1, NilNotSlot, Zenon
               DEF Life!NoReasonToWait, Life!Scanned, Life!release, LifeInv,
                   LifeTypes, Life!At, Life!Go, Life!sleepVars, Life!table,
                   Life!locals, Life!initproc, Where
        <3> QED
            BY <1>15, <3>1, NilNotSlot
               DEF Life!NoReasonToWait, Life!Scanned, Life!release, LifeInv,
                   LifeTypes, Life!TypeOK, Life!At, Life!Go, Life!sleepVars,
                   Life!table, Life!locals, Life!initproc
    <2>3. InitLives'
        BY <2>1, NilNotSlot DEF LifeInv, InitLives, Alive, Life!Lives
    <2>4. ASSUME NEW r \in Slot, NEW t \in Slot
          PROVE  LifePair(r, t)'
        <3>1. /\ LifePair(r, t) /\ LifePair(t, r)
              /\ LifePair(p, r) /\ LifePair(r, p)
              /\ LifePair(p, t) /\ LifePair(t, p)
            BY DEF LifeInv
        <3>2. LifeLocksTaken(r)'
            BY <2>1, <3>1, Typed, NilNotSlot, Zenon DEF LifePair, LifeLocksTaken
        <3>3. StateFits(r)'
            BY <2>1, <3>1, Typed, NilNotSlot, Zenon
               DEF LifePair, StateFits, LifeLocksTaken
        <3>4. NewbornKept(r)'
            BY <2>1, <3>1, Typed, NilNotSlot
               DEF LifePair, NewbornKept, Forking, StateFits, HasParent
        <3>5. ForksApart(r, t)'
            BY <2>1, <3>1, Typed, NilNotSlot
               DEF LifePair, ForksApart, NewbornKept, Forking
        <3>6. HasParent(r)'
            BY <2>1, <3>1, Typed, NilNotSlot
               DEF LifePair, HasParent, Alive, Life!Lives, NewbornKept,
                   Forking
        <3>7. ParentLives(r, t)'
            BY <2>1, <3>1, Typed, NilNotSlot
               DEF LifePair, ParentLives, Alive, Life!Lives, Reparented
        <3>8. Reparented(r, t)'
            BY <2>1, <3>1, Typed, NilNotSlot, Zenon
               DEF LifePair, Reparented, LifeLocksTaken, ParentLives, Alive,
                   Life!Lives
        <3>9. PidsGiven(r, t)'
            BY <2>1, <3>1, Typed, NilNotSlot DEF LifePair, PidsGiven
        <3>10. ZombieSeen(r, t)'
            BY <2>1, <3>1, Typed, NilNotSlot, Zenon
               DEF LifePair, ZombieSeen, LifeLocksTaken, StateFits
        <3> QED BY <3>2, <3>3, <3>4, <3>5, <3>6, <3>7, <3>8, <3>9, <3>10
                   DEF LifePair
    <2> QED BY <2>2, <2>3, <2>4 DEF LifeInv
<1>16. CASE Life!DecideToSleep(p)
    <2>1. /\ state[p] = "RUNNING" /\ pc[p] = "wait" /\ scan[p] \notin Slot
          /\ \A r \in Slot : pc'[r] = IF r = p THEN "sleep" ELSE pc[r]
          /\ UNCHANGED <<state, chan, plock, held, parent, pid, nextpid,
                          newborn, scan>>
        BY <1>16
           DEF Life!DecideToSleep, Life!Scanned, LifeInv, LifeTypes,
               Life!TypeOK, Life!At, Life!Go, Life!sleepVars, Life!table,
               Life!locals, Life!initproc
    <2>2. LifeTypes'
        <3>1. pc' \in [Slot -> Where]
            BY <1>16, <2>1, NilNotSlot, Zenon
               DEF Life!DecideToSleep, Life!Scanned, LifeInv, LifeTypes,
                   Life!At, Life!Go, Life!sleepVars, Life!table, Life!locals,
                   Life!initproc, Where
        <3> QED
            BY <1>16, <3>1, NilNotSlot
               DEF Life!DecideToSleep, Life!Scanned, LifeInv, LifeTypes,
                   Life!TypeOK, Life!At, Life!Go, Life!sleepVars, Life!table,
                   Life!locals, Life!initproc
    <2>3. InitLives'
        BY <2>1, NilNotSlot DEF LifeInv, InitLives, Alive, Life!Lives
    <2>4. ASSUME NEW r \in Slot, NEW t \in Slot
          PROVE  LifePair(r, t)'
        <3>1. /\ LifePair(r, t) /\ LifePair(t, r)
              /\ LifePair(p, r) /\ LifePair(r, p)
              /\ LifePair(p, t) /\ LifePair(t, p)
            BY DEF LifeInv
        <3>2. /\ r \in Int /\ t \in Int /\ 0 <= t /\ scan[p] \in Int
              /\ scan[r] \in Int
            BY Typed, SlotBounds, SlotCount
        <3>3. scan[p] > t
            <4>1. scan[p] \in 0..NPROC
                BY Typed
            <4>2. scan[p] \notin 0..(NPROC - 1)
                BY <2>1 DEF Slot
            <4> QED BY <4>1, <4>2, SlotBounds, SlotCount
        <3>4. LifeLocksTaken(r)'
            BY <2>1, <3>1, Typed, NilNotSlot, Zenon DEF LifePair, LifeLocksTaken
        <3>5. StateFits(r)'
            BY <2>1, <3>1, Typed, NilNotSlot, Zenon
               DEF LifePair, StateFits, LifeLocksTaken
        <3>6. NewbornKept(r)'
            BY <2>1, <3>1, <3>2, <3>3, Typed, NilNotSlot
               DEF LifePair, NewbornKept, Forking, StateFits, HasParent
        <3>7. ForksApart(r, t)'
            BY <2>1, <3>1, <3>2, <3>3, Typed, NilNotSlot
               DEF LifePair, ForksApart, NewbornKept, Forking
        <3>8. HasParent(r)'
            BY <2>1, <3>1, <3>2, <3>3, Typed, NilNotSlot
               DEF LifePair, HasParent, Alive, Life!Lives, NewbornKept,
                   Forking
        <3>9. ParentLives(r, t)'
            BY <2>1, <3>1, <3>2, <3>3, Typed, NilNotSlot
               DEF LifePair, ParentLives, Alive, Life!Lives, Reparented
        <3>10. Reparented(r, t)'
            BY <2>1, <3>1, <3>2, <3>3, Zenon
               DEF LifePair, Reparented, LifeLocksTaken, ParentLives, Alive,
                   Life!Lives
        <3>11. PidsGiven(r, t)'
            BY <2>1, <3>1, <3>2, <3>3, Typed, NilNotSlot
               DEF LifePair, PidsGiven
        <3>12. ZombieSeen(r, t)'
            <4>1. ~(parent[t] = p /\ state[t] = "ZOMBIE")
                <5>1. ~(scan[p] <= t)
                    BY <3>2, <3>3
                <5> QED BY <2>1, <3>1, <5>1, Zenon DEF LifePair, ZombieSeen
            <4> QED
                BY <2>1, <3>1, <4>1, Zenon
                DEF LifePair, ZombieSeen, LifeLocksTaken
        <3> QED BY <3>4, <3>5, <3>6, <3>7, <3>8, <3>9, <3>10, <3>11, <3>12
                   DEF LifePair
    <2> QED BY <2>2, <2>3, <2>4 DEF LifeInv
<1>17. CASE Life!GoToSleep(p)
    <2>1. /\ state[p] = "RUNNING" /\ pc[p] = "sleep"
          /\ held["wait_lock"] = p /\ plock[p] = Nil
          /\ \A r \in Slot : plock'[r] = IF r = p THEN p ELSE plock[r]
          /\ held'["wait_lock"] = Nil
          /\ \A r \in Slot : pc'[r] = IF r = p THEN "falls asleep" ELSE pc[r]
          /\ UNCHANGED <<state, chan, parent, pid, nextpid, newborn, scan>>
        BY <1>17, Zenon
           DEF Life!GoToSleep, Life!GiveUp, Life!release, LifeInv, LifeTypes,
               Life!TypeOK, Life!At, Life!Go, Life!sleepVars, Life!table,
               Life!locals, Life!initproc
    <2>2. LifeTypes'
        <3>1. pc' \in [Slot -> Where]
            BY <1>17, <2>1, NilNotSlot, Zenon
               DEF Life!GoToSleep, Life!GiveUp, Life!release, LifeInv,
                   LifeTypes, Life!At, Life!Go, Life!sleepVars, Life!table,
                   Life!locals, Life!initproc, Where
        <3> QED
            BY <1>17, <3>1, NilNotSlot, Zenon
               DEF Life!GoToSleep, Life!GiveUp, Life!release, LifeInv,
                   LifeTypes, Life!TypeOK, Life!At, Life!Go, Life!sleepVars,
                   Life!table, Life!locals, Life!initproc
    <2>3. InitLives'
        BY <2>1, NilNotSlot, Zenon DEF LifeInv, InitLives, Alive, Life!Lives
    <2>4. ASSUME NEW r \in Slot, NEW t \in Slot
          PROVE  LifePair(r, t)'
        <3>1. /\ LifePair(r, t) /\ LifePair(t, r)
              /\ LifePair(p, r) /\ LifePair(r, p)
              /\ LifePair(p, t) /\ LifePair(t, p)
            BY DEF LifeInv
        <3>2. LifeLocksTaken(r)'
            BY <2>1, <3>1, Typed, NilNotSlot, Zenon DEF LifePair, LifeLocksTaken
        <3>3. StateFits(r)'
            BY <2>1, <3>1, Typed, NilNotSlot, Zenon
               DEF LifePair, StateFits, LifeLocksTaken
        <3>4. NewbornKept(r)'
            BY <2>1, <3>1, Typed, NilNotSlot, Zenon
               DEF LifePair, NewbornKept, Forking, StateFits, HasParent
        <3>5. ForksApart(r, t)'
            BY <2>1, <3>1, Typed, NilNotSlot, Zenon
               DEF LifePair, ForksApart, NewbornKept, Forking
        <3>6. HasParent(r)'
            BY <2>1, <3>1, Typed, NilNotSlot, Zenon
               DEF LifePair, HasParent, Alive, Life!Lives, NewbornKept,
                   Forking
        <3>7. ParentLives(r, t)'
            BY <2>1, <3>1, Typed, NilNotSlot, Zenon
               DEF LifePair, ParentLives, Alive, Life!Lives, Reparented
        <3>8. Reparented(r, t)'
            BY <2>1, <3>1, Typed, NilNotSlot, Zenon
               DEF LifePair, Reparented, LifeLocksTaken, ParentLives, Alive,
                   Life!Lives
        <3>9. PidsGiven(r, t)'
            BY <2>1, <3>1, Typed, NilNotSlot, Zenon DEF LifePair, PidsGiven
        <3>10. ZombieSeen(r, t)'
            BY <2>1, <3>1, Typed, NilNotSlot, Zenon
               DEF LifePair, ZombieSeen, LifeLocksTaken, StateFits
        <3> QED BY <3>2, <3>3, <3>4, <3>5, <3>6, <3>7, <3>8, <3>9, <3>10
                   DEF LifePair
    <2> QED BY <2>2, <2>3, <2>4 DEF LifeInv
<1>18. CASE Life!WaitSleeps(p)
    <2>1. /\ state[p] = "RUNNING" /\ pc[p] = "falls asleep"
          /\ \A r \in Slot : state'[r] = IF r = p THEN "SLEEPING" ELSE state[r]
          /\ \A r \in Slot : chan'[r] = IF r = p THEN p ELSE chan[r]
          /\ \A r \in Slot : plock'[r] = IF r = p THEN Nil ELSE plock[r]
          /\ \A r \in Slot : pc'[r] = IF r = p THEN "woken" ELSE pc[r]
          /\ UNCHANGED <<held, parent, pid, nextpid, newborn, scan>>
        BY <1>18, Zenon
           DEF Life!WaitSleeps, Life!FallAsleep, LifeInv, LifeTypes,
               Life!TypeOK, Life!At, Life!Go, Life!sleepVars, Life!table,
               Life!locals, Life!initproc
    <2>2. LifeTypes'
        <3>1. pc' \in [Slot -> Where]
            BY <1>18, <2>1, NilNotSlot, Zenon
               DEF Life!WaitSleeps, Life!FallAsleep, LifeInv, LifeTypes,
                   Life!At, Life!Go, Life!sleepVars, Life!table, Life!locals,
                   Life!initproc, Where
        <3> QED
            BY <1>18, <3>1, NilNotSlot, Zenon
               DEF Life!WaitSleeps, Life!FallAsleep, LifeInv, LifeTypes,
                   Life!TypeOK, Life!At, Life!Go, Life!sleepVars, Life!table,
                   Life!locals, Life!initproc
    <2>3. InitLives'
        BY <2>1, NilNotSlot, Zenon DEF LifeInv, InitLives, Alive, Life!Lives
    <2>4. ASSUME NEW r \in Slot, NEW t \in Slot
          PROVE  LifePair(r, t)'
        <3>1. /\ LifePair(r, t) /\ LifePair(t, r)
              /\ LifePair(p, r) /\ LifePair(r, p)
              /\ LifePair(p, t) /\ LifePair(t, p)
            BY DEF LifeInv
        <3>2. LifeLocksTaken(r)'
            BY <2>1, <3>1, Typed, NilNotSlot, Zenon DEF LifePair, LifeLocksTaken
        <3>3. StateFits(r)'
            BY <2>1, <3>1, Typed, NilNotSlot, Zenon
               DEF LifePair, StateFits, LifeLocksTaken
        <3>4. NewbornKept(r)'
            BY <2>1, <3>1, Typed, NilNotSlot, Zenon
               DEF LifePair, NewbornKept, Forking, StateFits, HasParent
        <3>5. ForksApart(r, t)'
            BY <2>1, <3>1, Typed, NilNotSlot, Zenon
               DEF LifePair, ForksApart, NewbornKept, Forking
        <3>6. HasParent(r)'
            BY <2>1, <3>1, Typed, NilNotSlot, Zenon
               DEF LifePair, HasParent, Alive, Life!Lives, NewbornKept,
                   Forking
        <3>7. ParentLives(r, t)'
            BY <2>1, <3>1, Typed, NilNotSlot, Zenon
               DEF LifePair, ParentLives, Alive, Life!Lives, Reparented
        <3>8. Reparented(r, t)'
            BY <2>1, <3>1, Typed, NilNotSlot, Zenon
               DEF LifePair, Reparented, LifeLocksTaken, ParentLives, Alive,
                   Life!Lives
        <3>9. PidsGiven(r, t)'
            BY <2>1, <3>1, Typed, NilNotSlot, Zenon DEF LifePair, PidsGiven
        <3>10. ZombieSeen(r, t)'
            BY <2>1, <3>1, Typed, NilNotSlot, Zenon
               DEF LifePair, ZombieSeen, LifeLocksTaken, StateFits
        <3> QED BY <3>2, <3>3, <3>4, <3>5, <3>6, <3>7, <3>8, <3>9, <3>10
                   DEF LifePair
    <2> QED BY <2>2, <2>3, <2>4 DEF LifeInv
<1>19. CASE Life!scheduler(p)
    <2>1. /\ state[p] = "RUNNABLE" /\ plock[p] = Nil
          /\ \A r \in Slot : state'[r] = IF r = p THEN "RUNNING" ELSE state[r]
          /\ \A r \in Slot : chan'[r] = IF r = p THEN Nil ELSE chan[r]
          /\ UNCHANGED <<plock, held, parent, pid, nextpid, pc, newborn, scan>>
        BY <1>19
           DEF Life!scheduler, Life!RunAgain, LifeInv, LifeTypes, Life!TypeOK,
               Life!At, Life!Go, Life!sleepVars, Life!table, Life!locals,
               Life!initproc
    <2>2. LifeTypes'
        <3>1. pc' \in [Slot -> Where]
            BY <1>19, <2>1, NilNotSlot, Zenon
               DEF Life!scheduler, Life!RunAgain, LifeInv, LifeTypes, Life!At,
                   Life!Go, Life!sleepVars, Life!table, Life!locals,
                   Life!initproc, Where
        <3> QED
            BY <1>19, <3>1, NilNotSlot
               DEF Life!scheduler, Life!RunAgain, LifeInv, LifeTypes,
                   Life!TypeOK, Life!At, Life!Go, Life!sleepVars, Life!table,
                   Life!locals, Life!initproc
    <2>3. InitLives'
        BY <2>1, NilNotSlot DEF LifeInv, InitLives, Alive, Life!Lives
    <2>4. ASSUME NEW r \in Slot, NEW t \in Slot
          PROVE  LifePair(r, t)'
        <3>1. /\ LifePair(r, t) /\ LifePair(t, r)
              /\ LifePair(p, r) /\ LifePair(r, p)
              /\ LifePair(p, t) /\ LifePair(t, p)
            BY DEF LifeInv
        <3>2. LifeLocksTaken(r)'
            BY <2>1, <3>1, Typed, NilNotSlot, Zenon DEF LifePair, LifeLocksTaken
        <3>3. StateFits(r)'
            BY <2>1, <3>1, Typed, NilNotSlot, Zenon
               DEF LifePair, StateFits, LifeLocksTaken
        <3>4. NewbornKept(r)'
            BY <2>1, <3>1, Typed, NilNotSlot
               DEF LifePair, NewbornKept, Forking, StateFits, HasParent
        <3>5. ForksApart(r, t)'
            BY <2>1, <3>1, Typed, NilNotSlot
               DEF LifePair, ForksApart, NewbornKept, Forking
        <3>6. HasParent(r)'
            BY <2>1, <3>1, Typed, NilNotSlot
               DEF LifePair, HasParent, Alive, Life!Lives, NewbornKept,
                   Forking
        <3>7. ParentLives(r, t)'
            BY <2>1, <3>1, Typed, NilNotSlot
               DEF LifePair, ParentLives, Alive, Life!Lives, Reparented
        <3>8. Reparented(r, t)'
            BY <2>1, <3>1, Typed, NilNotSlot, Zenon
               DEF LifePair, Reparented, LifeLocksTaken, ParentLives, Alive,
                   Life!Lives
        <3>9. PidsGiven(r, t)'
            BY <2>1, <3>1, Typed, NilNotSlot DEF LifePair, PidsGiven
        <3>10. ZombieSeen(r, t)'
            BY <2>1, <3>1, Typed, NilNotSlot, Zenon
               DEF LifePair, ZombieSeen, LifeLocksTaken, StateFits
        <3> QED BY <3>2, <3>3, <3>4, <3>5, <3>6, <3>7, <3>8, <3>9, <3>10
                   DEF LifePair
    <2> QED BY <2>2, <2>3, <2>4 DEF LifeInv
<1> QED
    BY <1>1, <1>2, <1>3, <1>4, <1>5, <1>6, <1>7, <1>8, <1>9, <1>10, <1>11,
       <1>12, <1>13, <1>14, <1>15, <1>16, <1>17, <1>18, <1>19
       DEF Life!Exits, Life!Waits

LEMMA LifeStutter ==
    ASSUME LifeInv, UNCHANGED lifeVars
    PROVE  LifeInv'
<1>1. LifeTypes' /\ InitLives'
    BY DEF lifeVars, LifeInv, LifeTypes, Life!TypeOK, InitLives, Alive, Life!Lives
<1>2. ASSUME NEW p \in Slot, NEW q \in Slot
      PROVE  LifePair(p, q)'
    <2>1. LifePair(p, q)
        BY DEF LifeInv
    <2> QED
        BY <2>1, Zenon
           DEF lifeVars, LifePair, LifeLocksTaken, StateFits, NewbornKept, Forking,
               ForksApart, HasParent, Alive, Life!Lives, ParentLives, Reparented,
               PidsGiven, ZombieSeen
<1> QED BY <1>1, <1>2 DEF LifeInv

LEMMA LifeInductive == LifeInv /\ [Next]_vars => LifeInv'
BY LifeNext, LifeStutter
   DEF Next, vars, CowStep, LifeStep, SleepStep, PipeStep, DiskStep, InodeStep

LEMMA LifeSound ==
    ASSUME LifeInv
    PROVE  /\ Life!TypeOK /\ Life!EveryoneHasParent /\ Life!UnusedIsOff
           /\ Life!PidsDiffer /\ Life!NoZombieMissed
<1>1. \A p, q \in Slot : LifePair(p, q)
    BY DEF LifeInv
<1>2. Life!EveryoneHasParent
    <2>1. ASSUME NEW q \in Slot, q # 0, state[q] \in Life!Lives \cup {"ZOMBIE"}
          PROVE  parent[q] # Nil /\ state[parent[q]] \in Life!Lives
        <3>1. parent[q] # Nil
            BY <1>1, <2>1 DEF LifePair, HasParent, Alive
        <3>2. LifePair(parent[q], q)
            BY <1>1, <3>1, Typed
        <3> QED BY <3>1, <3>2 DEF LifePair, ParentLives, Alive
    <2> QED BY <2>1 DEF Life!EveryoneHasParent, Life!initproc
<1>3. Life!UnusedIsOff
    BY <1>1, NilNotSlot, Zenon
    DEF LifePair, StateFits, LifeLocksTaken, Life!UnusedIsOff
<1>4. Life!PidsDiffer
    BY <1>1 DEF LifePair, PidsGiven, Life!PidsDiffer
<1>5. Life!NoZombieMissed
    BY <1>1, Zenon DEF LifePair, ZombieSeen, Life!NoZombieMissed
<1> QED BY <1>2, <1>3, <1>4, <1>5 DEF LifeInv, LifeTypes

(* ProcTable: whatever processes fork, exit, wait and are killed in which    *)
(* order, whoever lives has a living parent, slots are given out again only  *)
(* when nothing runs on their stacks, ids differ and no parent sleeps beside *)
(* a child that ended.                                                       *)
THEOREM ProcessesKept == Spec => []ProcTable
<1>1. Init => LifeInv
    BY LifeInit DEF Init
<1>2. LifeInv /\ [Next]_vars => LifeInv'
    BY LifeInductive
<1>3. LifeInv => ProcTable
    BY LifeSound DEF ProcTable
<1> QED BY <1>1, <1>2, <1>3, PTL DEF Spec

-----------------------------------------------------------------------------
(* Sleep-locks.                                                              *)

SleepTypes ==
    /\ Sleep!TypeOK
    /\ lkkilled \in [Sleeper -> BOOLEAN]
    /\ lkpc \in [Sleeper -> {"out", "test", "falls asleep", "asleep", "in",
                             "releases"}]

(* The spinlock belongs to who tests or releases the sleep-lock, and the     *)
(* p->lock of a process is taken while it falls asleep.                      *)
SleepLocksTaken ==
    \A p \in Sleeper :
        /\ lkheld["lk"] = p <=> lkpc[p] \in {"test", "releases"}
        /\ lkplock[p] = IF lkpc[p] = "falls asleep" THEN p ELSE Nil

(* Who does not run is in sleep(), on the channel of the sleep-lock.         *)
AsleepOnLk ==
    \A p \in Sleeper :
        /\ lkstate[p] # "RUNNING" => lkpc[p] = "asleep"
        /\ lkstate[p] = "SLEEPING" => lkchan[p] = "lk"

HolderIsIn ==
    \A p \in Sleeper : lkpc[p] \in {"in", "releases"} <=> locked /\ lkpid = p

(* While the sleep-lock is free nobody is left asleep or about to be.        *)
FreeWakesAll ==
    ~locked => \A p \in Sleeper :
                  lkstate[p] # "SLEEPING" /\ lkpc[p] # "falls asleep"

SleepInv ==
    SleepTypes /\ SleepLocksTaken /\ AsleepOnLk /\ HolderIsIn /\ FreeWakesAll

LEMMA SleepNotNil == Nil \notin Sleeper
BY KernelAssumption DEF KernelAssumption, Sleep!SleepWakeupAssumption

LEMMA SleepInit == Sleep!initsleeplock => SleepInv
<1> SUFFICES ASSUME Sleep!initsleeplock PROVE SleepInv
    OBVIOUS
<1>1. SleepTypes
    BY DEF Sleep!initsleeplock, SleepTypes, Sleep!TypeOK
<1>2. SleepLocksTaken /\ AsleepOnLk /\ HolderIsIn /\ FreeWakesAll
    BY SleepNotNil
       DEF Sleep!initsleeplock, SleepLocksTaken, AsleepOnLk, HolderIsIn, FreeWakesAll
<1> QED BY <1>1, <1>2 DEF SleepInv

LEMMA SleepNext ==
    ASSUME SleepInv, Sleep!Next
    PROVE  SleepInv'
<1> SUFFICES ASSUME NEW p \in Sleeper,
                    \/ Sleep!TakeLk(p, "out", "test") \/ Sleep!Steps(p)
                    \/ Sleep!Killed(p)
             PROVE  SleepInv'
    BY DEF Sleep!Next
<1>1. ASSUME NEW from, NEW to, Sleep!TakeLk(p, from, to),
             <<from, to>> \in {<<"out", "test">>, <<"asleep", "test">>,
                               <<"in", "releases">>}
      PROVE  SleepInv'
    <2>1. SleepTypes'
        BY <1>1, SleepNotNil, Zenon
           DEF SleepInv, Sleep!At, Sleep!Go, Sleep!sleepVars, Sleep!TakeLk,
               Sleep!acquire, SleepTypes, Sleep!TypeOK
    <2>2. SleepLocksTaken'
        BY <1>1, SleepNotNil, Zenon
           DEF SleepInv, Sleep!At, Sleep!Go, Sleep!sleepVars, Sleep!TakeLk,
               Sleep!acquire, SleepTypes, Sleep!TypeOK, SleepLocksTaken,
               AsleepOnLk
    <2>3. AsleepOnLk'
        BY <1>1, SleepNotNil, Zenon
           DEF SleepInv, Sleep!At, Sleep!Go, Sleep!sleepVars, Sleep!TakeLk,
               Sleep!acquire, SleepTypes, Sleep!TypeOK, AsleepOnLk
    <2>4. HolderIsIn'
        BY <1>1, SleepNotNil, Zenon
           DEF SleepInv, Sleep!At, Sleep!Go, Sleep!sleepVars, Sleep!TakeLk,
               Sleep!acquire, SleepTypes, Sleep!TypeOK, SleepLocksTaken,
               HolderIsIn
    <2>5. FreeWakesAll'
        BY <1>1, SleepNotNil, Zenon
           DEF SleepInv, Sleep!At, Sleep!Go, Sleep!sleepVars, Sleep!TakeLk,
               Sleep!acquire, SleepTypes, Sleep!TypeOK, SleepLocksTaken,
               AsleepOnLk, FreeWakesAll
    <2> QED BY <2>1, <2>2, <2>3, <2>4, <2>5 DEF SleepInv
<1>2. CASE Sleep!Take(p)
    <2>1. SleepTypes'
        BY <1>2, SleepNotNil, Zenon
           DEF SleepInv, Sleep!At, Sleep!Go, Sleep!sleepVars, Sleep!Take,
               Sleep!release, SleepTypes, Sleep!TypeOK
    <2>2. SleepLocksTaken'
        BY <1>2, SleepNotNil, Zenon
           DEF SleepInv, Sleep!At, Sleep!Go, Sleep!sleepVars, Sleep!Take,
               Sleep!release, SleepTypes, Sleep!TypeOK, SleepLocksTaken,
               AsleepOnLk
    <2>3. AsleepOnLk'
        BY <1>2, SleepNotNil, Zenon
           DEF SleepInv, Sleep!At, Sleep!Go, Sleep!sleepVars, Sleep!Take,
               Sleep!release, SleepTypes, Sleep!TypeOK, AsleepOnLk
    <2>4. HolderIsIn'
        BY <1>2, SleepNotNil, Zenon
           DEF SleepInv, Sleep!At, Sleep!Go, Sleep!sleepVars, Sleep!Take,
               Sleep!release, SleepTypes, Sleep!TypeOK, SleepLocksTaken,
               HolderIsIn
    <2>5. FreeWakesAll'
        BY <1>2, SleepNotNil, Zenon
           DEF SleepInv, Sleep!At, Sleep!Go, Sleep!sleepVars, Sleep!Take,
               Sleep!release, SleepTypes, Sleep!TypeOK, SleepLocksTaken,
               AsleepOnLk, FreeWakesAll
    <2> QED BY <2>1, <2>2, <2>3, <2>4, <2>5 DEF SleepInv
<1>3. CASE Sleep!WaitForIt(p)
    <2>1. SleepTypes'
        BY <1>3, SleepNotNil, Zenon
           DEF SleepInv, Sleep!At, Sleep!Go, Sleep!sleepVars, Sleep!WaitForIt,
               Sleep!GiveUp, Sleep!release, SleepTypes, Sleep!TypeOK
    <2>2. SleepLocksTaken'
        <3>1. /\ lkheld' = [lkheld EXCEPT !["lk"] = Nil]
              /\ lkplock' = [lkplock EXCEPT ![p] = p]
              /\ lkpc' = [lkpc EXCEPT ![p] = "falls asleep"]
              /\ lkheld["lk"] = p
            BY <1>3, Zenon
            DEF Sleep!WaitForIt, Sleep!GiveUp, Sleep!release, Sleep!Go
        <3>2. lkheld'["lk"] = Nil
            BY <3>1, Zenon DEF SleepInv, SleepTypes, Sleep!TypeOK
        <3> QED BY <3>1, <3>2, SleepNotNil, Zenon
                DEF SleepInv, SleepTypes, Sleep!TypeOK, SleepLocksTaken
    <2>3. AsleepOnLk'
        BY <1>3, SleepNotNil, Zenon
           DEF SleepInv, Sleep!At, Sleep!Go, Sleep!sleepVars, Sleep!WaitForIt,
               Sleep!GiveUp, Sleep!release, SleepTypes, Sleep!TypeOK,
               AsleepOnLk
    <2>4. HolderIsIn'
        BY <1>3, SleepNotNil, Zenon
           DEF SleepInv, Sleep!At, Sleep!Go, Sleep!sleepVars, Sleep!WaitForIt,
               Sleep!GiveUp, Sleep!release, SleepTypes, Sleep!TypeOK,
               SleepLocksTaken, HolderIsIn
    <2>5. FreeWakesAll'
        BY <1>3, SleepNotNil, Zenon
           DEF SleepInv, Sleep!At, Sleep!Go, Sleep!sleepVars, Sleep!WaitForIt,
               Sleep!GiveUp, Sleep!release, SleepTypes, Sleep!TypeOK,
               SleepLocksTaken, AsleepOnLk, FreeWakesAll
    <2> QED BY <2>1, <2>2, <2>3, <2>4, <2>5 DEF SleepInv
<1>4. CASE Sleep!SleepOnIt(p)
    <2>1. SleepTypes'
        BY <1>4, SleepNotNil, Zenon
           DEF SleepInv, Sleep!At, Sleep!Go, Sleep!sleepVars, Sleep!SleepOnIt,
               Sleep!FallAsleep, SleepTypes, Sleep!TypeOK
    <2>2. SleepLocksTaken'
        BY <1>4, SleepNotNil, Zenon
           DEF SleepInv, Sleep!At, Sleep!Go, Sleep!sleepVars, Sleep!SleepOnIt,
               Sleep!FallAsleep, SleepTypes, Sleep!TypeOK, SleepLocksTaken,
               AsleepOnLk
    <2>3. AsleepOnLk'
        BY <1>4, SleepNotNil, Zenon
           DEF SleepInv, Sleep!At, Sleep!Go, Sleep!sleepVars, Sleep!SleepOnIt,
               Sleep!FallAsleep, SleepTypes, Sleep!TypeOK, AsleepOnLk
    <2>4. HolderIsIn'
        BY <1>4, SleepNotNil, Zenon
           DEF SleepInv, Sleep!At, Sleep!Go, Sleep!sleepVars, Sleep!SleepOnIt,
               Sleep!FallAsleep, SleepTypes, Sleep!TypeOK, SleepLocksTaken,
               HolderIsIn
    <2>5. FreeWakesAll'
        BY <1>4, SleepNotNil, Zenon
           DEF SleepInv, Sleep!At, Sleep!Go, Sleep!sleepVars, Sleep!SleepOnIt,
               Sleep!FallAsleep, SleepTypes, Sleep!TypeOK, SleepLocksTaken,
               AsleepOnLk, FreeWakesAll
    <2> QED BY <2>1, <2>2, <2>3, <2>4, <2>5 DEF SleepInv
<1>5. CASE Sleep!Wakes(p)
    <2>1. SleepTypes'
        BY <1>5, SleepNotNil, Zenon
           DEF SleepInv, Sleep!At, Sleep!Go, Sleep!sleepVars, Sleep!Wakes,
               Sleep!RunAgain, SleepTypes, Sleep!TypeOK
    <2>2. SleepLocksTaken'
        BY <1>5, SleepNotNil, Zenon
           DEF SleepInv, Sleep!At, Sleep!Go, Sleep!sleepVars, Sleep!Wakes,
               Sleep!RunAgain, SleepTypes, Sleep!TypeOK, SleepLocksTaken,
               AsleepOnLk
    <2>3. AsleepOnLk'
        BY <1>5, SleepNotNil, Zenon
           DEF SleepInv, Sleep!At, Sleep!Go, Sleep!sleepVars, Sleep!Wakes,
               Sleep!RunAgain, SleepTypes, Sleep!TypeOK, AsleepOnLk
    <2>4. HolderIsIn'
        BY <1>5, SleepNotNil, Zenon
           DEF SleepInv, Sleep!At, Sleep!Go, Sleep!sleepVars, Sleep!Wakes,
               Sleep!RunAgain, SleepTypes, Sleep!TypeOK, SleepLocksTaken,
               HolderIsIn
    <2>5. FreeWakesAll'
        BY <1>5, SleepNotNil, Zenon
           DEF SleepInv, Sleep!At, Sleep!Go, Sleep!sleepVars, Sleep!Wakes,
               Sleep!RunAgain, SleepTypes, Sleep!TypeOK, SleepLocksTaken,
               AsleepOnLk, FreeWakesAll
    <2> QED BY <2>1, <2>2, <2>3, <2>4, <2>5 DEF SleepInv
<1>6. CASE Sleep!releasesleep(p)
    <2>1. SleepTypes'
        BY <1>6, SleepNotNil, Zenon
           DEF SleepInv, Sleep!At, Sleep!Go, Sleep!sleepVars,
               Sleep!releasesleep, Sleep!wakeup, Sleep!CanWake, Sleep!Awake,
               Sleep!Sleeps, Sleep!release, SleepTypes, Sleep!TypeOK
    <2>2. SleepLocksTaken'
        BY <1>6, SleepNotNil, Zenon
           DEF SleepInv, Sleep!At, Sleep!Go, Sleep!sleepVars,
               Sleep!releasesleep, Sleep!wakeup, Sleep!CanWake, Sleep!Awake,
               Sleep!Sleeps, Sleep!release, SleepTypes, Sleep!TypeOK,
               SleepLocksTaken, AsleepOnLk
    <2>3. AsleepOnLk'
        BY <1>6, SleepNotNil, Zenon
           DEF SleepInv, Sleep!At, Sleep!Go, Sleep!sleepVars,
               Sleep!releasesleep, Sleep!wakeup, Sleep!CanWake, Sleep!Awake,
               Sleep!Sleeps, Sleep!release, SleepTypes, Sleep!TypeOK,
               AsleepOnLk
    <2>4. HolderIsIn'
        BY <1>6, SleepNotNil, Zenon
           DEF SleepInv, Sleep!At, Sleep!Go, Sleep!sleepVars,
               Sleep!releasesleep, Sleep!wakeup, Sleep!CanWake, Sleep!Awake,
               Sleep!Sleeps, Sleep!release, SleepTypes, Sleep!TypeOK,
               SleepLocksTaken, HolderIsIn
    <2>5. FreeWakesAll'
        <3>1. lkplock[p] = Nil /\ lkstate[p] = "RUNNING"
            BY <1>6, Zenon
            DEF SleepInv, SleepLocksTaken, Sleep!releasesleep, Sleep!At
        <3>2. ASSUME NEW q \in Sleeper
              PROVE  lkstate'[q] # "SLEEPING" /\ lkpc'[q] # "falls asleep"
            <4>1. lkplock[q] = Nil
                BY <1>6, <3>1 DEF Sleep!releasesleep, Sleep!wakeup, Sleep!CanWake
            <4>2. lkpc'[q] # "falls asleep"
                BY <1>6, <4>1, SleepNotNil, Zenon
                   DEF SleepInv, SleepTypes, SleepLocksTaken, Sleep!releasesleep,
                       Sleep!Go
            <4>3. lkstate'[q] # "SLEEPING"
                BY <1>6, <3>1
                   DEF SleepInv, AsleepOnLk, Sleep!releasesleep, Sleep!wakeup,
                       Sleep!Awake, Sleep!Sleeps
            <4> QED BY <4>2, <4>3, Zenon
        <3> QED BY <3>2, Zenon DEF FreeWakesAll
    <2> QED BY <2>1, <2>2, <2>3, <2>4, <2>5 DEF SleepInv
<1>7. CASE Sleep!Killed(p)
    <2>1. SleepTypes'
        BY <1>7, SleepNotNil, Zenon
           DEF SleepInv, Sleep!At, Sleep!Go, Sleep!sleepVars, Sleep!Killed,
               Sleep!Kill, SleepTypes, Sleep!TypeOK
    <2>2. SleepLocksTaken'
        BY <1>7, SleepNotNil, Zenon
           DEF SleepInv, Sleep!At, Sleep!Go, Sleep!sleepVars, Sleep!Killed,
               Sleep!Kill, SleepTypes, Sleep!TypeOK, SleepLocksTaken,
               AsleepOnLk
    <2>3. AsleepOnLk'
        BY <1>7, SleepNotNil, Zenon
           DEF SleepInv, Sleep!At, Sleep!Go, Sleep!sleepVars, Sleep!Killed,
               Sleep!Kill, SleepTypes, Sleep!TypeOK, AsleepOnLk
    <2>4. HolderIsIn'
        BY <1>7, SleepNotNil, Zenon
           DEF SleepInv, Sleep!At, Sleep!Go, Sleep!sleepVars, Sleep!Killed,
               Sleep!Kill, SleepTypes, Sleep!TypeOK, SleepLocksTaken,
               HolderIsIn
    <2>5. FreeWakesAll'
        BY <1>7, SleepNotNil, Zenon
           DEF SleepInv, Sleep!At, Sleep!Go, Sleep!sleepVars, Sleep!Killed,
               Sleep!Kill, SleepTypes, Sleep!TypeOK, SleepLocksTaken,
               AsleepOnLk, FreeWakesAll
    <2> QED BY <2>1, <2>2, <2>3, <2>4, <2>5 DEF SleepInv
<1> QED BY <1>1, <1>2, <1>3, <1>4, <1>5, <1>6, <1>7 DEF Sleep!Steps

LEMMA SleepStutter ==
    ASSUME SleepInv, UNCHANGED sleepVars
    PROVE  SleepInv'
BY Zenon
DEF sleepVars, SleepInv, SleepTypes, Sleep!TypeOK, SleepLocksTaken, AsleepOnLk,
       HolderIsIn, FreeWakesAll

LEMMA SleepInductive == SleepInv /\ [Next]_vars => SleepInv'
BY SleepNext, SleepStutter
   DEF Next, vars, CowStep, LifeStep, SleepStep, PipeStep, DiskStep, InodeStep

LEMMA SleepKept ==
    ASSUME SleepInv
    PROVE  Sleep!TypeOK /\ Sleep!OneHolder /\ Sleep!NoSleeperMissed
<1>1. Sleep!OneHolder
    <2>1. CASE locked
        <3>1. lkpid \in Sleeper
            BY <2>1, Zenon DEF SleepInv, SleepTypes, Sleep!TypeOK
        <3> QED BY <2>1, <3>1 DEF SleepInv, HolderIsIn, Sleep!OneHolder
    <2>2. CASE ~locked
        BY <2>2 DEF SleepInv, HolderIsIn, Sleep!OneHolder
    <2> QED BY <2>1, <2>2
<1>2. Sleep!NoSleeperMissed
    BY Zenon DEF SleepInv, FreeWakesAll, Sleep!NoSleeperMissed
<1> QED BY <1>1, <1>2, Zenon DEF SleepInv, SleepTypes


-----------------------------------------------------------------------------
(* Pipes.                                                                    *)

PipeWhere == {"user", "write", "read", "sleep", "falls asleep", "woken", "copy",
              "copied", "close"}
PipeTypes ==
    /\ Pipe!TypeOK
    /\ pikilled \in [PipeUser -> BOOLEAN] /\ end \in [PipeUser -> Pipe!End]
    /\ piheld \in [{"pipe"} -> PipeUser \cup {Nil}]
    /\ piplock \in [PipeUser -> PipeUser \cup {Nil}]
    /\ pipc \in [PipeUser -> PipeWhere]
    /\ open \in [Pipe!End -> BOOLEAN] /\ freed \in BOOLEAN
    /\ ofile \in [PipeUser -> [Pipe!End -> Nat]]
    /\ data \in [0..(PIPESIZE - 1) -> Nat]
    /\ sent \in Seq(Nat) /\ received \in Seq(Nat)

(* The pipe's lock belongs to who reads, writes or is about to sleep, and    *)
(* who does not run sleeps, or did, on the channel of its end.               *)
PipeFits(p) ==
    /\ piheld["pipe"] = p
          <=> pipc[p] \in {"read", "write", "copy", "copied", "sleep"}
    /\ piplock[p] = IF pipc[p] = "falls asleep" THEN p ELSE Nil
    /\ pistate[p] # "RUNNING" => pipc[p] = "woken"
    /\ pistate[p] = "SLEEPING" => pichan[p] = Pipe!Channel(end[p])
    /\ pipc[p] \in {"read", "copy", "copied"} => end[p] = "read"
    /\ pipc[p] = "write" => end[p] = "write"

(* A process waits at an end for a reason, or for the wakeup() of who has    *)
(* the lock and changed that.                                                *)
Waiting(p, e) ==
    end[p] = e /\ (pistate[p] = "SLEEPING" \/ pipc[p] = "falls asleep")
HolderIs(where) == piheld["pipe"] # Nil /\ pipc[piheld["pipe"]] \in where
ReadWaits(p) ==
    Waiting(p, "read") =>
        open["write"] /\ (Pipe!Empty \/ Pipe!Killed \/ HolderIs({"write"}))
WriteWaits(p) ==
    Waiting(p, "write") =>
        open["read"] /\ (Pipe!Full \/ HolderIs({"copy", "copied"}))
SleepsRightly(p) ==
    pipc[p] = "sleep" =>
        IF end[p] = "read" THEN Pipe!Empty /\ open["write"]
                           ELSE Pipe!Full /\ open["read"]
(* A writer of a full pipe woke the readers.                                 *)
ReadersAwake(p, q) ==
    pipc[p] = "sleep" /\ end[p] = "write" => ~Waiting(q, "read")

(* The references of an end are the files that processes have of it; it is   *)
(* closed once, by who had the last one.                                     *)
Owned(e) == [p \in PipeUser |-> ofile[p][e]]
Files(e) == Tokens(Owned(e), PipeUser)
RefsCounted(e) ==
    /\ IsFiniteSet(Files(e)) /\ ref[e] = Cardinality(Files(e))
    /\ ~open[e] => ref[e] = 0
EndsHeld(p) ==
    /\ pipc[p] = "close" => ref[end[p]] = 0 /\ open[end[p]]
    /\ pipc[p] \notin {"user", "close"} => ofile[p][end[p]] > 0
OneCloses(p, q) ==
    pipc[p] = "close" /\ pipc[q] = "close" /\ end[p] = end[q] => p = q
FreedClosed == freed <=> ~open["read"] /\ ~open["write"]

BytesKept == Pipe!Unread <= PIPESIZE /\ Pipe!BytesInOrder

PipePair(p, q) ==
    /\ PipeFits(p) /\ ReadersAwake(p, q)
    /\ ReadWaits(p) /\ WriteWaits(p) /\ SleepsRightly(p)
    /\ EndsHeld(p) /\ OneCloses(p, q)

PipeInv ==
    /\ PipeTypes /\ FreedClosed /\ BytesKept
    /\ \A e \in Pipe!End : RefsCounted(e)
    /\ \A p, q \in PipeUser : PipePair(p, q)

LEMMA NilNotUser == Nil \notin PipeUser
BY KernelAssumption DEF KernelAssumption, Pipe!SleepWakeupAssumption

LEMMA PipeSizes ==
    /\ PIPESIZE \in Nat /\ PIPESIZE > 0 /\ UINT \in Nat /\ UINT > PIPESIZE
    /\ UINT % PIPESIZE = 0 /\ Size \in Nat /\ MaxRef \in Nat
    /\ IsFiniteSet(PipeUser) /\ Cardinality(PipeUser) <= MaxRef
<1>1. Pipe!IsFiniteSet(PipeUser) = IsFiniteSet(PipeUser)
    BY DEF Pipe!IsFiniteSet, IsFiniteSet
<1>2. Pipe!Cardinality(PipeUser) = Cardinality(PipeUser)
    BY DEF Pipe!Cardinality, Cardinality
<1> QED BY <1>1, <1>2, KernelAssumption DEF KernelAssumption, Pipe!PipeIOAssumption

LEMMA CountersTyped ==
    ASSUME PipeInv
    PROVE  /\ nread \in Nat /\ nread < UINT /\ nwrite \in Nat /\ nwrite < UINT
           /\ data \in [0..(PIPESIZE - 1) -> Nat]
           /\ sent \in Seq(Nat) /\ received \in Seq(Nat)
BY PipeSizes DEF PipeInv, PipeTypes, Pipe!TypeOK

(* What is in the pipe, as a ring.                                           *)
Ring == Window(data, nread, Filled(nread, nwrite, UINT), UINT, PIPESIZE)

LEMMA BytesAre ==
    /\ Pipe!Unread = Filled(nread, nwrite, UINT)
    /\ Pipe!BytesInOrder <=> sent = received \o Ring
BY DEF Pipe!Unread, Filled, Pipe!BytesInOrder, Ring, Window, Cell

LEMMA FullIs ==
    ASSUME PipeInv
    PROVE  /\ Pipe!Full <=> Filled(nread, nwrite, UINT) = PIPESIZE
           /\ Pipe!Empty <=> Filled(nread, nwrite, UINT) = 0
BY CountersTyped, PipeSizes, FilledLimits DEF Pipe!Full, Pipe!Empty

LEMMA EndsSame ==
    ASSUME PipeInv, UNCHANGED <<open, freed, ref, ofile>>
    PROVE  FreedClosed' /\ \A e \in Pipe!End : RefsCounted(e)'
BY DEF PipeInv, FreedClosed, RefsCounted, Files, Owned

LEMMA BytesSame ==
    ASSUME PipeInv, UNCHANGED <<data, nread, nwrite, sent, received>>
    PROVE  BytesKept'
BY DEF PipeInv, BytesKept, Pipe!Unread, Pipe!BytesInOrder

LEMMA OwnedTyped ==
    ASSUME PipeInv, NEW e \in Pipe!End
    PROVE  Owned(e) \in [PipeUser -> Nat] /\ RefsCounted(e)
BY DEF PipeInv, PipeTypes, Owned

(* A process in a call on an end has a file of it, so that the end is open.  *)
LEMMA InCallOpen ==
    ASSUME PipeInv, NEW p \in PipeUser, NEW e \in Pipe!End, ofile[p][e] > 0
    PROVE  ref[e] > 0 /\ open[e]
<1>1. Owned(e)[p] # 0
    BY DEF PipeInv, PipeTypes, Owned
<1>2. Cardinality(Files(e)) \in Nat /\ Cardinality(Files(e)) # 0
    BY <1>1, OwnedTyped, TokensSome DEF Files, RefsCounted
<1> QED BY <1>2, OwnedTyped DEF RefsCounted

(* Nobody has a file of an end that counts no reference.                     *)
LEMMA NoneOwned ==
    ASSUME PipeInv, NEW e \in Pipe!End, ref[e] = 0, NEW p \in PipeUser
    PROVE  ofile[p][e] = 0
<1>1. Owned(e)[p] = 0
    BY OwnedTyped, TokensSome DEF Files, RefsCounted
<1> QED BY <1>1 DEF Owned

LEMMA FilesSame ==
    ASSUME NEW e, \A q \in PipeUser : ofile'[q][e] = ofile[q][e]
    PROVE  Files(e)' = Files(e)
<1>1. Owned(e)' = Owned(e)
    BY DEF Owned
<1> QED BY <1>1 DEF Files

(* A byte put in a pipe that is not full is the last of its ring.           *)
LEMMA PutHere ==
    ASSUME PipeInv, NEW x, x \in Nat, Filled(nread, nwrite, UINT) < PIPESIZE
    PROVE  Window(PutIn(data, nwrite, x, PIPESIZE), nread,
                  Filled(nread, nwrite, UINT) + 1, UINT, PIPESIZE)
           = Append(Window(data, nread, Filled(nread, nwrite, UINT), UINT,
                           PIPESIZE), x)
<1>1. /\ UINT \in Nat /\ PIPESIZE \in Nat /\ PIPESIZE > 0
      /\ UINT > PIPESIZE /\ Divides(PIPESIZE, UINT)
      /\ nread \in Nat /\ nread < UINT /\ nwrite \in Nat /\ nwrite < UINT
      /\ Filled(nread, nwrite, UINT) < PIPESIZE
      /\ data \in [0..(PIPESIZE - 1) -> Nat] /\ x \in Nat
    BY CountersTyped, PipeSizes DEF Divides
<1> QED BY <1>1, RingPut, Zenon

(* The bytes in the pipe stay in order when one goes in or comes out.        *)
LEMMA BytesIn ==
    ASSUME PipeInv, ~Pipe!Full,
           data' = [data EXCEPT ![nwrite % PIPESIZE] = Len(sent) + 1],
           nwrite' = (nwrite + 1) % UINT, nread' = nread,
           sent' = Append(sent, Len(sent) + 1), received' = received
    PROVE  BytesKept' /\ nwrite' \in 0..(UINT - 1)
<1> DEFINE u == Filled(nread, nwrite, UINT)
           x == Len(sent) + 1
<1>0. /\ nread \in Nat /\ nread < UINT /\ nwrite \in Nat /\ nwrite < UINT
      /\ data \in [0..(PIPESIZE - 1) -> Nat]
      /\ sent \in Seq(Nat) /\ received \in Seq(Nat)
    BY CountersTyped
<1>1. u \in Nat /\ u <= PIPESIZE /\ u # PIPESIZE
    BY CountersTyped, PipeSizes, FilledIs, FullIs, BytesAre DEF PipeInv, BytesKept
<1>2. u < PIPESIZE /\ x \in Nat
    <2>1. Len(sent) \in Nat
        BY CountersTyped, LenProperties
    <2> QED BY <1>1, <2>1, PipeSizes
<1>3. /\ nwrite' \in Nat /\ nwrite' < UINT
      /\ Filled(nread', nwrite', UINT) = u + 1
    BY <1>2, CountersTyped, PipeSizes, FilledPut
<1>4. Ring' = Append(Ring, x)
    <2>1. data' = PutIn(data, nwrite, x, PIPESIZE)
        BY DEF PutIn
    <2> HIDE DEF x
    <2>2. Window(PutIn(data, nwrite, x, PIPESIZE), nread, u + 1, UINT, PIPESIZE)
              = Append(Ring, x)
        BY <1>2, PutHere DEF Ring
    <2> QED BY <1>3, <2>1, <2>2 DEF Ring
<1>5. Ring \in Seq(Nat)
    BY <1>1, CountersTyped, PipeSizes, WindowSeq DEF Ring
<1>6. sent = received \o Ring
    BY BytesAre DEF PipeInv, BytesKept
<1>7. sent' = received' \o Ring'
    <2>1. sent' = Append(sent, x)
        OBVIOUS
    <2> HIDE DEF x
    <2>2. Append(received \o Ring, x) = received \o Append(Ring, x)
        BY <1>0, <1>2, <1>5, PutLast
    <2> QED BY <1>4, <1>6, <2>1, <2>2
<1>8. Pipe!Unread' = u + 1 /\ (Pipe!BytesInOrder' <=> sent' = received' \o Ring')
    BY <1>3 DEF Pipe!Unread, Filled, Pipe!BytesInOrder, Ring, Window, Cell
<1>9. u + 1 <= PIPESIZE /\ nwrite' \in 0..(UINT - 1)
    BY <1>1, <1>2, <1>3, PipeSizes
<1> QED BY <1>7, <1>8, <1>9 DEF BytesKept

LEMMA BytesOut ==
    ASSUME PipeInv, ~Pipe!Empty, nread' = (nread + 1) % UINT,
           received' = Append(received, data[nread % PIPESIZE]),
           UNCHANGED <<data, nwrite, sent>>
    PROVE  /\ BytesKept' /\ nread' \in 0..(UINT - 1)
           /\ received' \in Seq(Nat)
<1> DEFINE u == Filled(nread, nwrite, UINT)
           x == data[nread % PIPESIZE]
           rest == Window(data, nread', u - 1, UINT, PIPESIZE)
<1>0. /\ nread \in Nat /\ nread < UINT /\ nwrite \in Nat /\ nwrite < UINT
      /\ data \in [0..(PIPESIZE - 1) -> Nat]
      /\ sent \in Seq(Nat) /\ received \in Seq(Nat)
    BY CountersTyped
<1>1. u \in Nat /\ u <= PIPESIZE /\ u # 0 /\ nread # nwrite
    BY CountersTyped, PipeSizes, FilledIs, FullIs, BytesAre
       DEF PipeInv, BytesKept, Pipe!Empty
<1>2. /\ nread' \in Nat /\ nread' < UINT
      /\ Filled(nread', nwrite', UINT) = u - 1
    <2>1. UINT > 1
        BY PipeSizes
    <2> QED BY <1>1, <2>1, CountersTyped, PipeSizes, FilledTake
<1>3. Ring = <<x>> \o rest
    <2>1. Ring = FirstIn(data, nread, PIPESIZE)
                 \o Window(data, (nread + 1) % UINT, u - 1, UINT, PIPESIZE)
        BY <1>0, <1>1, PipeSizes, RingTake DEF Ring
    <2> QED BY <2>1 DEF FirstIn
<1>4. Ring' = rest
    BY <1>2 DEF Ring
<1>5. x \in Nat /\ <<x>> \in Seq(Nat)
    <2>1. nread % PIPESIZE \in 0..(PIPESIZE - 1)
        <3>1. /\ nread % PIPESIZE \in Int /\ 0 <= nread % PIPESIZE
              /\ nread % PIPESIZE < PIPESIZE
            BY CountersTyped, PipeSizes, ModBounds
        <3> QED BY <3>1, PipeSizes
    <2> QED BY <2>1, CountersTyped
<1>6. rest \in Seq(Nat)
    <2>1. u - 1 \in Nat
        BY <1>1
    <2> QED BY <1>2, <2>1, CountersTyped, PipeSizes, WindowSeq
<1>7. sent = received \o Ring
    BY BytesAre DEF PipeInv, BytesKept
<1> HIDE DEF x, rest
<1>8. received' = Append(received, x)
    BY DEF x
<1>9. sent' = received' \o Ring' /\ received' \in Seq(Nat)
    <2>1. /\ received \o (<<x>> \o rest) = Append(received, x) \o rest
          /\ Append(received, x) \in Seq(Nat)
        BY <1>0, <1>5, <1>6, TakeFirst
    <2> QED BY <1>3, <1>4, <1>7, <1>8, <2>1
<1>10. Pipe!Unread' = u - 1 /\ (Pipe!BytesInOrder' <=> sent' = received' \o Ring')
    BY <1>2 DEF Pipe!Unread, Filled, Pipe!BytesInOrder, Ring, Window, Cell
<1>11. u - 1 <= PIPESIZE /\ nread' \in 0..(UINT - 1)
    BY <1>1, <1>2, PipeSizes
<1> QED BY <1>9, <1>10, <1>11 DEF BytesKept

LEMMA PipeNext ==
    ASSUME PipeInv, Pipe!Next
    PROVE  PipeInv'
<1> SUFFICES ASSUME NEW p \in PipeUser,
                    \/ Pipe!InKernel(p) \/ Pipe!KillOne(p)
                    \/ \E e \in Pipe!End : \/ Pipe!PipeLock(p, e)
                                           \/ Pipe!filedup(p, e)
                                           \/ Pipe!fileclose(p, e)
             PROVE  PipeInv'
    BY DEF Pipe!Next
<1>1. CASE Pipe!WriteFails(p)
    <2>1. /\ pistate[p] = "RUNNING" /\ pipc[p] = "write"
          /\ piheld["pipe"] = p
          /\ ~open["read"] \/ pikilled[p]
          /\ piheld'["pipe"] = Nil
          /\ \A r \in PipeUser : pipc'[r] = IF r = p THEN "user" ELSE pipc[r]
          /\ (Pipe!Empty' <=> Pipe!Empty) /\ (Pipe!Full' <=> Pipe!Full)
          /\ (Pipe!Killed' <=> Pipe!Killed)
          /\ UNCHANGED <<open, freed, ref, ofile>>
          /\ UNCHANGED <<pistate, pichan, piplock, end>>
        BY <1>1
           DEF Pipe!WriteFails, Pipe!Writes, Pipe!release, PipeInv, PipeTypes,
               Pipe!TypeOK, Pipe!At, Pipe!Go, Pipe!sleepVars, Pipe!pipe,
               Pipe!ends, Pipe!locals, Pipe!history, Pipe!Empty, Pipe!Full,
               Pipe!Killed
    <2>2. PipeTypes'
        <3>1. pipc' \in [PipeUser -> PipeWhere]
            BY <1>1, Zenon
               DEF Pipe!WriteFails, Pipe!Writes, Pipe!release, PipeInv,
                   PipeTypes, Pipe!At, Pipe!Go, Pipe!sleepVars, Pipe!pipe,
                   Pipe!ends, Pipe!locals, Pipe!history, PipeWhere
        <3> QED
            BY <1>1, <3>1, NilNotUser, PipeSizes
               DEF Pipe!WriteFails, Pipe!Writes, Pipe!release, PipeInv,
                   PipeTypes, Pipe!TypeOK, Pipe!At, Pipe!Go, Pipe!sleepVars,
                   Pipe!pipe, Pipe!ends, Pipe!locals, Pipe!history
    <2>3. FreedClosed' /\ \A f \in Pipe!End : RefsCounted(f)'
        BY <2>1, EndsSame
    <2>4. BytesKept'
        BY <1>1, BytesSame
           DEF Pipe!WriteFails, Pipe!Writes, Pipe!release, Pipe!pipe,
               Pipe!history
    <2>5. ASSUME NEW r \in PipeUser, NEW t \in PipeUser
          PROVE  PipePair(r, t)'
        <3>1. /\ PipePair(r, t) /\ PipePair(t, r) /\ PipePair(p, r)
              /\ PipePair(r, p) /\ PipePair(p, t) /\ PipePair(t, p)
            BY DEF PipeInv
        <3>2. /\ end[r] \in {"read", "write"} /\ end[t] \in {"read", "write"}
              /\ end[p] \in {"read", "write"}
              /\ end[r] \in Pipe!End /\ end[t] \in Pipe!End
              /\ piheld["pipe"] \in PipeUser \cup {Nil}
            BY DEF PipeInv, PipeTypes, Pipe!End
        <3>3. end[r] = "read" /\ pipc[r] \notin {"user", "close"} => open["read"]
            <4>1. pipc[r] \notin {"user", "close"} => ofile[r][end[r]] > 0
                BY <3>1 DEF PipePair, EndsHeld
            <4> QED BY <4>1, InCallOpen DEF Pipe!End
        <3>4. PipeFits(r)'
            BY <2>1, <3>1, <3>2, NilNotUser, <3>3, Zenon DEF PipePair, PipeFits
        <3>5. ReadWaits(r)'
            BY <2>1, <3>1, <3>2, NilNotUser, <3>3, Zenon
               DEF PipePair, ReadWaits, Waiting, HolderIs, PipeFits,
                   Pipe!Killed
        <3>6. WriteWaits(r)'
            BY <2>1, <3>1, <3>2, NilNotUser, <3>3, Zenon
               DEF PipePair, WriteWaits, Waiting, HolderIs, PipeFits
        <3>7. SleepsRightly(r)'
            BY <2>1, <3>1, <3>2, NilNotUser, <3>3, Zenon
               DEF PipePair, SleepsRightly, PipeFits
        <3>8. ReadersAwake(r, t)'
            BY <2>1, <3>1, <3>2, NilNotUser, <3>3, Zenon
               DEF PipePair, ReadersAwake, Waiting, PipeFits
        <3>9. EndsHeld(r)'
            BY <2>1, <3>1, <3>2, NilNotUser, <3>3, Zenon
               DEF PipePair, EndsHeld, PipeFits
        <3>10. OneCloses(r, t)'
            BY <2>1, <3>1, <3>2, NilNotUser, <3>3, Zenon
               DEF PipePair, OneCloses, EndsHeld, PipeFits
        <3> QED BY <3>4, <3>5, <3>6, <3>7, <3>8, <3>9, <3>10 DEF PipePair
    <2> QED BY <2>2, <2>3, <2>4, <2>5 DEF PipeInv
<1>2. CASE Pipe!WriterWaits(p)
    <2>1. /\ pistate[p] = "RUNNING" /\ pipc[p] = "write"
          /\ open["read"] /\ Pipe!Full
          /\ \A r \in PipeUser \ {p} : piplock[r] = Nil
          /\ \A r \in PipeUser : pistate'[r] =
                 IF r # p /\ pistate[r] = "SLEEPING" /\ pichan[r] = "nread"
                THEN "RUNNABLE" ELSE pistate[r]
          /\ \A r \in PipeUser : pipc'[r] = IF r = p THEN "sleep" ELSE pipc[r]
          /\ (Pipe!Empty' <=> Pipe!Empty) /\ (Pipe!Full' <=> Pipe!Full)
          /\ (Pipe!Killed' <=> Pipe!Killed)
          /\ UNCHANGED <<open, freed, ref, ofile>>
          /\ UNCHANGED <<pichan, piplock, piheld, end>>
        BY <1>2
           DEF Pipe!WriterWaits, Pipe!MayWrite, Pipe!Writes, Pipe!wakeup,
               Pipe!CanWake, Pipe!Awake, Pipe!Sleeps, PipeInv, PipeTypes,
               Pipe!TypeOK, Pipe!At, Pipe!Go, Pipe!sleepVars, Pipe!pipe,
               Pipe!ends, Pipe!locals, Pipe!history, Pipe!Empty, Pipe!Full,
               Pipe!Killed
    <2>2. PipeTypes'
        <3>1. pipc' \in [PipeUser -> PipeWhere]
            BY <1>2, Zenon
               DEF Pipe!WriterWaits, Pipe!MayWrite, Pipe!Writes, Pipe!wakeup,
                   Pipe!CanWake, Pipe!Awake, Pipe!Sleeps, PipeInv, PipeTypes,
                   Pipe!At, Pipe!Go, Pipe!sleepVars, Pipe!pipe, Pipe!ends,
                   Pipe!locals, Pipe!history, PipeWhere
        <3> QED
            BY <1>2, <3>1, NilNotUser, PipeSizes
               DEF Pipe!WriterWaits, Pipe!MayWrite, Pipe!Writes, Pipe!wakeup,
                   Pipe!CanWake, Pipe!Awake, Pipe!Sleeps, PipeInv, PipeTypes,
                   Pipe!TypeOK, Pipe!At, Pipe!Go, Pipe!sleepVars, Pipe!pipe,
                   Pipe!ends, Pipe!locals, Pipe!history, Pipe!Channel
    <2>3. FreedClosed' /\ \A f \in Pipe!End : RefsCounted(f)'
        BY <2>1, EndsSame
    <2>4. BytesKept'
        BY <1>2, BytesSame
           DEF Pipe!WriterWaits, Pipe!MayWrite, Pipe!Writes, Pipe!wakeup,
               Pipe!CanWake, Pipe!Awake, Pipe!Sleeps, Pipe!pipe, Pipe!history
    <2>5. ASSUME NEW r \in PipeUser, NEW t \in PipeUser
          PROVE  PipePair(r, t)'
        <3>1. /\ PipePair(r, t) /\ PipePair(t, r) /\ PipePair(p, r)
              /\ PipePair(r, p) /\ PipePair(p, t) /\ PipePair(t, p)
            BY DEF PipeInv
        <3>2. /\ end[r] \in {"read", "write"} /\ end[t] \in {"read", "write"}
              /\ end[p] \in {"read", "write"}
              /\ end[r] \in Pipe!End /\ end[t] \in Pipe!End
              /\ piheld["pipe"] \in PipeUser \cup {Nil}
            BY DEF PipeInv, PipeTypes, Pipe!End
        <3>3. PipeFits(r)'
            BY <2>1, <3>1, <3>2, NilNotUser, Zenon
               DEF PipePair, PipeFits, Pipe!Channel
        <3>4. ReadWaits(r)'
            BY <2>1, <3>1, <3>2, NilNotUser, Zenon
               DEF PipePair, ReadWaits, Waiting, HolderIs, PipeFits,
                   Pipe!Channel
        <3>5. WriteWaits(r)'
            BY <2>1, <3>1, <3>2, NilNotUser, Zenon
               DEF PipePair, WriteWaits, Waiting, HolderIs, PipeFits,
                   Pipe!Channel
        <3>6. SleepsRightly(r)'
            BY <2>1, <3>1, <3>2, NilNotUser, Zenon
               DEF PipePair, SleepsRightly, PipeFits
        <3>7. ReadersAwake(r, t)'
            BY <2>1, <3>1, <3>2, NilNotUser, Zenon
               DEF PipePair, ReadersAwake, Waiting, PipeFits, Pipe!Channel
        <3>8. EndsHeld(r)'
            BY <2>1, <3>1, <3>2, NilNotUser, Zenon
            DEF PipePair, EndsHeld, PipeFits
        <3>9. OneCloses(r, t)'
            BY <2>1, <3>1, <3>2, NilNotUser, Zenon
               DEF PipePair, OneCloses, EndsHeld, PipeFits
        <3> QED BY <3>3, <3>4, <3>5, <3>6, <3>7, <3>8, <3>9 DEF PipePair
    <2> QED BY <2>2, <2>3, <2>4, <2>5 DEF PipeInv
<1>3. CASE Pipe!WriteByte(p)
    <2>1. /\ pistate[p] = "RUNNING" /\ pipc[p] = "write"
          /\ ~Pipe!Full
          /\ (Pipe!Killed' <=> Pipe!Killed)
          /\ UNCHANGED <<open, freed, ref, ofile>>
          /\ UNCHANGED <<pistate, pichan, piplock, piheld, pipc, end>>
        BY <1>3
           DEF Pipe!WriteByte, Pipe!MayWrite, Pipe!Writes, Pipe!Put, PipeInv,
               PipeTypes, Pipe!TypeOK, Pipe!At, Pipe!Go, Pipe!sleepVars,
               Pipe!pipe, Pipe!ends, Pipe!locals, Pipe!history, Pipe!Killed
    <2>2. PipeTypes'
        <3>1. pipc' \in [PipeUser -> PipeWhere]
            BY <1>3, Zenon
               DEF Pipe!WriteByte, Pipe!MayWrite, Pipe!Writes, Pipe!Put,
                   PipeInv, PipeTypes, Pipe!At, Pipe!Go, Pipe!sleepVars,
                   Pipe!pipe, Pipe!ends, Pipe!locals, Pipe!history, PipeWhere
        <3>2. nwrite' \in 0..(UINT - 1)
            BY <1>3, BytesIn
               DEF Pipe!WriteByte, Pipe!MayWrite, Pipe!Writes, Pipe!Put
        <3>3. sent' \in Seq(Nat)
            BY <1>3, CountersTyped
               DEF Pipe!WriteByte, Pipe!MayWrite, Pipe!Writes, Pipe!Put
        <3>4. data \in [0..(PIPESIZE - 1) -> Nat] /\ Len(sent) + 1 \in Nat
            BY <1>3, CountersTyped, LenProperties
               DEF Pipe!WriteByte, Pipe!MayWrite, Pipe!Writes, Pipe!Put
        <3>5. data' \in [0..(PIPESIZE - 1) -> Nat]
            BY <1>3, <3>4 DEF Pipe!WriteByte, Pipe!Put
        <3>6. i \in [PipeUser -> 0..Size] /\ i[p] < Size
              /\ i' = [i EXCEPT ![p] = @ + 1]
            BY <1>3
               DEF Pipe!WriteByte, Pipe!MayWrite, Pipe!Writes, Pipe!Put,
                   PipeInv, PipeTypes, Pipe!TypeOK
        <3>7. i' \in [PipeUser -> 0..Size]
            BY <1>3, PipeSizes, <3>6 DEF PipeTypes
        <3> QED
            BY <1>3, <3>1, <3>2, <3>3, <3>4, <3>5, <3>6, <3>7, NilNotUser
               DEF Pipe!WriteByte, Pipe!MayWrite, Pipe!Writes, Pipe!Put,
                   PipeInv, PipeTypes, Pipe!TypeOK, Pipe!At, Pipe!Go,
                   Pipe!sleepVars, Pipe!pipe, Pipe!ends, Pipe!locals,
                   Pipe!history
    <2>3. FreedClosed' /\ \A f \in Pipe!End : RefsCounted(f)'
        BY <2>1, EndsSame
    <2>4. BytesKept'
        BY <1>3, BytesIn
           DEF Pipe!WriteByte, Pipe!MayWrite, Pipe!Writes, Pipe!Put
    <2>5. ASSUME NEW r \in PipeUser, NEW t \in PipeUser
          PROVE  PipePair(r, t)'
        <3>1. /\ PipePair(r, t) /\ PipePair(t, r) /\ PipePair(p, r)
              /\ PipePair(r, p) /\ PipePair(p, t) /\ PipePair(t, p)
            BY DEF PipeInv
        <3>2. /\ end[r] \in {"read", "write"} /\ end[t] \in {"read", "write"}
              /\ end[p] \in {"read", "write"}
              /\ end[r] \in Pipe!End /\ end[t] \in Pipe!End
              /\ piheld["pipe"] \in PipeUser \cup {Nil}
            BY DEF PipeInv, PipeTypes, Pipe!End
        <3>3. PipeFits(r)'
            BY <2>1, <3>1, <3>2, NilNotUser, Zenon DEF PipePair, PipeFits
        <3>4. ReadWaits(r)'
            BY <2>1, <3>1, <3>2, NilNotUser, Zenon
               DEF PipePair, ReadWaits, Waiting, HolderIs, PipeFits
        <3>5. WriteWaits(r)'
            BY <2>1, <3>1, <3>2, NilNotUser, Zenon
               DEF PipePair, WriteWaits, Waiting, HolderIs, PipeFits
        <3>6. SleepsRightly(r)'
            BY <2>1, <3>1, <3>2, NilNotUser, Zenon
               DEF PipePair, SleepsRightly, PipeFits
        <3>7. ReadersAwake(r, t)'
            BY <2>1, <3>1, <3>2, NilNotUser, Zenon
               DEF PipePair, ReadersAwake, Waiting, PipeFits
        <3>8. EndsHeld(r)'
            BY <2>1, <3>1, <3>2, NilNotUser, Zenon
            DEF PipePair, EndsHeld, PipeFits
        <3>9. OneCloses(r, t)'
            BY <2>1, <3>1, <3>2, NilNotUser
               DEF PipePair, OneCloses, EndsHeld, PipeFits
        <3> QED BY <3>3, <3>4, <3>5, <3>6, <3>7, <3>8, <3>9 DEF PipePair
    <2> QED BY <2>2, <2>3, <2>4, <2>5 DEF PipeInv
<1>4. CASE Pipe!WriteEnds(p)
    <2>1. /\ pistate[p] = "RUNNING" /\ pipc[p] = "write"
          /\ piheld["pipe"] = p
          /\ \A r \in PipeUser \ {p} : piplock[r] = Nil
          /\ \A r \in PipeUser : pistate'[r] =
                 IF r # p /\ pistate[r] = "SLEEPING" /\ pichan[r] = "nread"
                THEN "RUNNABLE" ELSE pistate[r]
          /\ piheld'["pipe"] = Nil
          /\ \A r \in PipeUser : pipc'[r] = IF r = p THEN "user" ELSE pipc[r]
          /\ (Pipe!Empty' <=> Pipe!Empty) /\ (Pipe!Full' <=> Pipe!Full)
          /\ (Pipe!Killed' <=> Pipe!Killed)
          /\ UNCHANGED <<open, freed, ref, ofile>>
          /\ UNCHANGED <<pichan, piplock, end>>
        BY <1>4
           DEF Pipe!WriteEnds, Pipe!WakeAndReturn, Pipe!wakeup, Pipe!CanWake,
               Pipe!Awake, Pipe!Sleeps, Pipe!release, PipeInv, PipeTypes,
               Pipe!TypeOK, Pipe!At, Pipe!Go, Pipe!sleepVars, Pipe!pipe,
               Pipe!ends, Pipe!locals, Pipe!history, Pipe!Empty, Pipe!Full,
               Pipe!Killed
    <2>2. PipeTypes'
        <3>1. pipc' \in [PipeUser -> PipeWhere]
            BY <1>4, Zenon
               DEF Pipe!WriteEnds, Pipe!WakeAndReturn, Pipe!wakeup,
                   Pipe!CanWake, Pipe!Awake, Pipe!Sleeps, Pipe!release,
                   PipeInv, PipeTypes, Pipe!At, Pipe!Go, Pipe!sleepVars,
                   Pipe!pipe, Pipe!ends, Pipe!locals, Pipe!history, PipeWhere
        <3> QED
            BY <1>4, <3>1, NilNotUser, PipeSizes
               DEF Pipe!WriteEnds, Pipe!WakeAndReturn, Pipe!wakeup,
                   Pipe!CanWake, Pipe!Awake, Pipe!Sleeps, Pipe!release,
                   PipeInv, PipeTypes, Pipe!TypeOK, Pipe!At, Pipe!Go,
                   Pipe!sleepVars, Pipe!pipe, Pipe!ends, Pipe!locals,
                   Pipe!history, Pipe!Channel
    <2>3. FreedClosed' /\ \A f \in Pipe!End : RefsCounted(f)'
        BY <2>1, EndsSame
    <2>4. BytesKept'
        BY <1>4, BytesSame
           DEF Pipe!WriteEnds, Pipe!WakeAndReturn, Pipe!wakeup, Pipe!CanWake,
               Pipe!Awake, Pipe!Sleeps, Pipe!release, Pipe!pipe, Pipe!history
    <2>5. ASSUME NEW r \in PipeUser, NEW t \in PipeUser
          PROVE  PipePair(r, t)'
        <3>1. /\ PipePair(r, t) /\ PipePair(t, r) /\ PipePair(p, r)
              /\ PipePair(r, p) /\ PipePair(p, t) /\ PipePair(t, p)
            BY DEF PipeInv
        <3>2. /\ end[r] \in {"read", "write"} /\ end[t] \in {"read", "write"}
              /\ end[p] \in {"read", "write"}
              /\ end[r] \in Pipe!End /\ end[t] \in Pipe!End
              /\ piheld["pipe"] \in PipeUser \cup {Nil}
            BY DEF PipeInv, PipeTypes, Pipe!End
        <3>3. PipeFits(r)'
            BY <2>1, <3>1, <3>2, NilNotUser, Zenon
               DEF PipePair, PipeFits, Pipe!Channel
        <3>4. ReadWaits(r)'
            <4>1. ~Waiting(r, "read")'
                BY <2>1, <3>1, NilNotUser, Zenon
                   DEF PipePair, PipeFits, Waiting, Pipe!Channel
            <4> QED BY <4>1 DEF ReadWaits
        <3>5. WriteWaits(r)'
            BY <2>1, <3>1, <3>2, NilNotUser, Zenon
               DEF PipePair, WriteWaits, Waiting, HolderIs, PipeFits,
                   Pipe!Channel
        <3>6. SleepsRightly(r)'
            BY <2>1, <3>1, <3>2, NilNotUser, Zenon
               DEF PipePair, SleepsRightly, PipeFits
        <3>7. ReadersAwake(r, t)'
            BY <2>1, <3>1, <3>2, NilNotUser, Zenon
               DEF PipePair, ReadersAwake, Waiting, PipeFits, Pipe!Channel
        <3>8. EndsHeld(r)'
            BY <2>1, <3>1, <3>2, NilNotUser, Zenon
            DEF PipePair, EndsHeld, PipeFits
        <3>9. OneCloses(r, t)'
            BY <2>1, <3>1, <3>2, NilNotUser, Zenon
               DEF PipePair, OneCloses, EndsHeld, PipeFits
        <3> QED BY <3>3, <3>4, <3>5, <3>6, <3>7, <3>8, <3>9 DEF PipePair
    <2> QED BY <2>2, <2>3, <2>4, <2>5 DEF PipeInv
<1>5. CASE Pipe!ReadFails(p)
    <2>1. /\ pistate[p] = "RUNNING" /\ pipc[p] = "read"
          /\ piheld["pipe"] = p
          /\ pikilled[p]
          /\ piheld'["pipe"] = Nil
          /\ \A r \in PipeUser : pipc'[r] = IF r = p THEN "user" ELSE pipc[r]
          /\ (Pipe!Empty' <=> Pipe!Empty) /\ (Pipe!Full' <=> Pipe!Full)
          /\ (Pipe!Killed' <=> Pipe!Killed)
          /\ UNCHANGED <<open, freed, ref, ofile>>
          /\ UNCHANGED <<pistate, pichan, piplock, end>>
        BY <1>5
           DEF Pipe!ReadFails, Pipe!release, PipeInv, PipeTypes, Pipe!TypeOK,
               Pipe!At, Pipe!Go, Pipe!sleepVars, Pipe!pipe, Pipe!ends,
               Pipe!locals, Pipe!history, Pipe!Empty, Pipe!Full, Pipe!Killed
    <2>2. PipeTypes'
        <3>1. pipc' \in [PipeUser -> PipeWhere]
            BY <1>5, Zenon
               DEF Pipe!ReadFails, Pipe!release, PipeInv, PipeTypes, Pipe!At,
                   Pipe!Go, Pipe!sleepVars, Pipe!pipe, Pipe!ends, Pipe!locals,
                   Pipe!history, PipeWhere
        <3> QED
            BY <1>5, <3>1, NilNotUser, PipeSizes
               DEF Pipe!ReadFails, Pipe!release, PipeInv, PipeTypes,
                   Pipe!TypeOK, Pipe!At, Pipe!Go, Pipe!sleepVars, Pipe!pipe,
                   Pipe!ends, Pipe!locals, Pipe!history
    <2>3. FreedClosed' /\ \A f \in Pipe!End : RefsCounted(f)'
        BY <2>1, EndsSame
    <2>4. BytesKept'
        BY <1>5, BytesSame
           DEF Pipe!ReadFails, Pipe!release, Pipe!pipe, Pipe!history
    <2>5. ASSUME NEW r \in PipeUser, NEW t \in PipeUser
          PROVE  PipePair(r, t)'
        <3>1. /\ PipePair(r, t) /\ PipePair(t, r) /\ PipePair(p, r)
              /\ PipePair(r, p) /\ PipePair(p, t) /\ PipePair(t, p)
            BY DEF PipeInv
        <3>2. /\ end[r] \in {"read", "write"} /\ end[t] \in {"read", "write"}
              /\ end[p] \in {"read", "write"}
              /\ end[r] \in Pipe!End /\ end[t] \in Pipe!End
              /\ piheld["pipe"] \in PipeUser \cup {Nil}
            BY DEF PipeInv, PipeTypes, Pipe!End
        <3>3. PipeFits(r)'
            BY <2>1, <3>1, <3>2, NilNotUser, Zenon DEF PipePair, PipeFits
        <3>4. ReadWaits(r)'
            BY <2>1, <3>1, <3>2, NilNotUser, Zenon
               DEF PipePair, ReadWaits, Waiting, HolderIs, PipeFits,
                   Pipe!Killed
        <3>5. WriteWaits(r)'
            BY <2>1, <3>1, <3>2, NilNotUser, Zenon
               DEF PipePair, WriteWaits, Waiting, HolderIs, PipeFits
        <3>6. SleepsRightly(r)'
            BY <2>1, <3>1, <3>2, NilNotUser, Zenon
               DEF PipePair, SleepsRightly, PipeFits
        <3>7. ReadersAwake(r, t)'
            BY <2>1, <3>1, <3>2, NilNotUser, Zenon
               DEF PipePair, ReadersAwake, Waiting, PipeFits
        <3>8. EndsHeld(r)'
            BY <2>1, <3>1, <3>2, NilNotUser, Zenon
            DEF PipePair, EndsHeld, PipeFits
        <3>9. OneCloses(r, t)'
            BY <2>1, <3>1, <3>2, NilNotUser, Zenon
               DEF PipePair, OneCloses, EndsHeld, PipeFits
        <3> QED BY <3>3, <3>4, <3>5, <3>6, <3>7, <3>8, <3>9 DEF PipePair
    <2> QED BY <2>2, <2>3, <2>4, <2>5 DEF PipeInv
<1>6. CASE Pipe!ReaderWaits(p)
    <2>1. /\ pistate[p] = "RUNNING" /\ pipc[p] = "read"
          /\ Pipe!Empty /\ open["write"]
          /\ \A r \in PipeUser : pipc'[r] = IF r = p THEN "sleep" ELSE pipc[r]
          /\ (Pipe!Empty' <=> Pipe!Empty) /\ (Pipe!Full' <=> Pipe!Full)
          /\ (Pipe!Killed' <=> Pipe!Killed)
          /\ UNCHANGED <<open, freed, ref, ofile>>
          /\ UNCHANGED <<pistate, pichan, piplock, piheld, end>>
        BY <1>6
           DEF Pipe!ReaderWaits, PipeInv, PipeTypes, Pipe!TypeOK, Pipe!At,
               Pipe!Go, Pipe!sleepVars, Pipe!pipe, Pipe!ends, Pipe!locals,
               Pipe!history, Pipe!Empty, Pipe!Full, Pipe!Killed
    <2>2. PipeTypes'
        <3>1. pipc' \in [PipeUser -> PipeWhere]
            BY <1>6, Zenon
               DEF Pipe!ReaderWaits, PipeInv, PipeTypes, Pipe!At, Pipe!Go,
                   Pipe!sleepVars, Pipe!pipe, Pipe!ends, Pipe!locals,
                   Pipe!history, PipeWhere
        <3> QED
            BY <1>6, <3>1, NilNotUser, PipeSizes
               DEF Pipe!ReaderWaits, PipeInv, PipeTypes, Pipe!TypeOK, Pipe!At,
                   Pipe!Go, Pipe!sleepVars, Pipe!pipe, Pipe!ends, Pipe!locals,
                   Pipe!history
    <2>3. FreedClosed' /\ \A f \in Pipe!End : RefsCounted(f)'
        BY <2>1, EndsSame
    <2>4. BytesKept'
        BY <1>6, BytesSame DEF Pipe!ReaderWaits, Pipe!pipe, Pipe!history
    <2>5. ASSUME NEW r \in PipeUser, NEW t \in PipeUser
          PROVE  PipePair(r, t)'
        <3>1. /\ PipePair(r, t) /\ PipePair(t, r) /\ PipePair(p, r)
              /\ PipePair(r, p) /\ PipePair(p, t) /\ PipePair(t, p)
            BY DEF PipeInv
        <3>2. /\ end[r] \in {"read", "write"} /\ end[t] \in {"read", "write"}
              /\ end[p] \in {"read", "write"}
              /\ end[r] \in Pipe!End /\ end[t] \in Pipe!End
              /\ piheld["pipe"] \in PipeUser \cup {Nil}
            BY DEF PipeInv, PipeTypes, Pipe!End
        <3>3. PipeFits(r)'
            BY <2>1, <3>1, <3>2, NilNotUser, Zenon DEF PipePair, PipeFits
        <3>4. ReadWaits(r)'
            BY <2>1, <3>1, <3>2, NilNotUser, Zenon
               DEF PipePair, ReadWaits, Waiting, HolderIs, PipeFits
        <3>5. WriteWaits(r)'
            BY <2>1, <3>1, <3>2, NilNotUser, Zenon
               DEF PipePair, WriteWaits, Waiting, HolderIs, PipeFits
        <3>6. SleepsRightly(r)'
            BY <2>1, <3>1, <3>2, NilNotUser, Zenon
               DEF PipePair, SleepsRightly, PipeFits
        <3>7. ReadersAwake(r, t)'
            BY <2>1, <3>1, <3>2, NilNotUser, Zenon
               DEF PipePair, ReadersAwake, Waiting, PipeFits
        <3>8. EndsHeld(r)'
            BY <2>1, <3>1, <3>2, NilNotUser, Zenon
            DEF PipePair, EndsHeld, PipeFits
        <3>9. OneCloses(r, t)'
            BY <2>1, <3>1, <3>2, NilNotUser, Zenon
               DEF PipePair, OneCloses, EndsHeld, PipeFits
        <3> QED BY <3>3, <3>4, <3>5, <3>6, <3>7, <3>8, <3>9 DEF PipePair
    <2> QED BY <2>2, <2>3, <2>4, <2>5 DEF PipeInv
<1>7. CASE Pipe!ReadByte(p)
    <2>1. /\ pistate[p] = "RUNNING" /\ pipc[p] \in {"read", "copy"}
          /\ ~Pipe!Empty
          /\ pipc'[p] \in {"copy", "copied"}
          /\ \A r \in PipeUser : r # p => pipc'[r] = pipc[r]
          /\ (Pipe!Killed' <=> Pipe!Killed)
          /\ UNCHANGED <<open, freed, ref, ofile>>
          /\ UNCHANGED <<pistate, pichan, piplock, piheld, end>>
        BY <1>7
           DEF Pipe!ReadByte, Pipe!MayRead, Pipe!Take, PipeInv, PipeTypes,
               Pipe!TypeOK, Pipe!At, Pipe!Go, Pipe!sleepVars, Pipe!pipe,
               Pipe!ends, Pipe!locals, Pipe!history, Pipe!Killed
    <2>2. PipeTypes'
        <3>1. pipc' \in [PipeUser -> PipeWhere]
            BY <1>7, Zenon
               DEF Pipe!ReadByte, Pipe!MayRead, Pipe!Take, PipeInv, PipeTypes,
                   Pipe!At, Pipe!Go, Pipe!sleepVars, Pipe!pipe, Pipe!ends,
                   Pipe!locals, Pipe!history, PipeWhere
        <3>2. nread' \in 0..(UINT - 1) /\ received' \in Seq(Nat)
            BY <1>7, BytesOut DEF Pipe!ReadByte, Pipe!MayRead, Pipe!Take
        <3>3. i \in [PipeUser -> 0..Size] /\ i[p] < Size
              /\ (i' = [i EXCEPT ![p] = @ + 1] \/ i' = i)
            BY <1>7
               DEF Pipe!ReadByte, Pipe!MayRead, Pipe!Take, PipeInv, PipeTypes,
                   Pipe!TypeOK
        <3>4. i' \in [PipeUser -> 0..Size]
            BY <1>7, PipeSizes, <3>3 DEF PipeTypes
        <3> QED
            BY <1>7, <3>1, <3>2, <3>3, <3>4, NilNotUser
               DEF Pipe!ReadByte, Pipe!MayRead, Pipe!Take, PipeInv, PipeTypes,
                   Pipe!TypeOK, Pipe!At, Pipe!Go, Pipe!sleepVars, Pipe!pipe,
                   Pipe!ends, Pipe!locals, Pipe!history
    <2>3. FreedClosed' /\ \A f \in Pipe!End : RefsCounted(f)'
        BY <2>1, EndsSame
    <2>4. BytesKept'
        BY <1>7, BytesOut DEF Pipe!ReadByte, Pipe!MayRead, Pipe!Take
    <2>5. ASSUME NEW r \in PipeUser, NEW t \in PipeUser
          PROVE  PipePair(r, t)'
        <3>1. /\ PipePair(r, t) /\ PipePair(t, r) /\ PipePair(p, r)
              /\ PipePair(r, p) /\ PipePair(p, t) /\ PipePair(t, p)
            BY DEF PipeInv
        <3>2. /\ end[r] \in {"read", "write"} /\ end[t] \in {"read", "write"}
              /\ end[p] \in {"read", "write"}
              /\ end[r] \in Pipe!End /\ end[t] \in Pipe!End
              /\ piheld["pipe"] \in PipeUser \cup {Nil}
            BY DEF PipeInv, PipeTypes, Pipe!End
        <3>3. PipeFits(r)'
            BY <2>1, <3>1, <3>2, NilNotUser, Zenon DEF PipePair, PipeFits
        <3>4. ReadWaits(r)'
            BY <2>1, <3>1, <3>2, NilNotUser, Zenon
               DEF PipePair, ReadWaits, Waiting, HolderIs, PipeFits
        <3>5. WriteWaits(r)'
            BY <2>1, <3>1, <3>2, NilNotUser, Zenon
               DEF PipePair, WriteWaits, Waiting, HolderIs, PipeFits
        <3>6. SleepsRightly(r)'
            BY <2>1, <3>1, <3>2, NilNotUser, Zenon
               DEF PipePair, SleepsRightly, PipeFits
        <3>7. ReadersAwake(r, t)'
            BY <2>1, <3>1, <3>2, NilNotUser, Zenon
               DEF PipePair, ReadersAwake, Waiting, PipeFits
        <3>8. EndsHeld(r)'
            BY <2>1, <3>1, <3>2, NilNotUser, Zenon
            DEF PipePair, EndsHeld, PipeFits
        <3>9. OneCloses(r, t)'
            BY <2>1, <3>1, <3>2, NilNotUser, Zenon
               DEF PipePair, OneCloses, EndsHeld, PipeFits
        <3> QED BY <3>3, <3>4, <3>5, <3>6, <3>7, <3>8, <3>9 DEF PipePair
    <2> QED BY <2>2, <2>3, <2>4, <2>5 DEF PipeInv
<1>8. CASE Pipe!ReadEnds(p)
    <2>1. /\ pistate[p] = "RUNNING" /\ pipc[p] \in {"read", "copy", "copied"}
          /\ piheld["pipe"] = p
          /\ \A r \in PipeUser \ {p} : piplock[r] = Nil
          /\ \A r \in PipeUser : pistate'[r] =
                 IF r # p /\ pistate[r] = "SLEEPING" /\ pichan[r] = "nwrite"
                THEN "RUNNABLE" ELSE pistate[r]
          /\ piheld'["pipe"] = Nil
          /\ \A r \in PipeUser : pipc'[r] = IF r = p THEN "user" ELSE pipc[r]
          /\ (Pipe!Empty' <=> Pipe!Empty) /\ (Pipe!Full' <=> Pipe!Full)
          /\ (Pipe!Killed' <=> Pipe!Killed)
          /\ UNCHANGED <<open, freed, ref, ofile>>
          /\ UNCHANGED <<pichan, piplock, end>>
        BY <1>8
           DEF Pipe!ReadEnds, Pipe!MayRead, Pipe!WakeAndReturn, Pipe!wakeup,
               Pipe!CanWake, Pipe!Awake, Pipe!Sleeps, Pipe!release, PipeInv,
               PipeTypes, Pipe!TypeOK, Pipe!At, Pipe!Go, Pipe!sleepVars,
               Pipe!pipe, Pipe!ends, Pipe!locals, Pipe!history, Pipe!Empty,
               Pipe!Full, Pipe!Killed
    <2>2. PipeTypes'
        <3>1. pipc' \in [PipeUser -> PipeWhere]
            BY <1>8, Zenon
               DEF Pipe!ReadEnds, Pipe!MayRead, Pipe!WakeAndReturn,
                   Pipe!wakeup, Pipe!CanWake, Pipe!Awake, Pipe!Sleeps,
                   Pipe!release, PipeInv, PipeTypes, Pipe!At, Pipe!Go,
                   Pipe!sleepVars, Pipe!pipe, Pipe!ends, Pipe!locals,
                   Pipe!history, PipeWhere
        <3> QED
            BY <1>8, <3>1, NilNotUser, PipeSizes
               DEF Pipe!ReadEnds, Pipe!MayRead, Pipe!WakeAndReturn,
                   Pipe!wakeup, Pipe!CanWake, Pipe!Awake, Pipe!Sleeps,
                   Pipe!release, PipeInv, PipeTypes, Pipe!TypeOK, Pipe!At,
                   Pipe!Go, Pipe!sleepVars, Pipe!pipe, Pipe!ends, Pipe!locals,
                   Pipe!history, Pipe!Channel
    <2>3. FreedClosed' /\ \A f \in Pipe!End : RefsCounted(f)'
        BY <2>1, EndsSame
    <2>4. BytesKept'
        BY <1>8, BytesSame
           DEF Pipe!ReadEnds, Pipe!MayRead, Pipe!WakeAndReturn, Pipe!wakeup,
               Pipe!CanWake, Pipe!Awake, Pipe!Sleeps, Pipe!release, Pipe!pipe,
               Pipe!history
    <2>5. ASSUME NEW r \in PipeUser, NEW t \in PipeUser
          PROVE  PipePair(r, t)'
        <3>1. /\ PipePair(r, t) /\ PipePair(t, r) /\ PipePair(p, r)
              /\ PipePair(r, p) /\ PipePair(p, t) /\ PipePair(t, p)
            BY DEF PipeInv
        <3>2. /\ end[r] \in {"read", "write"} /\ end[t] \in {"read", "write"}
              /\ end[p] \in {"read", "write"}
              /\ end[r] \in Pipe!End /\ end[t] \in Pipe!End
              /\ piheld["pipe"] \in PipeUser \cup {Nil}
            BY DEF PipeInv, PipeTypes, Pipe!End
        <3>3. PipeFits(r)'
            BY <2>1, <3>1, <3>2, NilNotUser, Zenon
               DEF PipePair, PipeFits, Pipe!Channel
        <3>4. ReadWaits(r)'
            BY <2>1, <3>1, <3>2, NilNotUser, Zenon
               DEF PipePair, ReadWaits, Waiting, HolderIs, PipeFits,
                   Pipe!Channel
        <3>5. WriteWaits(r)'
            <4>1. ~Waiting(r, "write")'
                BY <2>1, <3>1, NilNotUser, Zenon
                   DEF PipePair, PipeFits, Waiting, Pipe!Channel
            <4> QED BY <4>1 DEF WriteWaits
        <3>6. SleepsRightly(r)'
            BY <2>1, <3>1, <3>2, NilNotUser, Zenon
               DEF PipePair, SleepsRightly, PipeFits
        <3>7. ReadersAwake(r, t)'
            BY <2>1, <3>1, <3>2, NilNotUser, Zenon
               DEF PipePair, ReadersAwake, Waiting, PipeFits, Pipe!Channel
        <3>8. EndsHeld(r)'
            BY <2>1, <3>1, <3>2, NilNotUser, Zenon
            DEF PipePair, EndsHeld, PipeFits
        <3>9. OneCloses(r, t)'
            BY <2>1, <3>1, <3>2, NilNotUser, Zenon
               DEF PipePair, OneCloses, EndsHeld, PipeFits
        <3> QED BY <3>3, <3>4, <3>5, <3>6, <3>7, <3>8, <3>9 DEF PipePair
    <2> QED BY <2>2, <2>3, <2>4, <2>5 DEF PipeInv
<1>9. CASE Pipe!PipeSleep(p)
    <2>1. /\ pistate[p] = "RUNNING" /\ pipc[p] = "sleep"
          /\ piheld["pipe"] = p
          /\ \A r \in PipeUser : piplock'[r] = IF r = p THEN p ELSE piplock[r]
          /\ piheld'["pipe"] = Nil
          /\ \A r \in PipeUser : pipc'[r] =
                IF r = p THEN "falls asleep" ELSE pipc[r]
          /\ (Pipe!Empty' <=> Pipe!Empty) /\ (Pipe!Full' <=> Pipe!Full)
          /\ (Pipe!Killed' <=> Pipe!Killed)
          /\ UNCHANGED <<open, freed, ref, ofile>>
          /\ UNCHANGED <<pistate, pichan, end>>
        BY <1>9, Zenon
           DEF Pipe!PipeSleep, Pipe!GiveUp, Pipe!release, PipeInv, PipeTypes,
               Pipe!TypeOK, Pipe!At, Pipe!Go, Pipe!sleepVars, Pipe!pipe,
               Pipe!ends, Pipe!locals, Pipe!history, Pipe!Empty, Pipe!Full,
               Pipe!Killed
    <2>2. PipeTypes'
        <3>1. pipc' \in [PipeUser -> PipeWhere]
            BY <1>9, Zenon
               DEF Pipe!PipeSleep, Pipe!GiveUp, Pipe!release, PipeInv,
                   PipeTypes, Pipe!At, Pipe!Go, Pipe!sleepVars, Pipe!pipe,
                   Pipe!ends, Pipe!locals, Pipe!history, PipeWhere
        <3> QED
            BY <1>9, <3>1, NilNotUser, PipeSizes, Zenon
               DEF Pipe!PipeSleep, Pipe!GiveUp, Pipe!release, PipeInv,
                   PipeTypes, Pipe!TypeOK, Pipe!At, Pipe!Go, Pipe!sleepVars,
                   Pipe!pipe, Pipe!ends, Pipe!locals, Pipe!history
    <2>3. FreedClosed' /\ \A f \in Pipe!End : RefsCounted(f)'
        BY <2>1, EndsSame, Zenon
    <2>4. BytesKept'
        BY <1>9, BytesSame, Zenon
           DEF Pipe!PipeSleep, Pipe!GiveUp, Pipe!release, Pipe!pipe,
               Pipe!history
    <2>5. ASSUME NEW r \in PipeUser, NEW t \in PipeUser
          PROVE  PipePair(r, t)'
        <3>1. /\ PipePair(r, t) /\ PipePair(t, r) /\ PipePair(p, r)
              /\ PipePair(r, p) /\ PipePair(p, t) /\ PipePair(t, p)
            BY DEF PipeInv
        <3>2. /\ end[r] \in {"read", "write"} /\ end[t] \in {"read", "write"}
              /\ end[p] \in {"read", "write"}
              /\ end[r] \in Pipe!End /\ end[t] \in Pipe!End
              /\ piheld["pipe"] \in PipeUser \cup {Nil}
            BY DEF PipeInv, PipeTypes, Pipe!End
        <3>3. PipeFits(r)'
            BY <2>1, <3>1, <3>2, NilNotUser, Zenon DEF PipePair, PipeFits
        <3>4. ReadWaits(r)'
            BY <2>1, <3>1, <3>2, NilNotUser, Zenon
               DEF PipePair, ReadWaits, Waiting, HolderIs, PipeFits,
                   SleepsRightly
        <3>5. WriteWaits(r)'
            BY <2>1, <3>1, <3>2, NilNotUser, Zenon
               DEF PipePair, WriteWaits, Waiting, HolderIs, PipeFits,
                   SleepsRightly
        <3>6. SleepsRightly(r)'
            BY <2>1, <3>1, <3>2, NilNotUser, Zenon
               DEF PipePair, SleepsRightly, PipeFits
        <3>7. ReadersAwake(r, t)'
            BY <2>1, <3>1, <3>2, NilNotUser, Zenon
               DEF PipePair, ReadersAwake, Waiting, PipeFits
        <3>8. EndsHeld(r)'
            BY <2>1, <3>1, <3>2, NilNotUser, Zenon
            DEF PipePair, EndsHeld, PipeFits
        <3>9. OneCloses(r, t)'
            BY <2>1, <3>1, <3>2, NilNotUser, Zenon
               DEF PipePair, OneCloses, EndsHeld, PipeFits
        <3> QED BY <3>3, <3>4, <3>5, <3>6, <3>7, <3>8, <3>9 DEF PipePair
    <2> QED BY <2>2, <2>3, <2>4, <2>5 DEF PipeInv
<1>10. CASE Pipe!PipeSleeps(p)
    <2>1. /\ pistate[p] = "RUNNING" /\ pipc[p] = "falls asleep"
          /\ \A r \in PipeUser : pistate'[r] =
                IF r = p THEN "SLEEPING" ELSE pistate[r]
          /\ \A r \in PipeUser : pichan'[r] =
                IF r = p THEN Pipe!Channel(end[p]) ELSE pichan[r]
          /\ \A r \in PipeUser : piplock'[r] =
                IF r = p THEN Nil ELSE piplock[r]
          /\ \A r \in PipeUser : pipc'[r] = IF r = p THEN "woken" ELSE pipc[r]
          /\ (Pipe!Empty' <=> Pipe!Empty) /\ (Pipe!Full' <=> Pipe!Full)
          /\ (Pipe!Killed' <=> Pipe!Killed)
          /\ UNCHANGED <<open, freed, ref, ofile>>
          /\ UNCHANGED <<piheld, end>>
        BY <1>10, Zenon
           DEF Pipe!PipeSleeps, Pipe!FallAsleep, PipeInv, PipeTypes,
               Pipe!TypeOK, Pipe!At, Pipe!Go, Pipe!sleepVars, Pipe!pipe,
               Pipe!ends, Pipe!locals, Pipe!history, Pipe!Empty, Pipe!Full,
               Pipe!Killed
    <2>2. PipeTypes'
        <3>1. pipc' \in [PipeUser -> PipeWhere]
            BY <1>10, Zenon
               DEF Pipe!PipeSleeps, Pipe!FallAsleep, PipeInv, PipeTypes,
                   Pipe!At, Pipe!Go, Pipe!sleepVars, Pipe!pipe, Pipe!ends,
                   Pipe!locals, Pipe!history, PipeWhere
        <3> QED
            BY <1>10, <3>1, NilNotUser, PipeSizes, Zenon
               DEF Pipe!PipeSleeps, Pipe!FallAsleep, PipeInv, PipeTypes,
                   Pipe!TypeOK, Pipe!At, Pipe!Go, Pipe!sleepVars, Pipe!pipe,
                   Pipe!ends, Pipe!locals, Pipe!history, Pipe!Channel
    <2>3. FreedClosed' /\ \A f \in Pipe!End : RefsCounted(f)'
        BY <2>1, EndsSame, Zenon
    <2>4. BytesKept'
        BY <1>10, BytesSame, Zenon
           DEF Pipe!PipeSleeps, Pipe!FallAsleep, Pipe!pipe, Pipe!history
    <2>5. ASSUME NEW r \in PipeUser, NEW t \in PipeUser
          PROVE  PipePair(r, t)'
        <3>1. /\ PipePair(r, t) /\ PipePair(t, r) /\ PipePair(p, r)
              /\ PipePair(r, p) /\ PipePair(p, t) /\ PipePair(t, p)
            BY DEF PipeInv
        <3>2. /\ end[r] \in {"read", "write"} /\ end[t] \in {"read", "write"}
              /\ end[p] \in {"read", "write"}
              /\ end[r] \in Pipe!End /\ end[t] \in Pipe!End
              /\ piheld["pipe"] \in PipeUser \cup {Nil}
            BY DEF PipeInv, PipeTypes, Pipe!End
        <3>3. PipeFits(r)'
            BY <2>1, <3>1, <3>2, NilNotUser, Zenon
               DEF PipePair, PipeFits, Pipe!Channel
        <3>4. ReadWaits(r)'
            BY <2>1, <3>1, <3>2, NilNotUser, Zenon
               DEF PipePair, ReadWaits, Waiting, HolderIs, PipeFits,
                   Pipe!Channel
        <3>5. WriteWaits(r)'
            BY <2>1, <3>1, <3>2, NilNotUser, Zenon
               DEF PipePair, WriteWaits, Waiting, HolderIs, PipeFits,
                   Pipe!Channel
        <3>6. SleepsRightly(r)'
            BY <2>1, <3>1, <3>2, NilNotUser, Zenon
               DEF PipePair, SleepsRightly, PipeFits
        <3>7. ReadersAwake(r, t)'
            BY <2>1, <3>1, <3>2, NilNotUser, Zenon
               DEF PipePair, ReadersAwake, Waiting, PipeFits, Pipe!Channel
        <3>8. EndsHeld(r)'
            BY <2>1, <3>1, <3>2, NilNotUser, Zenon
            DEF PipePair, EndsHeld, PipeFits
        <3>9. OneCloses(r, t)'
            BY <2>1, <3>1, <3>2, NilNotUser, Zenon
               DEF PipePair, OneCloses, EndsHeld, PipeFits
        <3> QED BY <3>3, <3>4, <3>5, <3>6, <3>7, <3>8, <3>9 DEF PipePair
    <2> QED BY <2>2, <2>3, <2>4, <2>5 DEF PipeInv
<1>11. CASE Pipe!LockAgain(p)
    <2>1. /\ pistate[p] = "RUNNING" /\ pipc[p] = "woken"
          /\ piheld["pipe"] = Nil
          /\ piheld'["pipe"] = p
          /\ \A r \in PipeUser : pipc'[r] = IF r = p THEN end[p] ELSE pipc[r]
          /\ (Pipe!Empty' <=> Pipe!Empty) /\ (Pipe!Full' <=> Pipe!Full)
          /\ (Pipe!Killed' <=> Pipe!Killed)
          /\ UNCHANGED <<open, freed, ref, ofile>>
          /\ UNCHANGED <<pistate, pichan, piplock, end>>
        BY <1>11
           DEF Pipe!LockAgain, Pipe!acquire, PipeInv, PipeTypes, Pipe!TypeOK,
               Pipe!At, Pipe!Go, Pipe!sleepVars, Pipe!pipe, Pipe!ends,
               Pipe!locals, Pipe!history, Pipe!Empty, Pipe!Full, Pipe!Killed
    <2>2. PipeTypes'
        <3>1. pipc' \in [PipeUser -> PipeWhere]
            BY <1>11, Zenon
               DEF Pipe!LockAgain, Pipe!acquire, PipeInv, PipeTypes, Pipe!At,
                   Pipe!Go, Pipe!sleepVars, Pipe!pipe, Pipe!ends, Pipe!locals,
                   Pipe!history, PipeWhere, Pipe!End
        <3> QED
            BY <1>11, <3>1, NilNotUser, PipeSizes
               DEF Pipe!LockAgain, Pipe!acquire, PipeInv, PipeTypes,
                   Pipe!TypeOK, Pipe!At, Pipe!Go, Pipe!sleepVars, Pipe!pipe,
                   Pipe!ends, Pipe!locals, Pipe!history
    <2>3. FreedClosed' /\ \A f \in Pipe!End : RefsCounted(f)'
        BY <2>1, EndsSame
    <2>4. BytesKept'
        BY <1>11, BytesSame
           DEF Pipe!LockAgain, Pipe!acquire, Pipe!pipe, Pipe!history
    <2>5. ASSUME NEW r \in PipeUser, NEW t \in PipeUser
          PROVE  PipePair(r, t)'
        <3>1. /\ PipePair(r, t) /\ PipePair(t, r) /\ PipePair(p, r)
              /\ PipePair(r, p) /\ PipePair(p, t) /\ PipePair(t, p)
            BY DEF PipeInv
        <3>2. /\ end[r] \in {"read", "write"} /\ end[t] \in {"read", "write"}
              /\ end[p] \in {"read", "write"}
              /\ end[r] \in Pipe!End /\ end[t] \in Pipe!End
              /\ piheld["pipe"] \in PipeUser \cup {Nil}
            BY DEF PipeInv, PipeTypes, Pipe!End
        <3>3. PipeFits(r)'
            BY <2>1, <3>1, <3>2, NilNotUser, Zenon DEF PipePair, PipeFits
        <3>4. ReadWaits(r)'
            BY <2>1, <3>1, <3>2, NilNotUser, Zenon
               DEF PipePair, ReadWaits, Waiting, HolderIs, PipeFits
        <3>5. WriteWaits(r)'
            BY <2>1, <3>1, <3>2, NilNotUser, Zenon
               DEF PipePair, WriteWaits, Waiting, HolderIs, PipeFits
        <3>6. SleepsRightly(r)'
            BY <2>1, <3>1, <3>2, NilNotUser, Zenon
               DEF PipePair, SleepsRightly, PipeFits
        <3>7. ReadersAwake(r, t)'
            BY <2>1, <3>1, <3>2, NilNotUser, Zenon
               DEF PipePair, ReadersAwake, Waiting, PipeFits
        <3>8. EndsHeld(r)'
            BY <2>1, <3>1, <3>2, NilNotUser, Zenon
            DEF PipePair, EndsHeld, PipeFits
        <3>9. OneCloses(r, t)'
            BY <2>1, <3>1, <3>2, NilNotUser, Zenon
               DEF PipePair, OneCloses, EndsHeld, PipeFits
        <3> QED BY <3>3, <3>4, <3>5, <3>6, <3>7, <3>8, <3>9 DEF PipePair
    <2> QED BY <2>2, <2>3, <2>4, <2>5 DEF PipeInv
<1>12. CASE Pipe!pipeclose(p)
    <2>1. /\ pistate[p] = "RUNNING" /\ pipc[p] = "close"
          /\ piheld["pipe"] = Nil
          /\ \A r \in PipeUser \ {p} : piplock[r] = Nil
          /\ \A f \in Pipe!End : open'[f] =
                IF f = end[p] THEN FALSE ELSE open[f]
          /\ freed' <=> \A f \in Pipe!End : ~open'[f]
          /\ UNCHANGED <<ref, ofile>>
          /\ \A r \in PipeUser : pistate'[r] =
                 IF r # p /\ pistate[r] = "SLEEPING" /\ pichan[r]
                    = IF end[p] = "write" THEN "nread" ELSE "nwrite"
                THEN "RUNNABLE" ELSE pistate[r]
          /\ \A r \in PipeUser : pipc'[r] = IF r = p THEN "user" ELSE pipc[r]
          /\ (Pipe!Empty' <=> Pipe!Empty) /\ (Pipe!Full' <=> Pipe!Full)
          /\ (Pipe!Killed' <=> Pipe!Killed)
          /\ UNCHANGED <<pichan, piplock, piheld, end>>
        BY <1>12
           DEF Pipe!pipeclose, Pipe!wakeup, Pipe!CanWake, Pipe!Awake,
               Pipe!Sleeps, PipeInv, PipeTypes, Pipe!TypeOK, Pipe!At, Pipe!Go,
               Pipe!sleepVars, Pipe!pipe, Pipe!ends, Pipe!locals,
               Pipe!history, Pipe!Empty, Pipe!Full, Pipe!Killed
    <2>2. PipeTypes'
        <3>1. pipc' \in [PipeUser -> PipeWhere]
            BY <1>12, Zenon
               DEF Pipe!pipeclose, Pipe!wakeup, Pipe!CanWake, Pipe!Awake,
                   Pipe!Sleeps, PipeInv, PipeTypes, Pipe!At, Pipe!Go,
                   Pipe!sleepVars, Pipe!pipe, Pipe!ends, Pipe!locals,
                   Pipe!history, PipeWhere
        <3> QED
            BY <1>12, <3>1, NilNotUser, PipeSizes
               DEF Pipe!pipeclose, Pipe!wakeup, Pipe!CanWake, Pipe!Awake,
                   Pipe!Sleeps, PipeInv, PipeTypes, Pipe!TypeOK, Pipe!At,
                   Pipe!Go, Pipe!sleepVars, Pipe!pipe, Pipe!ends, Pipe!locals,
                   Pipe!history, Pipe!Channel
    <2>3. FreedClosed' /\ \A f \in Pipe!End : RefsCounted(f)'
        <3>1. end[p] \in Pipe!End /\ ref[end[p]] = 0
            BY <2>1 DEF PipeInv, PipeTypes, PipePair, EndsHeld
        <3>2. FreedClosed'
            BY <2>1, <3>1 DEF FreedClosed, Pipe!End, PipeInv, PipeTypes
        <3>3. ASSUME NEW f \in Pipe!End PROVE RefsCounted(f)'
            <4>1. Files(f)' = Files(f)
                BY <2>1, FilesSame
            <4> QED BY <2>1, <3>1, <4>1, OwnedTyped DEF RefsCounted
        <3> QED BY <3>2, <3>3
    <2>4. BytesKept'
        BY <1>12, BytesSame
           DEF Pipe!pipeclose, Pipe!wakeup, Pipe!CanWake, Pipe!Awake,
               Pipe!Sleeps, Pipe!pipe, Pipe!history
    <2>5. ASSUME NEW r \in PipeUser, NEW t \in PipeUser
          PROVE  PipePair(r, t)'
        <3>1. /\ PipePair(r, t) /\ PipePair(t, r) /\ PipePair(p, r)
              /\ PipePair(r, p) /\ PipePair(p, t) /\ PipePair(t, p)
            BY DEF PipeInv
        <3>2. /\ end[r] \in {"read", "write"} /\ end[t] \in {"read", "write"}
              /\ end[p] \in {"read", "write"}
              /\ end[r] \in Pipe!End /\ end[t] \in Pipe!End
              /\ piheld["pipe"] \in PipeUser \cup {Nil}
            BY DEF PipeInv, PipeTypes, Pipe!End
        <3>3. PipeFits(r)'
            BY <2>1, <3>1, <3>2, NilNotUser, Zenon
               DEF PipePair, PipeFits, Pipe!Channel
        <3>4. ReadWaits(r)'
            <4>1. CASE end[p] = "write"
                <5>1. ~Waiting(r, "read")'
                    BY <2>1, <3>1, <3>2, NilNotUser, <4>1, Zenon
                       DEF PipePair, Waiting, PipeFits, Pipe!Channel
                <5> QED BY <5>1 DEF ReadWaits
            <4>2. CASE end[p] = "read"
                <5>1. Waiting(r, "read")' => Waiting(r, "read")
                    BY <2>1, <3>1, <3>2, NilNotUser, Zenon
                    DEF PipePair, Waiting, PipeFits
                <5>2. open'["write"] = open["write"]
                    BY <2>1, <4>2 DEF Pipe!End
                <5> QED
                    BY <2>1, <3>1, <5>1, <5>2 DEF PipePair, ReadWaits, HolderIs
            <4> QED BY <3>2, <4>1, <4>2
        <3>5. WriteWaits(r)'
            <4>1. CASE end[p] = "read"
                <5>1. ~Waiting(r, "write")'
                    BY <2>1, <3>1, <3>2, NilNotUser, <4>1, Zenon
                       DEF PipePair, Waiting, PipeFits, Pipe!Channel
                <5> QED BY <5>1 DEF WriteWaits
            <4>2. CASE end[p] = "write"
                <5>1. Waiting(r, "write")' => Waiting(r, "write")
                    BY <2>1, <3>1, <3>2, NilNotUser, Zenon
                    DEF PipePair, Waiting, PipeFits
                <5>2. open'["read"] = open["read"]
                    BY <2>1, <4>2 DEF Pipe!End
                <5> QED
                    BY <2>1, <3>1, <5>1, <5>2 DEF PipePair, WriteWaits, HolderIs
            <4> QED BY <3>2, <4>1, <4>2
        <3>6. SleepsRightly(r)'
            BY <2>1, <3>1, <3>2, NilNotUser, Zenon
               DEF PipePair, SleepsRightly, PipeFits
        <3>7. ReadersAwake(r, t)'
            BY <2>1, <3>1, <3>2, NilNotUser, Zenon
               DEF PipePair, ReadersAwake, Waiting, PipeFits, Pipe!Channel
        <3>8. EndsHeld(r)'
            BY <2>1, <3>1, <3>2, NilNotUser, Zenon
               DEF PipePair, EndsHeld, PipeFits, OneCloses
        <3>9. OneCloses(r, t)'
            BY <2>1, <3>1, <3>2, NilNotUser, Zenon
               DEF PipePair, OneCloses, EndsHeld, PipeFits
        <3> QED BY <3>3, <3>4, <3>5, <3>6, <3>7, <3>8, <3>9 DEF PipePair
    <2> QED BY <2>2, <2>3, <2>4, <2>5 DEF PipeInv
<1>13. CASE Pipe!scheduler(p)
    <2>1. /\ pistate[p] = "RUNNABLE"
          /\ \A r \in PipeUser : pistate'[r] =
                IF r = p THEN "RUNNING" ELSE pistate[r]
          /\ \A r \in PipeUser : pichan'[r] = IF r = p THEN Nil ELSE pichan[r]
          /\ (Pipe!Empty' <=> Pipe!Empty) /\ (Pipe!Full' <=> Pipe!Full)
          /\ (Pipe!Killed' <=> Pipe!Killed)
          /\ UNCHANGED <<open, freed, ref, ofile>>
          /\ UNCHANGED <<piplock, piheld, pipc, end>>
        BY <1>13
           DEF Pipe!scheduler, Pipe!RunAgain, PipeInv, PipeTypes, Pipe!TypeOK,
               Pipe!At, Pipe!Go, Pipe!sleepVars, Pipe!pipe, Pipe!ends,
               Pipe!locals, Pipe!history, Pipe!Empty, Pipe!Full, Pipe!Killed
    <2>2. PipeTypes'
        <3>1. pipc' \in [PipeUser -> PipeWhere]
            BY <1>13, Zenon
               DEF Pipe!scheduler, Pipe!RunAgain, PipeInv, PipeTypes, Pipe!At,
                   Pipe!Go, Pipe!sleepVars, Pipe!pipe, Pipe!ends, Pipe!locals,
                   Pipe!history, PipeWhere
        <3> QED
            BY <1>13, <3>1, NilNotUser, PipeSizes
               DEF Pipe!scheduler, Pipe!RunAgain, PipeInv, PipeTypes,
                   Pipe!TypeOK, Pipe!At, Pipe!Go, Pipe!sleepVars, Pipe!pipe,
                   Pipe!ends, Pipe!locals, Pipe!history
    <2>3. FreedClosed' /\ \A f \in Pipe!End : RefsCounted(f)'
        BY <2>1, EndsSame
    <2>4. BytesKept'
        BY <1>13, BytesSame
           DEF Pipe!scheduler, Pipe!RunAgain, Pipe!pipe, Pipe!history
    <2>5. ASSUME NEW r \in PipeUser, NEW t \in PipeUser
          PROVE  PipePair(r, t)'
        <3>1. /\ PipePair(r, t) /\ PipePair(t, r) /\ PipePair(p, r)
              /\ PipePair(r, p) /\ PipePair(p, t) /\ PipePair(t, p)
            BY DEF PipeInv
        <3>2. /\ end[r] \in {"read", "write"} /\ end[t] \in {"read", "write"}
              /\ end[p] \in {"read", "write"}
              /\ end[r] \in Pipe!End /\ end[t] \in Pipe!End
              /\ piheld["pipe"] \in PipeUser \cup {Nil}
            BY DEF PipeInv, PipeTypes, Pipe!End
        <3>3. PipeFits(r)'
            BY <2>1, <3>1, <3>2, NilNotUser, Zenon DEF PipePair, PipeFits
        <3>4. ReadWaits(r)'
            BY <2>1, <3>1, <3>2, NilNotUser, Zenon
               DEF PipePair, ReadWaits, Waiting, HolderIs, PipeFits
        <3>5. WriteWaits(r)'
            BY <2>1, <3>1, <3>2, NilNotUser, Zenon
               DEF PipePair, WriteWaits, Waiting, HolderIs, PipeFits
        <3>6. SleepsRightly(r)'
            BY <2>1, <3>1, <3>2, NilNotUser, Zenon
               DEF PipePair, SleepsRightly, PipeFits
        <3>7. ReadersAwake(r, t)'
            BY <2>1, <3>1, <3>2, NilNotUser, Zenon
               DEF PipePair, ReadersAwake, Waiting, PipeFits
        <3>8. EndsHeld(r)'
            BY <2>1, <3>1, <3>2, NilNotUser, Zenon
            DEF PipePair, EndsHeld, PipeFits
        <3>9. OneCloses(r, t)'
            BY <2>1, <3>1, <3>2, NilNotUser, Zenon
               DEF PipePair, OneCloses, EndsHeld, PipeFits
        <3> QED BY <3>3, <3>4, <3>5, <3>6, <3>7, <3>8, <3>9 DEF PipePair
    <2> QED BY <2>2, <2>3, <2>4, <2>5 DEF PipeInv
<1>14. CASE Pipe!KillOne(p)
    <2>1. /\ Pipe!Killed'
          /\ piplock[p] = Nil
          /\ \A r \in PipeUser : pistate'[r] =
                IF r = p /\ pistate[p] = "SLEEPING" THEN "RUNNABLE" ELSE pistate[r]
          /\ (Pipe!Empty' <=> Pipe!Empty) /\ (Pipe!Full' <=> Pipe!Full)
          /\ UNCHANGED <<open, freed, ref, ofile>>
          /\ UNCHANGED <<pichan, piplock, piheld, pipc, end>>
        BY <1>14
           DEF Pipe!KillOne, Pipe!Kill, Pipe!Killed, PipeInv, PipeTypes,
               Pipe!TypeOK, Pipe!At, Pipe!Go, Pipe!sleepVars, Pipe!pipe,
               Pipe!ends, Pipe!locals, Pipe!history, Pipe!Empty, Pipe!Full
    <2>2. PipeTypes'
        <3>1. pipc' \in [PipeUser -> PipeWhere]
            BY <1>14, Zenon
               DEF Pipe!KillOne, Pipe!Kill, Pipe!Killed, PipeInv, PipeTypes,
                   Pipe!At, Pipe!Go, Pipe!sleepVars, Pipe!pipe, Pipe!ends,
                   Pipe!locals, Pipe!history, PipeWhere
        <3> QED
            BY <1>14, <3>1, NilNotUser, PipeSizes
               DEF Pipe!KillOne, Pipe!Kill, Pipe!Killed, PipeInv, PipeTypes,
                   Pipe!TypeOK, Pipe!At, Pipe!Go, Pipe!sleepVars, Pipe!pipe,
                   Pipe!ends, Pipe!locals, Pipe!history
    <2>3. FreedClosed' /\ \A f \in Pipe!End : RefsCounted(f)'
        BY <2>1, EndsSame
    <2>4. BytesKept'
        BY <1>14, BytesSame
           DEF Pipe!KillOne, Pipe!Kill, Pipe!Killed, Pipe!pipe, Pipe!history
    <2>5. ASSUME NEW r \in PipeUser, NEW t \in PipeUser
          PROVE  PipePair(r, t)'
        <3>1. /\ PipePair(r, t) /\ PipePair(t, r) /\ PipePair(p, r)
              /\ PipePair(r, p) /\ PipePair(p, t) /\ PipePair(t, p)
            BY DEF PipeInv
        <3>2. /\ end[r] \in {"read", "write"} /\ end[t] \in {"read", "write"}
              /\ end[p] \in {"read", "write"}
              /\ end[r] \in Pipe!End /\ end[t] \in Pipe!End
              /\ piheld["pipe"] \in PipeUser \cup {Nil}
            BY DEF PipeInv, PipeTypes, Pipe!End
        <3>3. PipeFits(r)'
            BY <2>1, <3>1, <3>2, NilNotUser, Zenon DEF PipePair, PipeFits
        <3>4. ReadWaits(r)'
            BY <2>1, <3>1, <3>2, NilNotUser, Zenon
               DEF PipePair, ReadWaits, Waiting, HolderIs, PipeFits
        <3>5. WriteWaits(r)'
            BY <2>1, <3>1, <3>2, NilNotUser, Zenon
               DEF PipePair, WriteWaits, Waiting, HolderIs, PipeFits
        <3>6. SleepsRightly(r)'
            BY <2>1, <3>1, <3>2, NilNotUser, Zenon
               DEF PipePair, SleepsRightly, PipeFits
        <3>7. ReadersAwake(r, t)'
            BY <2>1, <3>1, <3>2, NilNotUser, Zenon
               DEF PipePair, ReadersAwake, Waiting, PipeFits
        <3>8. EndsHeld(r)'
            BY <2>1, <3>1, <3>2, NilNotUser, Zenon
            DEF PipePair, EndsHeld, PipeFits
        <3>9. OneCloses(r, t)'
            BY <2>1, <3>1, <3>2, NilNotUser, Zenon
               DEF PipePair, OneCloses, EndsHeld, PipeFits
        <3> QED BY <3>3, <3>4, <3>5, <3>6, <3>7, <3>8, <3>9 DEF PipePair
    <2> QED BY <2>2, <2>3, <2>4, <2>5 DEF PipeInv
<1>15. ASSUME NEW e \in Pipe!End, Pipe!PipeLock(p, e) PROVE PipeInv'
    <2>1. /\ pistate[p] = "RUNNING" /\ pipc[p] = "user"
          /\ piheld["pipe"] = Nil
          /\ ofile[p][e] > 0
          /\ piheld'["pipe"] = p
          /\ \A r \in PipeUser : pipc'[r] = IF r = p THEN e ELSE pipc[r]
          /\ \A r \in PipeUser : end'[r] = IF r = p THEN e ELSE end[r]
          /\ (Pipe!Empty' <=> Pipe!Empty) /\ (Pipe!Full' <=> Pipe!Full)
          /\ (Pipe!Killed' <=> Pipe!Killed)
          /\ UNCHANGED <<open, freed, ref, ofile>>
          /\ UNCHANGED <<pistate, pichan, piplock>>
        BY <1>15
           DEF Pipe!PipeLock, Pipe!Calls, Pipe!acquire, PipeInv, PipeTypes,
               Pipe!TypeOK, Pipe!At, Pipe!Go, Pipe!sleepVars, Pipe!pipe,
               Pipe!ends, Pipe!locals, Pipe!history, Pipe!Empty, Pipe!Full,
               Pipe!Killed
    <2>2. PipeTypes'
        <3>1. pipc' \in [PipeUser -> PipeWhere]
            BY <1>15, Zenon
               DEF Pipe!PipeLock, Pipe!Calls, Pipe!acquire, PipeInv,
                   PipeTypes, Pipe!At, Pipe!Go, Pipe!sleepVars, Pipe!pipe,
                   Pipe!ends, Pipe!locals, Pipe!history, PipeWhere, Pipe!End
        <3> QED
            BY <1>15, <3>1, NilNotUser, PipeSizes
               DEF Pipe!PipeLock, Pipe!Calls, Pipe!acquire, PipeInv,
                   PipeTypes, Pipe!TypeOK, Pipe!At, Pipe!Go, Pipe!sleepVars,
                   Pipe!pipe, Pipe!ends, Pipe!locals, Pipe!history
    <2>3. FreedClosed' /\ \A f \in Pipe!End : RefsCounted(f)'
        BY <2>1, EndsSame
    <2>4. BytesKept'
        BY <1>15, BytesSame
           DEF Pipe!PipeLock, Pipe!Calls, Pipe!acquire, Pipe!pipe,
               Pipe!history
    <2>5. ASSUME NEW r \in PipeUser, NEW t \in PipeUser
          PROVE  PipePair(r, t)'
        <3>1. /\ PipePair(r, t) /\ PipePair(t, r) /\ PipePair(p, r)
              /\ PipePair(r, p) /\ PipePair(p, t) /\ PipePair(t, p)
            BY DEF PipeInv
        <3>2. /\ end[r] \in {"read", "write"} /\ end[t] \in {"read", "write"}
              /\ end[p] \in {"read", "write"}
              /\ end[r] \in Pipe!End /\ end[t] \in Pipe!End
              /\ piheld["pipe"] \in PipeUser \cup {Nil}
            BY DEF PipeInv, PipeTypes, Pipe!End
        <3>3. e \in {"read", "write"} /\ ref[e] > 0 /\ open[e]
            BY <2>1, InCallOpen DEF Pipe!End
        <3>4. PipeFits(r)'
            BY <2>1, <3>1, <3>2, NilNotUser, <3>3, Zenon
               DEF PipePair, PipeFits, Pipe!End
        <3>5. ReadWaits(r)'
            BY <2>1, <3>1, <3>2, NilNotUser, <3>3, Zenon
               DEF PipePair, ReadWaits, Waiting, HolderIs, PipeFits, Pipe!End
        <3>6. WriteWaits(r)'
            BY <2>1, <3>1, <3>2, NilNotUser, <3>3, Zenon
               DEF PipePair, WriteWaits, Waiting, HolderIs, PipeFits, Pipe!End
        <3>7. SleepsRightly(r)'
            BY <2>1, <3>1, <3>2, NilNotUser, <3>3, Zenon
               DEF PipePair, SleepsRightly, PipeFits
        <3>8. ReadersAwake(r, t)'
            BY <2>1, <3>1, <3>2, NilNotUser, <3>3, Zenon
               DEF PipePair, ReadersAwake, Waiting, PipeFits
        <3>9. EndsHeld(r)'
            BY <2>1, <3>1, <3>2, NilNotUser, <3>3, Zenon
               DEF PipePair, EndsHeld, PipeFits, Pipe!End
        <3>10. OneCloses(r, t)'
            BY <2>1, <3>1, <3>2, NilNotUser, <3>3, Zenon
               DEF PipePair, OneCloses, EndsHeld, PipeFits, Pipe!End
        <3> QED BY <3>4, <3>5, <3>6, <3>7, <3>8, <3>9, <3>10 DEF PipePair
    <2> QED BY <2>2, <2>3, <2>4, <2>5 DEF PipeInv
<1>16. ASSUME NEW e \in Pipe!End, Pipe!filedup(p, e) PROVE PipeInv'
    <2>1. /\ pistate[p] = "RUNNING" /\ pipc[p] = "user"
          /\ ofile[p][e] > 0 /\ ref[e] < MaxRef
          /\ ref' = [ref EXCEPT ![e] = @ + 1]
          /\ ofile' = [ofile EXCEPT ![p][e] = @ + 1]
          /\ UNCHANGED <<open, freed>>
          /\ (Pipe!Empty' <=> Pipe!Empty) /\ (Pipe!Full' <=> Pipe!Full)
          /\ (Pipe!Killed' <=> Pipe!Killed)
          /\ UNCHANGED <<pistate, pichan, piplock, piheld, pipc, end>>
        BY <1>16
           DEF Pipe!filedup, Pipe!Calls, PipeInv, PipeTypes, Pipe!TypeOK,
               Pipe!At, Pipe!Go, Pipe!sleepVars, Pipe!pipe, Pipe!ends,
               Pipe!locals, Pipe!history, Pipe!Empty, Pipe!Full, Pipe!Killed
    <2>0. /\ \A f \in Pipe!End : ref'[f] = IF f = e THEN ref[e] + 1 ELSE ref[f]
          /\ \A r \in PipeUser, f \in Pipe!End :
                ofile'[r][f] = IF r = p /\ f = e THEN ofile[p][e] + 1
                                                ELSE ofile[r][f]
        BY <2>1 DEF PipeInv, PipeTypes, Pipe!TypeOK
    <2>2. PipeTypes'
        <3>1. pipc' \in [PipeUser -> PipeWhere]
            BY <1>16, Zenon
               DEF Pipe!filedup, Pipe!Calls, PipeInv, PipeTypes, Pipe!At,
                   Pipe!Go, Pipe!sleepVars, Pipe!pipe, Pipe!ends, Pipe!locals,
                   Pipe!history, PipeWhere
        <3>2. ref \in [Pipe!End -> 0..MaxRef] /\ ref[e] > 0
              /\ ref' = [ref EXCEPT ![e] = @ + 1] /\ ref[e] < MaxRef
            BY <1>16, <2>1, InCallOpen DEF PipeInv, PipeTypes, Pipe!TypeOK
        <3>3. ref' \in [Pipe!End -> 0..MaxRef]
            BY <1>16, <3>2, PipeSizes DEF PipeTypes
        <3>4. ofile' \in [PipeUser -> [Pipe!End -> Nat]]
            BY <1>16, <2>1 DEF PipeInv, PipeTypes
        <3> QED
            BY <1>16, <3>1, <3>2, <3>3, <3>4, NilNotUser
               DEF Pipe!filedup, Pipe!Calls, PipeInv, PipeTypes, Pipe!TypeOK,
                   Pipe!At, Pipe!Go, Pipe!sleepVars, Pipe!pipe, Pipe!ends,
                   Pipe!locals, Pipe!history
    <2>3. FreedClosed' /\ \A f \in Pipe!End : RefsCounted(f)'
        <3>1. FreedClosed'
            BY <2>1 DEF FreedClosed, PipeInv
        <3>2. ASSUME NEW f \in Pipe!End PROVE RefsCounted(f)'
            <4>1. CASE f = e
                <5>1. \A q \in PipeUser : Owned(e)'[q] =
                          IF q = p THEN Owned(e)[p] + 1 ELSE Owned(e)[q]
                    BY <2>0 DEF Owned
                <5>2. Owned(e)[p] > 0
                    BY <2>1 DEF Owned
                <5>3. /\ Owned(e) \in [PipeUser -> Nat]
                      /\ IsFiniteSet(Tokens(Owned(e), PipeUser))
                      /\ ref[e] = Cardinality(Tokens(Owned(e), PipeUser))
                    BY OwnedTyped DEF RefsCounted, Files
                <5>4. /\ IsFiniteSet(Tokens(Owned(e)', PipeUser))
                      /\ Cardinality(Tokens(Owned(e)', PipeUser)) = ref[e] + 1
                    BY <5>1, <5>2, <5>3, TokensAdd
                <5>5. open[e]
                    BY <2>1, InCallOpen
                <5> QED BY <2>0, <2>1, <4>1, <5>4, <5>5 DEF RefsCounted, Files
            <4>2. CASE f # e
                <5>1. Files(f)' = Files(f)
                    BY <2>0, <4>2, FilesSame
                <5> QED BY <2>0, <2>1, <4>2, <5>1, OwnedTyped DEF RefsCounted
            <4> QED BY <4>1, <4>2
        <3> QED BY <3>1, <3>2
    <2>4. BytesKept'
        BY <1>16, BytesSame
           DEF Pipe!filedup, Pipe!Calls, Pipe!pipe, Pipe!history
    <2>5. ASSUME NEW r \in PipeUser, NEW t \in PipeUser
          PROVE  PipePair(r, t)'
        <3>1. /\ PipePair(r, t) /\ PipePair(t, r) /\ PipePair(p, r)
              /\ PipePair(r, p) /\ PipePair(p, t) /\ PipePair(t, p)
            BY DEF PipeInv
        <3>2. /\ end[r] \in {"read", "write"} /\ end[t] \in {"read", "write"}
              /\ end[p] \in {"read", "write"}
              /\ end[r] \in Pipe!End /\ end[t] \in Pipe!End
              /\ piheld["pipe"] \in PipeUser \cup {Nil}
            BY DEF PipeInv, PipeTypes, Pipe!End
        <3>3. e \in {"read", "write"} /\ ref[e] > 0 /\ open[e]
            BY <2>1, InCallOpen DEF Pipe!End
        <3>4. PipeFits(r)'
            BY <2>1, <3>1, <3>2, NilNotUser, <2>0, <3>3, Zenon
            DEF PipePair, PipeFits
        <3>5. ReadWaits(r)'
            BY <2>1, <3>1, <3>2, NilNotUser, <2>0, <3>3, Zenon
               DEF PipePair, ReadWaits, Waiting, HolderIs, PipeFits
        <3>6. WriteWaits(r)'
            BY <2>1, <3>1, <3>2, NilNotUser, <2>0, <3>3, Zenon
               DEF PipePair, WriteWaits, Waiting, HolderIs, PipeFits
        <3>7. SleepsRightly(r)'
            BY <2>1, <3>1, <3>2, NilNotUser, <2>0, <3>3, Zenon
               DEF PipePair, SleepsRightly, PipeFits
        <3>8. ReadersAwake(r, t)'
            BY <2>1, <3>1, <3>2, NilNotUser, <2>0, <3>3, Zenon
               DEF PipePair, ReadersAwake, Waiting, PipeFits
        <3>9. EndsHeld(r)'
            <4>1. CASE r = p
                BY <2>0, <2>1, <3>3, <4>1 DEF EndsHeld
            <4>2. CASE r # p
                <5>1. ofile'[r][end[r]] = ofile[r][end[r]]
                    BY <2>0, <3>2, <4>2
                <5>2. pipc[r] = "close" => ref'[end[r]] = ref[end[r]]
                    BY <2>0, <3>1, <3>2, <3>3 DEF PipePair, EndsHeld
                <5>3. pipc'[r] = pipc[r] /\ end'[r] = end[r]
                    BY <2>1, <4>2
                <5> QED
                    BY <2>1, <3>1, <5>1, <5>2, <5>3 DEF PipePair, EndsHeld
            <4> QED BY <4>1, <4>2
        <3>10. OneCloses(r, t)'
            BY <2>1, <3>1, <3>2, NilNotUser, <2>0, <3>3
               DEF PipePair, OneCloses, EndsHeld, PipeFits, Pipe!End
        <3> QED BY <3>4, <3>5, <3>6, <3>7, <3>8, <3>9, <3>10 DEF PipePair
    <2> QED BY <2>2, <2>3, <2>4, <2>5 DEF PipeInv
<1>17. ASSUME NEW e \in Pipe!End, Pipe!fileclose(p, e) PROVE PipeInv'
    <2>1. /\ pistate[p] = "RUNNING" /\ pipc[p] = "user"
          /\ ofile[p][e] > 0
          /\ ref' = [ref EXCEPT ![e] = @ - 1]
          /\ ofile' = [ofile EXCEPT ![p][e] = @ - 1]
          /\ UNCHANGED <<open, freed>>
          /\ \A r \in PipeUser : pipc'[r] =
                IF r = p /\ ref[e] = 1 THEN "close" ELSE pipc[r]
          /\ \A r \in PipeUser : end'[r] = IF r = p THEN e ELSE end[r]
          /\ (Pipe!Empty' <=> Pipe!Empty) /\ (Pipe!Full' <=> Pipe!Full)
          /\ (Pipe!Killed' <=> Pipe!Killed)
          /\ UNCHANGED <<pistate, pichan, piplock, piheld>>
        BY <1>17
           DEF Pipe!fileclose, PipeInv, PipeTypes, Pipe!TypeOK, Pipe!At,
               Pipe!Go, Pipe!sleepVars, Pipe!pipe, Pipe!ends, Pipe!locals,
               Pipe!history, Pipe!Empty, Pipe!Full, Pipe!Killed
    <2>0. /\ \A f \in Pipe!End : ref'[f] = IF f = e THEN ref[e] - 1 ELSE ref[f]
          /\ \A r \in PipeUser, f \in Pipe!End :
                ofile'[r][f] = IF r = p /\ f = e THEN ofile[p][e] - 1
                                                ELSE ofile[r][f]
        BY <2>1 DEF PipeInv, PipeTypes, Pipe!TypeOK
    <2>2. PipeTypes'
        <3>1. pipc' \in [PipeUser -> PipeWhere]
            BY <1>17, Zenon
               DEF Pipe!fileclose, PipeInv, PipeTypes, Pipe!At, Pipe!Go,
                   Pipe!sleepVars, Pipe!pipe, Pipe!ends, Pipe!locals,
                   Pipe!history, PipeWhere
        <3>2. ref \in [Pipe!End -> 0..MaxRef] /\ ref[e] > 0
              /\ ref' = [ref EXCEPT ![e] = @ - 1]
            BY <1>17, <2>1, InCallOpen DEF PipeInv, PipeTypes, Pipe!TypeOK
        <3>3. ref' \in [Pipe!End -> 0..MaxRef]
            BY <1>17, <3>2, PipeSizes DEF PipeTypes
        <3>4. ofile' \in [PipeUser -> [Pipe!End -> Nat]]
            BY <1>17, <2>1 DEF PipeInv, PipeTypes
        <3> QED
            BY <1>17, <3>1, <3>2, <3>3, <3>4, NilNotUser
               DEF Pipe!fileclose, PipeInv, PipeTypes, Pipe!TypeOK, Pipe!At,
                   Pipe!Go, Pipe!sleepVars, Pipe!pipe, Pipe!ends, Pipe!locals,
                   Pipe!history
    <2>3. FreedClosed' /\ \A f \in Pipe!End : RefsCounted(f)'
        <3>1. FreedClosed'
            BY <2>1 DEF FreedClosed, PipeInv
        <3>2. ASSUME NEW f \in Pipe!End PROVE RefsCounted(f)'
            <4>1. CASE f = e
                <5>1. \A q \in PipeUser : Owned(e)'[q] =
                          IF q = p THEN Owned(e)[p] - 1 ELSE Owned(e)[q]
                    BY <2>0 DEF Owned
                <5>2. Owned(e)[p] > 0
                    BY <2>1 DEF Owned
                <5>3. /\ Owned(e) \in [PipeUser -> Nat]
                      /\ IsFiniteSet(Tokens(Owned(e), PipeUser))
                      /\ ref[e] = Cardinality(Tokens(Owned(e), PipeUser))
                    BY OwnedTyped DEF RefsCounted, Files
                <5>4. /\ IsFiniteSet(Tokens(Owned(e)', PipeUser))
                      /\ Cardinality(Tokens(Owned(e)', PipeUser)) = ref[e] - 1
                    BY <5>1, <5>2, <5>3, TokensRemove
                <5>5. open[e]
                    BY <2>1, InCallOpen
                <5> QED BY <2>0, <2>1, <4>1, <5>4, <5>5 DEF RefsCounted, Files
            <4>2. CASE f # e
                <5>1. Files(f)' = Files(f)
                    BY <2>0, <4>2, FilesSame
                <5> QED BY <2>0, <2>1, <4>2, <5>1, OwnedTyped DEF RefsCounted
            <4> QED BY <4>1, <4>2
        <3> QED BY <3>1, <3>2
    <2>4. BytesKept'
        BY <1>17, BytesSame DEF Pipe!fileclose, Pipe!pipe, Pipe!history
    <2>5. ASSUME NEW r \in PipeUser, NEW t \in PipeUser
          PROVE  PipePair(r, t)'
        <3>1. /\ PipePair(r, t) /\ PipePair(t, r) /\ PipePair(p, r)
              /\ PipePair(r, p) /\ PipePair(p, t) /\ PipePair(t, p)
            BY DEF PipeInv
        <3>2. /\ end[r] \in {"read", "write"} /\ end[t] \in {"read", "write"}
              /\ end[p] \in {"read", "write"}
              /\ end[r] \in Pipe!End /\ end[t] \in Pipe!End
              /\ piheld["pipe"] \in PipeUser \cup {Nil}
            BY DEF PipeInv, PipeTypes, Pipe!End
        <3>3. e \in {"read", "write"} /\ ref[e] > 0 /\ open[e]
            BY <2>1, InCallOpen DEF Pipe!End
        <3>4. PipeFits(r)'
            BY <2>1, <3>1, <3>2, NilNotUser, <2>0, <3>3, Zenon
            DEF PipePair, PipeFits
        <3>5. ReadWaits(r)'
            BY <2>1, <3>1, <3>2, NilNotUser, <2>0, <3>3, Zenon
               DEF PipePair, ReadWaits, Waiting, HolderIs, PipeFits
        <3>6. WriteWaits(r)'
            BY <2>1, <3>1, <3>2, NilNotUser, <2>0, <3>3, Zenon
               DEF PipePair, WriteWaits, Waiting, HolderIs, PipeFits
        <3>7. SleepsRightly(r)'
            BY <2>1, <3>1, <3>2, NilNotUser, <2>0, <3>3, Zenon
               DEF PipePair, SleepsRightly, PipeFits
        <3>8. ReadersAwake(r, t)'
            BY <2>1, <3>1, <3>2, NilNotUser, <2>0, <3>3, Zenon
               DEF PipePair, ReadersAwake, Waiting, PipeFits
        <3>9. EndsHeld(r)'
            <4>1. CASE r = p
                BY <2>0, <2>1, <3>3, <4>1 DEF EndsHeld
            <4>2. CASE r # p
                <5>1. ofile'[r][end[r]] = ofile[r][end[r]]
                    BY <2>0, <3>2, <4>2
                <5>2. pipc[r] = "close" => ref'[end[r]] = ref[end[r]]
                    BY <2>0, <3>1, <3>2, <3>3 DEF PipePair, EndsHeld
                <5>3. pipc'[r] = pipc[r] /\ end'[r] = end[r]
                    BY <2>1, <4>2
                <5> QED
                    BY <2>1, <3>1, <5>1, <5>2, <5>3 DEF PipePair, EndsHeld
            <4> QED BY <4>1, <4>2
        <3>10. OneCloses(r, t)'
            <4>1. /\ r # p /\ pipc[r] = "close" => end[r] # e
                  /\ t # p /\ pipc[t] = "close" => end[t] # e
                BY <3>1, <3>3 DEF PipePair, EndsHeld
            <4> QED BY <2>1, <3>1, <4>1 DEF PipePair, OneCloses
        <3> QED BY <3>4, <3>5, <3>6, <3>7, <3>8, <3>9, <3>10 DEF PipePair
    <2> QED BY <2>2, <2>3, <2>4, <2>5 DEF PipeInv
<1> QED
    BY <1>1, <1>2, <1>3, <1>4, <1>5, <1>6, <1>7, <1>8, <1>9, <1>10, <1>11,
       <1>12, <1>13, <1>14, <1>15, <1>16, <1>17
       DEF Pipe!InKernel
LEMMA PipeStutter ==
    ASSUME PipeInv, UNCHANGED pipeVars
    PROVE  PipeInv'
<1>1. FreedClosed' /\ (\A e \in Pipe!End : RefsCounted(e)') /\ BytesKept'
    BY EndsSame, BytesSame DEF pipeVars
<1>2. PipeTypes'
    BY DEF pipeVars, PipeInv, PipeTypes, Pipe!TypeOK
<1>3. ASSUME NEW p \in PipeUser, NEW q \in PipeUser
      PROVE  PipePair(p, q)'
    <2>1. PipePair(p, q)
        BY DEF PipeInv
    <2>2. Pipe!Empty' = Pipe!Empty /\ Pipe!Full' = Pipe!Full
          /\ Pipe!Killed' = Pipe!Killed
        BY DEF pipeVars, Pipe!Empty, Pipe!Full, Pipe!Killed
    <2>3. (ReadWaits(p) /\ WriteWaits(p) /\ SleepsRightly(p))'
        BY <2>1, <2>2, Zenon
           DEF pipeVars, PipePair, ReadWaits, WriteWaits, SleepsRightly, Waiting,
               HolderIs
    <2>4. (PipeFits(p) /\ ReadersAwake(p, q) /\ EndsHeld(p) /\ OneCloses(p, q))'
        BY <2>1, Zenon
           DEF pipeVars, PipePair, PipeFits, ReadersAwake, Waiting, EndsHeld,
               OneCloses
    <2> QED BY <2>3, <2>4 DEF PipePair
<1> QED BY <1>1, <1>2, <1>3 DEF PipeInv

LEMMA PipeInductive == PipeInv /\ [Next]_vars => PipeInv'
BY PipeNext, PipeStutter
   DEF Next, vars, CowStep, LifeStep, SleepStep, PipeStep, DiskStep, InodeStep

LEMMA PipeInit == Pipe!Init => PipeInv
<1> SUFFICES ASSUME Pipe!Init PROVE PipeInv
    OBVIOUS
<1>1. PipeTypes
    <2>1. Pipe!Cardinality(PipeUser) = Cardinality(PipeUser)
        BY DEF Pipe!Cardinality, Cardinality
    <2>2. Pipe!Cardinality(PipeUser) \in 0..MaxRef
        BY <2>1, PipeSizes, FS_CardinalityType
    <2>3. Pipe!TypeOK
        BY <2>2, PipeSizes DEF Pipe!Init, Pipe!TypeOK, Pipe!End
    <2>4. data \in [0..(PIPESIZE - 1) -> Nat]
          /\ sent \in Seq(Nat) /\ received \in Seq(Nat)
        BY DEF Pipe!Init
    <2> QED BY <2>3, <2>4 DEF Pipe!Init, PipeTypes, PipeWhere, Pipe!End
<1>2. FreedClosed
    BY DEF Pipe!Init, FreedClosed, Pipe!End
<1>3. BytesKept
    <2>1. UINT % UINT = 0
        <3>1. UINT \in Nat /\ UINT > 0
            BY PipeSizes
        <3> QED BY <3>1, SmallMultiple, ModUnique, Z3
    <2>2. Pipe!Unread = 0
        BY <2>1, PipeSizes DEF Pipe!Init, Pipe!Unread
    <2>3. [k \in 1..0 |-> data[((nread + k - 1) % UINT) % PIPESIZE]] = <<>>
        OBVIOUS
    <2>4. Pipe!BytesInOrder
        BY <2>2, <2>3 DEF Pipe!Init, Pipe!BytesInOrder
    <2> QED BY <2>2, <2>4, PipeSizes DEF BytesKept
<1>4. ASSUME NEW e \in Pipe!End
      PROVE  RefsCounted(e)
    <2>1. Owned(e) = [p \in PipeUser |-> 1]
        BY DEF Owned, Pipe!Init
    <2>2. IsFiniteSet(Files(e)) /\ Cardinality(Files(e)) = Cardinality(PipeUser)
        BY <2>1, PipeSizes, TokensOnes DEF Files
    <2>3. Pipe!Cardinality(PipeUser) = Cardinality(PipeUser)
        BY DEF Pipe!Cardinality, Cardinality
    <2> QED BY <2>2, <2>3 DEF RefsCounted, Pipe!Init
<1>5. ASSUME NEW p \in PipeUser, NEW q \in PipeUser
      PROVE  PipePair(p, q)
    BY NilNotUser
       DEF Pipe!Init, PipePair, PipeFits, ReadersAwake, ReadWaits, WriteWaits,
           SleepsRightly, Waiting, EndsHeld, OneCloses
<1> QED BY <1>1, <1>2, <1>3, <1>4, <1>5 DEF PipeInv

(* Why nobody sleeps for what it could have: without the lock held, nobody   *)
(* is between the change of a condition and its wakeup().                    *)
LEMMA PipeWakes ==
    ASSUME PipeInv
    PROVE  Pipe!NoSleeperMissed
<1>1. \A p \in PipeUser : PipePair(p, p)
    BY DEF PipeInv
<1>2. ASSUME piheld["pipe"] = Nil, NEW p \in PipeUser, Pipe!Sleeps(p, "nread")
      PROVE  (Pipe!Empty \/ Pipe!Killed) /\ open["write"]
    <2>1. end[p] = "read"
        <3>1. end[p] \in {"read", "write"}
            BY DEF PipeInv, PipeTypes, Pipe!End
        <3> QED BY <1>1, <1>2, <3>1, Zenon
               DEF PipePair, PipeFits, Pipe!Sleeps, Pipe!Channel
    <2> QED BY <1>1, <1>2, <2>1, Zenon
           DEF PipePair, ReadWaits, Waiting, HolderIs, Pipe!Sleeps
<1>3. ASSUME piheld["pipe"] = Nil, NEW p \in PipeUser, Pipe!Sleeps(p, "nwrite")
      PROVE  Pipe!Full /\ open["read"]
    <2>1. end[p] = "write"
        <3>1. end[p] \in {"read", "write"}
            BY DEF PipeInv, PipeTypes, Pipe!End
        <3> QED BY <1>1, <1>3, <3>1, Zenon
               DEF PipePair, PipeFits, Pipe!Sleeps, Pipe!Channel
    <2> QED BY <1>1, <1>3, <2>1, Zenon
           DEF PipePair, WriteWaits, Waiting, HolderIs, Pipe!Sleeps
<1> QED BY <1>2, <1>3 DEF Pipe!NoSleeperMissed, Pipe!AsleepOn

LEMMA PipeKept ==
    ASSUME PipeInv
    PROVE  /\ Pipe!TypeOK /\ Pipe!BytesInOrder
           /\ Pipe!FreedUnused /\ Pipe!OpenWhileReferred
<1>1. Pipe!TypeOK /\ Pipe!BytesInOrder
    BY DEF PipeInv, PipeTypes, BytesKept
<1>2. ASSUME NEW e \in Pipe!End, NEW p \in PipeUser, ofile[p][e] > 0
      PROVE  open[e]
    BY <1>2, InCallOpen
<1>3. ASSUME freed, NEW p \in PipeUser
      PROVE  pipc[p] = "user" /\ \A e \in Pipe!End : ~(ofile[p][e] > 0)
    <2>1. \A e \in Pipe!End : ~open[e]
        BY <1>3 DEF PipeInv, FreedClosed, Pipe!End
    <2>2. \A e \in Pipe!End : ~(ofile[p][e] > 0)
        BY <1>2, <2>1
    <2>3. EndsHeld(p) /\ end[p] \in Pipe!End
        BY DEF PipeInv, PipePair, PipeTypes
    <2> QED BY <2>1, <2>2, <2>3 DEF EndsHeld
<1> QED BY <1>1, <1>2, <1>3 DEF Pipe!FreedUnused, Pipe!OpenWhileReferred

-----------------------------------------------------------------------------
(* The theorems.                                                             *)

(* PipeSound: whatever processes read, write, duplicate, close and are       *)
(* killed in which order, bytes come out in the order they went in, across   *)
(* the overflow of nread and nwrite, an end is open while a file refers to   *)
(* it, and nobody is in a pipe that is freed.                                *)
THEOREM PipesKept == Spec => []PipeSound
<1>1. Init => PipeInv
    BY PipeInit DEF Init
<1>2. PipeInv /\ [Next]_vars => PipeInv'
    BY PipeInductive
<1>3. PipeInv => PipeSound
    BY PipeKept DEF PipeSound
<1> QED BY <1>1, <1>2, <1>3, PTL DEF Spec

(* NoSleeperMissed: sleep() and wakeup() lose no wakeup, with a sleep-lock   *)
(* of any number of processes and with a pipe, and the sleep-lock has one    *)
(* holder.                                                                   *)
THEOREM NoWakeupLost == Spec => []NoSleeperMissed
<1>1. Init => SleepInv /\ PipeInv
    BY SleepInit, PipeInit DEF Init
<1>2. SleepInv /\ [Next]_vars => SleepInv'
    BY SleepInductive
<1>3. PipeInv /\ [Next]_vars => PipeInv'
    BY PipeInductive
<1>4. SleepInv /\ PipeInv => NoSleeperMissed
    BY SleepKept, PipeWakes DEF NoSleeperMissed
<1> QED BY <1>1, <1>2, <1>3, <1>4, PTL DEF Spec

-----------------------------------------------------------------------------
(* The disk driver.                                                          *)

DiskPlaces == {"out", "tries", "sleeps", "waits", "woken"}
DiskTypes ==
    /\ dfree \subseteq Disk!Desc
    /\ desc \in [Disk!Desc -> [addr : Disk!Address \cup {Nil},
                               next : Disk!Desc \cup {Nil}]]
    /\ ops \in [Disk!Desc -> DiskUser \cup {Nil}]
    /\ info \in [Disk!Desc -> [b : DiskUser \cup {Nil}, status : {0, 255}]]
    /\ dpc \in [DiskUser -> DiskPlaces]
    /\ head \in [DiskUser -> Disk!Desc \cup {Nil}]
    /\ disk \subseteq DiskUser /\ works \subseteq Disk!Desc

(* Who waits for a transfer has a chain of three descriptors that describe   *)
(* it, which nobody else has and which are not free.                         *)
Flies(p) == dpc[p] \in {"waits", "woken"}
Second(p) == desc[head[p]].next
Third(p) == desc[Second(p)].next
HasChain(p) == {head[p], Second(p), Third(p)}
ChainKept(p) ==
    /\ HasChain(p) \subseteq Disk!Desc
    /\ head[p] # Second(p) /\ Second(p) # Third(p) /\ head[p] # Third(p)
    /\ desc[Third(p)].next = Nil
    /\ desc[Second(p)].addr = <<"data", p>>
    /\ desc[Third(p)].addr = <<"status", head[p]>>
    /\ ops[head[p]] = p /\ info[head[p]].b = p
ChainFits(p) == IF Flies(p) THEN ChainKept(p) ELSE head[p] = Nil /\ p \notin disk
ChainsApart(p, q) ==
    Flies(p) /\ Flies(q) /\ p # q => HasChain(p) \cap HasChain(q) = {}
FreeNobodys(d) ==
    d \in dfree <=> \A p \in DiskUser : Flies(p) => d \notin HasChain(p)

(* A request is at one place, and its transfer is done when it is in the     *)
(* ring of answers.  Whatever is at these places is such a request.          *)
Untouched(p) == p \notin done /\ info[head[p]].status = 255
AtOnePlace(p) ==
    IF p \in disk
    THEN \/ /\ InRing(head[p], avail, NUM) /\ head[p] \notin works
            /\ ~InRing(head[p], used, NUM) /\ Untouched(p)
         \/ /\ ~InRing(head[p], avail, NUM) /\ head[p] \in works
            /\ ~InRing(head[p], used, NUM) /\ Untouched(p)
         \/ /\ ~InRing(head[p], avail, NUM) /\ head[p] \notin works
            /\ InRing(head[p], used, NUM) /\ p \in done
    ELSE Flies(p) => p \in done
NotYetDone(p) == dpc[p] \in {"tries", "sleeps"} => p \notin done
IsRequest(d) ==
    InRing(d, avail, NUM) \/ d \in works \/ InRing(d, used, NUM)
       => \E p \in disk : head[p] = d

DiskInv ==
    /\ DiskTypes
    /\ RingFits(avail, seen, availIdx, IDX, NUM, Nil)
    /\ RingFits(used, used_idx, usedIdx, IDX, NUM, Nil)
    /\ \A p \in DiskUser : ChainFits(p) /\ AtOnePlace(p) /\ NotYetDone(p)
    /\ \A p, q \in DiskUser : ChainsApart(p, q)
    /\ \A d \in Disk!Desc : FreeNobodys(d) /\ IsRequest(d)

LEMMA DiskSizes ==
    /\ NUM \in Nat /\ NUM > 0 /\ NUM > 2 /\ IDX \in Nat /\ IDX > NUM /\ IDX % NUM = 0
    /\ Nil \notin DiskUser /\ Nil \notin Int
    /\ Disk!Desc = 0..(NUM - 1) /\ Nil \notin Disk!Desc
BY KernelAssumption DEF KernelAssumption, Disk!DiskAssumption, Disk!Desc

LEMMA DiskOf ==
    ASSUME DiskInv, NEW p \in DiskUser
    PROVE  ChainFits(p) /\ AtOnePlace(p) /\ NotYetDone(p)
BY DEF DiskInv

(* Nothing of the chains changes.                                            *)
LEMMA ChainsSame ==
    ASSUME DiskInv, UNCHANGED <<dfree, desc, ops, head>>, disk' \subseteq disk,
           \A p \in DiskUser : Flies(p)' <=> Flies(p),
           \A d \in Disk!Desc : info'[d].b = info[d].b
    PROVE  /\ \A p \in DiskUser : ChainFits(p)'
           /\ \A p, q \in DiskUser : ChainsApart(p, q)'
           /\ \A d \in Disk!Desc : FreeNobodys(d)'
<1>1. \A p \in DiskUser : HasChain(p)' = HasChain(p) /\ Third(p)' = Third(p)
                          /\ Second(p)' = Second(p) /\ head'[p] = head[p]
    BY DEF HasChain, Third, Second
<1>2. ASSUME NEW p \in DiskUser
      PROVE  ChainFits(p)'
    <2>1. ChainFits(p)
        BY DiskOf
    <2>2. Flies(p) => info'[head[p]].b = info[head[p]].b
        BY <2>1 DEF ChainFits, ChainKept, HasChain
    <2>3. ChainKept(p) /\ Flies(p) => ChainKept(p)'
        BY <1>1, <2>2 DEF ChainKept
    <2> QED BY <1>1, <2>1, <2>3 DEF ChainFits
<1>3. ASSUME NEW p \in DiskUser, NEW q \in DiskUser
      PROVE  ChainsApart(p, q)'
    BY <1>1 DEF DiskInv, ChainsApart
<1>4. ASSUME NEW d \in Disk!Desc
      PROVE  FreeNobodys(d)'
    BY <1>1 DEF DiskInv, FreeNobodys
<1> QED BY <1>2, <1>3, <1>4

(* Nothing changes at the places of requests.                                *)
LEMMA PlacesSame ==
    ASSUME DiskInv, UNCHANGED <<avail, availIdx, seen, works, used, usedIdx,
                                used_idx, disk, head, info>>,
           \A p \in DiskUser : Flies(p)' <=> Flies(p),
           \A p \in DiskUser : Flies(p) => (p \in done' <=> p \in done)
    PROVE  /\ RingFits(avail, seen, availIdx, IDX, NUM, Nil)'
           /\ RingFits(used, used_idx, usedIdx, IDX, NUM, Nil)'
           /\ \A p \in DiskUser : AtOnePlace(p)'
           /\ \A d \in Disk!Desc : IsRequest(d)'
<1>1. /\ RingFits(avail, seen, availIdx, IDX, NUM, Nil)'
      /\ RingFits(used, used_idx, usedIdx, IDX, NUM, Nil)'
      /\ \A d \in Disk!Desc : IsRequest(d)'
    BY DEF DiskInv, RingFits, IsRequest, InRing
<1>2. ASSUME NEW p \in DiskUser
      PROVE  AtOnePlace(p)'
    <2>1. AtOnePlace(p) /\ (p \in disk => Flies(p))
        BY DiskOf DEF ChainFits
    <2>2. InRing(head[p], avail, NUM)' = InRing(head[p], avail, NUM)
          /\ InRing(head[p], used, NUM)' = InRing(head[p], used, NUM)
        BY DEF InRing
    <2> QED BY <2>1, <2>2 DEF AtOnePlace, Untouched
<1> QED BY <1>1, <1>2

(* A step that changes only where processes are that do not wait for a       *)
(* transfer, or how they sleep.                                              *)
LEMMA DiskMoves ==
    ASSUME DiskInv,
           UNCHANGED <<dfree, desc, ops, info, avail, availIdx, used_idx, disk,
                       head, seen, works, used, usedIdx>>,
           dpc' \in [DiskUser -> DiskPlaces],
           \A p \in DiskUser : Flies(p)' <=> Flies(p),
           \A p \in DiskUser : Flies(p) => (p \in done' <=> p \in done),
           \A p \in DiskUser : NotYetDone(p)'
    PROVE  DiskInv'
<1>1. DiskTypes'
    BY DEF DiskInv, DiskTypes
<1> QED BY <1>1, ChainsSame, PlacesSame DEF DiskInv

LEMMA ThreeSet ==
    ASSUME NEW D, NEW R, NEW f, f \in [D -> R], NEW x, NEW y, NEW z,
           x \in D, y \in D, z \in D, x # y, y # z, x # z,
           NEW a, NEW b, NEW c, a \in R, b \in R, c \in R,
           NEW g, g = [f EXCEPT ![x] = a, ![y] = b, ![z] = c]
    PROVE  /\ g \in [D -> R] /\ g[x] = a /\ g[y] = b /\ g[z] = c
           /\ \A e \in D : e \notin {x, y, z} => g[e] = f[e]
OBVIOUS

LEMMA DiskCall ==
    ASSUME DiskInv, NEW p \in DiskUser, Disk!Call(p)
    PROVE  DiskInv'
<1>1. dpc \in [DiskUser -> DiskPlaces]
    BY DEF DiskInv, DiskTypes
<1>2. dpc' \in [DiskUser -> DiskPlaces]
    BY <1>1 DEF Disk!Call, DiskPlaces
<1>3. ASSUME NEW q \in DiskUser
      PROVE  /\ Flies(q)' <=> Flies(q)
             /\ Flies(q) => (q \in done' <=> q \in done)
             /\ NotYetDone(q)'
    <2>1. dpc'[q] = IF q = p THEN "tries" ELSE dpc[q]
        BY <1>1 DEF Disk!Call
    <2>2. dpc[p] = "out" /\ done' = done \ {p}
        BY DEF Disk!Call
    <2>3. NotYetDone(q)
        BY DiskOf
    <2>4. NotYetDone(q)'
        BY <2>1, <2>2, <2>3 DEF NotYetDone
    <2>5. Flies(q)' <=> Flies(q)
        BY <2>1, <2>2 DEF Flies
    <2>6. Flies(q) => (q \in done' <=> q \in done)
        BY <2>2 DEF Flies
    <2> QED BY <2>4, <2>5, <2>6
<1> QED BY <1>2, <1>3, DiskMoves DEF Disk!Call

LEMMA WokenAll ==
    ASSUME NEW f, f \in [DiskUser -> DiskPlaces]
    PROVE  /\ Disk!WakeAll(f) \in [DiskUser -> DiskPlaces]
           /\ \A q \in DiskUser : Disk!WakeAll(f)[q] =
                 IF f[q] = "sleeps" THEN "tries" ELSE f[q]
BY DEF Disk!WakeAll, DiskPlaces

LEMMA DiskNoDescriptors ==
    ASSUME DiskInv, NEW p \in DiskUser, Disk!NoDescriptors(p)
    PROVE  DiskInv'
<1> DEFINE f == IF dfree = {} THEN dpc ELSE Disk!WakeAll(dpc)
<1>1. dpc \in [DiskUser -> DiskPlaces]
    BY DEF DiskInv, DiskTypes
<1>3. dpc' = [f EXCEPT ![p] = "sleeps"] /\ dpc[p] = "tries"
    BY DEF Disk!NoDescriptors
<1>6. f = dpc \/ f = Disk!WakeAll(dpc)
    OBVIOUS
<1> HIDE DEF f
<1>2. f \in [DiskUser -> DiskPlaces]
      /\ \A q \in DiskUser : f[q] = dpc[q]
            \/ (dpc[q] = "sleeps" /\ f[q] = "tries")
    <2>1. f = dpc => f \in [DiskUser -> DiskPlaces]
        BY <1>1
    <2>2. f = Disk!WakeAll(dpc) =>
             /\ f \in [DiskUser -> DiskPlaces]
             /\ \A q \in DiskUser : f[q] = dpc[q]
                   \/ (dpc[q] = "sleeps" /\ f[q] = "tries")
        BY <1>1, WokenAll
    <2> QED BY <1>6, <2>1, <2>2
<1>4. dpc' \in [DiskUser -> DiskPlaces]
      /\ \A q \in DiskUser : dpc'[q] = IF q = p THEN "sleeps" ELSE f[q]
    BY <1>2, <1>3 DEF DiskPlaces
<1>5. ASSUME NEW q \in DiskUser
      PROVE  /\ Flies(q)' <=> Flies(q)
             /\ Flies(q) => (q \in done' <=> q \in done)
             /\ NotYetDone(q)'
    <2>1. done' = done /\ NotYetDone(q)
        BY DiskOf DEF Disk!NoDescriptors, Disk!device
    <2> QED BY <1>2, <1>3, <1>4, <2>1 DEF Flies, NotYetDone
<1> QED BY <1>4, <1>5, DiskMoves DEF Disk!NoDescriptors, Disk!device

LEMMA DiskKilled ==
    ASSUME DiskInv, NEW p \in DiskUser, Disk!Killed(p)
    PROVE  DiskInv'
<1>1. dpc \in [DiskUser -> DiskPlaces]
    BY DEF DiskInv, DiskTypes
<1> DEFINE v == IF dpc[p] = "waits" THEN "woken" ELSE "tries"
<1>2. dpc' = [dpc EXCEPT ![p] = v] /\ v \in DiskPlaces
      /\ dpc[p] \in {"waits", "sleeps"}
    BY <1>1 DEF Disk!Killed, DiskPlaces
<1>4. dpc' \in [DiskUser -> DiskPlaces]
    BY <1>1, <1>2
<1>3. ASSUME NEW q \in DiskUser
      PROVE  /\ Flies(q)' <=> Flies(q)
             /\ Flies(q) => (q \in done' <=> q \in done)
             /\ NotYetDone(q)'
    <2>1. \/ dpc'[q] = dpc[q]
          \/ dpc[q] = "waits" /\ dpc'[q] = "woken"
          \/ dpc[q] = "sleeps" /\ dpc'[q] = "tries"
        <3>2. (dpc[p] = "waits" => v = "woken")
              /\ (dpc[p] = "sleeps" => v = "tries")
            OBVIOUS
        <3> HIDE DEF v
        <3>1. dpc'[q] = IF q = p THEN v ELSE dpc[q]
            BY <1>1, <1>2
        <3> QED BY <1>2, <3>1, <3>2
    <2>2. done' = done /\ NotYetDone(q)
        BY DiskOf DEF Disk!Killed, Disk!device
    <2> QED BY <2>1, <2>2 DEF Flies, NotYetDone
<1> QED BY <1>3, <1>4, DiskMoves DEF Disk!Killed, Disk!device

(* Steps of the handler and the device that touch no request.                *)
LEMMA DiskSignals ==
    ASSUME DiskInv, Disk!Begins \/ Disk!Ends \/ Disk!Raise
    PROVE  DiskInv'
<1>1. /\ UNCHANGED <<dfree, desc, ops, info, avail, availIdx, used_idx, disk,
                     head, seen, works, used, usedIdx>>
      /\ dpc' = dpc /\ done' = done
    BY DEF Disk!Begins, Disk!Ends, Disk!Raise, Disk!driver, Disk!device
<1>2. dpc' \in [DiskUser -> DiskPlaces]
    BY <1>1 DEF DiskInv, DiskTypes
<1>3. ASSUME NEW q \in DiskUser
      PROVE  (Flies(q)' <=> Flies(q)) /\ NotYetDone(q)'
    BY <1>1, DiskOf DEF Flies, NotYetDone
<1> QED BY <1>1, <1>2, <1>3, DiskMoves

LEMMA DiskRingSizes == RingSizes(IDX, NUM, Nil)
BY DiskSizes DEF RingSizes

(* Who has a chain.                                                          *)
LEMMA OwnChain ==
    ASSUME DiskInv, NEW p \in DiskUser, Flies(p)
    PROVE  /\ ChainKept(p) /\ head[p] \in Disk!Desc /\ head[p] \notin dfree
           /\ info[head[p]].b = p /\ ops[head[p]] = p
           /\ \A q \in DiskUser : Flies(q) /\ q # p => head[q] # head[p]
<1>1. ChainKept(p) /\ head[p] \in HasChain(p) /\ head[p] \in Disk!Desc
    BY DiskOf DEF ChainFits, ChainKept, HasChain
<1>2. head[p] \notin dfree
    BY <1>1 DEF DiskInv, FreeNobodys
<1>3. ASSUME NEW q \in DiskUser, Flies(q), q # p
      PROVE  head[q] # head[p]
    <2>1. ChainsApart(p, q)
        BY DEF DiskInv
    <2> QED BY <1>3, <2>1 DEF ChainsApart, HasChain
<1> QED BY <1>1, <1>2, <1>3 DEF ChainKept

(* Whose request is at a place.                                              *)
LEMMA RequestOf ==
    ASSUME DiskInv, NEW d \in Disk!Desc,
           InRing(d, avail, NUM) \/ d \in works \/ InRing(d, used, NUM)
    PROVE  \E p \in DiskUser : p \in disk /\ Flies(p) /\ head[p] = d
<1>1. PICK p \in disk : head[p] = d
    BY DEF DiskInv, IsRequest
<1>2. p \in DiskUser
    BY <1>1 DEF DiskInv, DiskTypes
<1> QED BY <1>1, <1>2, DiskOf DEF ChainFits

LEMMA DiskTakesOne ==
    ASSUME DiskInv, Disk!TakesOne
    PROVE  DiskInv'
<1> DEFINE d == used[used_idx % NUM]
<1>1. /\ UNCHANGED <<dfree, desc, ops, info, avail, availIdx, head>>
      /\ UNCHANGED <<seen, works, done, usedIdx>>
      /\ used_idx # usedIdx /\ used_idx' = (used_idx + 1) % IDX
      /\ used' = [used EXCEPT ![used_idx % NUM] = Nil]
    BY DEF Disk!TakesOne, Disk!After
<1>2. /\ d \in 0..(NUM - 1) /\ InRing(d, used, NUM)
      /\ RingFits(used', used_idx', usedIdx, IDX, NUM, Nil)
      /\ \A x \in 0..(NUM - 1) :
            InRing(x, used', NUM) <=> x # d /\ InRing(x, used, NUM)
    <2>1. RingFits(used, used_idx, usedIdx, IDX, NUM, Nil)
        BY DEF DiskInv
    <2>2. EntryTaken(used, used', used_idx, usedIdx, NUM, Nil, d)
        BY <1>1 DEF EntryTaken
    <2> HIDE DEF d
    <2>3. RingFits(used', (used_idx + 1) % IDX, usedIdx, IDX, NUM, Nil)
          /\ d \in 0..(NUM - 1) /\ InRing(d, used, NUM)
          /\ \A x \in 0..(NUM - 1) :
                InRing(x, used', NUM) <=> x # d /\ InRing(x, used, NUM)
        BY <2>1, <2>2, DiskRingSizes, RingTakes, Zenon
    <2> QED BY <1>1, <2>3
<1>3. PICK p \in DiskUser : p \in disk /\ Flies(p) /\ head[p] = d
    BY <1>2, RequestOf, DiskSizes
<1>4. info[d].b = p /\ \A q \in DiskUser : Flies(q) /\ q # p => head[q] # d
    BY <1>3, OwnChain
<1> DEFINE v == IF dpc[p] = "waits" THEN "woken" ELSE dpc[p]
<1>5. disk' = disk \ {p} /\ dpc' = [dpc EXCEPT ![p] = v]
    BY <1>4 DEF Disk!TakesOne
<1>6. v \in {"waits", "woken"}
    BY <1>3 DEF Flies
<1> HIDE DEF v, d
<1>7. dpc' \in [DiskUser -> DiskPlaces]
      /\ \A q \in DiskUser : dpc'[q] = IF q = p THEN v ELSE dpc[q]
    BY <1>5, <1>6 DEF DiskInv, DiskTypes, DiskPlaces
<1>8. ASSUME NEW q \in DiskUser
      PROVE  (Flies(q)' <=> Flies(q)) /\ NotYetDone(q)'
    BY <1>1, <1>3, <1>6, <1>7, DiskOf DEF Flies, NotYetDone
<1>9. DiskTypes'
    <2>1. DiskTypes
        BY DEF DiskInv
    <2> QED BY <1>1, <1>5, <1>7, <2>1 DEF DiskTypes
<1>10. /\ InRing(d, used, NUM) /\ ~InRing(d, avail, NUM) /\ d \notin works
       /\ p \in done
    BY <1>2, <1>3, DiskOf DEF AtOnePlace
<1>11. ASSUME NEW q \in DiskUser
       PROVE  AtOnePlace(q)'
    <2>1. AtOnePlace(q) /\ (q \in disk => Flies(q))
        BY DiskOf DEF ChainFits
    <2>2. CASE q = p
        BY <1>1, <1>5, <1>10, <2>2 DEF AtOnePlace
    <2>3. CASE q # p
        <3>1. q \in disk' <=> q \in disk
            BY <1>5, <2>3
        <3>2. q \in disk => head[q] \in 0..(NUM - 1) /\ head[q] # d
            BY <1>4, <2>1, <2>3, OwnChain, DiskSizes
        <3>3. q \in disk => (InRing(head[q], used, NUM)' <=> InRing(head[q], used, NUM))
            BY <1>1, <1>2, <3>2
        <3>4. InRing(head[q], avail, NUM)' <=> InRing(head[q], avail, NUM)
            BY <1>1
        <3> QED BY <1>1, <1>8, <2>1, <3>1, <3>3, <3>4 DEF AtOnePlace, Untouched
    <2> QED BY <2>2, <2>3
<1>12. ASSUME NEW x \in Disk!Desc
       PROVE  IsRequest(x)'
    <2>1. InRing(x, avail, NUM)' <=> InRing(x, avail, NUM)
        BY <1>1
    <2>2. InRing(x, used, NUM)' <=> x # d /\ InRing(x, used, NUM)
        BY <1>2, DiskSizes
    <2>3. IsRequest(x)
        BY DEF DiskInv
    <2> QED BY <1>1, <1>3, <1>5, <1>10, <2>1, <2>2, <2>3 DEF IsRequest
<1>13. /\ \A q \in DiskUser : ChainFits(q)'
       /\ \A q, r \in DiskUser : ChainsApart(q, r)'
       /\ \A x \in Disk!Desc : FreeNobodys(x)'
    BY <1>1, <1>5, <1>8, ChainsSame
<1>14. RingFits(avail, seen, availIdx, IDX, NUM, Nil)'
       /\ RingFits(used, used_idx, usedIdx, IDX, NUM, Nil)'
    BY <1>1, <1>2 DEF DiskInv
<1> QED BY <1>8, <1>9, <1>11, <1>12, <1>13, <1>14 DEF DiskInv

LEMMA DiskFetch ==
    ASSUME DiskInv, Disk!Fetch
    PROVE  DiskInv'
<1> DEFINE d == avail[seen % NUM]
<1>1. /\ UNCHANGED <<dfree, desc, ops, info, availIdx, used_idx, disk, dpc, head>>
      /\ UNCHANGED <<done, used, usedIdx>>
      /\ seen # availIdx /\ seen' = (seen + 1) % IDX
      /\ avail' = [avail EXCEPT ![seen % NUM] = Nil]
      /\ works' = works \cup {d}
    BY DEF Disk!Fetch, Disk!After
<1>2. /\ d \in 0..(NUM - 1) /\ InRing(d, avail, NUM)
      /\ RingFits(avail', seen', availIdx, IDX, NUM, Nil)
      /\ \A x \in 0..(NUM - 1) :
            InRing(x, avail', NUM) <=> x # d /\ InRing(x, avail, NUM)
    <2>1. RingFits(avail, seen, availIdx, IDX, NUM, Nil)
        BY DEF DiskInv
    <2>2. EntryTaken(avail, avail', seen, availIdx, NUM, Nil, d)
        BY <1>1 DEF EntryTaken
    <2> HIDE DEF d
    <2>3. RingFits(avail', (seen + 1) % IDX, availIdx, IDX, NUM, Nil)
          /\ d \in 0..(NUM - 1) /\ InRing(d, avail, NUM)
          /\ \A x \in 0..(NUM - 1) :
                InRing(x, avail', NUM) <=> x # d /\ InRing(x, avail, NUM)
        BY <2>1, <2>2, DiskRingSizes, RingTakes, Zenon
    <2> QED BY <1>1, <2>3
<1> HIDE DEF d
<1>3. PICK p \in DiskUser : p \in disk /\ Flies(p) /\ head[p] = d
    BY <1>2, RequestOf, DiskSizes
<1>4. \A q \in DiskUser : Flies(q) /\ q # p => head[q] # d
    BY <1>3, OwnChain
<1>5. \A q \in DiskUser : Flies(q)' <=> Flies(q)
    BY <1>1 DEF Flies
<1>6. DiskTypes'
    <2>1. DiskTypes
        BY DEF DiskInv
    <2> QED BY <1>1, <1>2, <2>1, DiskSizes DEF DiskTypes
<1>7. ASSUME NEW q \in DiskUser
       PROVE  AtOnePlace(q)'
    <2>1. AtOnePlace(q) /\ (q \in disk => Flies(q))
        BY DiskOf DEF ChainFits
    <2>2. q \in disk => head[q] \in 0..(NUM - 1) /\ (q # p => head[q] # d)
        BY <1>4, <2>1, OwnChain, DiskSizes
    <2>3. q \in disk => (InRing(head[q], avail, NUM)' <=>
                            head[q] # d /\ InRing(head[q], avail, NUM))
        BY <1>1, <1>2, <2>2
    <2>4. InRing(head[q], used, NUM)' <=> InRing(head[q], used, NUM)
        BY <1>1
    <2>5. CASE q = p
        BY <1>1, <1>2, <1>3, <2>1, <2>3, <2>4, <2>5 DEF AtOnePlace, Untouched
    <2>6. CASE q # p
        BY <1>1, <1>5, <2>1, <2>2, <2>3, <2>4, <2>6 DEF AtOnePlace, Untouched
    <2> QED BY <2>5, <2>6
<1>8. ASSUME NEW x \in Disk!Desc
       PROVE  IsRequest(x)'
    <2>1. InRing(x, avail, NUM)' <=> x # d /\ InRing(x, avail, NUM)
        BY <1>2, DiskSizes
    <2>2. InRing(x, used, NUM)' <=> InRing(x, used, NUM)
        BY <1>1
    <2>3. IsRequest(x)
        BY DEF DiskInv
    <2> QED BY <1>1, <1>3, <2>1, <2>2, <2>3 DEF IsRequest
<1>9. /\ \A q \in DiskUser : ChainFits(q)'
      /\ \A q, r \in DiskUser : ChainsApart(q, r)'
      /\ \A x \in Disk!Desc : FreeNobodys(x)'
    BY <1>1, <1>5, ChainsSame
<1>10. RingFits(avail, seen, availIdx, IDX, NUM, Nil)'
       /\ RingFits(used, used_idx, usedIdx, IDX, NUM, Nil)'
    BY <1>1, <1>2 DEF DiskInv
<1>11. \A q \in DiskUser : NotYetDone(q)'
    BY <1>1, DiskOf DEF NotYetDone
<1> QED BY <1>6, <1>7, <1>8, <1>9, <1>10, <1>11 DEF DiskInv

LEMMA DiskComplete ==
    ASSUME DiskInv, NEW d \in Disk!Desc, Disk!Complete(d)
    PROVE  DiskInv'
<1>1. /\ UNCHANGED <<dfree, desc, ops, avail, availIdx, used_idx, disk, dpc, head>>
      /\ seen' = seen /\ d \in works /\ works' = works \ {d}
      /\ used' = [used EXCEPT ![usedIdx % NUM] = d]
      /\ usedIdx' = (usedIdx + 1) % IDX
    BY Zenon DEF Disk!Complete, Disk!After
<1>2. PICK p \in DiskUser : p \in disk /\ Flies(p) /\ head[p] = d
    BY <1>1, RequestOf
<1>3. /\ ChainKept(p) /\ ops[d] = p /\ info[d].b = p
      /\ \A q \in DiskUser : Flies(q) /\ q # p => head[q] # d
    BY <1>2, OwnChain
<1>4. ~InRing(d, avail, NUM) /\ ~InRing(d, used, NUM)
    BY <1>1, <1>2, DiskOf DEF AtOnePlace
<1>5. done' = done \cup {p}
    <2>1. done' = done \cup {b \in DiskUser : ops[d] = b
                     /\ desc[desc[d].next].addr = <<"data", b>>}
        BY Zenon DEF Disk!Complete
    <2>2. desc[desc[d].next].addr = <<"data", p>>
        BY <1>2, <1>3 DEF ChainKept, Second
    <2>3. {b \in DiskUser : ops[d] = b /\ desc[desc[d].next].addr = <<"data", b>>}
            = {p}
        BY <1>3, <2>2
    <2> QED BY <2>1, <2>3, Zenon
<1>6. info' = [info EXCEPT ![d].status = 0]
    <2>1. info' = [info EXCEPT ![desc[desc[desc[d].next].next].addr[2]].status = 0]
        BY Zenon DEF Disk!Complete
    <2>2. desc[desc[desc[d].next].next].addr = <<"status", d>>
        BY <1>2, <1>3 DEF ChainKept, Second, Third
    <2>3. <<"status", d>>[2] = d
        OBVIOUS
    <2> QED BY <2>1, <2>2, <2>3, Zenon
<1>7. info \in [Disk!Desc -> [b : DiskUser \cup {Nil}, status : {0, 255}]]
    BY DEF DiskInv, DiskTypes
<1>8. info' \in [Disk!Desc -> [b : DiskUser \cup {Nil}, status : {0, 255}]]
      /\ \A x \in Disk!Desc : /\ info'[x].b = info[x].b
                              /\ x # d => info'[x] = info[x]
    BY <1>6, <1>7
<1>9. /\ RingFits(used', used_idx, usedIdx', IDX, NUM, Nil)
      /\ \A x \in 0..(NUM - 1) : InRing(x, used', NUM) <=> x = d \/ InRing(x, used, NUM)
    <2>1. RingFits(used, used_idx, usedIdx, IDX, NUM, Nil)
        BY DEF DiskInv
    <2>2. EntryWritten(used, used', usedIdx, NUM, d)
        BY <1>1, <1>4, DiskSizes DEF EntryWritten
    <2>3. /\ RingFits(used', used_idx, (usedIdx + 1) % IDX, IDX, NUM, Nil)
          /\ \A x \in 0..(NUM - 1) :
                InRing(x, used', NUM) <=> x = d \/ InRing(x, used, NUM)
        BY <2>1, <2>2, DiskRingSizes, RingAdds, SMT
    <2> QED BY <1>1, <2>3
<1>10. \A q \in DiskUser : Flies(q)' <=> Flies(q)
    BY <1>1 DEF Flies
<1>11. DiskTypes'
    <2>1. DiskTypes
        BY DEF DiskInv
    <2> QED BY <1>1, <1>8, <2>1 DEF DiskTypes
<1>12. ASSUME NEW q \in DiskUser
       PROVE  AtOnePlace(q)'
    <2>1. AtOnePlace(q) /\ (q \in disk => Flies(q))
        BY DiskOf DEF ChainFits
    <2>2. q \in disk => /\ head[q] \in Disk!Desc /\ head[q] \in 0..(NUM - 1)
                        /\ (q # p => head[q] # d)
        BY <1>3, <2>1, OwnChain, DiskSizes
    <2>3. q \in disk => (InRing(head[q], used, NUM)' <=>
                            head[q] = d \/ InRing(head[q], used, NUM))
        BY <1>1, <1>9, <2>2
    <2>4. InRing(head[q], avail, NUM)' <=> InRing(head[q], avail, NUM)
        BY <1>1
    <2>5. CASE q = p
        BY <1>1, <1>2, <1>4, <1>5, <2>3, <2>4, <2>5 DEF AtOnePlace
    <2>6. CASE q # p
        <3>1. q \in done' <=> q \in done
            BY <1>5, <2>6
        <3>2. q \in disk => (Untouched(q)' <=> Untouched(q))
            BY <1>1, <1>8, <2>2, <2>6, <3>1 DEF Untouched
        <3> QED BY <1>1, <1>10, <2>1, <2>2, <2>3, <2>4, <2>6, <3>1, <3>2
                DEF AtOnePlace
    <2> QED BY <2>5, <2>6
<1>13. ASSUME NEW x \in Disk!Desc
       PROVE  IsRequest(x)'
    <2>1. InRing(x, used, NUM)' <=> x = d \/ InRing(x, used, NUM)
        BY <1>9, DiskSizes
    <2>2. InRing(x, avail, NUM)' <=> InRing(x, avail, NUM)
        BY <1>1
    <2>3. IsRequest(x)
        BY DEF DiskInv
    <2> QED BY <1>1, <1>2, <2>1, <2>2, <2>3 DEF IsRequest
<1>14. /\ \A q \in DiskUser : ChainFits(q)'
       /\ \A q, r \in DiskUser : ChainsApart(q, r)'
       /\ \A x \in Disk!Desc : FreeNobodys(x)'
    BY <1>1, <1>8, <1>10, ChainsSame
<1>15. RingFits(avail, seen, availIdx, IDX, NUM, Nil)'
       /\ RingFits(used, used_idx, usedIdx, IDX, NUM, Nil)'
    BY <1>1, <1>9 DEF DiskInv
<1>16. ASSUME NEW q \in DiskUser
       PROVE  NotYetDone(q)'
    BY <1>1, <1>2, <1>5, DiskOf DEF NotYetDone, Flies
<1> QED BY <1>11, <1>12, <1>13, <1>14, <1>15, <1>16 DEF DiskInv

(* A chain whose descriptors and whose head stay.                            *)
ChainStays(q) ==
    /\ head'[q] = head[q] /\ Second(q)' = Second(q) /\ Third(q)' = Third(q)
    /\ HasChain(q)' = HasChain(q)
    /\ ChainKept(q)'

LEMMA StayingChain ==
    ASSUME DiskInv, NEW q \in DiskUser, Flies(q), head'[q] = head[q],
           \A c \in HasChain(q) : desc'[c] = desc[c],
           ops'[head[q]] = ops[head[q]], info'[head[q]] = info[head[q]]
    PROVE  ChainStays(q)
<1>1. Second(q)' = Second(q)
    BY DEF Second, HasChain
<1>2. Third(q)' = Third(q)
    BY <1>1 DEF Third, HasChain
<1>3. HasChain(q)' = HasChain(q)
    BY <1>1, <1>2 DEF HasChain
<1>4. ChainKept(q)
    BY OwnChain
<1>5. /\ desc'[Third(q)] = desc[Third(q)]
      /\ desc'[Second(q)] = desc[Second(q)]
    BY DEF HasChain
<1> QED BY <1>1, <1>2, <1>3, <1>4, <1>5 DEF ChainStays, ChainKept

LEMMA DiskSubmits ==
    ASSUME DiskInv, NEW p \in DiskUser, Disk!virtio_disk_rw(p)
    PROVE  DiskInv'
<1>1. PICK x \in dfree, y \in dfree, z \in dfree :
         /\ Disk!IsLowest(x, dfree) /\ Disk!IsLowest(y, dfree \ {x})
         /\ Disk!IsLowest(z, dfree \ {x, y}) /\ Disk!Submit(p, x, y, z)
    BY DEF Disk!virtio_disk_rw, Disk!Alloc3
<1>2. /\ x # y /\ y # z /\ x # z
      /\ x \in Disk!Desc /\ y \in Disk!Desc /\ z \in Disk!Desc
    <2>1. dfree \subseteq Disk!Desc
        BY DEF DiskInv, DiskTypes
    <2> QED BY <1>1, <2>1 DEF Disk!IsLowest
<1> DEFINE a == [addr |-> <<"op", x>>, next |-> y]
           b == [addr |-> <<"data", p>>, next |-> z]
           c == [addr |-> <<"status", x>>, next |-> Nil]
           R == [addr : Disk!Address \cup {Nil}, next : Disk!Desc \cup {Nil}]
<1>3. /\ dfree' = dfree \ {x, y, z}
      /\ desc' = [desc EXCEPT ![x] = a, ![y] = b, ![z] = c]
      /\ ops' = [ops EXCEPT ![x] = p]
      /\ info' = [info EXCEPT ![x] = [b |-> p, status |-> 255]]
      /\ avail' = [avail EXCEPT ![availIdx % NUM] = x]
      /\ availIdx' = (availIdx + 1) % IDX
      /\ disk' = disk \cup {p}
      /\ head' = [head EXCEPT ![p] = x]
      /\ dpc' = [dpc EXCEPT ![p] = "waits"]
    BY <1>1 DEF Disk!Submit, Disk!After
<1>4. /\ used_idx' = used_idx /\ seen' = seen /\ works' = works
      /\ done' = done /\ used' = used /\ usedIdx' = usedIdx
      /\ dpc[p] = "tries"
    BY DEF Disk!virtio_disk_rw, Disk!device
<1>5. ~Flies(p) /\ p \notin done /\ p \notin disk
    BY <1>4, DiskOf DEF ChainFits, Flies, NotYetDone
<1>6. DiskTypes
    BY DEF DiskInv
<1>7. /\ \A q \in DiskUser : /\ q # p => head'[q] = head[q] /\ dpc'[q] = dpc[q]
                             /\ q # p => (Flies(q)' <=> Flies(q))
      /\ head'[p] = x /\ dpc'[p] = "waits" /\ Flies(p)'
      /\ head' \in [DiskUser -> Disk!Desc \cup {Nil}]
      /\ dpc' \in [DiskUser -> DiskPlaces]
    BY <1>2, <1>3, <1>6 DEF DiskTypes, DiskPlaces, Flies
<1>8. /\ ops' \in [Disk!Desc -> DiskUser \cup {Nil}] /\ ops'[x] = p
      /\ info' \in [Disk!Desc -> [b : DiskUser \cup {Nil}, status : {0, 255}]]
      /\ info'[x].b = p /\ info'[x].status = 255
      /\ \A e \in Disk!Desc : e # x => ops'[e] = ops[e] /\ info'[e] = info[e]
    BY <1>2, <1>3, <1>6 DEF DiskTypes
<1>9. /\ desc' \in [Disk!Desc -> R]
      /\ desc'[x] = a /\ desc'[y] = b /\ desc'[z] = c
      /\ \A e \in Disk!Desc : e \notin {x, y, z} => desc'[e] = desc[e]
    <2>1. a \in R /\ b \in R /\ c \in R
        BY <1>2 DEF Disk!Address
    <2>2. desc \in [Disk!Desc -> R]
        BY <1>6 DEF DiskTypes
    <2> HIDE DEF a, b, c, R
    <2> QED BY <1>2, <1>3, <2>1, <2>2, ThreeSet
<1>10. /\ HasChain(p)' = {x, y, z} /\ Second(p)' = y /\ Third(p)' = z
       /\ ChainKept(p)'
    <2>1. Second(p)' = y
        BY <1>7, <1>9 DEF Second
    <2>2. Third(p)' = z
        BY <1>9, <2>1 DEF Third
    <2>3. HasChain(p)' = {x, y, z}
        BY <1>7, <2>1, <2>2 DEF HasChain
    <2> QED BY <1>2, <1>7, <1>8, <1>9, <2>1, <2>2, <2>3 DEF ChainKept
<1>11. ASSUME NEW q \in DiskUser, Flies(q)
       PROVE  ChainStays(q) /\ HasChain(q) \cap {x, y, z} = {} /\ q # p
              /\ head[q] \in Disk!Desc /\ head[q] # x
    <2>1. HasChain(q) \subseteq Disk!Desc /\ head[q] \in HasChain(q)
        BY <1>11, OwnChain DEF ChainKept, HasChain
    <2>2. HasChain(q) \cap {x, y, z} = {}
        <3>1. FreeNobodys(x) /\ FreeNobodys(y) /\ FreeNobodys(z)
            BY <1>2 DEF DiskInv
        <3> QED BY <1>1, <1>11, <3>1 DEF FreeNobodys
    <2>3. q # p /\ head'[q] = head[q]
        BY <1>5, <1>7, <1>11
    <2>4. \A e \in HasChain(q) : desc'[e] = desc[e]
        BY <1>9, <2>1, <2>2
    <2>5. ops'[head[q]] = ops[head[q]] /\ info'[head[q]] = info[head[q]]
        BY <1>8, <2>1, <2>2
    <2>6. ChainStays(q)
        BY <1>11, <2>3, <2>4, <2>5, StayingChain
    <2> QED BY <2>1, <2>2, <2>3, <2>6
<1> HIDE DEF a, b, c, R
<1>12. ~InRing(x, avail, NUM) /\ x \notin works /\ ~InRing(x, used, NUM)
    BY <1>2, <1>11, RequestOf
<1>13. /\ RingFits(avail', seen, availIdx', IDX, NUM, Nil)
       /\ \A e \in 0..(NUM - 1) :
             InRing(e, avail', NUM) <=> e = x \/ InRing(e, avail, NUM)
    <2>1. RingFits(avail, seen, availIdx, IDX, NUM, Nil)
        BY DEF DiskInv
    <2>2. EntryWritten(avail, avail', availIdx, NUM, x)
        BY <1>2, <1>3, <1>12, DiskSizes DEF EntryWritten
    <2>3. /\ RingFits(avail', seen, (availIdx + 1) % IDX, IDX, NUM, Nil)
          /\ \A e \in 0..(NUM - 1) :
                InRing(e, avail', NUM) <=> e = x \/ InRing(e, avail, NUM)
        BY <2>1, <2>2, DiskRingSizes, RingAdds, SMT
    <2> QED BY <1>3, <2>3
<1>14. DiskTypes'
    BY <1>3, <1>4, <1>6, <1>7, <1>8, <1>9 DEF DiskTypes, R
<1>15. ASSUME NEW q \in DiskUser
       PROVE  ChainFits(q)'
    <2>1. CASE q = p
        BY <1>7, <1>10, <2>1 DEF ChainFits
    <2>2. CASE q # p
        <3>1. Flies(q) => ChainKept(q)'
            BY <1>11 DEF ChainStays
        <3>2. ChainFits(q)
            BY DiskOf
        <3> QED BY <1>3, <1>7, <2>2, <3>1, <3>2 DEF ChainFits
    <2> QED BY <2>1, <2>2
<1>16. ASSUME NEW q \in DiskUser
       PROVE  AtOnePlace(q)'
    <2>1. AtOnePlace(q) /\ (q \in disk => Flies(q))
        BY DiskOf DEF ChainFits
    <2>2. CASE q = p
        <3>1. InRing(head[q], avail, NUM)'
            BY <1>2, <1>7, <1>13, <2>2, DiskSizes
        <3>2. ~InRing(head[q], used, NUM)'
            BY <1>4, <1>7, <1>12, <2>2
        <3>3. Untouched(q)' /\ head'[q] \notin works'
            BY <1>4, <1>5, <1>7, <1>8, <1>12, <2>2 DEF Untouched
        <3> QED BY <1>3, <2>2, <3>1, <3>2, <3>3 DEF AtOnePlace
    <2>3. CASE q # p
        <3>1. q \in disk => /\ head'[q] = head[q] /\ head[q] # x
                            /\ head[q] \in 0..(NUM - 1)
                            /\ info'[head[q]] = info[head[q]]
            BY <1>7, <1>8, <1>11, <2>1, <2>3, DiskSizes
        <3>2. q \in disk =>
                 /\ InRing(head[q], avail, NUM)' <=> InRing(head[q], avail, NUM)
                 /\ InRing(head[q], used, NUM)' <=> InRing(head[q], used, NUM)
            BY <1>4, <1>13, <3>1
        <3> QED BY <1>3, <1>4, <1>7, <2>1, <2>3, <3>1, <3>2
                DEF AtOnePlace, Untouched
    <2> QED BY <2>2, <2>3
<1>17. ASSUME NEW q \in DiskUser
       PROVE  NotYetDone(q)'
    BY <1>4, <1>7, DiskOf DEF NotYetDone
<1>18. ASSUME NEW q \in DiskUser, NEW r \in DiskUser
       PROVE  ChainsApart(q, r)'
    <2>1. ASSUME NEW u \in DiskUser, NEW v \in DiskUser, u # v,
                 Flies(u)', Flies(v)', v # p
          PROVE  (HasChain(u) \cap HasChain(v) = {})'
        <3>1. Flies(v) /\ HasChain(v)' = HasChain(v)
              /\ HasChain(v) \cap {x, y, z} = {}
            BY <1>7, <1>11, <2>1 DEF ChainStays
        <3>2. CASE u = p
            BY <1>10, <3>1, <3>2
        <3>3. CASE u # p
            <4>1. Flies(u) /\ HasChain(u)' = HasChain(u)
                BY <1>7, <1>11, <2>1, <3>3 DEF ChainStays
            <4> QED BY <2>1, <3>1, <4>1 DEF DiskInv, ChainsApart
        <3> QED BY <3>2, <3>3
    <2> QED BY <2>1 DEF ChainsApart
<1>19. ASSUME NEW e \in Disk!Desc
       PROVE  FreeNobodys(e)'
    <2>1. FreeNobodys(e)
        BY DEF DiskInv
    <2>2. \A q \in DiskUser : Flies(q)' => IF q = p THEN HasChain(q)' = {x, y, z}
                                ELSE Flies(q) /\ HasChain(q)' = HasChain(q)
        BY <1>7, <1>10, <1>11 DEF ChainStays
    <2>3. \A q \in DiskUser : Flies(q) => Flies(q)' /\ HasChain(q)' = HasChain(q)
        BY <1>7, <1>11 DEF ChainStays
    <2> QED BY <1>3, <1>7, <2>1, <2>2, <2>3 DEF FreeNobodys
<1>20. ASSUME NEW e \in Disk!Desc
       PROVE  IsRequest(e)'
    <2>1. InRing(e, avail, NUM)' <=> e = x \/ InRing(e, avail, NUM)
        BY <1>13, DiskSizes
    <2>2. InRing(e, used, NUM)' <=> InRing(e, used, NUM)
        BY <1>4
    <2>3. CASE e = x
        BY <1>3, <1>7, <2>3 DEF IsRequest
    <2>4. CASE e # x
        <3>1. SUFFICES ASSUME InRing(e, avail, NUM) \/ e \in works
                              \/ InRing(e, used, NUM)
                       PROVE  \E q \in disk' : head'[q] = e
            BY <1>4, <2>1, <2>2, <2>4 DEF IsRequest
        <3>2. PICK q \in DiskUser : q \in disk /\ Flies(q) /\ head[q] = e
            BY <3>1, RequestOf
        <3> QED BY <1>3, <1>5, <1>7, <3>2
    <2> QED BY <2>3, <2>4
<1>21. RingFits(avail, seen, availIdx, IDX, NUM, Nil)'
       /\ RingFits(used, used_idx, usedIdx, IDX, NUM, Nil)'
    BY <1>4, <1>13 DEF DiskInv
<1> QED BY <1>14, <1>15, <1>16, <1>17, <1>18, <1>19, <1>20, <1>21 DEF DiskInv

(* The transfer is done: the chain is free, and who sleeps for a descriptor  *)
(* tries again.                                                              *)
LEMMA DiskReturns ==
    ASSUME DiskInv, NEW p \in DiskUser, Disk!Wakes(p), p \notin disk
    PROVE  DiskInv'
<1>1. /\ UNCHANGED <<ops, avail, availIdx, used_idx, disk>>
      /\ UNCHANGED <<seen, works, done, used, usedIdx>>
      /\ dpc[p] = "woken"
    BY DEF Disk!Wakes, Disk!device
<1>2. /\ Flies(p) /\ ChainKept(p) /\ head[p] \in Disk!Desc
      /\ \A q \in DiskUser : Flies(q) /\ q # p => head[q] # head[p]
    BY <1>1, OwnChain DEF Flies
<1>3. Disk!Chain(head[p]) = HasChain(p)
    BY <1>2, DiskSizes, Zenon
       DEF Disk!Chain, HasChain, ChainKept, Second, Third
<1> DEFINE out == [dpc EXCEPT ![p] = "out"]
<1>4. /\ dfree' = dfree \cup HasChain(p)
      /\ desc' = [c \in Disk!Desc |-> IF c \in HasChain(p) THEN Disk!NoDesc
                                      ELSE desc[c]]
      /\ info' = [info EXCEPT ![head[p]].b = Nil]
      /\ head' = [head EXCEPT ![p] = Nil]
      /\ dpc' = Disk!WakeAll(out)
    BY <1>3 DEF Disk!Wakes, Disk!free_chain
<1>5. DiskTypes
    BY DEF DiskInv
<1>6. /\ out \in [DiskUser -> DiskPlaces]
      /\ \A q \in DiskUser : out[q] = IF q = p THEN "out" ELSE dpc[q]
    BY <1>5 DEF DiskTypes, DiskPlaces
<1> HIDE DEF out
<1>7. /\ dpc' \in [DiskUser -> DiskPlaces]
      /\ \A q \in DiskUser : dpc'[q] = IF out[q] = "sleeps" THEN "tries" ELSE out[q]
    BY <1>4, <1>6, WokenAll
<1>8. ASSUME NEW q \in DiskUser
      PROVE  /\ Flies(q)' <=> Flies(q) /\ q # p
             /\ NotYetDone(q)'
    <2>1. NotYetDone(q)
        BY DiskOf
    <2>2. q = p => dpc'[q] = "out"
        BY <1>6, <1>7
    <2>3. q # p => dpc'[q] = IF dpc[q] = "sleeps" THEN "tries" ELSE dpc[q]
        BY <1>6, <1>7
    <2>4. Flies(q)' <=> Flies(q) /\ q # p
        BY <2>2, <2>3 DEF Flies
    <2>5. NotYetDone(q)'
        BY <1>1, <2>1, <2>2, <2>3 DEF NotYetDone
    <2> QED BY <2>4, <2>5
<1>9. /\ head' \in [DiskUser -> Disk!Desc \cup {Nil}] /\ head'[p] = Nil
      /\ \A q \in DiskUser : q # p => head'[q] = head[q]
    BY <1>4, <1>5 DEF DiskTypes
<1>10. /\ info' \in [Disk!Desc -> [b : DiskUser \cup {Nil}, status : {0, 255}]]
       /\ \A e \in Disk!Desc : e # head[p] => info'[e] = info[e]
    BY <1>2, <1>4, <1>5 DEF DiskTypes
<1>11. /\ desc' \in [Disk!Desc -> [addr : Disk!Address \cup {Nil},
                                   next : Disk!Desc \cup {Nil}]]
       /\ \A e \in Disk!Desc : e \notin HasChain(p) => desc'[e] = desc[e]
    BY <1>4, <1>5 DEF DiskTypes, Disk!NoDesc
<1>12. ASSUME NEW q \in DiskUser, Flies(q), q # p
       PROVE  /\ ChainStays(q) /\ HasChain(q) \cap HasChain(p) = {}
              /\ head[q] \in Disk!Desc /\ info'[head[q]] = info[head[q]]
    <2>1. /\ HasChain(q) \subseteq Disk!Desc /\ head[q] \in HasChain(q)
          /\ head[q] # head[p]
        BY <1>2, <1>12, OwnChain DEF ChainKept, HasChain
    <2>2. HasChain(q) \cap HasChain(p) = {}
        BY <1>2, <1>12 DEF DiskInv, ChainsApart
    <2>3. \A e \in HasChain(q) : desc'[e] = desc[e]
        BY <1>11, <2>1, <2>2
    <2>4. head'[q] = head[q] /\ ops' = ops /\ info'[head[q]] = info[head[q]]
        BY <1>1, <1>9, <1>10, <1>12, <2>1
    <2>5. ChainStays(q)
        BY <1>12, <2>3, <2>4, StayingChain
    <2> QED BY <2>1, <2>2, <2>4, <2>5
<1>13. DiskTypes'
    <2>1. HasChain(p) \subseteq Disk!Desc
        BY <1>2 DEF ChainKept
    <2> QED BY <1>1, <1>4, <1>5, <1>7, <1>9, <1>10, <1>11, <2>1 DEF DiskTypes
<1>14. ASSUME NEW q \in DiskUser
       PROVE  ChainFits(q)'
    <2>1. CASE q = p
        BY <1>1, <1>8, <1>9, <2>1 DEF ChainFits
    <2>2. CASE q # p
        <3>1. Flies(q) => ChainKept(q)'
            BY <1>12, <2>2 DEF ChainStays
        <3>2. ChainFits(q)
            BY DiskOf
        <3> QED BY <1>1, <1>8, <1>9, <2>2, <3>1, <3>2 DEF ChainFits
    <2> QED BY <2>1, <2>2
<1>15. ASSUME NEW q \in DiskUser
       PROVE  AtOnePlace(q)'
    <2>1. AtOnePlace(q) /\ (q \in disk => Flies(q))
        BY DiskOf DEF ChainFits
    <2>2. CASE q = p
        BY <1>1, <1>8, <2>2 DEF AtOnePlace
    <2>3. CASE q # p
        <3>1. head'[q] = head[q]
              /\ (q \in disk => info'[head[q]] = info[head[q]])
            BY <1>9, <1>12, <2>1, <2>3
        <3>2. /\ InRing(head[q], avail, NUM)' <=> InRing(head[q], avail, NUM)
              /\ InRing(head[q], used, NUM)' <=> InRing(head[q], used, NUM)
            BY <1>1, <3>1
        <3> QED BY <1>1, <1>8, <2>1, <2>3, <3>1, <3>2 DEF AtOnePlace, Untouched
    <2> QED BY <2>2, <2>3
<1>16. ASSUME NEW q \in DiskUser, NEW r \in DiskUser
       PROVE  ChainsApart(q, r)'
    <2>1. SUFFICES ASSUME Flies(q)', Flies(r)', q # r
                   PROVE  (HasChain(q) \cap HasChain(r) = {})'
        BY DEF ChainsApart
    <2>2. /\ Flies(q) /\ Flies(r) /\ q # p /\ r # p
        BY <1>8, <2>1
    <2>3. HasChain(q)' = HasChain(q) /\ HasChain(r)' = HasChain(r)
        BY <1>12, <2>2 DEF ChainStays
    <2> QED BY <2>1, <2>2, <2>3 DEF DiskInv, ChainsApart
<1>17. ASSUME NEW e \in Disk!Desc
       PROVE  FreeNobodys(e)'
    <2>1. FreeNobodys(e)
        BY DEF DiskInv
    <2>2. \A q \in DiskUser : Flies(q)' => /\ Flies(q) /\ q # p
                                           /\ HasChain(q)' = HasChain(q)
        BY <1>8, <1>12 DEF ChainStays
    <2>3. \A q \in DiskUser : Flies(q) /\ q # p =>
             /\ Flies(q)' /\ HasChain(q)' = HasChain(q)
             /\ HasChain(q) \cap HasChain(p) = {}
        BY <1>8, <1>12 DEF ChainStays
    <2> QED BY <1>2, <1>4, <2>1, <2>2, <2>3 DEF FreeNobodys
<1>18. ASSUME NEW e \in Disk!Desc
       PROVE  IsRequest(e)'
    <2>1. /\ InRing(e, avail, NUM)' <=> InRing(e, avail, NUM)
          /\ InRing(e, used, NUM)' <=> InRing(e, used, NUM)
        BY <1>1
    <2>2. SUFFICES ASSUME InRing(e, avail, NUM) \/ e \in works
                          \/ InRing(e, used, NUM)
                   PROVE  \E q \in disk' : head'[q] = e
        BY <1>1, <2>1 DEF IsRequest
    <2>3. PICK q \in DiskUser : q \in disk /\ Flies(q) /\ head[q] = e
        BY <2>2, RequestOf
    <2> QED BY <1>1, <1>9, <2>3
<1>19. RingFits(avail, seen, availIdx, IDX, NUM, Nil)'
       /\ RingFits(used, used_idx, usedIdx, IDX, NUM, Nil)'
    BY <1>1 DEF DiskInv
<1> QED BY <1>8, <1>13, <1>14, <1>15, <1>16, <1>17, <1>18, <1>19 DEF DiskInv

LEMMA DiskWaitsAgain ==
    ASSUME DiskInv, NEW p \in DiskUser, Disk!Wakes(p), p \in disk
    PROVE  DiskInv'
<1>1. /\ UNCHANGED <<dfree, desc, ops, info, avail, availIdx, used_idx, disk,
                     head, seen, works, used, usedIdx>>
      /\ done' = done /\ dpc[p] = "woken" /\ dpc' = [dpc EXCEPT ![p] = "waits"]
    BY DEF Disk!Wakes, Disk!device
<1>2. dpc' \in [DiskUser -> DiskPlaces]
      /\ \A q \in DiskUser : dpc'[q] = IF q = p THEN "waits" ELSE dpc[q]
    BY <1>1 DEF DiskInv, DiskTypes, DiskPlaces
<1>3. ASSUME NEW q \in DiskUser
      PROVE  (Flies(q)' <=> Flies(q)) /\ NotYetDone(q)'
    BY <1>1, <1>2, DiskOf DEF Flies, NotYetDone
<1> QED BY <1>1, <1>2, <1>3, DiskMoves

LEMMA DiskNext ==
    ASSUME DiskInv, Disk!Next
    PROVE  DiskInv'
<1>1. ASSUME NEW p \in DiskUser, Disk!Wakes(p)
      PROVE  DiskInv'
    BY <1>1, DiskReturns, DiskWaitsAgain
<1>2. ASSUME NEW p \in DiskUser,
             \/ Disk!Call(p) \/ Disk!virtio_disk_rw(p)
             \/ Disk!NoDescriptors(p) \/ Disk!Killed(p)
      PROVE  DiskInv'
    BY <1>2, DiskCall, DiskSubmits, DiskNoDescriptors, DiskKilled
<1>3. ASSUME \/ Disk!Begins \/ Disk!TakesOne \/ Disk!Ends
             \/ Disk!Fetch \/ Disk!Raise
      PROVE  DiskInv'
    BY <1>3, DiskSignals, DiskTakesOne, DiskFetch
<1>4. ASSUME NEW d \in Disk!Desc, Disk!Complete(d)
      PROVE  DiskInv'
    BY <1>4, DiskComplete
<1> QED BY <1>1, <1>2, <1>3, <1>4 DEF Disk!Next

LEMMA DiskStutter ==
    ASSUME DiskInv, UNCHANGED diskVars
    PROVE  DiskInv'
<1>1. /\ UNCHANGED <<dfree, desc, ops, info, avail, availIdx, used_idx, disk,
                     head, seen, works, used, usedIdx>>
      /\ dpc' = dpc /\ done' = done
    BY DEF diskVars
<1>2. dpc' \in [DiskUser -> DiskPlaces]
    BY <1>1 DEF DiskInv, DiskTypes
<1>3. ASSUME NEW q \in DiskUser
      PROVE  (Flies(q)' <=> Flies(q)) /\ NotYetDone(q)'
    BY <1>1, DiskOf DEF Flies, NotYetDone
<1> QED BY <1>1, <1>2, <1>3, DiskMoves

LEMMA DiskInductive == DiskInv /\ [Next]_vars => DiskInv'
BY DiskNext, DiskStutter
   DEF Next, vars, CowStep, LifeStep, SleepStep, PipeStep, DiskStep, InodeStep

(* An empty ring.                                                            *)
LEMMA DiskRingEmpty ==
    ASSUME NEW ring, ring = [d \in Disk!Desc |-> Nil]
    PROVE  /\ RingFits(ring, 0, 0, IDX, NUM, Nil)
           /\ \A d \in Disk!Desc : ~InRing(d, ring, NUM)
<1>1. Filled(0, 0, IDX) = 0
    BY DiskSizes, FilledIs
<1>2. \A c \in 0..(NUM - 1) : Place(c, 0, NUM) \in Nat
    <2> TAKE c \in 0..(NUM - 1)
    <2> QED BY DiskSizes, c \in Int, 0 \in Int, PlaceIn
<1>3. /\ ring \in [0..(NUM - 1) -> 0..(NUM - 1) \cup {Nil}]
      /\ \A c \in 0..(NUM - 1) : ring[c] = Nil
    BY DiskSizes
<1>4. RingFits(ring, 0, 0, IDX, NUM, Nil)
    BY <1>1, <1>2, <1>3, DiskSizes DEF RingFits
<1>5. ASSUME NEW d \in Disk!Desc
      PROVE  ~InRing(d, ring, NUM)
    BY <1>3, DiskSizes, Zenon DEF InRing
<1> QED BY <1>4, <1>5

LEMMA DiskInit == Disk!virtio_disk_init => DiskInv
<1> SUFFICES ASSUME Disk!virtio_disk_init PROVE DiskInv
    OBVIOUS
<1>1. DiskTypes
    BY DEF Disk!virtio_disk_init, DiskTypes, DiskPlaces, Disk!NoDesc
<1>2. /\ RingFits(avail, seen, availIdx, IDX, NUM, Nil)
      /\ RingFits(used, used_idx, usedIdx, IDX, NUM, Nil)
      /\ \A d \in Disk!Desc : ~InRing(d, avail, NUM) /\ ~InRing(d, used, NUM)
    BY DiskRingEmpty DEF Disk!virtio_disk_init
<1>3. \A p \in DiskUser : dpc[p] = "out" /\ head[p] = Nil /\ p \notin disk
    BY DEF Disk!virtio_disk_init
<1>4. \A p \in DiskUser : ChainFits(p) /\ AtOnePlace(p) /\ NotYetDone(p)
    BY <1>3 DEF ChainFits, AtOnePlace, NotYetDone, Flies
<1>5. \A p, q \in DiskUser : ChainsApart(p, q)
    BY <1>3 DEF ChainsApart, Flies
<1>6. \A d \in Disk!Desc : FreeNobodys(d) /\ IsRequest(d)
    BY <1>2, <1>3 DEF FreeNobodys, Flies, IsRequest, Disk!virtio_disk_init
<1> QED BY <1>1, <1>2, <1>4, <1>5, <1>6 DEF DiskInv

LEMMA ThreeCounted ==
    ASSUME NEW a, NEW b, NEW c, a # b, b # c, a # c
    PROVE  Cardinality({a, b, c}) = 3
<1>1. IsFiniteSet({a}) /\ Cardinality({a}) = 1
    BY FS_Singleton
<1>2. IsFiniteSet({a} \cup {b}) /\ Cardinality({a} \cup {b}) = 2
    BY <1>1, FS_AddElement
<1>3. Cardinality(({a} \cup {b}) \cup {c}) = 3
    BY <1>2, FS_AddElement
<1>4. {a, b, c} = ({a} \cup {b}) \cup {c}
    OBVIOUS
<1> QED BY <1>3, <1>4

LEMMA DiskKept ==
    ASSUME DiskInv
    PROVE  /\ Disk!TypeOK /\ Disk!DescriptorsAccounted
           /\ Disk!DeviceReadsRequests /\ Disk!ReturnsServed
<1>1. \A p \in DiskUser : p \in Disk!InFlight <=> Flies(p)
    BY Zenon DEF Disk!InFlight, Flies
<1>2. ASSUME NEW p \in DiskUser, Flies(p)
      PROVE  Disk!Chain(head[p]) = HasChain(p)
    <2>1. ChainKept(p)
        BY <1>2, OwnChain
    <2> QED BY <2>1, DiskSizes, Zenon
           DEF Disk!Chain, HasChain, ChainKept, Second, Third
<1>3. Disk!InFlight \subseteq DiskUser
    BY DEF Disk!InFlight
<1>4. Disk!TypeOK
    <2>1. /\ avail \in [Disk!Desc -> Disk!Desc \cup {Nil}]
          /\ used \in [Disk!Desc -> Disk!Desc \cup {Nil}]
          /\ {availIdx, usedIdx, used_idx, seen} \subseteq 0..(IDX - 1)
        BY DiskSizes DEF DiskInv, RingFits
    <2>2. ASSUME NEW p \in DiskUser
          PROVE  /\ IF p \in Disk!InFlight THEN head[p] \in Disk!Desc
                                           ELSE head[p] = Nil
                 /\ p \in disk => p \in Disk!InFlight
        BY <1>1, DiskOf, OwnChain DEF ChainFits
    <2>3. DiskTypes
        BY DEF DiskInv
    <2> QED BY <2>1, <2>2, <2>3 DEF Disk!TypeOK, DiskTypes, DiskPlaces
<1>5. Disk!DescriptorsAccounted
    <2>1. ASSUME NEW p \in Disk!InFlight
          PROVE  Disk!Cardinality(Disk!Chain(head[p])) = 3
        <3>1. p \in DiskUser /\ Flies(p) /\ ChainKept(p)
            BY <1>1, <1>3, OwnChain
        <3>2. Cardinality(HasChain(p)) = 3
            <4>1. head[p] # Second(p) /\ Second(p) # Third(p) /\ head[p] # Third(p)
                BY <3>1 DEF ChainKept
            <4> QED BY <4>1, ThreeCounted, Zenon DEF HasChain
        <3>3. Disk!Cardinality(HasChain(p)) = Cardinality(HasChain(p))
            BY DEF Disk!Cardinality, Cardinality
        <3> QED BY <1>2, <3>1, <3>2, <3>3
    <2>2. ASSUME NEW p \in Disk!InFlight, NEW q \in Disk!InFlight, p # q
          PROVE  Disk!Chain(head[p]) \cap Disk!Chain(head[q]) = {}
        <3>1. p \in DiskUser /\ q \in DiskUser /\ Flies(p) /\ Flies(q)
            BY <1>1, <1>3
        <3>2. HasChain(p) \cap HasChain(q) = {}
            BY <2>2, <3>1 DEF DiskInv, ChainsApart
        <3> QED BY <1>2, <3>1, <3>2
    <2>3. dfree = Disk!Desc \ UNION {Disk!Chain(head[p]) : p \in Disk!InFlight}
        <3>1. ASSUME NEW d \in Disk!Desc
              PROVE  d \in dfree <=>
                     \A p \in Disk!InFlight : d \notin Disk!Chain(head[p])
            <4>1. d \in dfree <=> \A p \in DiskUser : Flies(p) => d \notin HasChain(p)
                BY DEF DiskInv, FreeNobodys
            <4> QED BY <1>1, <1>2, <1>3, <4>1
        <3>2. dfree \subseteq Disk!Desc
            BY DEF DiskInv, DiskTypes
        <3> QED BY <3>1, <3>2
    <2> QED BY <2>1, <2>2, <2>3 DEF Disk!DescriptorsAccounted
<1>6. Disk!DeviceReadsRequests
    <2>1. ASSUME NEW d \in works
          PROVE  \E p \in Disk!InFlight \cap disk :
                    /\ head[p] = d /\ ops[d] = p /\ p \notin done
                    /\ info[d] = [b |-> p, status |-> 255]
                    /\ desc[desc[d].next].addr = <<"data", p>>
        <3>1. d \in Disk!Desc
            BY DEF DiskInv, DiskTypes
        <3>2. PICK p \in DiskUser : p \in disk /\ Flies(p) /\ head[p] = d
            BY <3>1, RequestOf
        <3>3. ChainKept(p) /\ AtOnePlace(p)
            BY <3>2, DiskOf, OwnChain
        <3>4. p \notin done /\ info[d].status = 255
            BY <3>2, <3>3 DEF AtOnePlace, Untouched
        <3>5. ops[d] = p /\ info[d].b = p
              /\ desc[desc[d].next].addr = <<"data", p>>
            BY <3>2, <3>3 DEF ChainKept, Second
        <3>6. info[d] = [b |-> p, status |-> 255]
            BY <3>1, <3>4, <3>5 DEF DiskInv, DiskTypes
        <3> QED BY <1>1, <3>2, <3>4, <3>5, <3>6
    <2> QED BY <2>1 DEF Disk!DeviceReadsRequests
<1>7. Disk!ReturnsServed
    BY <1>1, <1>3, DiskOf DEF Disk!ReturnsServed, AtOnePlace
<1> QED BY <1>4, <1>5, <1>6, <1>7

(* DiskSound: with any number of requests and descriptors, in whatever order *)
(* the device completes the requests and whoever is killed meanwhile, each   *)
(* request has its own three descriptors and every other is free, the device *)
(* reads requests that are as they were submitted, and virtio_disk_rw()      *)
(* returns only after the transfer of its own buffer.                        *)
THEOREM DiskRequestsServed == Spec => []DiskSound
<1>1. Init => DiskInv
    BY DiskInit DEF Init
<1>2. DiskInv /\ [Next]_vars => DiskInv'
    BY DiskInductive
<1>3. DiskInv => DiskSound
    BY DiskKept DEF DiskSound
<1> QED BY <1>1, <1>2, <1>3, PTL DEF Spec

-----------------------------------------------------------------------------
(* The copy-on-write instances, by the proofs about CowMem.                  *)

FreesP == INSTANCE CowProofs WITH
    Proc <- {"p1", "p2"}, First <- "p1", Page <- 1..7, Data <- {0},
    Zero <- 0, None <- Nil, NV <- 2, SPAN <- 2, MaxCount <- 4,
    Ops <- {"fork", "copyout", "exit", "sbrk"}

ShortP == INSTANCE CowProofs WITH
    Proc <- {"p1", "p2"}, First <- "p1", Page <- 1..6, Data <- {0},
    Zero <- 0, None <- Nil, NV <- 2, SPAN <- 1, MaxCount <- 4,
    Ops <- {"fork", "store", "copyout", "exit", "sbrk", "bad store", "count"}

(* What CowProofs says of them is about the same formulas.                   *)
LEMMA FreesSame ==
    /\ FreesP!CowAssumption
    /\ Frees!Init => FreesP!Init
    /\ Frees!Next => FreesP!Next
    /\ FreesP!NoPageLost => Frees!NoPageLost
<1>1. FreesP!CowAssumption
    BY CowsAssumption, Zenon
    DEF Frees!CowAssumption, FreesP!CowAssumption, Frees!Operations,
        FreesP!Operations, Frees!IsFiniteSet, FreesP!IsFiniteSet,
        Frees!Cardinality, FreesP!Cardinality,
        CowsAssumption
<1>2. Frees!Init => FreesP!Init
    BY Zenon
    DEF Frees!Init, FreesP!Init, Frees!VPage, FreesP!VPage, Frees!Slot,
        FreesP!Slot
<1>3. Frees!Next => FreesP!Next
    BY Zenon
    DEF Frees!Next, FreesP!Next, Frees!Operations, FreesP!Operations,
        Frees!TableOf, FreesP!TableOf, Frees!VPage, FreesP!VPage, Frees!Slot,
        FreesP!Slot, Frees!Running, FreesP!Running, Frees!Calls, FreesP!Calls,
        Frees!Return, FreesP!Return, Frees!Panic, FreesP!Panic,
        Frees!MappedIn, FreesP!MappedIn, Frees!KernelPages,
        FreesP!KernelPages, Frees!AnyOf, FreesP!AnyOf, Frees!Fresh,
        FreesP!Fresh, Frees!Fresh2, FreesP!Fresh2, Frees!Kalloc,
        FreesP!Kalloc, Frees!Kfree, FreesP!Kfree, Frees!Freeproc,
        FreesP!Freeproc, Frees!Fork, FreesP!Fork, Frees!Uvmcopy,
        FreesP!Uvmcopy, Frees!ForkEnds, FreesP!ForkEnds, Frees!ForkPage,
        FreesP!ForkPage, Frees!ForkFails, FreesP!ForkFails, Frees!ForkPanics,
        FreesP!ForkPanics, Frees!WriteTo, FreesP!WriteTo, Frees!Write,
        FreesP!Write, Frees!Decrement, FreesP!Decrement, Frees!StoreFault,
        FreesP!StoreFault, Frees!Copyout, FreesP!Copyout, Frees!ToCopy,
        FreesP!ToCopy, Frees!Handling, FreesP!Handling, Frees!ThenWrite,
        FreesP!ThenWrite, Frees!TakeInPlace, FreesP!TakeInPlace,
        Frees!CopyPage, FreesP!CopyPage, Frees!NoPageToCopy,
        FreesP!NoPageToCopy, Frees!NoPageToUnmap, FreesP!NoPageToUnmap,
        Frees!BadStore, FreesP!BadStore, Frees!Grow, FreesP!Grow,
        Frees!Shrink, FreesP!Shrink, Frees!Exit, FreesP!Exit,
        Frees!ExitPanics, FreesP!ExitPanics, Frees!GetNumFreePages,
        FreesP!GetNumFreePages, Frees!space, FreesP!space, Frees!control,
        FreesP!control
<1>4. FreesP!NoPageLost => Frees!NoPageLost
    BY Zenon
    DEF Frees!NoPageLost, FreesP!NoPageLost, Frees!Used, FreesP!Used,
        Frees!Holders, FreesP!Holders, Frees!Mappings, FreesP!Mappings,
        Frees!Leaving, FreesP!Leaving, Frees!MappedIn, FreesP!MappedIn,
        Frees!KernelPages, FreesP!KernelPages, Frees!VPage, FreesP!VPage,
        Frees!Slot, FreesP!Slot, Frees!Cardinality, FreesP!Cardinality
<1> QED BY <1>1, <1>2, <1>3, <1>4

LEMMA ShortSame ==
    /\ ShortP!CowAssumption
    /\ Short!Init => ShortP!Init
    /\ Short!Next => ShortP!Next
    /\ ShortP!OneUse => Short!OneUse
<1>1. ShortP!CowAssumption
    BY CowsAssumption, Zenon
    DEF Short!CowAssumption, ShortP!CowAssumption, Short!Operations,
        ShortP!Operations, Short!IsFiniteSet, ShortP!IsFiniteSet,
        Short!Cardinality, ShortP!Cardinality,
        CowsAssumption
<1>2. Short!Init => ShortP!Init
    BY Zenon
    DEF Short!Init, ShortP!Init, Short!VPage, ShortP!VPage, Short!Slot,
        ShortP!Slot
<1>3. Short!Next => ShortP!Next
    BY Zenon
    DEF Short!Next, ShortP!Next, Short!Operations, ShortP!Operations,
        Short!TableOf, ShortP!TableOf, Short!VPage, ShortP!VPage, Short!Slot,
        ShortP!Slot, Short!Running, ShortP!Running, Short!Calls, ShortP!Calls,
        Short!Return, ShortP!Return, Short!Panic, ShortP!Panic,
        Short!MappedIn, ShortP!MappedIn, Short!KernelPages,
        ShortP!KernelPages, Short!AnyOf, ShortP!AnyOf, Short!Fresh,
        ShortP!Fresh, Short!Fresh2, ShortP!Fresh2, Short!Kalloc,
        ShortP!Kalloc, Short!Kfree, ShortP!Kfree, Short!Freeproc,
        ShortP!Freeproc, Short!Fork, ShortP!Fork, Short!Uvmcopy,
        ShortP!Uvmcopy, Short!ForkEnds, ShortP!ForkEnds, Short!ForkPage,
        ShortP!ForkPage, Short!ForkFails, ShortP!ForkFails, Short!ForkPanics,
        ShortP!ForkPanics, Short!WriteTo, ShortP!WriteTo, Short!Write,
        ShortP!Write, Short!Decrement, ShortP!Decrement, Short!StoreFault,
        ShortP!StoreFault, Short!Copyout, ShortP!Copyout, Short!ToCopy,
        ShortP!ToCopy, Short!Handling, ShortP!Handling, Short!ThenWrite,
        ShortP!ThenWrite, Short!TakeInPlace, ShortP!TakeInPlace,
        Short!CopyPage, ShortP!CopyPage, Short!NoPageToCopy,
        ShortP!NoPageToCopy, Short!NoPageToUnmap, ShortP!NoPageToUnmap,
        Short!BadStore, ShortP!BadStore, Short!Grow, ShortP!Grow,
        Short!Shrink, ShortP!Shrink, Short!Exit, ShortP!Exit,
        Short!ExitPanics, ShortP!ExitPanics, Short!GetNumFreePages,
        ShortP!GetNumFreePages, Short!space, ShortP!space, Short!control,
        ShortP!control
<1>4. ShortP!OneUse => Short!OneUse
    BY Zenon
    DEF Short!OneUse, ShortP!OneUse, Short!Used, ShortP!Used, Short!MappedIn,
        ShortP!MappedIn, Short!KernelPages, ShortP!KernelPages, Short!VPage,
        ShortP!VPage, Short!Slot, ShortP!Slot
<1> QED BY <1>1, <1>2, <1>3, <1>4

(* There are pages enough.                                                   *)
LEMMA FreesRoom == FreesP!RoomToFork
<1>1. FreesP!Cardinality(1..7) = 7
    <2>1. FreesP!Cardinality(1..7) = IF 1 > 7 THEN 0 ELSE 7 - 1 + 1
        <3>1. 1 \in Int /\ 7 \in Int
            OBVIOUS
        <3> QED BY <3>1, FreesP!FS_Interval, Zenon
    <2> QED BY <2>1
<1>2. FreesP!Cardinality({"p1", "p2"}) = 2
    <2>1. /\ FreesP!IsFiniteSet({"p1"}) /\ FreesP!Cardinality({"p1"}) = 1
        BY FreesP!FS_Singleton
    <2>2. FreesP!Cardinality({"p1"} \cup {"p2"}) = 2
        BY <2>1, FreesP!FS_AddElement
    <2>3. {"p1", "p2"} = {"p1"} \cup {"p2"}
        OBVIOUS
    <2> QED BY <2>2, <2>3
<1> QED BY <1>1, <1>2 DEF FreesP!RoomToFork

FreesInv == FreesP!Shape /\ FreesP!KeptInv
CowsInv ==
    /\ part = "frees" => FreesInv
    /\ part = "short" => ShortP!Shape

LEMMA CowsInit == Init => CowsInv
<1> SUFFICES ASSUME Init PROVE CowsInv
    OBVIOUS
<1>1. /\ part = "frees" => Frees!Init
      /\ part = "short" => Short!Init
    BY DEF Init
<1>2. Frees!Init => FreesInv
    BY FreesSame, FreesP!InitShape, FreesP!InitKept DEF FreesInv
<1>3. Short!Init => ShortP!Shape
    BY ShortSame, ShortP!InitShape
<1> QED BY <1>1, <1>2, <1>3 DEF CowsInv

LEMMA CowSteps ==
    ASSUME [Next]_vars
    PROVE  /\ part' = part
           /\ part = "frees" => [FreesP!Next]_(FreesP!vars)
           /\ part = "short" => [ShortP!Next]_(ShortP!vars)
<1>1. part' = part
    BY DEF Next, vars
<1>2. CASE UNCHANGED cowVars
    <2>1. UNCHANGED FreesP!vars /\ UNCHANGED ShortP!vars
        BY <1>2
        DEF cowVars, FreesP!vars, FreesP!memory, FreesP!space,
            FreesP!control, ShortP!vars, ShortP!memory, ShortP!space,
            ShortP!control
    <2> QED BY <1>1, <2>1
<1>3. CASE CowStep
    BY <1>1, <1>3, FreesSame, ShortSame DEF CowStep
<1>4. CowStep \/ UNCHANGED cowVars
    BY DEF Next, vars, LifeStep, SleepStep, PipeStep, DiskStep, InodeStep
<1> QED BY <1>2, <1>3, <1>4

LEMMA CowsInductive == CowsInv /\ [Next]_vars => CowsInv'
<1> SUFFICES ASSUME CowsInv, [Next]_vars PROVE CowsInv'
    OBVIOUS
<1>1. CASE part = "frees"
    <2>1. [FreesP!Next]_(FreesP!vars) /\ FreesInv /\ part' = "frees"
        BY <1>1, CowSteps DEF CowsInv
    <2>2. FreesP!Shape'
        BY <2>1, FreesSame, FreesP!ShapeStep DEF FreesInv
    <2>3. FreesP!KeptInv'
        BY <2>1, FreesSame, FreesRoom, FreesP!KeptStep DEF FreesInv
    <2> QED BY <2>1, <2>2, <2>3 DEF CowsInv, FreesInv
<1>2. CASE part = "short"
    <2>1. [ShortP!Next]_(ShortP!vars) /\ ShortP!Shape /\ part' = "short"
        BY <1>2, CowSteps DEF CowsInv
    <2>2. ShortP!Shape'
        BY <2>1, ShortSame, ShortP!ShapeStep
    <2> QED BY <2>1, <2>2 DEF CowsInv
<1>3. CASE part \notin {"frees", "short"}
    BY <1>3, CowSteps DEF CowsInv
<1> QED BY <1>1, <1>2, <1>3

(* kfree() gets the pages that nobody has left, and only those.              *)
THEOREM PagesKept == Spec => []CowPagesKept
<1>1. Init => CowsInv
    BY CowsInit
<1>2. CowsInv /\ [Next]_vars => CowsInv'
    BY CowsInductive
<1>3. CowsInv => CowPagesKept
    BY FreesSame, FreesP!KeptNoPageLost, ShortSame, ShortP!ShapeOneUse
    DEF CowsInv, FreesInv, CowPagesKept
<1> QED BY <1>1, <1>2, <1>3, PTL DEF Spec
-----------------------------------------------------------------------------
(* The tables of inodes, by the proofs about InodeTable.                     *)

InodesP == INSTANCE InodeProofs WITH
    Proc <- {"p1", "p2"}, Name <- {"a"}, Inum <- {1, 2}, Block <- {"b"},
    NINODE <- 2, MaxCrash <- 0, pc <- ipc

LinkedP == INSTANCE InodeProofs WITH
    Proc <- {"p1", "p2"}, Name <- {"a", "b"}, Inum <- {1}, Block <- {"b"},
    NINODE <- 2, MaxCrash <- 1, pc <- ipc

(* What InodeProofs says of them is about the same formulas.                 *)
LEMMA InodesSame ==
    /\ InodesP!InodeAssumption
    /\ Inodes!Init => InodesP!Init
    /\ Inodes!Next => InodesP!Next
    /\ InodesP!TypeOK => Inodes!TypeOK
    /\ InodesP!RefsExact => Inodes!RefsExact
    /\ InodesP!CopyIsTrue => Inodes!CopyIsTrue
    /\ InodesP!PutNeedNotWait => Inodes!PutNeedNotWait
    /\ InodesP!NoPanic => Inodes!NoPanic
    /\ InodesP!StoredConsistent => Inodes!StoredConsistent
<1>1. InodesP!InodeAssumption
    BY InodesAssumption, Zenon
    DEF Inodes!InodeAssumption, InodesP!InodeAssumption, Inodes!IsFiniteSet,
        InodesP!IsFiniteSet,
        InodesAssumption
<1>2. Inodes!Init => InodesP!Init
    BY Zenon
    DEF Inodes!Init, InodesP!Init, Inodes!blocks, InodesP!blocks,
        Inodes!Start, InodesP!Start, Inodes!Slot, InodesP!Slot,
        Inodes!FreeDinode, InodesP!FreeDinode, Inodes!FreeEntry,
        InodesP!FreeEntry
<1>3. Inodes!Next => InodesP!Next
    BY Zenon
    DEF Inodes!Next, InodesP!Next, Inodes!Slot, InodesP!Slot, Inodes!blocks,
        InodesP!blocks, Inodes!vars, InodesP!vars, Inodes!FreeDinode,
        InodesP!FreeDinode, Inodes!FreeEntry, InodesP!FreeEntry, Inodes!At,
        InodesP!At, Inodes!Go, InodesP!Go, Inodes!Return, InodesP!Return,
        Inodes!Lowest, InodesP!Lowest, Inodes!Holding, InodesP!Holding,
        Inodes!iget, InodesP!iget, Inodes!Copy, InodesP!Copy,
        Inodes!SetCopy, InodesP!SetCopy, Inodes!iupdate, InodesP!iupdate,
        Inodes!MoreLinks, InodesP!MoreLinks, Inodes!Unlocked,
        InodesP!Unlocked, Inodes!Lock, InodesP!Lock, Inodes!Unlock,
        InodesP!Unlock, Inodes!Open, InodesP!Open, Inodes!OpenLock,
        InodesP!OpenLock, Inodes!OpenFile, InodesP!OpenFile,
        Inodes!OpenFails, InodesP!OpenFails, Inodes!Create, InodesP!Create,
        Inodes!CreateGet, InodesP!CreateGet, Inodes!CreateLink,
        InodesP!CreateLink, Inodes!CreateFails, InodesP!CreateFails,
        Inodes!Write, InodesP!Write, Inodes!WriteBlock, InodesP!WriteBlock,
        Inodes!Close, InodesP!Close, Inodes!Unlink, InodesP!Unlink,
        Inodes!UnlinkName, InodesP!UnlinkName, Inodes!UnlinkInode,
        InodesP!UnlinkInode, Inodes!Link, InodesP!Link, Inodes!LinkInode,
        InodesP!LinkInode, Inodes!LinkName, InodesP!LinkName,
        Inodes!LinkFails, InodesP!LinkFails, Inodes!LinkUndone,
        InodesP!LinkUndone, Inodes!IsLast, InodesP!IsLast, Inodes!Drop,
        InodesP!Drop, Inodes!Put, InodesP!Put, Inodes!PutLast,
        InodesP!PutLast, Inodes!Free, InodesP!Free, Inodes!Freed,
        InodesP!Freed, Inodes!PutFreed, InodesP!PutFreed, Inodes!Crash,
        InodesP!Crash, Inodes!Calls, InodesP!Calls, Inodes!GoesOn,
        InodesP!GoesOn
<1>4. InodesP!TypeOK => Inodes!TypeOK
    BY Zenon
    DEF Inodes!TypeOK, InodesP!TypeOK, Inodes!Dinode, InodesP!Dinode,
        Inodes!Slot, InodesP!Slot
<1>5. InodesP!RefsExact => Inodes!RefsExact
    BY Zenon
    DEF Inodes!RefsExact, InodesP!RefsExact, Inodes!Slot, InodesP!Slot,
        Inodes!Holding, InodesP!Holding, Inodes!Cardinality,
        InodesP!Cardinality
<1>6. InodesP!CopyIsTrue => Inodes!CopyIsTrue
    BY Zenon
    DEF Inodes!CopyIsTrue, InodesP!CopyIsTrue, Inodes!Slot, InodesP!Slot,
        Inodes!Unlocked, InodesP!Unlocked
<1>7. InodesP!PutNeedNotWait => Inodes!PutNeedNotWait
    BY Zenon
    DEF Inodes!PutNeedNotWait, InodesP!PutNeedNotWait, Inodes!At,
        InodesP!At, Inodes!IsLast, InodesP!IsLast, Inodes!Unlocked,
        InodesP!Unlocked
<1>8. InodesP!NoPanic => Inodes!NoPanic
    BY Zenon
    DEF Inodes!NoPanic, InodesP!NoPanic, Inodes!At, InodesP!At,
        Inodes!Unlocked, InodesP!Unlocked, Inodes!Copy, InodesP!Copy
<1>9. InodesP!StoredConsistent => Inodes!StoredConsistent
    BY Zenon
    DEF Inodes!StoredConsistent, InodesP!StoredConsistent,
        Inodes!Cardinality, InodesP!Cardinality
<1> QED BY <1>1, <1>2, <1>3, <1>4, <1>5, <1>6, <1>7, <1>8, <1>9

LEMMA LinkedSame ==
    /\ LinkedP!InodeAssumption
    /\ Linked!Init => LinkedP!Init
    /\ Linked!Next => LinkedP!Next
    /\ LinkedP!TypeOK => Linked!TypeOK
    /\ LinkedP!RefsExact => Linked!RefsExact
    /\ LinkedP!CopyIsTrue => Linked!CopyIsTrue
    /\ LinkedP!PutNeedNotWait => Linked!PutNeedNotWait
    /\ LinkedP!NoPanic => Linked!NoPanic
    /\ LinkedP!StoredConsistent => Linked!StoredConsistent
<1>1. LinkedP!InodeAssumption
    BY InodesAssumption, Zenon
    DEF Linked!InodeAssumption, LinkedP!InodeAssumption, Linked!IsFiniteSet,
        LinkedP!IsFiniteSet,
        InodesAssumption
<1>2. Linked!Init => LinkedP!Init
    BY Zenon
    DEF Linked!Init, LinkedP!Init, Linked!blocks, LinkedP!blocks,
        Linked!Start, LinkedP!Start, Linked!Slot, LinkedP!Slot,
        Linked!FreeDinode, LinkedP!FreeDinode, Linked!FreeEntry,
        LinkedP!FreeEntry
<1>3. Linked!Next => LinkedP!Next
    BY Zenon
    DEF Linked!Next, LinkedP!Next, Linked!Slot, LinkedP!Slot, Linked!blocks,
        LinkedP!blocks, Linked!vars, LinkedP!vars, Linked!FreeDinode,
        LinkedP!FreeDinode, Linked!FreeEntry, LinkedP!FreeEntry, Linked!At,
        LinkedP!At, Linked!Go, LinkedP!Go, Linked!Return, LinkedP!Return,
        Linked!Lowest, LinkedP!Lowest, Linked!Holding, LinkedP!Holding,
        Linked!iget, LinkedP!iget, Linked!Copy, LinkedP!Copy,
        Linked!SetCopy, LinkedP!SetCopy, Linked!iupdate, LinkedP!iupdate,
        Linked!MoreLinks, LinkedP!MoreLinks, Linked!Unlocked,
        LinkedP!Unlocked, Linked!Lock, LinkedP!Lock, Linked!Unlock,
        LinkedP!Unlock, Linked!Open, LinkedP!Open, Linked!OpenLock,
        LinkedP!OpenLock, Linked!OpenFile, LinkedP!OpenFile,
        Linked!OpenFails, LinkedP!OpenFails, Linked!Create, LinkedP!Create,
        Linked!CreateGet, LinkedP!CreateGet, Linked!CreateLink,
        LinkedP!CreateLink, Linked!CreateFails, LinkedP!CreateFails,
        Linked!Write, LinkedP!Write, Linked!WriteBlock, LinkedP!WriteBlock,
        Linked!Close, LinkedP!Close, Linked!Unlink, LinkedP!Unlink,
        Linked!UnlinkName, LinkedP!UnlinkName, Linked!UnlinkInode,
        LinkedP!UnlinkInode, Linked!Link, LinkedP!Link, Linked!LinkInode,
        LinkedP!LinkInode, Linked!LinkName, LinkedP!LinkName,
        Linked!LinkFails, LinkedP!LinkFails, Linked!LinkUndone,
        LinkedP!LinkUndone, Linked!IsLast, LinkedP!IsLast, Linked!Drop,
        LinkedP!Drop, Linked!Put, LinkedP!Put, Linked!PutLast,
        LinkedP!PutLast, Linked!Free, LinkedP!Free, Linked!Freed,
        LinkedP!Freed, Linked!PutFreed, LinkedP!PutFreed, Linked!Crash,
        LinkedP!Crash, Linked!Calls, LinkedP!Calls, Linked!GoesOn,
        LinkedP!GoesOn
<1>4. LinkedP!TypeOK => Linked!TypeOK
    BY Zenon
    DEF Linked!TypeOK, LinkedP!TypeOK, Linked!Dinode, LinkedP!Dinode,
        Linked!Slot, LinkedP!Slot
<1>5. LinkedP!RefsExact => Linked!RefsExact
    BY Zenon
    DEF Linked!RefsExact, LinkedP!RefsExact, Linked!Slot, LinkedP!Slot,
        Linked!Holding, LinkedP!Holding, Linked!Cardinality,
        LinkedP!Cardinality
<1>6. LinkedP!CopyIsTrue => Linked!CopyIsTrue
    BY Zenon
    DEF Linked!CopyIsTrue, LinkedP!CopyIsTrue, Linked!Slot, LinkedP!Slot,
        Linked!Unlocked, LinkedP!Unlocked
<1>7. LinkedP!PutNeedNotWait => Linked!PutNeedNotWait
    BY Zenon
    DEF Linked!PutNeedNotWait, LinkedP!PutNeedNotWait, Linked!At,
        LinkedP!At, Linked!IsLast, LinkedP!IsLast, Linked!Unlocked,
        LinkedP!Unlocked
<1>8. LinkedP!NoPanic => Linked!NoPanic
    BY Zenon
    DEF Linked!NoPanic, LinkedP!NoPanic, Linked!At, LinkedP!At,
        Linked!Unlocked, LinkedP!Unlocked, Linked!Copy, LinkedP!Copy
<1>9. LinkedP!StoredConsistent => Linked!StoredConsistent
    BY Zenon
    DEF Linked!StoredConsistent, LinkedP!StoredConsistent,
        Linked!Cardinality, LinkedP!Cardinality
<1> QED BY <1>1, <1>2, <1>3, <1>4, <1>5, <1>6, <1>7, <1>8, <1>9

InodesInv ==
    /\ part = "inodes" => InodesP!InodeInv
    /\ part = "linked" => LinkedP!InodeInv

LEMMA InodeTablesInit == Init => InodesInv
<1> SUFFICES ASSUME Init PROVE InodesInv
    OBVIOUS
<1>1. /\ part = "inodes" => Inodes!Init
      /\ part = "linked" => Linked!Init
    BY DEF Init
<1>2. Inodes!Init => InodesP!InodeInv
    BY InodesSame, InodesP!InodesInit
<1>3. Linked!Init => LinkedP!InodeInv
    BY LinkedSame, LinkedP!InodesInit
<1> QED BY <1>1, <1>2, <1>3 DEF InodesInv

LEMMA InodeSteps ==
    ASSUME [Next]_vars
    PROVE  /\ part' = part
           /\ part = "inodes" => [InodesP!Next]_(InodesP!vars)
           /\ part = "linked" => [LinkedP!Next]_(LinkedP!vars)
<1>1. part' = part
    BY DEF Next, vars
<1>2. CASE UNCHANGED inodeVars
    <2>1. UNCHANGED InodesP!vars /\ UNCHANGED LinkedP!vars
        BY <1>2
        DEF inodeVars, InodesP!vars, InodesP!blocks, LinkedP!vars,
            LinkedP!blocks
    <2> QED BY <1>1, <2>1
<1>3. CASE InodeStep
    BY <1>1, <1>3, InodesSame, LinkedSame DEF InodeStep
<1>4. InodeStep \/ UNCHANGED inodeVars
    BY DEF Next, vars, CowStep, LifeStep, SleepStep, PipeStep, DiskStep
<1> QED BY <1>2, <1>3, <1>4

LEMMA InodeTablesInductive == InodesInv /\ [Next]_vars => InodesInv'
<1> SUFFICES ASSUME InodesInv, [Next]_vars PROVE InodesInv'
    OBVIOUS
<1>1. CASE part = "inodes"
    <2>1. [InodesP!Next]_(InodesP!vars) /\ InodesP!InodeInv /\ part' = "inodes"
        BY <1>1, InodeSteps DEF InodesInv
    <2>2. InodesP!InodeInv'
        BY <2>1, InodesSame, InodesP!InodesInductive
    <2> QED BY <2>1, <2>2 DEF InodesInv
<1>2. CASE part = "linked"
    <2>1. [LinkedP!Next]_(LinkedP!vars) /\ LinkedP!InodeInv /\ part' = "linked"
        BY <1>2, InodeSteps DEF InodesInv
    <2>2. LinkedP!InodeInv'
        BY <2>1, LinkedSame, LinkedP!InodesInductive
    <2> QED BY <2>1, <2>2 DEF InodesInv
<1>3. CASE part \notin {"inodes", "linked"}
    BY <1>3, InodeSteps DEF InodesInv
<1> QED BY <1>1, <1>2, <1>3

LEMMA InodeTablesKept == InodesInv => InodesSound /\ InodesStored
<1> SUFFICES ASSUME InodesInv PROVE InodesSound /\ InodesStored
    OBVIOUS
<1>1. CASE part = "inodes"
    <2>1. InodesP!InodeAssumption /\ InodesP!InodeInv
        BY <1>1, InodesSame DEF InodesInv
    <2>2. InodesP!TypeOK
        BY <2>1 DEF InodesP!InodeInv
    <2>3. /\ InodesP!RefsExact /\ InodesP!CopyIsTrue /\ InodesP!PutNeedNotWait
          /\ InodesP!NoPanic /\ InodesP!StoredConsistent
        BY <2>1, InodesP!InvRefs, InodesP!InvCopy, InodesP!InvPut,
           InodesP!InvNoPanic, InodesP!InvStored
    <2> QED BY <1>1, <2>2, <2>3, InodesSame DEF InodesSound, InodesStored
<1>2. CASE part = "linked"
    <2>1. LinkedP!InodeAssumption /\ LinkedP!InodeInv
        BY <1>2, LinkedSame DEF InodesInv
    <2>2. LinkedP!TypeOK
        BY <2>1 DEF LinkedP!InodeInv
    <2>3. /\ LinkedP!RefsExact /\ LinkedP!CopyIsTrue /\ LinkedP!PutNeedNotWait
          /\ LinkedP!NoPanic /\ LinkedP!StoredConsistent
        BY <2>1, LinkedP!InvRefs, LinkedP!InvCopy, LinkedP!InvPut,
           LinkedP!InvNoPanic, LinkedP!InvStored
    <2> QED BY <1>2, <2>2, <2>3, LinkedSame DEF InodesSound, InodesStored
<1>3. CASE part \notin {"inodes", "linked"}
    BY <1>3 DEF InodesSound, InodesStored
<1> QED BY <1>1, <1>2, <1>3

(* InodesSound: iget() and iput() keep the counts of the table, also when an *)
(* inode is freed and allocated again while somebody has its entry.          *)
THEOREM InodesCounted == Spec => []InodesSound
<1>1. Init => InodesInv
    BY InodeTablesInit
<1>2. InodesInv /\ [Next]_vars => InodesInv'
    BY InodeTablesInductive
<1>3. InodesInv => InodesSound
    BY InodeTablesKept
<1> QED BY <1>1, <1>2, <1>3, PTL DEF Spec

(* InodesStored: a crash at any step leaves links, names and blocks that     *)
(* agree.                                                                    *)
THEOREM CrashLeavesFiles == Spec => []InodesStored
<1>1. Init => InodesInv
    BY InodeTablesInit
<1>2. InodesInv /\ [Next]_vars => InodesInv'
    BY InodeTablesInductive
<1>3. InodesInv => InodesStored
    BY InodeTablesKept
<1> QED BY <1>1, <1>2, <1>3, PTL DEF Spec
=============================================================================
