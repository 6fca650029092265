-------------------------- MODULE RttProgramsProofs -------------------------
(* The philosophers, the readers and writers and the chat of RttPrograms,    *)
(* for any number of philosophers, threads, buffers and messages.            *)
EXTENDS RttPrograms, SequenceTheorems, FiniteSetTheorems, TLAPS

-----------------------------------------------------------------------------
(* Queues, and semaphores as maps of counts and queues.                      *)

Queued(t, q) == \E k \in DOMAIN q : q[k] = t
OnceEach(q) == \A j, k \in DOMAIN q : q[j] = q[k] => j = k
Semaphores(N, S) == [N -> [count : Nat, queue : Seq(S)]]
AfterP(f, t, s) ==
    [f EXCEPT ![s] = IF @.count > 0
                     THEN [count |-> @.count - 1, queue |-> @.queue]
                     ELSE [count |-> @.count, queue |-> Append(@.queue, t)]]
AfterV(f, s) ==
    [f EXCEPT ![s] = IF @.queue = <<>>
                     THEN [count |-> @.count + 1, queue |-> @.queue]
                     ELSE [count |-> @.count, queue |-> Tail(@.queue)]]

LEMMA QueueAppend ==
    ASSUME NEW S, NEW q, NEW x, q \in Seq(S), x \in S
    PROVE  /\ Append(q, x) \in Seq(S)
           /\ \A t : Queued(t, Append(q, x)) <=> Queued(t, q) \/ t = x
           /\ OnceEach(q) /\ ~Queued(x, q) => OnceEach(Append(q, x))
<1> DEFINE a == Append(q, x)
<1>1. /\ a \in Seq(S) /\ Len(a) = Len(q) + 1 /\ Len(q) \in Nat
      /\ \A k \in 1..Len(q) : a[k] = q[k]
      /\ a[Len(q) + 1] = x
    BY AppendProperties, LenProperties
<1> HIDE DEF a
<1>2. DOMAIN q = 1..Len(q) /\ DOMAIN a = 1..(Len(q) + 1)
    BY <1>1, LenProperties
<1>3. \A k \in DOMAIN a : k \in DOMAIN q \/ k = Len(q) + 1
    BY <1>1, <1>2
<1>4. DOMAIN q \subseteq DOMAIN a /\ Len(q) + 1 \in DOMAIN a
    BY <1>1, <1>2
<1>5. \A k \in DOMAIN q : a[k] = q[k]
    BY <1>1, <1>2
<1>6. \A t : Queued(t, a) <=> Queued(t, q) \/ t = x
    BY <1>1, <1>3, <1>4, <1>5 DEF Queued
<1>7. ASSUME OnceEach(q), ~Queued(x, q) PROVE OnceEach(a)
    BY <1>1, <1>3, <1>5, <1>7 DEF OnceEach, Queued
<1> QED BY <1>1, <1>6, <1>7 DEF a

LEMMA QueueTail ==
    ASSUME NEW S, NEW q, q \in Seq(S), q # <<>>
    PROVE  /\ Tail(q) \in Seq(S) /\ Head(q) \in S /\ Queued(Head(q), q)
           /\ \A t : Queued(t, q) <=> Queued(t, Tail(q)) \/ t = Head(q)
           /\ OnceEach(q) => OnceEach(Tail(q)) /\ ~Queued(Head(q), Tail(q))
<1> DEFINE r == Tail(q)
<1>1. /\ r \in Seq(S) /\ Len(r) = Len(q) - 1 /\ Len(q) \in Nat /\ Len(q) > 0
      /\ \A k \in 1..Len(r) : r[k] = q[k + 1]
      /\ Head(q) = q[1] /\ Head(q) \in S
    BY HeadTailProperties, LenProperties, EmptySeq
<1> HIDE DEF r
<1>2. DOMAIN q = 1..Len(q) /\ DOMAIN r = 1..(Len(q) - 1)
    BY <1>1, LenProperties
<1>3. 1 \in DOMAIN q
    BY <1>1, <1>2
<1>4. \A k \in DOMAIN r : k + 1 \in DOMAIN q /\ r[k] = q[k + 1] /\ k + 1 # 1
    BY <1>1, <1>2
<1>5. \A k \in DOMAIN q : k # 1 => k - 1 \in DOMAIN r /\ q[k] = r[k - 1]
    BY <1>1, <1>2
<1>6. \A t : Queued(t, q) <=> Queued(t, r) \/ t = Head(q)
    BY <1>1, <1>3, <1>4, <1>5 DEF Queued
<1>7. ASSUME OnceEach(q) PROVE OnceEach(r) /\ ~Queued(Head(q), r)
    <2>1. \A j, k \in DOMAIN r : r[j] = r[k] => j = k
        BY <1>2, <1>4, <1>7 DEF OnceEach
    <2>2. \A k \in DOMAIN r : r[k] # q[1]
        BY <1>3, <1>4, <1>7 DEF OnceEach
    <2> QED BY <1>1, <2>1, <2>2 DEF OnceEach, Queued
<1> QED BY <1>1, <1>3, <1>6, <1>7 DEF r, Queued

LEMMA QueueEmpty ==
    ASSUME NEW S, NEW q, q \in Seq(S)
    PROVE  q = <<>> <=> \A t : ~Queued(t, q)
<1>1. q = <<>> => \A t : ~Queued(t, q)
    BY DEF Queued
<1>2. q # <<>> => Queued(Head(q), q)
    BY QueueTail
<1> QED BY <1>1, <1>2

LEMMA QueueTyped ==
    ASSUME NEW S, NEW q, q \in Seq(S), NEW t, Queued(t, q)
    PROVE  t \in S
BY ElementOfSeq, LenProperties DEF Queued

(* P() takes a unit, or queues.                                              *)
LEMMA TakesUnit ==
    ASSUME NEW N, NEW S, NEW f, NEW t, NEW s,
           f \in Semaphores(N, S), t \in S, s \in N
    PROVE  /\ AfterP(f, t, s) \in Semaphores(N, S)
           /\ \A r \in N : r # s => AfterP(f, t, s)[r] = f[r]
           /\ f[s].count > 0 =>
                 /\ AfterP(f, t, s)[s].count = f[s].count - 1
                 /\ AfterP(f, t, s)[s].queue = f[s].queue
           /\ ~(f[s].count > 0) =>
                 /\ AfterP(f, t, s)[s].count = f[s].count
                 /\ AfterP(f, t, s)[s].queue = Append(f[s].queue, t)
<1>1. /\ f[s].count \in Nat /\ f[s].queue \in Seq(S)
      /\ f[s] \in [count : Nat, queue : Seq(S)]
    BY DEF Semaphores
<1>2. Append(f[s].queue, t) \in Seq(S)
    BY <1>1, QueueAppend
<1>3. CASE f[s].count > 0
    <2> DEFINE v == [count |-> f[s].count - 1, queue |-> f[s].queue]
    <2>1. v.count = f[s].count - 1 /\ v.queue = f[s].queue
          /\ v \in [count : Nat, queue : Seq(S)]
        BY <1>1, <1>3
    <2>2. AfterP(f, t, s) = [f EXCEPT ![s] = v]
        BY <1>3 DEF AfterP
    <2> HIDE DEF v
    <2> QED BY <1>3, <2>1, <2>2 DEF Semaphores
<1>4. CASE ~(f[s].count > 0)
    <2> DEFINE v == [count |-> f[s].count, queue |-> Append(f[s].queue, t)]
    <2>1. v.count = f[s].count /\ v.queue = Append(f[s].queue, t)
          /\ v \in [count : Nat, queue : Seq(S)]
        BY <1>1, <1>2
    <2>2. AfterP(f, t, s) = [f EXCEPT ![s] = v]
        BY <1>4 DEF AfterP
    <2> HIDE DEF v
    <2> QED BY <1>4, <2>1, <2>2 DEF Semaphores
<1> QED BY <1>3, <1>4

(* V() hands its unit to the first in the queue, or keeps it.                *)
LEMMA GivesUnit ==
    ASSUME NEW N, NEW S, NEW f, NEW s, f \in Semaphores(N, S), s \in N
    PROVE  /\ AfterV(f, s) \in Semaphores(N, S)
           /\ \A r \in N : r # s => AfterV(f, s)[r] = f[r]
           /\ f[s].queue = <<>> =>
                 /\ AfterV(f, s)[s].count = f[s].count + 1
                 /\ AfterV(f, s)[s].queue = <<>>
           /\ f[s].queue # <<>> =>
                 /\ AfterV(f, s)[s].count = f[s].count
                 /\ AfterV(f, s)[s].queue = Tail(f[s].queue)
<1>1. /\ f[s].count \in Nat /\ f[s].queue \in Seq(S)
      /\ f[s] \in [count : Nat, queue : Seq(S)]
    BY DEF Semaphores
<1>3. CASE f[s].queue = <<>>
    <2> DEFINE v == [count |-> f[s].count + 1, queue |-> f[s].queue]
    <2>1. v.count = f[s].count + 1 /\ v.queue = f[s].queue
          /\ v \in [count : Nat, queue : Seq(S)]
        BY <1>1
    <2>2. AfterV(f, s) = [f EXCEPT ![s] = v]
        BY <1>3 DEF AfterV
    <2> HIDE DEF v
    <2> QED BY <1>3, <2>1, <2>2 DEF Semaphores
<1>4. CASE f[s].queue # <<>>
    <2> DEFINE v == [count |-> f[s].count, queue |-> Tail(f[s].queue)]
    <2>0. Tail(f[s].queue) \in Seq(S)
        BY <1>1, <1>4, QueueTail
    <2>1. v.count = f[s].count /\ v.queue = Tail(f[s].queue)
          /\ v \in [count : Nat, queue : Seq(S)]
        BY <1>1, <2>0
    <2>2. AfterV(f, s) = [f EXCEPT ![s] = v]
        BY <1>4 DEF AfterV
    <2> HIDE DEF v
    <2> QED BY <1>4, <2>1, <2>2 DEF Semaphores
<1> QED BY <1>3, <1>4

(* The same of who queues: P() adds who finds no unit, and V() lets the      *)
(* first go.                                                                 *)
LEMMA PQueues ==
    ASSUME NEW N, NEW S, NEW f, NEW g, NEW t, NEW s,
           f \in Semaphores(N, S), t \in S, s \in N, g = AfterP(f, t, s)
    PROVE  /\ g \in Semaphores(N, S)
           /\ \A r \in N : r # s => g[r] = f[r]
           /\ f[s].count > 0 =>
                 g[s].count = f[s].count - 1 /\ g[s].queue = f[s].queue
           /\ ~(f[s].count > 0) =>
                 /\ g[s].count = f[s].count
                 /\ OnceEach(f[s].queue) /\ ~Queued(t, f[s].queue)
                        => OnceEach(g[s].queue)
                 /\ \A u : Queued(u, g[s].queue)
                               <=> Queued(u, f[s].queue) \/ u = t
<1>1. f[s].queue \in Seq(S)
    BY DEF Semaphores
<1>2. /\ \A u : Queued(u, Append(f[s].queue, t))
                    <=> Queued(u, f[s].queue) \/ u = t
      /\ OnceEach(f[s].queue) /\ ~Queued(t, f[s].queue)
             => OnceEach(Append(f[s].queue, t))
    BY <1>1, QueueAppend
<1>3. /\ g \in Semaphores(N, S)
      /\ \A r \in N : r # s => g[r] = f[r]
      /\ f[s].count > 0 =>
            g[s].count = f[s].count - 1 /\ g[s].queue = f[s].queue
      /\ ~(f[s].count > 0) =>
            /\ g[s].count = f[s].count
            /\ g[s].queue = Append(f[s].queue, t)
    BY TakesUnit
<1> QED BY <1>2, <1>3

KeepsUnit(f, g, s) ==
    /\ \A u : ~Queued(u, f[s].queue) /\ ~Queued(u, g[s].queue)
    /\ g[s].count = f[s].count + 1 /\ g[s].queue = <<>>
HandsUnit(f, g, s, h) ==
    /\ Queued(h, f[s].queue) /\ g[s].count = f[s].count
    /\ \A u : Queued(u, f[s].queue) <=> Queued(u, g[s].queue) \/ u = h
    /\ OnceEach(f[s].queue) => OnceEach(g[s].queue) /\ ~Queued(h, g[s].queue)

LEMMA VQueues ==
    ASSUME NEW N, NEW S, NEW f, NEW g, NEW s,
           f \in Semaphores(N, S), s \in N, g = AfterV(f, s)
    PROVE  /\ g \in Semaphores(N, S)
           /\ \A r \in N : r # s => g[r] = f[r]
           /\ KeepsUnit(f, g, s) \/ \E h \in S : HandsUnit(f, g, s, h)
<1>1. f[s].queue \in Seq(S)
    BY DEF Semaphores
<1>2. g \in Semaphores(N, S) /\ \A r \in N : r # s => g[r] = f[r]
    BY GivesUnit
<1>3. CASE f[s].queue = <<>>
    <2>1. g[s].queue = <<>> /\ g[s].count = f[s].count + 1
        BY <1>3, GivesUnit
    <2>2. \A u : ~Queued(u, <<>>)
        BY DEF Queued
    <2> QED BY <1>2, <1>3, <2>1, <2>2 DEF KeepsUnit
<1>4. CASE f[s].queue # <<>>
    <2> DEFINE h == Head(f[s].queue)
    <2>1. g[s].queue = Tail(f[s].queue) /\ g[s].count = f[s].count
        BY <1>4, GivesUnit
    <2>2. /\ h \in S /\ Queued(h, f[s].queue)
          /\ \A u : Queued(u, f[s].queue)
                        <=> Queued(u, Tail(f[s].queue)) \/ u = h
          /\ OnceEach(f[s].queue) =>
                /\ OnceEach(Tail(f[s].queue))
                /\ ~Queued(h, Tail(f[s].queue))
        BY <1>1, <1>4, QueueTail
    <2> HIDE DEF h
    <2> QED BY <1>2, <2>1, <2>2 DEF HandsUnit
<1> QED BY <1>3, <1>4

(* A number counts a set that one enters or leaves.                          *)
LEMMA OneMoreIn ==
    ASSUME NEW S, NEW T, NEW x, IsFiniteSet(S), x \notin S,
           \A y : y \in T <=> y \in S \/ y = x
    PROVE  IsFiniteSet(T) /\ Cardinality(T) = Cardinality(S) + 1
<1>1. T = S \cup {x}
    OBVIOUS
<1> QED BY <1>1, FS_AddElement

LEMMA OneLessIn ==
    ASSUME NEW S, NEW T, NEW x, IsFiniteSet(S), x \in S,
           \A y : y \in T <=> y \in S /\ y # x
    PROVE  IsFiniteSet(T) /\ Cardinality(T) = Cardinality(S) - 1
<1>1. T = S \ {x}
    OBVIOUS
<1> QED BY <1>1, FS_RemoveElement

LEMMA SmallCounts ==
    /\ \A n \in Nat : n + 1 \in Nat
    /\ 0 - 1 \notin Nat /\ 1 - 1 = 0
OBVIOUS

(* A counter per key.                                                        *)
LEMMA CountUp ==
    ASSUME NEW D, NEW f, NEW g, NEW c, f \in [D -> Nat], c \in D,
           g = [f EXCEPT ![c] = f[c] + 1]
    PROVE  /\ g \in [D -> Nat] /\ g[c] = f[c] + 1
           /\ \A d \in D : d # c => g[d] = f[d]
OBVIOUS

LEMMA CountDown ==
    ASSUME NEW D, NEW f, NEW g, NEW c, f \in [D -> Nat], c \in D, f[c] > 0,
           g = [f EXCEPT ![c] = f[c] - 1]
    PROVE  /\ g \in [D -> Nat] /\ g[c] = f[c] - 1
           /\ \A d \in D : d # c => g[d] = f[d]
OBVIOUS

-----------------------------------------------------------------------------
(* Lists as queues whose last item is taken and that grow at either end, and *)
(* what is read from them, the last item first.                              *)

ButLast(q) == SubSeq(q, 1, Len(q) - 1)
Texts(q, c) == [k \in 1..Len(q) |-> c[q[Len(q) - k + 1]]]

LEMMA QueueButLast ==
    ASSUME NEW S, NEW q, q \in Seq(S), Len(q) # 0
    PROVE  /\ ButLast(q) \in Seq(S) /\ q[Len(q)] \in S /\ Queued(q[Len(q)], q)
           /\ Len(ButLast(q)) = Len(q) - 1
           /\ \A k \in 1..(Len(q) - 1) : ButLast(q)[k] = q[k]
           /\ \A t : Queued(t, q) <=> Queued(t, ButLast(q)) \/ t = q[Len(q)]
           /\ OnceEach(q) => OnceEach(ButLast(q)) /\ ~Queued(q[Len(q)], ButLast(q))
<1> DEFINE r == ButLast(q)  n == Len(q)
<1>1. n \in Nat /\ n > 0 /\ DOMAIN q = 1..n /\ \A k \in 1..n : q[k] \in S
    BY LenProperties, ElementOfSeq
<1>2. /\ r \in Seq(S) /\ Len(r) = n - 1
      /\ \A k \in 1..(n - 1) : r[k] = q[k]
    <2>1. \A k \in 1..(n - 1) : q[k] \in S
        BY <1>1
    <2>2. /\ SubSeq(q, 1, n - 1) \in Seq(S)
          /\ Len(SubSeq(q, 1, n - 1)) = IF 1 <= n - 1 THEN n - 1 - 1 + 1 ELSE 0
          /\ \A k \in 1..(n - 1 - 1 + 1) : SubSeq(q, 1, n - 1)[k] = q[1 + k - 1]
        BY <1>1, <2>1, SubSeqProperties
    <2> QED BY <1>1, <2>2 DEF ButLast
<1> HIDE DEF r
<1>3. DOMAIN r = 1..(n - 1)
    BY <1>2, LenProperties
<1>4. \A k \in DOMAIN q : k \in DOMAIN r \/ k = n
    BY <1>1, <1>3
<1>5. DOMAIN r \subseteq DOMAIN q /\ n \in DOMAIN q /\ n \notin DOMAIN r
    BY <1>1, <1>3
<1>6. \A k \in DOMAIN r : r[k] = q[k]
    BY <1>2, <1>3
<1>7. \A t : Queued(t, q) <=> Queued(t, r) \/ t = q[n]
    BY <1>4, <1>5, <1>6 DEF Queued
<1>8. OnceEach(q) => OnceEach(r) /\ ~Queued(q[n], r)
    BY <1>5, <1>6 DEF OnceEach, Queued
<1>9. q[n] \in S /\ Queued(q[n], q)
    BY <1>1, <1>5 DEF Queued
<1> QED BY <1>2, <1>7, <1>8, <1>9 DEF r

LEMMA QueuePutFirst ==
    ASSUME NEW S, NEW q, NEW x, q \in Seq(S), x \in S
    PROVE  /\ <<x>> \o q \in Seq(S)
           /\ Len(<<x>> \o q) = Len(q) + 1
           /\ (<<x>> \o q)[1] = x
           /\ \A k \in 1..Len(q) : (<<x>> \o q)[k + 1] = q[k]
           /\ \A t : Queued(t, <<x>> \o q) <=> Queued(t, q) \/ t = x
           /\ OnceEach(q) /\ ~Queued(x, q) => OnceEach(<<x>> \o q)
<1> DEFINE a == <<x>> \o q  n == Len(q)
<1>1. n \in Nat /\ DOMAIN q = 1..n
    BY LenProperties
<1>2. /\ a \in Seq(S) /\ Len(a) = n + 1 /\ a[1] = x
      /\ \A k \in 1..n : a[k + 1] = q[k]
    <2>1. <<x>> \in Seq(S) /\ Len(<<x>>) = 1 /\ <<x>>[1] = x
        OBVIOUS
    <2>2. /\ a \in Seq(S) /\ Len(a) = 1 + n
          /\ \A k \in 1..(1 + n) : a[k] = IF k <= 1 THEN <<x>>[k] ELSE q[k - 1]
        BY <2>1, ConcatProperties
    <2> HIDE DEF a
    <2>3. a[1] = x
        BY <1>1, <2>1, <2>2
    <2>4. \A k \in 1..n : k + 1 \in 1..(1 + n) /\ ~(k + 1 <= 1) /\ k + 1 - 1 = k
        BY <1>1
    <2>5. \A k \in 1..n : a[k + 1] = q[k]
        BY <2>2, <2>4
    <2> QED BY <1>1, <2>2, <2>3, <2>5
<1> HIDE DEF a
<1>3. DOMAIN a = 1..(n + 1)
    BY <1>2, LenProperties
<1>4. 1 \in DOMAIN a /\ \A k \in DOMAIN q : k + 1 \in DOMAIN a /\ a[k + 1] = q[k]
    BY <1>1, <1>2, <1>3
<1>5. \A k \in DOMAIN a : k # 1 => k - 1 \in DOMAIN q /\ a[k] = q[k - 1]
    <2> SUFFICES ASSUME NEW k \in DOMAIN a, k # 1
                 PROVE k - 1 \in DOMAIN q /\ a[k] = q[k - 1]
        OBVIOUS
    <2>1. k - 1 \in 1..n /\ (k - 1) + 1 = k
        BY <1>1, <1>3
    <2> QED BY <1>1, <1>2, <2>1
<1>6. ASSUME NEW t PROVE Queued(t, a) <=> Queued(t, q) \/ t = x
    <2>1. Queued(t, a) => Queued(t, q) \/ t = x
        BY <1>2, <1>5 DEF Queued
    <2>2. Queued(t, q) \/ t = x => Queued(t, a)
        BY <1>2, <1>4 DEF Queued
    <2> QED BY <2>1, <2>2
<1>7. ASSUME OnceEach(q), ~Queued(x, q) PROVE OnceEach(a)
    <2> SUFFICES ASSUME NEW j \in DOMAIN a, NEW k \in DOMAIN a, a[j] = a[k]
                 PROVE j = k
        BY DEF OnceEach
    <2>1. j \in 1..(n + 1) /\ k \in 1..(n + 1)
        BY <1>3
    <2>2. CASE j = 1
        BY <1>2, <1>5, <1>7, <2>2 DEF Queued
    <2>3. CASE k = 1
        BY <1>2, <1>5, <1>7, <2>3 DEF Queued
    <2>4. CASE j # 1 /\ k # 1
        <3>1. j - 1 = k - 1
            BY <1>5, <1>7, <2>4 DEF OnceEach
        <3> QED BY <1>1, <2>1, <3>1
    <2> QED BY <2>2, <2>3, <2>4
<1> QED BY <1>2, <1>6, <1>7 DEF a

(* InsertAt() at either end.                                                 *)
InsertedAt(q, k, x) == SubSeq(q, 1, k - 1) \o <<x>> \o SubSeq(q, k, Len(q))

LEMMA InsertFirst ==
    ASSUME NEW S, NEW q, NEW x, q \in Seq(S), x \in S
    PROVE  InsertedAt(q, 1, x) = <<x>> \o q
<1>1. SubSeq(q, 1, 1 - 1) = <<>> /\ SubSeq(q, 1, Len(q)) = q
    BY SubSeqEmpty, SubSeqFull
<1>2. <<x>> \in Seq(S)
    OBVIOUS
<1>3. <<>> \o <<x>> = <<x>>
    BY <1>2, ConcatEmptySeq
<1> QED BY <1>1, <1>3 DEF InsertedAt

LEMMA InsertLast ==
    ASSUME NEW S, NEW q, NEW x, q \in Seq(S), x \in S, NEW k, k = Len(q) + 1
    PROVE  InsertedAt(q, k, x) = Append(q, x)
<1>1. Len(q) \in Nat /\ k - 1 = Len(q) /\ k \in Nat /\ k > Len(q)
    BY LenProperties
<1>2. SubSeq(q, 1, Len(q)) = q /\ SubSeq(q, k, Len(q)) = <<>>
    BY <1>1, SubSeqEmpty, SubSeqFull
<1>3. q \o <<x>> = Append(q, x) /\ Append(q, x) \in Seq(S)
    BY AppendIsConcat, AppendProperties
<1>4. Append(q, x) \o <<>> = Append(q, x)
    BY <1>3, ConcatEmptySeq
<1>5. InsertedAt(q, k, x) = q \o <<x>> \o <<>>
    BY <1>1, <1>2, Zenon DEF InsertedAt
<1> QED BY <1>3, <1>4, <1>5, Zenon

AllNat(c, S) == \A y \in S : c[y] \in Nat

LEMMA TextsTyped ==
    ASSUME NEW S, NEW q, q \in Seq(S), NEW c, AllNat(c, S)
    PROVE  Texts(q, c) \in Seq(Nat) /\ Len(Texts(q, c)) = Len(q)
<1>1. Len(q) \in Nat /\ \A k \in 1..Len(q) : q[k] \in S
    BY LenProperties, ElementOfSeq
<1>2. \A k \in 1..Len(q) : Len(q) - k + 1 \in 1..Len(q)
    BY <1>1
<1>3. \A k \in 1..Len(q) : c[q[Len(q) - k + 1]] \in Nat
    BY <1>1, <1>2 DEF AllNat
<1>4. Texts(q, c) \in [1..Len(q) -> Nat]
    BY <1>3 DEF Texts
<1> QED BY <1>1, <1>4

LEMMA TextsSame ==
    ASSUME NEW S, NEW q, q \in Seq(S), NEW c, NEW d,
           \A x : Queued(x, q) => c[x] = d[x]
    PROVE  Texts(q, c) = Texts(q, d)
<1>1. Len(q) \in Nat /\ DOMAIN q = 1..Len(q)
    BY LenProperties
<1>2. \A k \in 1..Len(q) : Len(q) - k + 1 \in 1..Len(q)
    BY <1>1
<1>3. \A k \in 1..Len(q) : c[q[Len(q) - k + 1]] = d[q[Len(q) - k + 1]]
    BY <1>1, <1>2 DEF Queued
<1> QED BY <1>3 DEF Texts

(* What goes in first is read last.                                          *)
GrowsBy(q, x, c) == Texts(<<x>> \o q, c) = Append(Texts(q, c), c[x])
LEMMA TextsGrow ==
    ASSUME NEW S, NEW q, NEW x, NEW c, q \in Seq(S), x \in S, AllNat(c, S)
    PROVE  GrowsBy(q, x, c)
<1> DEFINE a == <<x>> \o q  n == Len(q)
           s == Texts(a, c)  t == Append(Texts(q, c), c[x])
<1>1. /\ a \in Seq(S) /\ Len(a) = n + 1 /\ a[1] = x /\ n \in Nat
      /\ \A k \in 1..n : a[k + 1] = q[k]
    BY QueuePutFirst, LenProperties
<1>2. Texts(q, c) \in Seq(Nat) /\ Len(Texts(q, c)) = n /\ c[x] \in Nat
    BY TextsTyped DEF AllNat
<1>3. /\ t \in Seq(Nat) /\ Len(t) = n + 1
      /\ \A k \in 1..n : t[k] = Texts(q, c)[k]
      /\ t[n + 1] = c[x]
    BY <1>2, AppendProperties
<1> HIDE DEF a, n
<1>4. s \in Seq(Nat) /\ Len(s) = n + 1
    BY <1>1, TextsTyped
<1>5. \A k \in 1..(n + 1) : s[k] = c[a[n + 1 - k + 1]]
    BY <1>1 DEF Texts
<1>6. \A k \in 1..n : t[k] = c[q[n - k + 1]]
    BY <1>3 DEF Texts, n
<1> HIDE DEF s, t
<1>7. ASSUME NEW k \in 1..(n + 1) PROVE s[k] = t[k]
    <2>1. CASE k = n + 1
        <3>1. n + 1 - k + 1 = 1
            BY <1>1, <2>1
        <3> QED BY <1>1, <1>3, <1>5, <2>1, <3>1
    <2>2. CASE k # n + 1
        <3>1. k \in 1..n /\ n - k + 1 \in 1..n /\ n + 1 - k + 1 = (n - k + 1) + 1
            BY <1>1, <2>2
        <3>2. s[k] = c[a[(n - k + 1) + 1]] /\ t[k] = c[q[n - k + 1]]
            BY <1>5, <1>6, <3>1
        <3> QED BY <1>1, <3>1, <3>2
    <2> QED BY <2>1, <2>2
<1>8. s = t
    BY <1>3, <1>4, <1>7, SeqEqual
<1> QED BY <1>8 DEF GrowsBy, a, s, t

(* The last is read first.                                                   *)
LEMMA TextsShrink ==
    ASSUME NEW S, NEW q, q \in Seq(S), Len(q) # 0, NEW c, AllNat(c, S)
    PROVE  Texts(q, c) = <<c[q[Len(q)]]>> \o Texts(ButLast(q), c)
<1> DEFINE r == ButLast(q)  n == Len(q)  h == <<c[q[n]]>>
           u == Texts(r, c)  s == Texts(q, c)
<1>1. /\ r \in Seq(S) /\ q[n] \in S /\ Len(r) = n - 1
      /\ \A k \in 1..(n - 1) : r[k] = q[k]
    BY QueueButLast
<1>2. n \in Nat /\ n > 0
    BY LenProperties
<1>3. h \in Seq(Nat) /\ Len(h) = 1 /\ h[1] = c[q[n]]
    BY <1>1 DEF AllNat
<1> HIDE DEF r
<1>4. u \in Seq(Nat) /\ Len(u) = n - 1 /\ s \in Seq(Nat) /\ Len(s) = n
    BY <1>1, TextsTyped
<1>5. /\ \A k \in 1..n : s[k] = c[q[n - k + 1]]
      /\ \A k \in 1..(n - 1) : u[k] = c[r[n - 1 - k + 1]]
    BY <1>1 DEF Texts
<1> HIDE DEF u, s, h, n
<1>6. /\ h \o u \in Seq(Nat) /\ Len(h \o u) = 1 + (n - 1)
      /\ \A k \in 1..(1 + (n - 1)) :
            (h \o u)[k] = IF k <= 1 THEN h[k] ELSE u[k - 1]
    <2>1. /\ h \o u \in Seq(Nat)
          /\ Len(h \o u) = Len(h) + Len(u)
          /\ \A k \in 1..(Len(h) + Len(u)) :
                (h \o u)[k] = IF k <= Len(h) THEN h[k] ELSE u[k - Len(h)]
        BY <1>3, <1>4, ConcatProperties, Zenon
    <2> QED BY <1>3, <1>4, <2>1
<1>7. ASSUME NEW k \in 1..n PROVE s[k] = (h \o u)[k]
    <2>1. CASE k = 1
        BY <1>2, <1>3, <1>5, <1>6, <2>1
    <2>2. CASE k # 1
        <3>1. k - 1 \in 1..(n - 1) /\ ~(k <= 1) /\ k \in 1..(1 + (n - 1))
            BY <1>2, <2>2
        <3>2. n - 1 - (k - 1) + 1 = n - k + 1 /\ n - k + 1 \in 1..(n - 1)
            BY <1>2, <2>2
        <3>3. (h \o u)[k] = c[r[n - k + 1]]
            BY <1>5, <1>6, <3>1, <3>2
        <3> QED BY <1>1, <1>5, <3>2, <3>3 DEF n
    <2> QED BY <2>1, <2>2
<1>8. s = h \o u
    <2>1. Len(s) = Len(h \o u)
        BY <1>2, <1>4, <1>6
    <2>2. \A k \in 1..Len(s) : s[k] = (h \o u)[k]
        BY <1>4, <1>7
    <2> QED BY <1>4, <1>6, <2>1, <2>2, SeqEqual, Zenon
<1> QED BY <1>8 DEF s, h, u, n, r

LEMMA QueueConcat ==
    ASSUME NEW S, NEW a, NEW b, a \in Seq(S), b \in Seq(S)
    PROVE  /\ a \o b \in Seq(S) /\ Len(a \o b) = Len(a) + Len(b)
           /\ \A t : Queued(t, a \o b) <=> Queued(t, a) \/ Queued(t, b)
<1> DEFINE c == a \o b  m == Len(a)  n == Len(b)
<1>1. /\ c \in Seq(S) /\ Len(c) = m + n
      /\ \A k \in 1..(m + n) : c[k] = IF k <= m THEN a[k] ELSE b[k - m]
    BY ConcatProperties
<1>2. m \in Nat /\ n \in Nat /\ DOMAIN a = 1..m /\ DOMAIN b = 1..n
    BY LenProperties
<1> HIDE DEF c, m, n
<1>3. DOMAIN c = 1..(m + n)
    BY <1>1, LenProperties
<1>4. ASSUME NEW t, Queued(t, c) PROVE Queued(t, a) \/ Queued(t, b)
    <2>1. PICK k \in 1..(m + n) : c[k] = t
        BY <1>3, <1>4 DEF Queued
    <2>2. k <= m \/ (k - m \in 1..n /\ ~(k <= m))
        BY <1>2
    <2>3. CASE k <= m
        <3>1. a[k] = t /\ k \in DOMAIN a
            BY <1>1, <1>2, <2>1, <2>3
        <3> QED BY <3>1 DEF Queued
    <2>4. CASE ~(k <= m)
        <3>1. b[k - m] = t /\ k - m \in DOMAIN b
            BY <1>1, <1>2, <2>1, <2>2, <2>4
        <3> QED BY <3>1 DEF Queued
    <2> QED BY <2>3, <2>4
<1>5. ASSUME NEW t, Queued(t, a) PROVE Queued(t, c)
    <2>1. PICK k \in 1..m : a[k] = t
        BY <1>2, <1>5 DEF Queued
    <2>2. k \in 1..(m + n) /\ k <= m
        BY <1>2
    <2>3. c[k] = t /\ k \in DOMAIN c
        BY <1>1, <1>3, <2>1, <2>2
    <2> QED BY <2>3 DEF Queued
<1>6. ASSUME NEW t, Queued(t, b) PROVE Queued(t, c)
    <2>1. PICK k \in 1..n : b[k] = t
        BY <1>2, <1>6 DEF Queued
    <2> DEFINE j == k + m
    <2>2. j \in 1..(m + n) /\ ~(j <= m) /\ j - m = k
        BY <1>2
    <2> HIDE DEF j
    <2>3. c[j] = b[k]
        BY <1>1, <2>2
    <2> QED BY <1>3, <2>1, <2>2, <2>3 DEF Queued
<1> QED BY <1>1, <1>4, <1>5, <1>6 DEF c, m, n

(* What goes in last and what comes out first, behind what came out before.  *)
LEMMA PutLast ==
    ASSUME NEW s \in Seq(Nat), NEW t \in Seq(Nat), NEW x \in Nat
    PROVE  Append(s \o t, x) = s \o Append(t, x)
<1>1. <<x>> \in Seq(Nat) /\ s \o t \in Seq(Nat)
    BY ConcatProperties
<1>2. Append(s \o t, x) = (s \o t) \o <<x>> /\ Append(t, x) = t \o <<x>>
    BY <1>1, AppendIsConcat
<1>3. (s \o t) \o <<x>> = s \o (t \o <<x>>)
    BY <1>1, ConcatAssociative
<1> QED BY <1>2, <1>3

LEMMA TakeFirst ==
    ASSUME NEW s \in Seq(Nat), NEW t \in Seq(Nat), NEW x \in Nat
    PROVE  /\ s \o (<<x>> \o t) = Append(s, x) \o t
           /\ Append(s, x) \in Seq(Nat)
<1>1. <<x>> \in Seq(Nat)
    OBVIOUS
<1>2. Append(s, x) = s \o <<x>> /\ Append(s, x) \in Seq(Nat)
    BY AppendIsConcat, AppendProperties
<1>3. (s \o <<x>>) \o t = s \o (<<x>> \o t)
    BY <1>1, ConcatAssociative
<1> QED BY <1>2, <1>3

-----------------------------------------------------------------------------
(* The philosophers.                                                         *)

Places == {"thinks", "get", "got?", "got", "eats", "put", "put right", "leave"}
Names == Phil!Phil \cup {philNum}
PhilTypes ==
    /\ sem \in Semaphores(Names, Phil!Phil)
    /\ sem[philNum].count \in 0..1
    /\ \A p \in Phil!Phil : sem[p].count \in 0..MaxUnits
    /\ state \in [Phil!Phil -> {"THINKING", "HUNGRY", "EATING"}]
    /\ at \in [Phil!Phil -> Places]

(* Who is blocked on the mutex is on the way to getChopstick() or            *)
(* putChopstick(), and on a semaphore of its own who waits for chopsticks.   *)
InQueue(p, s) == Queued(p, sem[s].queue)
QueuesFit(p) ==
    /\ InQueue(p, philNum) => at[p] \in {"get", "put"}
    /\ \A s \in Phil!Phil : InQueue(p, s) => s = p /\ at[p] = "got"

Has(p) ==
    \/ at[p] \in {"got?", "got", "put right", "leave"}
    \/ at[p] \in {"get", "put"} /\ ~InQueue(p, philNum)

(* The mutex is free, or one has it; nobody queues for a mutex that is free. *)
MutexQueue ==
    /\ OnceEach(sem[philNum].queue)
    /\ sem[philNum].count = 1 => \A p \in Phil!Phil : ~InQueue(p, philNum)
OneHas ==
    /\ sem[philNum].count = 1 <=> \A p \in Phil!Phil : ~Has(p)
    /\ \A p, q \in Phil!Phil : Has(p) /\ Has(q) => p = q

PhilInv ==
    PhilTypes /\ MutexQueue /\ OneHas /\ \A p \in Phil!Phil : QueuesFit(p)

LEMMA PhilSizes ==
    /\ philNum \in Nat /\ philNum > 1 /\ MaxUnits \in Nat
    /\ Phil!Phil = 0..(philNum - 1) /\ philNum \notin Phil!Phil
    /\ Phil!mutex = philNum
<1>1. philNum \in Nat /\ philNum > 1 /\ MaxUnits \in Nat
    BY RttProgramsAssumption DEF RttProgramsAssumption, Phil!PhilosophersAssumption
<1> QED BY <1>1 DEF Phil!Phil, Phil!mutex

(* Who goes on is in no queue.                                               *)
LEMMA GoesOn ==
    ASSUME NEW p, NEW s \in Names, sem \in Semaphores(Names, Phil!Phil),
           ~Phil!Blocked(p)
    PROVE  ~InQueue(p, s)
BY DEF Phil!Blocked, InQueue, Queued, Semaphores

LEMMA PhilP ==
    ASSUME sem \in Semaphores(Names, Phil!Phil), NEW p \in Phil!Phil,
           NEW s \in Names, Phil!P(p, s)
    PROVE  /\ sem' \in Semaphores(Names, Phil!Phil)
           /\ \A r \in Names : r # s => sem'[r] = sem[r]
           /\ sem[s].count > 0 =>
                 /\ sem'[s].count = sem[s].count - 1
                 /\ sem'[s].queue = sem[s].queue
           /\ ~(sem[s].count > 0) =>
                 /\ sem'[s].count = sem[s].count
                 /\ OnceEach(sem[s].queue) /\ ~InQueue(p, s)
                        => OnceEach(sem'[s].queue)
                 /\ \A t : InQueue(t, s)' <=> InQueue(t, s) \/ t = p
<1>1. sem' = AfterP(sem, p, s)
    BY DEF Phil!P, AfterP
<1>2. /\ sem' \in Semaphores(Names, Phil!Phil)
      /\ \A r \in Names : r # s => sem'[r] = sem[r]
      /\ sem[s].count > 0 =>
            sem'[s].count = sem[s].count - 1 /\ sem'[s].queue = sem[s].queue
      /\ ~(sem[s].count > 0) =>
            /\ sem'[s].count = sem[s].count
            /\ OnceEach(sem[s].queue) /\ ~Queued(p, sem[s].queue)
                   => OnceEach(sem'[s].queue)
            /\ \A u : Queued(u, sem'[s].queue)
                          <=> Queued(u, sem[s].queue) \/ u = p
    BY <1>1, PQueues
<1>3. \A t : /\ InQueue(t, s) <=> Queued(t, sem[s].queue)
             /\ InQueue(t, s)' <=> Queued(t, sem'[s].queue)
    BY DEF InQueue
<1> QED BY <1>2, <1>3

LEMMA PhilV ==
    ASSUME sem \in Semaphores(Names, Phil!Phil), NEW s \in Names, Phil!V(s)
    PROVE  /\ sem' \in Semaphores(Names, Phil!Phil)
           /\ \A r \in Names : r # s => sem'[r] = sem[r]
           /\ \/ /\ \A t : ~InQueue(t, s) /\ ~InQueue(t, s)'
                 /\ sem'[s].count = sem[s].count + 1
              \/ \E h \in Phil!Phil :
                    /\ InQueue(h, s) /\ sem'[s].count = sem[s].count
                    /\ \A t : InQueue(t, s) <=> InQueue(t, s)' \/ t = h
                    /\ OnceEach(sem[s].queue) =>
                          OnceEach(sem'[s].queue) /\ ~InQueue(h, s)'
<1>1. sem' = AfterV(sem, s)
    BY DEF Phil!V, AfterV
<1>2. /\ sem' \in Semaphores(Names, Phil!Phil)
      /\ \A r \in Names : r # s => sem'[r] = sem[r]
      /\ \/ KeepsUnit(sem, sem', s)
         \/ \E h \in Phil!Phil : HandsUnit(sem, sem', s, h)
    BY <1>1, VQueues
<1>3. \A t : /\ InQueue(t, s) <=> Queued(t, sem[s].queue)
             /\ InQueue(t, s)' <=> Queued(t, sem'[s].queue)
    BY DEF InQueue
<1> QED BY <1>2, <1>3 DEF KeepsUnit, HandsUnit

(* A philosopher that asks for the mutex gets it or queues.                  *)
LEMMA PhilEnters ==
    ASSUME PhilInv, NEW p \in Phil!Phil, NEW from, NEW to,
           <<from, to>> \in {<<"thinks", "get">>, <<"eats", "put">>},
           Phil!Enter(p, from, to)
    PROVE  PhilInv'
<1>1. /\ at[p] = from /\ ~Phil!Blocked(p) /\ Phil!P(p, philNum)
      /\ state' = state /\ sem \in Semaphores(Names, Phil!Phil)
      /\ at' = [at EXCEPT ![p] = to] /\ philNum \in Names
    BY PhilSizes DEF Phil!Enter, Phil!At, Phil!Go, PhilInv, PhilTypes, Names
<1>2. from \in {"thinks", "eats"} /\ to \in {"get", "put"}
    OBVIOUS
<1>3. /\ at' \in [Phil!Phil -> Places] /\ at'[p] = to
      /\ \A q \in Phil!Phil : q # p => at'[q] = at[q]
    BY <1>1, <1>2 DEF PhilInv, PhilTypes, Places
<1>4. /\ \A r \in Names : r # philNum => sem'[r] = sem[r]
      /\ sem' \in Semaphores(Names, Phil!Phil) /\ ~InQueue(p, philNum)
    BY <1>1, PhilP, GoesOn
<1>5. /\ \A q \in Phil!Phil : sem'[q] = sem[q]
      /\ \A t : \A q \in Phil!Phil : InQueue(t, q)' <=> InQueue(t, q)
    BY <1>4, PhilSizes DEF Names, InQueue
<1>6. \A q \in Phil!Phil : ~InQueue(p, q)
    BY <1>1, GoesOn DEF Names
<1>7. ~Has(p) /\ Phil!Phil \subseteq Names
    BY <1>1, <1>2 DEF Has, Names
<1>8. CASE sem[philNum].count = 1
    <2>1. sem'[philNum].count = 0 /\ sem'[philNum].queue = sem[philNum].queue
        BY <1>1, <1>8, PhilP
    <2>2. \A t : InQueue(t, philNum)' <=> InQueue(t, philNum)
        BY <2>1 DEF InQueue
    <2>3. PhilTypes'
        BY <1>1, <1>3, <1>4, <1>5, <2>1 DEF PhilInv, PhilTypes
    <2>4. MutexQueue'
        BY <2>1 DEF PhilInv, MutexQueue
    <2>5. /\ \A q \in Phil!Phil : ~Has(q)
          /\ \A q \in Phil!Phil : Has(q)' <=> q = p
        <3>1. \A q \in Phil!Phil : ~Has(q)
            BY <1>8 DEF PhilInv, OneHas
        <3>2. Has(p)'
            BY <1>2, <1>3, <1>4, <2>2 DEF Has
        <3>3. \A q \in Phil!Phil : q # p => (Has(q)' <=> Has(q))
            BY <1>3, <2>2 DEF Has
        <3> QED BY <3>1, <3>2, <3>3
    <2>6. OneHas'
        BY <2>1, <2>5 DEF OneHas
    <2>7. \A q \in Phil!Phil : QueuesFit(q)'
        BY <1>3, <1>4, <1>5, <1>6, <2>2 DEF PhilInv, QueuesFit
    <2> QED BY <2>3, <2>4, <2>6, <2>7 DEF PhilInv
<1>9. CASE sem[philNum].count # 1
    <2>1. /\ sem[philNum].count = 0 /\ sem'[philNum].count = 0
          /\ OnceEach(sem'[philNum].queue)
          /\ \A t : InQueue(t, philNum)' <=> InQueue(t, philNum) \/ t = p
        <3>1. sem[philNum].count = 0 /\ ~(sem[philNum].count > 0)
            BY <1>9 DEF PhilInv, PhilTypes
        <3>2. OnceEach(sem[philNum].queue)
            BY DEF PhilInv, MutexQueue
        <3> QED BY <1>1, <1>4, <3>1, <3>2, PhilP
    <2>2. PhilTypes'
        BY <1>1, <1>3, <1>4, <1>5, <2>1 DEF PhilInv, PhilTypes
    <2>3. MutexQueue'
        BY <2>1 DEF MutexQueue
    <2>4. \A q \in Phil!Phil : Has(q)' <=> Has(q)
        <3>1. ~Has(p)'
            BY <1>2, <1>3, <2>1 DEF Has
        <3>2. \A q \in Phil!Phil : q # p => (Has(q)' <=> Has(q))
            BY <1>3, <2>1 DEF Has
        <3> QED BY <1>7, <3>1, <3>2
    <2>5. OneHas'
        BY <2>1, <2>4 DEF PhilInv, OneHas
    <2>6. \A q \in Phil!Phil : QueuesFit(q)'
        BY <1>2, <1>3, <1>5, <1>6, <2>1 DEF PhilInv, QueuesFit
    <2> QED BY <2>2, <2>3, <2>5, <2>6 DEF PhilInv
<1> QED BY <1>8, <1>9

(* V(mutex) frees it, or hands it to who queues first.                       *)
LEMMA PhilLeaves ==
    ASSUME PhilInv, NEW p \in Phil!Phil, NEW from, NEW to,
           <<from, to>> \in {<<"got", "eats">>, <<"leave", "thinks">>},
           Phil!Leave(p, from, to)
    PROVE  PhilInv'
<1>1. /\ at[p] = from /\ ~Phil!Blocked(p) /\ Phil!V(philNum)
      /\ state' = state /\ sem \in Semaphores(Names, Phil!Phil)
      /\ at' = [at EXCEPT ![p] = to] /\ philNum \in Names
    BY PhilSizes DEF Phil!Leave, Phil!At, Phil!Go, PhilInv, PhilTypes, Names
<1>2. from \in {"got", "leave"} /\ to \in {"eats", "thinks"}
    OBVIOUS
<1>3. /\ at' \in [Phil!Phil -> Places] /\ at'[p] = to
      /\ \A q \in Phil!Phil : q # p => at'[q] = at[q]
    BY <1>1, <1>2 DEF PhilInv, PhilTypes, Places
<1>4. /\ \A r \in Names : r # philNum => sem'[r] = sem[r]
      /\ sem' \in Semaphores(Names, Phil!Phil) /\ ~InQueue(p, philNum)
    BY <1>1, PhilV, GoesOn
<1>5. /\ \A q \in Phil!Phil : sem'[q] = sem[q]
      /\ \A t : \A q \in Phil!Phil : InQueue(t, q)' <=> InQueue(t, q)
    BY <1>4, PhilSizes DEF Names, InQueue
<1>6. \A q \in Phil!Phil : ~InQueue(p, q)
    BY <1>1, GoesOn DEF Names
<1>7. /\ Has(p) /\ sem[philNum].count = 0 /\ ~Has(p)'
      /\ \A q \in Phil!Phil : q # p => ~Has(q)
    <2>1. Has(p) /\ ~Has(p)'
        BY <1>1, <1>2, <1>3 DEF Has
    <2>2. sem[philNum].count = 0
        BY <2>1 DEF PhilInv, PhilTypes, OneHas
    <2> QED BY <2>1, <2>2 DEF PhilInv, OneHas
<1>8. OnceEach(sem[philNum].queue)
    BY DEF PhilInv, MutexQueue
<1>9. CASE /\ \A t : ~InQueue(t, philNum) /\ ~InQueue(t, philNum)'
           /\ sem'[philNum].count = sem[philNum].count + 1
    <2>1. sem'[philNum].count = 1
        BY <1>7, <1>9
    <2>2. PhilTypes'
        BY <1>1, <1>3, <1>4, <1>5, <2>1 DEF PhilInv, PhilTypes
    <2>3. MutexQueue'
        <3>1. sem'[philNum].queue \in Seq(Phil!Phil)
            BY <1>1, <1>4 DEF Semaphores
        <3>2. OnceEach(sem'[philNum].queue)
            BY <1>9, <3>1, QueueEmpty DEF InQueue, OnceEach
        <3> QED BY <1>9, <3>2 DEF MutexQueue
    <2>4. \A q \in Phil!Phil : ~Has(q)'
        BY <1>3, <1>7, <1>9 DEF Has
    <2>5. OneHas'
        BY <2>1, <2>4 DEF OneHas
    <2>6. \A q \in Phil!Phil : QueuesFit(q)'
        BY <1>3, <1>5, <1>6, <1>9 DEF PhilInv, QueuesFit
    <2> QED BY <2>2, <2>3, <2>5, <2>6 DEF PhilInv
<1>10. ASSUME NEW h \in Phil!Phil, InQueue(h, philNum),
              sem'[philNum].count = sem[philNum].count,
              \A t : InQueue(t, philNum) <=> InQueue(t, philNum)' \/ t = h,
              OnceEach(sem'[philNum].queue), ~InQueue(h, philNum)'
       PROVE  PhilInv'
    <2>1. sem'[philNum].count = 0 /\ h # p
        BY <1>4, <1>7, <1>10
    <2>2. PhilTypes'
        BY <1>1, <1>3, <1>4, <1>5, <2>1 DEF PhilInv, PhilTypes
    <2>3. MutexQueue'
        BY <1>10, <2>1 DEF MutexQueue
    <2>4. at[h] \in {"get", "put"} /\ at'[h] = at[h]
        BY <1>3, <1>10, <2>1 DEF PhilInv, QueuesFit
    <2>5. \A q \in Phil!Phil : Has(q)' <=> q = h
        <3>1. Has(h)'
            BY <1>10, <2>4 DEF Has
        <3>2. \A q \in Phil!Phil : q # p /\ q # h => (Has(q)' <=> Has(q))
            BY <1>3, <1>10 DEF Has
        <3> QED BY <1>7, <3>1, <3>2
    <2>6. OneHas'
        BY <2>1, <2>5 DEF OneHas
    <2>7. \A q \in Phil!Phil : QueuesFit(q)'
        BY <1>3, <1>4, <1>5, <1>6, <1>10 DEF PhilInv, QueuesFit
    <2> QED BY <2>2, <2>3, <2>6, <2>7 DEF PhilInv
<1> QED BY <1>1, <1>8, <1>9, <1>10, PhilV

(* What is done with the mutex leaves it.                                    *)
LEMMA PhilKeeps ==
    ASSUME PhilInv, NEW p \in Phil!Phil, NEW to, Has(p), ~Phil!Blocked(p),
           sem' \in Semaphores(Names, Phil!Phil),
           sem'[philNum] = sem[philNum],
           \A q \in Phil!Phil : sem'[q].count \in 0..MaxUnits,
           \A q, s \in Phil!Phil :
               InQueue(q, s)' =>
                   InQueue(q, s) \/ (q = p /\ s = p /\ to = "got"),
           state' \in [Phil!Phil -> {"THINKING", "HUNGRY", "EATING"}],
           to \in {"got?", "got", "put right", "leave"},
           at' = [at EXCEPT ![p] = to]
    PROVE  PhilInv'
<1>1. /\ at' \in [Phil!Phil -> Places] /\ at'[p] = to
      /\ \A q \in Phil!Phil : q # p => at'[q] = at[q]
    BY DEF PhilInv, PhilTypes, Places
<1>2. /\ \A t : InQueue(t, philNum)' <=> InQueue(t, philNum)
      /\ philNum \in Names /\ Phil!Phil \subseteq Names
    BY DEF InQueue, Names
<1>3. PhilTypes'
    BY <1>1 DEF PhilInv, PhilTypes
<1>4. MutexQueue'
    BY <1>2 DEF PhilInv, MutexQueue
<1>5. \A q \in Phil!Phil : Has(q)' <=> Has(q)
    BY <1>1, <1>2 DEF Has
<1>6. OneHas'
    BY <1>5 DEF PhilInv, OneHas
<1>7. \A s \in Names : ~InQueue(p, s)
    BY GoesOn DEF PhilInv, PhilTypes
<1>8. \A q \in Phil!Phil : QueuesFit(q)'
    BY <1>1, <1>2, <1>7 DEF PhilInv, QueuesFit
<1> QED BY <1>3, <1>4, <1>6, <1>8 DEF PhilInv

LEMMA OneUnitMore ==
    \A a, b : a \in 0..MaxUnits /\ a < MaxUnits /\ (b = a + 1 \/ b = a)
                 => b \in 0..MaxUnits
BY PhilSizes

(* checkIfReady() gives the mutex to nobody.                                 *)
LEMMA PhilChecks ==
    ASSUME PhilInv, NEW p \in Phil!Phil, NEW q \in Phil!Phil, NEW to,
           NEW marks, marks \in [Phil!Phil -> {"THINKING", "HUNGRY", "EATING"}],
           to \in {"got?", "put right", "leave"}, Has(p), ~Phil!Blocked(p),
           Phil!checkIfReady(p, q, marks, to)
    PROVE  PhilInv'
<1>1. at' = [at EXCEPT ![p] = to] /\ sem \in Semaphores(Names, Phil!Phil)
    BY DEF Phil!checkIfReady, Phil!Go, PhilInv, PhilTypes
<1>2. CASE state' = marks /\ UNCHANGED sem
    BY <1>1, <1>2, PhilKeeps DEF PhilInv, PhilTypes, InQueue
<1>3. CASE /\ sem[q].count < MaxUnits
           /\ state' = [marks EXCEPT ![q] = "EATING"] /\ Phil!V(q)
    <2>1. q \in Names /\ philNum \in Names /\ philNum # q
        BY PhilSizes DEF Names
    <2>2. /\ sem' \in Semaphores(Names, Phil!Phil)
          /\ \A r \in Names : r # q => sem'[r] = sem[r]
          /\ sem'[q].count = sem[q].count + 1 \/ sem'[q].count = sem[q].count
          /\ \A t : InQueue(t, q)' => InQueue(t, q)
        BY <1>1, <1>3, <2>1, PhilV
    <2>3. \A t, s \in Phil!Phil : InQueue(t, s)' => InQueue(t, s)
        BY <2>2 DEF InQueue, Names
    <2>4. \A r \in Phil!Phil : sem'[r].count \in 0..MaxUnits
        <3>1. sem[q].count \in 0..MaxUnits
            BY DEF PhilInv, PhilTypes
        <3>2. sem[q].count < MaxUnits
            BY <1>3
        <3>3. sem'[q].count = sem[q].count + 1 \/ sem'[q].count = sem[q].count
            BY <2>2
        <3>4. sem'[q].count \in 0..MaxUnits
            BY <3>1, <3>2, <3>3, OneUnitMore
        <3> QED BY <2>2, <3>4 DEF PhilInv, PhilTypes, Names
    <2>5. state' \in [Phil!Phil -> {"THINKING", "HUNGRY", "EATING"}]
        BY <1>3
    <2> QED BY <1>1, <2>1, <2>2, <2>3, <2>4, <2>5, PhilKeeps
<1> QED BY <1>2, <1>3 DEF Phil!checkIfReady

LEMMA PhilWaits ==
    ASSUME PhilInv, NEW p \in Phil!Phil, Phil!WaitForChopstick(p)
    PROVE  PhilInv'
<1>1. /\ at[p] = "got?" /\ ~Phil!Blocked(p) /\ state' = state
      /\ at' = [at EXCEPT ![p] = "got"] /\ sem \in Semaphores(Names, Phil!Phil)
    BY DEF Phil!WaitForChopstick, Phil!At, Phil!Go, PhilInv, PhilTypes
<1>2. Has(p) /\ p \in Names /\ philNum \in Names /\ p # philNum
    BY <1>1, PhilSizes DEF Has, Names
<1>3. CASE UNCHANGED sem
    BY <1>1, <1>2, <1>3, PhilKeeps DEF PhilInv, PhilTypes, InQueue
<1>4. CASE Phil!P(p, p)
    <2>1. /\ sem' \in Semaphores(Names, Phil!Phil)
          /\ \A r \in Names : r # p => sem'[r] = sem[r]
          /\ \/ sem'[p].count = sem[p].count - 1 /\ sem[p].count > 0
                /\ sem'[p].queue = sem[p].queue
             \/ sem'[p].count = sem[p].count
                /\ \A t : InQueue(t, p)' <=> InQueue(t, p) \/ t = p
        BY <1>1, <1>2, <1>4, PhilP
    <2>2. \A q, s \in Phil!Phil :
              InQueue(q, s)' => InQueue(q, s) \/ (q = p /\ s = p)
        BY <2>1 DEF InQueue, Names
    <2>3. \A r \in Phil!Phil : sem'[r].count \in 0..MaxUnits
        <3>1. sem[p].count \in 0..MaxUnits
            BY DEF PhilInv, PhilTypes
        <3>2. sem'[p].count \in 0..MaxUnits
            BY <2>1, <3>1, PhilSizes
        <3> QED BY <2>1, <3>2 DEF PhilInv, PhilTypes, Names
    <2>4. state' \in [Phil!Phil -> {"THINKING", "HUNGRY", "EATING"}]
        BY <1>1 DEF PhilInv, PhilTypes
    <2> QED BY <1>1, <1>2, <2>1, <2>2, <2>3, <2>4, PhilKeeps
<1> QED BY <1>3, <1>4 DEF Phil!WaitForChopstick

LEMMA Neighbours ==
    ASSUME NEW p \in Phil!Phil
    PROVE  Phil!left(p) \in Phil!Phil /\ Phil!right(p) \in Phil!Phil
<1>1. /\ philNum \in Nat /\ philNum > 0 /\ p \in Int
      /\ p + philNum - 1 \in Int /\ p + 1 \in Int
    BY PhilSizes
<1>2. /\ (p + philNum - 1) % philNum \in Int /\ (p + 1) % philNum \in Int
      /\ 0 <= (p + philNum - 1) % philNum /\ 0 <= (p + 1) % philNum
      /\ (p + philNum - 1) % philNum < philNum /\ (p + 1) % philNum < philNum
    BY <1>1
<1> QED BY <1>1, <1>2, PhilSizes DEF Phil!left, Phil!right

LEMMA PhilNext ==
    ASSUME PhilInv, Phil!Next
    PROVE  PhilInv'
<1> PICK p \in Phil!Phil : Phil!Philosopher(p)
    BY DEF Phil!Next
<1>1. \A where \in {"get", "got?", "put", "put right"} :
          Phil!At(p, where) => at[p] = where /\ ~Phil!Blocked(p) /\ Has(p)
    BY GoesOn DEF Phil!At, Has, PhilInv, PhilTypes, Names
<1>2. CASE Phil!Enter(p, "thinks", "get") \/ Phil!Enter(p, "eats", "put")
    BY <1>2, PhilEnters
<1>3. CASE Phil!Leave(p, "got", "eats") \/ Phil!Leave(p, "leave", "thinks")
    BY <1>3, PhilLeaves
<1>4. CASE Phil!getChopstick(p)
    <2>1. [state EXCEPT ![p] = "HUNGRY"]
              \in [Phil!Phil -> {"THINKING", "HUNGRY", "EATING"}]
        BY DEF PhilInv, PhilTypes
    <2> QED BY <1>1, <1>4, <2>1, PhilChecks DEF Phil!getChopstick
<1>5. CASE Phil!WaitForChopstick(p)
    BY <1>5, PhilWaits
<1>6. CASE Phil!putChopstick(p)
    <2>1. [state EXCEPT ![p] = "THINKING"]
              \in [Phil!Phil -> {"THINKING", "HUNGRY", "EATING"}]
        BY DEF PhilInv, PhilTypes
    <2> QED BY <1>1, <1>6, <2>1, Neighbours, PhilChecks DEF Phil!putChopstick
<1>7. CASE Phil!CheckRight(p)
    <2>1. state \in [Phil!Phil -> {"THINKING", "HUNGRY", "EATING"}]
        BY DEF PhilInv, PhilTypes
    <2> QED BY <1>1, <1>7, <2>1, Neighbours, PhilChecks DEF Phil!CheckRight
<1> QED BY <1>2, <1>3, <1>4, <1>5, <1>6, <1>7 DEF Phil!Philosopher

LEMMA PhilInit == Phil!init => PhilInv
<1> SUFFICES ASSUME Phil!init PROVE PhilInv
    OBVIOUS
<1>1. /\ sem = [s \in Names |-> [count |-> IF s = philNum THEN 1 ELSE 0,
                                 queue |-> <<>>]]
      /\ state = [p \in Phil!Phil |-> "THINKING"]
      /\ at = [p \in Phil!Phil |-> "thinks"]
    BY DEF Phil!init, Phil!NewSem, Phil!mutex, Names
<1>2. sem \in Semaphores(Names, Phil!Phil)
    <2>1. <<>> \in Seq(Phil!Phil)
        OBVIOUS
    <2> QED BY <1>1, <2>1 DEF Semaphores
<1>3. /\ sem[philNum].count = 1
      /\ \A p \in Phil!Phil : sem[p].count = 0
      /\ \A s \in Names : sem[s].queue = <<>>
    BY <1>1, PhilSizes DEF Names
<1>4. \A t : \A s \in Names : ~InQueue(t, s)
    BY <1>3 DEF InQueue, Queued
<1>5. PhilTypes
    BY <1>1, <1>2, <1>3, PhilSizes DEF PhilTypes, Places
<1>6. MutexQueue /\ OneHas
    BY <1>1, <1>3, <1>4 DEF MutexQueue, OneHas, OnceEach, Has, Names
<1>7. \A p \in Phil!Phil : QueuesFit(p)
    BY <1>4 DEF QueuesFit, Names
<1> QED BY <1>5, <1>6, <1>7 DEF PhilInv

LEMMA PhilSound ==
    ASSUME PhilInv
    PROVE  Phil!TypeOK /\ Phil!OneHoldsMutex
<1>1. Phil!TypeOK
    BY DEF PhilInv, PhilTypes, Phil!TypeOK, Phil!mutex
<1>2. \A p \in Phil!Phil : Phil!Holds(p) <=> Has(p)
    <2> TAKE p \in Phil!Phil
    <2>1. Phil!Blocked(p) <=> \E s \in Names : InQueue(p, s)
        BY DEF Phil!Blocked, InQueue, Queued, PhilInv, PhilTypes, Semaphores
    <2>2. at[p] \in {"get", "put"} => (Phil!Blocked(p) <=> InQueue(p, philNum))
        BY <2>1 DEF PhilInv, QueuesFit, Names
    <2> QED BY <2>2 DEF Phil!Holds, Phil!At, Has
<1>3. Phil!Cardinality({p \in Phil!Phil : Phil!Holds(p)})
          = Cardinality({p \in Phil!Phil : Phil!Holds(p)})
    BY DEF Phil!Cardinality, Cardinality
<1>4. CASE sem[philNum].count = 1
    <2>1. {p \in Phil!Phil : Phil!Holds(p)} = {}
        BY <1>2, <1>4 DEF PhilInv, OneHas
    <2>2. Cardinality({p \in Phil!Phil : Phil!Holds(p)}) = 0
        BY <2>1, FS_EmptySet
    <2> QED BY <1>1, <1>4, <1>3, <2>2 DEF Phil!OneHoldsMutex, Phil!mutex
<1>5. CASE sem[philNum].count # 1
    <2>1. sem[philNum].count = 0
        BY <1>5 DEF PhilInv, PhilTypes
    <2>2. PICK h \in Phil!Phil : Has(h)
        BY <1>5 DEF PhilInv, OneHas
    <2>3. {p \in Phil!Phil : Phil!Holds(p)} = {h}
        BY <1>2, <2>2 DEF PhilInv, OneHas
    <2>4. Cardinality({h}) = 1
        BY FS_Singleton
    <2>5. Cardinality({p \in Phil!Phil : Phil!Holds(p)}) = 1
        BY <2>3, <2>4
    <2> QED BY <1>1, <1>3, <2>1, <2>5 DEF Phil!OneHoldsMutex, Phil!mutex
<1> QED BY <1>4, <1>5

LEMMA PhilStutter ==
    ASSUME PhilInv, UNCHANGED philVars
    PROVE  PhilInv'
BY DEF philVars, PhilInv, PhilTypes, MutexQueue, OneHas, QueuesFit, Has, InQueue

LEMMA PhilInductive == PhilInv /\ [RttNext]_rttVars => PhilInv'
BY PhilNext, PhilStutter
   DEF RttNext, rttVars, RwStep, PhilStep, ChatStep

(* OneHoldsMutex: of any number of philosophers one at a time reads and      *)
(* changes the states, also while it waits for its chopsticks.               *)
THEOREM PhilosophersTakeTurns == RttSpec => []OneHoldsMutex
<1>1. RttInit => PhilInv
    BY PhilInit DEF RttInit
<1>2. PhilInv /\ [RttNext]_rttVars => PhilInv'
    BY PhilInductive
<1>3. PhilInv => OneHoldsMutex
    BY PhilSound DEF OneHoldsMutex
<1> QED BY <1>1, <1>2, <1>3, PTL DEF RttSpec

-----------------------------------------------------------------------------
(* Readers and writers, in their monitor.                                    *)

Threads == Readers \cup Writers
Conds == {"OKtoRead", "OKtoWrite"}
RwNames == Conds \cup {"mutex", "urgent"}
Stages == {"out", "inside", "wait", "woken", "signal", "urgent"}
Starts == {"start read", "start write", "stop read", "stop write"}
Reads == {"sleep", "start read", "may read", "signal reader", "leave to read",
          "reading", "stop read", "signal writer", "leave"}
Writes == {"sleep", "start write", "may write", "leave to write", "writing",
           "stop write", "signal readers", "leave"}

RwTypes ==
    /\ monList \in [Conds -> Nat] /\ urgentNum \in Nat
    /\ pc \in [Threads -> Reads \cup Writes]
    /\ numReaders \in Nat /\ busyWriting \in BOOLEAN

(* The unit of the monitor.  Who queues for it is at the P() that its stage  *)
(* is about.                                                                 *)
QueuesAt(t, s) == Queued(t, semaphore[s].queue)
UnitTypes ==
    /\ semaphore \in Semaphores(RwNames, Threads)
    /\ \A s \in RwNames : semaphore[s].count \in 0..1
    /\ stage \in [Threads -> Stages] /\ on \in [Threads -> Conds]
UnitQueue(s) ==
    /\ OnceEach(semaphore[s].queue)
    /\ semaphore[s].count = 1 => \A t \in Threads : ~QueuesAt(t, s)
AtItsP(t) ==
    /\ QueuesAt(t, "mutex") => stage[t] = "inside"
    /\ QueuesAt(t, "urgent") => stage[t] = "urgent"
    /\ \A c \in Conds : QueuesAt(t, c) => stage[t] = "woken" /\ on[t] = c

(* A thread has the unit that went through its P(); there is one unit.       *)
Owner(t) ==
    \/ stage[t] = "inside" /\ ~QueuesAt(t, "mutex")
    \/ stage[t] = "urgent" /\ ~QueuesAt(t, "urgent")
    \/ stage[t] = "woken" /\ ~QueuesAt(t, on[t])
Free(s) == semaphore[s].count = 1
OneOwner == \A t, u \in Threads : Owner(t) /\ Owner(u) => t = u
OneFree == \A s, r \in RwNames : Free(s) /\ Free(r) => s = r
OwnedOrFree ==
    /\ \A t \in Threads, s \in RwNames : ~(Owner(t) /\ Free(s))
    /\ (\E t \in Threads : Owner(t)) \/ (\E s \in RwNames : Free(s))

UnitInv ==
    /\ UnitTypes /\ OneOwner /\ OneFree /\ OwnedOrFree
    /\ \A s \in RwNames : UnitQueue(s)
    /\ \A t \in Threads : AtItsP(t)

(* Where a thread is in its procedure and in the monitor.                    *)
StageFits(t) ==
    /\ stage[t] = "out" <=> pc[t] \in {"sleep", "reading", "writing"}
    /\ stage[t] \in {"wait", "woken"} =>
          IF t \in Readers THEN pc[t] = "may read" /\ on[t] = "OKtoRead"
                          ELSE pc[t] = "may write" /\ on[t] = "OKtoWrite"
    /\ stage[t] \in {"signal", "urgent"} => pc[t] \in {"leave to read", "leave"}
    /\ IF t \in Readers THEN pc[t] \in Reads ELSE pc[t] \in Writes
Entering(t) == QueuesAt(t, "mutex") => pc[t] \in Starts

(* What the unit on its way to a waiting thread says: the thread need not    *)
(* look again.                                                               *)
May(c) == ~busyWriting /\ (c = "OKtoWrite" => numReaders = 0)
Knows(t) ==
    Owner(t) =>
        /\ pc[t] \in {"may read", "signal reader", "signal readers"} =>
               May("OKtoRead")
        /\ pc[t] \in {"may write", "signal writer"} => May("OKtoWrite")
FreeKnows(c) == Free(c) => May(c)

(* The counters.                                                             *)
ReadIn(t) == t \in Readers /\ pc[t] \in {"signal reader", "leave to read",
                                        "reading", "stop read"}
WriteIn(t) == t \in Writers /\ pc[t] \in {"leave to write", "writing",
                                         "stop write"}
ReadersIn == {t \in Threads : ReadIn(t)}
OneWriter == \A t, u \in Threads : WriteIn(t) /\ WriteIn(u) => t = u
Counted ==
    /\ numReaders = Cardinality(ReadersIn)
    /\ busyWriting <=> \E t \in Threads : WriteIn(t)
    /\ OneWriter
    /\ busyWriting => numReaders = 0
WaitsFor(t, c) == stage[t] \in {"wait", "woken"} /\ on[t] = c
Waiters(c) == {t \in Threads : WaitsFor(t, c)}
WaitingCounted(c) == monList[c] = Cardinality(Waiters(c))
Signals(t) == stage[t] \in {"signal", "urgent"}
Signallers == {t \in Threads : Signals(t)}
SignalsCounted == urgentNum = Cardinality(Signallers)

RwThread(t) == StageFits(t) /\ Entering(t) /\ Knows(t)
RwInv ==
    /\ RwTypes /\ UnitInv /\ Counted /\ SignalsCounted
    /\ \A t \in Threads : RwThread(t)
    /\ \A c \in Conds : FreeKnows(c) /\ WaitingCounted(c)

LEMMA RwSizes ==
    /\ IsFiniteSet(Threads) /\ IsFiniteSet(Readers) /\ Readers \cap Writers = {}
<1>1. Rw!IsFiniteSet(Threads) = IsFiniteSet(Threads)
    BY DEF Rw!IsFiniteSet, IsFiniteSet
<1>2. IsFiniteSet(Threads) /\ Readers \cap Writers = {}
    BY <1>1, RttProgramsAssumption
       DEF RttProgramsAssumption, Rw!ReaderWriterAssumption, Threads
<1> QED BY <1>2, FS_Subset DEF Threads

LEMMA RwFinite ==
    /\ IsFiniteSet(ReadersIn) /\ IsFiniteSet(Signallers)
    /\ \A c : IsFiniteSet(Waiters(c))
BY RwSizes, FS_Subset DEF ReadersIn, Signallers, Waiters

(* Who goes on is in no queue.                                               *)
LEMMA RwGoesOn ==
    ASSUME UnitInv, NEW t \in Threads, ~Rw!Blocked(t), NEW s \in RwNames
    PROVE  ~QueuesAt(t, s)
BY DEF Rw!Blocked, QueuesAt, Queued, UnitInv, UnitTypes, Semaphores

LEMMA RwP ==
    ASSUME semaphore \in Semaphores(RwNames, Threads), NEW t \in Threads,
           NEW s \in RwNames, Rw!P(t, s)
    PROVE  /\ semaphore' \in Semaphores(RwNames, Threads)
           /\ \A r \in RwNames : r # s => semaphore'[r] = semaphore[r]
           /\ semaphore[s].count > 0 =>
                 /\ semaphore'[s].count = semaphore[s].count - 1
                 /\ semaphore'[s].queue = semaphore[s].queue
           /\ ~(semaphore[s].count > 0) =>
                 /\ semaphore'[s].count = semaphore[s].count
                 /\ OnceEach(semaphore[s].queue) /\ ~QueuesAt(t, s)
                        => OnceEach(semaphore'[s].queue)
                 /\ \A u : QueuesAt(u, s)' <=> QueuesAt(u, s) \/ u = t
<1>1. semaphore' = AfterP(semaphore, t, s)
    BY DEF Rw!P, AfterP
<1>2. /\ semaphore' \in Semaphores(RwNames, Threads)
      /\ \A r \in RwNames : r # s => semaphore'[r] = semaphore[r]
      /\ semaphore[s].count > 0 =>
            /\ semaphore'[s].count = semaphore[s].count - 1
            /\ semaphore'[s].queue = semaphore[s].queue
      /\ ~(semaphore[s].count > 0) =>
            /\ semaphore'[s].count = semaphore[s].count
            /\ OnceEach(semaphore[s].queue) /\ ~Queued(t, semaphore[s].queue)
                   => OnceEach(semaphore'[s].queue)
            /\ \A u : Queued(u, semaphore'[s].queue)
                          <=> Queued(u, semaphore[s].queue) \/ u = t
    BY <1>1, PQueues
<1>3. \A u : /\ QueuesAt(u, s) <=> Queued(u, semaphore[s].queue)
             /\ QueuesAt(u, s)' <=> Queued(u, semaphore'[s].queue)
    BY DEF QueuesAt
<1> QED BY <1>2, <1>3

LEMMA RwV ==
    ASSUME semaphore \in Semaphores(RwNames, Threads), NEW s \in RwNames,
           Rw!V(s)
    PROVE  /\ semaphore' \in Semaphores(RwNames, Threads)
           /\ \A r \in RwNames : r # s => semaphore'[r] = semaphore[r]
           /\ \/ /\ \A u : ~QueuesAt(u, s) /\ ~QueuesAt(u, s)'
                 /\ semaphore'[s].count = semaphore[s].count + 1
                 /\ semaphore'[s].queue = <<>>
              \/ \E h \in Threads :
                    /\ QueuesAt(h, s)
                    /\ semaphore'[s].count = semaphore[s].count
                    /\ \A u : QueuesAt(u, s) <=> QueuesAt(u, s)' \/ u = h
                    /\ OnceEach(semaphore[s].queue) =>
                          OnceEach(semaphore'[s].queue) /\ ~QueuesAt(h, s)'
<1>1. semaphore' = AfterV(semaphore, s)
    BY DEF Rw!V, AfterV
<1>2. /\ semaphore' \in Semaphores(RwNames, Threads)
      /\ \A r \in RwNames : r # s => semaphore'[r] = semaphore[r]
      /\ \/ KeepsUnit(semaphore, semaphore', s)
         \/ \E h \in Threads : HandsUnit(semaphore, semaphore', s, h)
    BY <1>1, VQueues
<1>3. \A u : /\ QueuesAt(u, s) <=> Queued(u, semaphore[s].queue)
             /\ QueuesAt(u, s)' <=> Queued(u, semaphore'[s].queue)
    BY DEF QueuesAt
<1> QED BY <1>2, <1>3 DEF KeepsUnit, HandsUnit

(* P(): who takes the unit has it then, and who finds none waits for it.     *)
LEMMA TakesTheUnit ==
    ASSUME UnitInv, NEW t \in Threads, NEW s \in RwNames, NEW to,
           Rw!P(t, s), \A r \in RwNames : ~QueuesAt(t, r),
           stage[t] \in {"out", "wait", "signal"},
           \/ s = "mutex" /\ to = "inside"
           \/ s = "urgent" /\ to = "urgent"
           \/ s \in Conds /\ s = on[t] /\ to = "woken",
           stage' = [stage EXCEPT ![t] = to], on' = on
    PROVE  /\ UnitInv'
           /\ \A u \in Threads :
                 Owner(u)' => Owner(u) \/ (u = t /\ Free(s))
           /\ \A r \in RwNames : Free(r)' => Free(r)
           /\ \A u \in Threads, r \in RwNames :
                 QueuesAt(u, r)' => QueuesAt(u, r) \/ (u = t /\ r = s)
<1>1. /\ semaphore \in Semaphores(RwNames, Threads) /\ on \in [Threads -> Conds]
      /\ stage \in [Threads -> Stages] /\ semaphore[s].count \in 0..1
      /\ OnceEach(semaphore[s].queue)
    BY DEF UnitInv, UnitTypes, UnitQueue
<1>2. /\ semaphore' \in Semaphores(RwNames, Threads)
      /\ \A r \in RwNames : r # s => semaphore'[r] = semaphore[r]
    BY <1>1, RwP
<1>3. /\ stage' \in [Threads -> Stages] /\ on' \in [Threads -> Conds]
      /\ stage'[t] = to /\ to \in Stages
      /\ \A u \in Threads : u # t => stage'[u] = stage[u]
    BY <1>1 DEF Stages
<1>4. \A r \in RwNames : r # s =>
          /\ Free(r)' <=> Free(r)
          /\ \A u : QueuesAt(u, r)' <=> QueuesAt(u, r)
          /\ UnitQueue(r)' <=> UnitQueue(r)
    BY <1>2 DEF Free, QueuesAt, UnitQueue
<1>5. ~Owner(t)
    BY DEF Owner
<1>6. \A u \in Threads : on[u] \in RwNames /\ on'[u] \in RwNames
    BY <1>1, <1>3 DEF RwNames
<1>7. CASE Free(s)
    <2>1. /\ semaphore'[s].count = 0 /\ semaphore'[s].queue = semaphore[s].queue
        BY <1>1, <1>7, RwP DEF Free
    <2>2. /\ \A u : QueuesAt(u, s)' <=> QueuesAt(u, s)
          /\ ~Free(s)' /\ UnitQueue(s)'
        BY <1>1, <2>1 DEF QueuesAt, Free, UnitQueue
    <2>3. \A u : \A r \in RwNames : QueuesAt(u, r)' <=> QueuesAt(u, r)
        BY <1>4, <2>2
    <2>4. \A r \in RwNames : ~Free(r)' /\ UnitQueue(r)'
        BY <1>4, <1>7, <2>2 DEF UnitInv, OneFree
    <2>5. UnitTypes'
        BY <1>2, <1>3, <2>1 DEF UnitInv, UnitTypes
    <2>6. \A u \in Threads : ~Owner(u)
        BY <1>7 DEF UnitInv, OwnedOrFree
    <2>7. Owner(t)'
        BY <1>3, <2>3 DEF Owner, RwNames
    <2>8. \A u \in Threads : u # t => ~Owner(u)'
        BY <1>3, <1>6, <2>3, <2>6 DEF Owner, RwNames
    <2>9. OneOwner' /\ OneFree' /\ OwnedOrFree'
        BY <2>4, <2>7, <2>8 DEF OneOwner, OneFree, OwnedOrFree
    <2>10. \A u \in Threads : AtItsP(u)'
        BY <1>3, <2>3 DEF UnitInv, AtItsP, RwNames
    <2> QED BY <1>7, <2>3, <2>4, <2>5, <2>8, <2>9, <2>10 DEF UnitInv
<1>8. CASE ~Free(s)
    <2>1. /\ semaphore'[s].count = semaphore[s].count
          /\ OnceEach(semaphore'[s].queue)
          /\ \A u : QueuesAt(u, s)' <=> QueuesAt(u, s) \/ u = t
        <3>1. ~(semaphore[s].count > 0)
            BY <1>1, <1>8 DEF Free
        <3> QED BY <1>1, <3>1, RwP
    <2>2. ~Free(s)' /\ UnitQueue(s)'
        BY <1>8, <2>1 DEF Free, UnitQueue
    <2>3. \A r \in RwNames : (Free(r)' <=> Free(r)) /\ UnitQueue(r)'
        BY <1>4, <1>8, <2>2 DEF UnitInv
    <2>4. UnitTypes'
        BY <1>2, <1>3, <2>1 DEF UnitInv, UnitTypes
    <2>5. ~Owner(t)'
        BY <1>3, <2>1 DEF Owner, Conds
    <2>6. \A u \in Threads : \A r \in RwNames :
              u # t => (QueuesAt(u, r)' <=> QueuesAt(u, r))
        BY <1>4, <2>1
    <2>7. \A u \in Threads : Owner(u)' <=> Owner(u)
        BY <1>3, <1>5, <1>6, <2>5, <2>6 DEF Owner, RwNames
    <2>8. OneOwner' /\ OneFree' /\ OwnedOrFree'
        BY <2>3, <2>7 DEF UnitInv, OneOwner, OneFree, OwnedOrFree
    <2>9. \A u \in Threads : AtItsP(u)'
        <3>1. \A u \in Threads : u # t => AtItsP(u)'
            BY <1>3, <2>6 DEF UnitInv, AtItsP, RwNames
        <3>2. \A r \in RwNames : QueuesAt(t, r)' => r = s
            BY <1>4
        <3>3. AtItsP(t)'
            BY <1>3, <3>2 DEF AtItsP, RwNames, Conds
        <3> QED BY <3>1, <3>3
    <2> QED BY <1>4, <2>1, <2>3, <2>4, <2>7, <2>8, <2>9 DEF UnitInv
<1> QED BY <1>7, <1>8

(* V() by the owner: the unit is free, or with the first in the queue.       *)
LEMMA GivesTheUnit ==
    ASSUME UnitInv, NEW t \in Threads, NEW s \in RwNames, NEW to,
           Rw!V(s), Owner(t), \A r \in RwNames : ~QueuesAt(t, r),
           to \in {"out", "wait", "signal"},
           stage' = [stage EXCEPT ![t] = to], on' \in [Threads -> Conds],
           \A u \in Threads : u # t => on'[u] = on[u]
    PROVE  /\ UnitInv'
           /\ \A u \in Threads : Owner(u)' => u # t /\ QueuesAt(u, s)
           /\ \A r \in RwNames : Free(r)' => r = s
           /\ \A u \in Threads, r \in RwNames :
                 QueuesAt(u, r)' => QueuesAt(u, r)
<1>1. /\ semaphore \in Semaphores(RwNames, Threads) /\ on \in [Threads -> Conds]
      /\ stage \in [Threads -> Stages]
      /\ OnceEach(semaphore[s].queue)
    BY DEF UnitInv, UnitTypes, UnitQueue
<1>2. /\ semaphore' \in Semaphores(RwNames, Threads)
      /\ \A r \in RwNames : r # s => semaphore'[r] = semaphore[r]
    BY <1>1, RwV
<1>3. /\ stage' \in [Threads -> Stages] /\ stage'[t] = to
      /\ \A u \in Threads : u # t => stage'[u] = stage[u]
    BY <1>1 DEF Stages
<1>4. \A r \in RwNames : r # s =>
          /\ Free(r)' <=> Free(r)
          /\ \A u : QueuesAt(u, r)' <=> QueuesAt(u, r)
          /\ UnitQueue(r)' <=> UnitQueue(r)
    BY <1>2 DEF Free, QueuesAt, UnitQueue
<1>5. /\ \A r \in RwNames : ~Free(r)
      /\ \A u \in Threads : u # t => ~Owner(u)
      /\ ~Owner(t)'
    BY <1>3 DEF UnitInv, OwnedOrFree, OneOwner, Owner
<1>6. \A u \in Threads : on[u] \in RwNames /\ on'[u] \in RwNames
    BY <1>1 DEF RwNames
<1>7. semaphore[s].count = 0
    BY <1>5 DEF Free, UnitInv, UnitTypes
<1>8. ASSUME \A u : ~QueuesAt(u, s) /\ ~QueuesAt(u, s)',
             semaphore'[s].count = semaphore[s].count + 1,
             semaphore'[s].queue = <<>>
      PROVE  /\ UnitInv' /\ \A u \in Threads : ~Owner(u)'
             /\ \A u \in Threads, r \in RwNames :
                   QueuesAt(u, r)' => QueuesAt(u, r)
    <2>1. semaphore'[s].count = 1 /\ Free(s)'
        BY <1>7, <1>8 DEF Free
    <2>2. UnitQueue(s)'
        BY <1>8 DEF UnitQueue, OnceEach
    <2>3. UnitTypes'
        BY <1>2, <1>3, <2>1 DEF UnitInv, UnitTypes
    <2>4. \A u \in Threads, r \in RwNames : QueuesAt(u, r)' <=> QueuesAt(u, r)
        BY <1>4, <1>8
    <2>5. \A u \in Threads : ~Owner(u)'
        <3>1. \A u \in Threads : u # t => (Owner(u)' <=> Owner(u))
            BY <1>3, <1>6, <2>4 DEF Owner, RwNames
        <3> QED BY <1>5, <3>1
    <2>6. \A r \in RwNames : UnitQueue(r)' /\ (Free(r)' <=> r = s)
        BY <1>4, <1>5, <2>1, <2>2 DEF UnitInv
    <2>7. OneOwner' /\ OneFree' /\ OwnedOrFree'
        BY <2>5, <2>6 DEF OneOwner, OneFree, OwnedOrFree
    <2>8. \A u \in Threads : AtItsP(u)'
        <3>1. \A u \in Threads : u # t => AtItsP(u)'
            BY <1>3, <2>4 DEF UnitInv, AtItsP, RwNames
        <3>2. AtItsP(t)'
            BY <2>4 DEF AtItsP, RwNames
        <3> QED BY <3>1, <3>2
    <2> QED BY <2>3, <2>4, <2>5, <2>6, <2>7, <2>8 DEF UnitInv
<1>9. ASSUME NEW h \in Threads, QueuesAt(h, s),
             semaphore'[s].count = semaphore[s].count,
             \A u : QueuesAt(u, s) <=> QueuesAt(u, s)' \/ u = h,
             OnceEach(semaphore'[s].queue), ~QueuesAt(h, s)'
      PROVE  /\ UnitInv' /\ \A u \in Threads : Owner(u)' => u = h
             /\ \A r \in RwNames : ~Free(r)'
             /\ \A u \in Threads, r \in RwNames :
                   QueuesAt(u, r)' => QueuesAt(u, r)
    <2>1. ~Free(s)' /\ h # t
        BY <1>7, <1>9 DEF Free
    <2>2. UnitQueue(s)'
        BY <1>9, <2>1 DEF UnitQueue, Free
    <2>3. UnitTypes'
        BY <1>2, <1>3, <1>9 DEF UnitInv, UnitTypes
    <2>4. \A u \in Threads : \A r \in RwNames :
              /\ QueuesAt(u, r)' => QueuesAt(u, r)
              /\ u # h => (QueuesAt(u, r)' <=> QueuesAt(u, r))
        BY <1>4, <1>9
    <2>5. \A u \in Threads : u # h => ~Owner(u)'
        <3>1. \A u \in Threads : u # t /\ u # h => (Owner(u)' <=> Owner(u))
            BY <1>3, <1>6, <2>4 DEF Owner, RwNames
        <3> QED BY <1>5, <3>1
    <2>6. Owner(h)'
        <3>1. AtItsP(h) /\ stage'[h] = stage[h] /\ on'[h] = on[h]
            BY <1>3, <2>1 DEF UnitInv
        <3>2. \/ s = "mutex" /\ stage[h] = "inside"
              \/ s = "urgent" /\ stage[h] = "urgent"
              \/ s = on[h] /\ stage[h] = "woken"
            BY <1>9, <3>1 DEF AtItsP, RwNames
        <3> QED BY <1>9, <3>1, <3>2 DEF Owner
    <2>7. \A r \in RwNames : UnitQueue(r)' /\ ~Free(r)'
        BY <1>4, <1>5, <2>1, <2>2 DEF UnitInv
    <2>8. OneOwner' /\ OneFree' /\ OwnedOrFree'
        BY <2>5, <2>6, <2>7 DEF OneOwner, OneFree, OwnedOrFree
    <2>9. \A u \in Threads : AtItsP(u)'
        <3>1. \A u \in Threads : u # t => AtItsP(u)'
            BY <1>3, <2>4 DEF UnitInv, AtItsP, RwNames
        <3>2. AtItsP(t)'
            BY <2>4 DEF AtItsP, RwNames
        <3> QED BY <3>1, <3>2
    <2> QED BY <2>3, <2>4, <2>5, <2>7, <2>8, <2>9 DEF UnitInv
<1>10. \/ /\ \A u : ~QueuesAt(u, s) /\ ~QueuesAt(u, s)'
          /\ semaphore'[s].count = semaphore[s].count + 1
          /\ semaphore'[s].queue = <<>>
       \/ \E h \in Threads :
             /\ QueuesAt(h, s)
             /\ semaphore'[s].count = semaphore[s].count
             /\ \A u : QueuesAt(u, s) <=> QueuesAt(u, s)' \/ u = h
             /\ OnceEach(semaphore'[s].queue) /\ ~QueuesAt(h, s)'
    BY <1>1, RwV
<1>11. \A r \in RwNames : Free(r)' => r = s
    BY <1>4, <1>5
<1> QED BY <1>5, <1>8, <1>9, <1>10, <1>11

(* A thread that was woken or signalled and has the unit keeps it.           *)
LEMMA KeepsTheUnit ==
    ASSUME UnitInv, NEW t \in Threads, Owner(t),
           \A r \in RwNames : ~QueuesAt(t, r),
           stage' = [stage EXCEPT ![t] = "inside"], on' = on,
           semaphore' = semaphore
    PROVE  /\ UnitInv'
           /\ \A u \in Threads : Owner(u)' <=> Owner(u)
           /\ \A u, r : QueuesAt(u, r)' <=> QueuesAt(u, r)
           /\ \A r : Free(r)' <=> Free(r)
<1>1. /\ stage' \in [Threads -> Stages] /\ stage'[t] = "inside"
      /\ \A u \in Threads : u # t => stage'[u] = stage[u]
    BY DEF UnitInv, UnitTypes, Stages
<1>2. /\ \A u, r : QueuesAt(u, r)' <=> QueuesAt(u, r)
      /\ \A r : Free(r)' <=> Free(r)
    BY DEF QueuesAt, Free
<1>3. \A u \in Threads : Owner(u)' <=> Owner(u)
    BY <1>1, <1>2 DEF Owner, RwNames
<1>4. UnitTypes' /\ \A r \in RwNames : UnitQueue(r)'
    BY <1>1 DEF UnitInv, UnitTypes, UnitQueue, QueuesAt
<1>5. OneOwner' /\ OneFree' /\ OwnedOrFree'
    BY <1>2, <1>3 DEF UnitInv, OneOwner, OneFree, OwnedOrFree
<1>6. \A u \in Threads : AtItsP(u)'
    <2>1. \A u \in Threads : u # t => AtItsP(u)'
        BY <1>1, <1>2 DEF UnitInv, AtItsP
    <2>2. AtItsP(t)'
        BY <1>2 DEF AtItsP, RwNames
    <2> QED BY <2>1, <2>2
<1> QED BY <1>2, <1>3, <1>4, <1>5, <1>6 DEF UnitInv


(* What a step of a thread leaves as it is.                                  *)
LEMMA CountedSame ==
    ASSUME Counted, numReaders' = numReaders, busyWriting' = busyWriting,
           \A u \in Threads : /\ ReadIn(u)' <=> ReadIn(u)
                              /\ WriteIn(u)' <=> WriteIn(u)
    PROVE  Counted'
<1>1. ReadersIn' = ReadersIn
    BY DEF ReadersIn
<1>2. OneWriter'
    BY DEF Counted, OneWriter
<1> QED BY <1>1, <1>2 DEF Counted

LEMMA WaitingSame ==
    ASSUME NEW c, WaitingCounted(c), monList'[c] = monList[c],
           \A u \in Threads : WaitsFor(u, c)' <=> WaitsFor(u, c)
    PROVE  WaitingCounted(c)'
<1>1. Waiters(c)' = Waiters(c)
    BY DEF Waiters
<1> QED BY <1>1 DEF WaitingCounted

LEMMA SignalsSame ==
    ASSUME SignalsCounted, urgentNum' = urgentNum,
           \A u \in Threads : Signals(u)' <=> Signals(u)
    PROVE  SignalsCounted'
<1>1. Signallers' = Signallers
    BY DEF Signallers
<1> QED BY <1>1 DEF SignalsCounted

LEMMA OthersStay ==
    ASSUME NEW t \in Threads, NEW to, \A u \in Threads : RwThread(u), RwTypes,
           pc' = [pc EXCEPT ![t] = to], to \in Reads \cup Writes,
           \A u \in Threads : u # t => stage'[u] = stage[u] /\ on'[u] = on[u],
           \A u \in Threads, r \in RwNames :
               QueuesAt(u, r)' => QueuesAt(u, r) \/ u = t
    PROVE  /\ pc' \in [Threads -> Reads \cup Writes] /\ pc'[t] = to
           /\ \A u \in Threads : u # t =>
                 /\ pc'[u] = pc[u] /\ StageFits(u)' /\ Entering(u)'
                 /\ ReadIn(u)' <=> ReadIn(u)
                 /\ WriteIn(u)' <=> WriteIn(u)
                 /\ Signals(u)' <=> Signals(u)
                 /\ \A c : WaitsFor(u, c)' <=> WaitsFor(u, c)
<1>1. /\ pc' \in [Threads -> Reads \cup Writes] /\ pc'[t] = to
      /\ \A u \in Threads : u # t => pc'[u] = pc[u]
    BY DEF RwTypes
<1>2. ASSUME NEW u \in Threads, u # t
      PROVE  /\ StageFits(u)' /\ Entering(u)'
             /\ ReadIn(u)' <=> ReadIn(u)
             /\ WriteIn(u)' <=> WriteIn(u)
             /\ Signals(u)' <=> Signals(u)
             /\ \A c : WaitsFor(u, c)' <=> WaitsFor(u, c)
    <2>1. pc'[u] = pc[u] /\ stage'[u] = stage[u] /\ on'[u] = on[u]
        BY <1>1, <1>2
    <2>2. StageFits(u) /\ Entering(u)
        BY DEF RwThread
    <2>3. StageFits(u)'
        BY <2>1, <2>2 DEF StageFits
    <2>4. Entering(u)'
        BY <1>2, <2>1, <2>2 DEF Entering, RwNames
    <2> QED BY <2>1, <2>3, <2>4 DEF ReadIn, WriteIn, Signals, WaitsFor
<1> QED BY <1>1, <1>2

(* Who is inside has the unit.                                               *)
LEMMA InsideOwns ==
    ASSUME UnitInv, NEW t \in Threads, Rw!Inside(t)
    PROVE  /\ stage[t] = "inside" /\ Owner(t)
           /\ \A r \in RwNames : ~QueuesAt(t, r)
<1>1. stage[t] = "inside" /\ ~Rw!Blocked(t)
    BY DEF Rw!Inside, Rw!At
<1>2. \A r \in RwNames : ~QueuesAt(t, r)
    BY <1>1, RwGoesOn
<1> QED BY <1>1, <1>2 DEF Owner, RwNames

(* MonEnter(): the thread knows nothing yet.                                 *)
LEMMA RwEnter ==
    ASSUME NEW t \in Threads, NEW from, NEW to, RwInv, Rw!Enter(t, from, to),
           \/ from = "sleep" /\ to = "start read" /\ t \in Readers
           \/ from = "sleep" /\ to = "start write" /\ t \notin Readers
           \/ from = "reading" /\ to = "stop read" /\ t \in Readers
           \/ from = "writing" /\ to = "stop write" /\ t \notin Readers
    PROVE  RwInv'
<1>1. /\ RwTypes /\ UnitInv /\ Counted /\ SignalsCounted
      /\ \A u \in Threads : RwThread(u)
      /\ \A c \in Conds : FreeKnows(c) /\ WaitingCounted(c)
    BY DEF RwInv
<1>2. /\ pc[t] = from /\ stage[t] = "out" /\ ~Rw!Blocked(t)
      /\ Rw!P(t, "mutex") /\ stage' = [stage EXCEPT ![t] = "inside"]
      /\ monList' = monList /\ urgentNum' = urgentNum /\ on' = on
      /\ pc' = [pc EXCEPT ![t] = to]
      /\ numReaders' = numReaders /\ busyWriting' = busyWriting
    BY DEF Rw!Enter, Rw!MonEnter, Rw!At, Rw!Becomes, Rw!Go, Rw!shared
<1>3. \A r \in RwNames : ~QueuesAt(t, r)
    BY <1>1, <1>2, RwGoesOn
<1>4. /\ UnitInv'
      /\ \A u \in Threads : Owner(u)' => Owner(u) \/ (u = t /\ Free("mutex"))
      /\ \A r \in RwNames : Free(r)' => Free(r)
      /\ \A u \in Threads, r \in RwNames :
            QueuesAt(u, r)' => QueuesAt(u, r) \/ (u = t /\ r = "mutex")
    <2>1. "mutex" \in RwNames
        BY DEF RwNames
    <2> QED BY <1>1, <1>2, <1>3, <2>1, TakesTheUnit
<1>5. /\ stage'[t] = "inside" /\ to \in Reads \cup Writes /\ to \in Starts
      /\ \A u \in Threads : u # t => stage'[u] = stage[u] /\ on'[u] = on[u]
    BY <1>1, <1>2 DEF UnitInv, UnitTypes, Reads, Writes, Starts
<1>6. /\ pc' \in [Threads -> Reads \cup Writes] /\ pc'[t] = to
      /\ \A u \in Threads : u # t =>
            /\ pc'[u] = pc[u] /\ StageFits(u)' /\ Entering(u)'
            /\ ReadIn(u)' <=> ReadIn(u)
            /\ WriteIn(u)' <=> WriteIn(u)
            /\ Signals(u)' <=> Signals(u)
            /\ \A c : WaitsFor(u, c)' <=> WaitsFor(u, c)
    BY <1>1, <1>2, <1>4, <1>5, OthersStay
<1>7. StageFits(t)' /\ Entering(t)' /\ Knows(t)'
    BY <1>5, <1>6 DEF StageFits, Entering, Knows, Starts, Reads, Writes
<1>8. /\ ReadIn(t)' <=> ReadIn(t)
      /\ WriteIn(t)' <=> WriteIn(t)
      /\ Signals(t)' <=> Signals(t)
      /\ \A c : WaitsFor(t, c)' <=> WaitsFor(t, c)
    <2>1. t \in Readers => t \notin Writers
        BY RwSizes
    <2> QED BY <1>2, <1>5, <1>6, <2>1 DEF ReadIn, WriteIn, Signals, WaitsFor
<1>9. Counted' /\ SignalsCounted'
    BY <1>1, <1>2, <1>6, <1>8, CountedSame, SignalsSame
<1>10. \A c \in Conds : WaitingCounted(c)'
    BY <1>1, <1>2, <1>6, <1>8, WaitingSame
<1>11. \A c : May(c)' <=> May(c)
    BY <1>2 DEF May
<1>12. \A c \in Conds : FreeKnows(c)'
    BY <1>1, <1>4, <1>11 DEF FreeKnows, RwNames
<1>13. \A u \in Threads : u # t => Knows(u)'
    BY <1>1, <1>4, <1>6, <1>11 DEF Knows, RwThread
<1>14. RwTypes'
    BY <1>1, <1>2, <1>6 DEF RwTypes
<1> QED BY <1>4, <1>6, <1>7, <1>9, <1>10, <1>12, <1>13, <1>14
        DEF RwInv, RwThread

(* HandOn: the thread that has the unit then has just come in, or signalled. *)
LEMMA HandsOn ==
    ASSUME NEW t \in Threads, NEW to, RwInv, Rw!HandOn, Owner(t),
           \A r \in RwNames : ~QueuesAt(t, r), to \in {"out", "wait"},
           stage' = [stage EXCEPT ![t] = to], on' \in [Threads -> Conds],
           \A u \in Threads : u # t => on'[u] = on[u]
    PROVE  /\ UnitInv'
           /\ \A u \in Threads : Owner(u)' =>
                 u # t /\ pc[u] \in Starts \cup {"leave to read", "leave"}
           /\ \A c \in Conds : ~Free(c)'
           /\ \A u \in Threads, r \in RwNames :
                 QueuesAt(u, r)' => QueuesAt(u, r)
<1>1. /\ UnitInv /\ \A u \in Threads : RwThread(u)
      /\ "mutex" \in RwNames /\ "urgent" \in RwNames
      /\ "mutex" \notin Conds /\ "urgent" \notin Conds
      /\ \A c \in Conds : c \in RwNames
    BY DEF RwInv, RwNames, Conds
<1>2. to \in {"out", "wait", "signal"}
    OBVIOUS
<1>3. CASE Rw!V("mutex")
    <2>1. /\ UnitInv'
          /\ \A u \in Threads : Owner(u)' => u # t /\ QueuesAt(u, "mutex")
          /\ \A r \in RwNames : Free(r)' => r = "mutex"
          /\ \A u \in Threads, r \in RwNames :
                QueuesAt(u, r)' => QueuesAt(u, r)
        BY <1>1, <1>2, <1>3, GivesTheUnit
    <2> QED BY <1>1, <2>1 DEF RwThread, Entering
<1>4. CASE Rw!V("urgent")
    <2>1. /\ UnitInv'
          /\ \A u \in Threads : Owner(u)' => u # t /\ QueuesAt(u, "urgent")
          /\ \A r \in RwNames : Free(r)' => r = "urgent"
          /\ \A u \in Threads, r \in RwNames :
                QueuesAt(u, r)' => QueuesAt(u, r)
        BY <1>1, <1>2, <1>4, GivesTheUnit
    <2>2. \A u \in Threads : QueuesAt(u, "urgent") => stage[u] = "urgent"
        BY <1>1 DEF UnitInv, AtItsP
    <2> QED BY <1>1, <2>1, <2>2 DEF RwThread, StageFits
<1> QED BY <1>3, <1>4 DEF Rw!HandOn

(* MonLeave().                                                               *)
LEMMA RwLeave ==
    ASSUME NEW t \in Threads, NEW from, NEW to, RwInv, Rw!Leave(t, from, to),
           \/ from = "leave to read" /\ to = "reading" /\ t \in Readers
           \/ from = "leave to write" /\ to = "writing" /\ t \notin Readers
           \/ from = "leave" /\ to = "sleep"
    PROVE  RwInv'
<1>1. /\ RwTypes /\ UnitInv /\ Counted /\ SignalsCounted
      /\ \A u \in Threads : RwThread(u)
      /\ \A c \in Conds : FreeKnows(c) /\ WaitingCounted(c)
    BY DEF RwInv
<1>2. /\ pc[t] = from /\ Rw!Inside(t) /\ Rw!HandOn
      /\ stage' = [stage EXCEPT ![t] = "out"]
      /\ monList' = monList /\ urgentNum' = urgentNum /\ on' = on
      /\ pc' = [pc EXCEPT ![t] = to]
      /\ numReaders' = numReaders /\ busyWriting' = busyWriting
    BY DEF Rw!Leave, Rw!MonLeave, Rw!Becomes, Rw!Go, Rw!shared
<1>3. /\ stage[t] = "inside" /\ Owner(t)
      /\ \A r \in RwNames : ~QueuesAt(t, r)
    BY <1>1, <1>2, InsideOwns
<1>4. /\ UnitInv'
      /\ \A u \in Threads : Owner(u)' =>
            u # t /\ pc[u] \in Starts \cup {"leave to read", "leave"}
      /\ \A c \in Conds : ~Free(c)'
      /\ \A u \in Threads, r \in RwNames : QueuesAt(u, r)' => QueuesAt(u, r)
    <2>1. /\ on' \in [Threads -> Conds] /\ "out" \in {"out", "wait"}
          /\ \A u \in Threads : u # t => on'[u] = on[u]
        BY <1>1, <1>2 DEF UnitInv, UnitTypes
    <2> QED BY <1>2, <1>3, <2>1, HandsOn
<1>5. /\ stage'[t] = "out" /\ to \in Reads \cup Writes
      /\ \A u \in Threads : u # t => stage'[u] = stage[u] /\ on'[u] = on[u]
    BY <1>1, <1>2 DEF UnitInv, UnitTypes, Reads, Writes
<1>6. /\ pc' \in [Threads -> Reads \cup Writes] /\ pc'[t] = to
      /\ \A u \in Threads : u # t =>
            /\ pc'[u] = pc[u] /\ StageFits(u)' /\ Entering(u)'
            /\ ReadIn(u)' <=> ReadIn(u)
            /\ WriteIn(u)' <=> WriteIn(u)
            /\ Signals(u)' <=> Signals(u)
            /\ \A c : WaitsFor(u, c)' <=> WaitsFor(u, c)
    BY <1>1, <1>2, <1>4, <1>5, OthersStay
<1>7. StageFits(t)' /\ Entering(t)' /\ Knows(t)'
    <2>1. ~QueuesAt(t, "mutex")' /\ ~Owner(t)'
        BY <1>3, <1>4 DEF RwNames
    <2> QED BY <1>5, <1>6, <2>1 DEF StageFits, Entering, Knows, Reads, Writes
<1>8. /\ ReadIn(t)' <=> ReadIn(t)
      /\ WriteIn(t)' <=> WriteIn(t)
      /\ Signals(t)' <=> Signals(t)
      /\ \A c : WaitsFor(t, c)' <=> WaitsFor(t, c)
    <2>1. t \in Readers => t \notin Writers
        BY RwSizes
    <2> QED BY <1>2, <1>3, <1>5, <1>6, <2>1
            DEF ReadIn, WriteIn, Signals, WaitsFor
<1>9. Counted' /\ SignalsCounted'
    BY <1>1, <1>2, <1>6, <1>8, CountedSame, SignalsSame
<1>10. \A c \in Conds : WaitingCounted(c)'
    BY <1>1, <1>2, <1>6, <1>8, WaitingSame
<1>11. \A c \in Conds : FreeKnows(c)'
    BY <1>4 DEF FreeKnows
<1>12. \A u \in Threads : u # t => Knows(u)'
    BY <1>4, <1>6 DEF Knows, Starts
<1>13. RwTypes'
    BY <1>1, <1>2, <1>6 DEF RwTypes
<1> QED BY <1>4, <1>6, <1>7, <1>9, <1>10, <1>11, <1>12, <1>13
        DEF RwInv, RwThread

LEMMA WaitersMore ==
    ASSUME NEW c \in Conds, RwTypes,
           monList' = [monList EXCEPT ![c] = monList[c] + 1]
    PROVE  /\ monList' \in [Conds -> Nat] /\ monList'[c] = monList[c] + 1
           /\ \A d \in Conds : d # c => monList'[d] = monList[d]
BY CountUp DEF RwTypes

(* StartRead() or StartWrite() when the thread has to wait.                  *)
LEMMA RwWaits ==
    ASSUME NEW t \in Threads, NEW from, NEW c, NEW to, RwInv, c \in Conds,
           pc[t] = from, Rw!MonWait(t, c), Rw!Go(t, to), UNCHANGED Rw!shared,
           \/ /\ from = "start read" /\ to = "may read" /\ t \in Readers
              /\ c = "OKtoRead"
           \/ /\ from = "start write" /\ to = "may write" /\ t \notin Readers
              /\ c = "OKtoWrite"
    PROVE  RwInv'
<1>1. /\ RwTypes /\ UnitInv /\ Counted /\ SignalsCounted
      /\ \A u \in Threads : RwThread(u)
      /\ \A d \in Conds : FreeKnows(d) /\ WaitingCounted(d)
    BY DEF RwInv
<1>2. /\ Rw!Inside(t) /\ Rw!HandOn
      /\ stage' = [stage EXCEPT ![t] = "wait"]
      /\ on' = [on EXCEPT ![t] = c]
      /\ monList' = [monList EXCEPT ![c] = monList[c] + 1]
      /\ urgentNum' = urgentNum
      /\ pc' = [pc EXCEPT ![t] = to]
      /\ numReaders' = numReaders /\ busyWriting' = busyWriting
    BY DEF Rw!MonWait, Rw!Becomes, Rw!Go, Rw!shared
<1>3. /\ stage[t] = "inside" /\ Owner(t)
      /\ \A r \in RwNames : ~QueuesAt(t, r)
    BY <1>1, <1>2, InsideOwns
<1>4. /\ on' \in [Threads -> Conds] /\ on'[t] = c
      /\ \A u \in Threads : u # t => on'[u] = on[u]
    BY <1>1, <1>2 DEF UnitInv, UnitTypes
<1>5. /\ UnitInv'
      /\ \A u \in Threads : Owner(u)' =>
            u # t /\ pc[u] \in Starts \cup {"leave to read", "leave"}
      /\ \A d \in Conds : ~Free(d)'
      /\ \A u \in Threads, r \in RwNames : QueuesAt(u, r)' => QueuesAt(u, r)
    <2>1. "wait" \in {"out", "wait"}
        OBVIOUS
    <2> QED BY <1>2, <1>3, <1>4, <2>1, HandsOn
<1>6. /\ stage'[t] = "wait" /\ to \in Reads \cup Writes
      /\ \A u \in Threads : u # t => stage'[u] = stage[u] /\ on'[u] = on[u]
    BY <1>1, <1>2, <1>4 DEF UnitInv, UnitTypes, Reads, Writes
<1>7. /\ pc' \in [Threads -> Reads \cup Writes] /\ pc'[t] = to
      /\ \A u \in Threads : u # t =>
            /\ pc'[u] = pc[u] /\ StageFits(u)' /\ Entering(u)'
            /\ ReadIn(u)' <=> ReadIn(u)
            /\ WriteIn(u)' <=> WriteIn(u)
            /\ Signals(u)' <=> Signals(u)
            /\ \A d : WaitsFor(u, d)' <=> WaitsFor(u, d)
    BY <1>1, <1>2, <1>5, <1>6, OthersStay
<1>8. StageFits(t)' /\ Entering(t)' /\ Knows(t)'
    <2>1. ~QueuesAt(t, "mutex")' /\ ~Owner(t)'
        BY <1>3, <1>5 DEF RwNames
    <2> QED BY <1>4, <1>6, <1>7, <2>1
            DEF StageFits, Entering, Knows, Reads, Writes
<1>9. /\ ReadIn(t)' <=> ReadIn(t)
      /\ WriteIn(t)' <=> WriteIn(t)
      /\ Signals(t)' <=> Signals(t)
    BY <1>2, <1>3, <1>6, <1>7 DEF ReadIn, WriteIn, Signals
<1>10. ~WaitsFor(t, c) /\ \A d : WaitsFor(t, d)' <=> d = c
    BY <1>3, <1>4, <1>6 DEF WaitsFor
<1>11. Counted' /\ SignalsCounted'
    BY <1>1, <1>2, <1>7, <1>9, CountedSame, SignalsSame
<1>12. /\ monList' \in [Conds -> Nat] /\ monList'[c] = monList[c] + 1
       /\ \A d \in Conds : d # c => monList'[d] = monList[d]
    BY <1>1, <1>2, WaitersMore
<1>13. WaitingCounted(c)'
    <2>1. \A u : u \in Waiters(c)' <=> u \in Waiters(c) \/ u = t
        BY <1>7, <1>10 DEF Waiters
    <2>2. t \notin Waiters(c)
        BY <1>10 DEF Waiters
    <2>3. IsFiniteSet(Waiters(c))
        BY RwFinite
    <2>4. Cardinality(Waiters(c)') = Cardinality(Waiters(c)) + 1
        BY <2>1, <2>2, <2>3, OneMoreIn
    <2> QED BY <1>1, <1>12, <2>4 DEF WaitingCounted
<1>14. \A d \in Conds : d # c => WaitingCounted(d)'
    <2>1. \A d : d # c => (WaitsFor(t, d)' <=> WaitsFor(t, d))
        BY <1>3, <1>10 DEF WaitsFor
    <2> QED BY <1>1, <1>7, <1>12, <2>1, WaitingSame
<1>15. \A d \in Conds : FreeKnows(d)'
    BY <1>5 DEF FreeKnows
<1>16. \A u \in Threads : u # t => Knows(u)'
    BY <1>5, <1>7 DEF Knows, Starts
<1>17. RwTypes'
    BY <1>1, <1>2, <1>7, <1>12 DEF RwTypes
<1> QED BY <1>5, <1>7, <1>8, <1>11, <1>13, <1>14, <1>15, <1>16, <1>17
        DEF RwInv, RwThread

(* A step of the thread that has the monitor, and keeps it.                  *)
Stays(t, from, to) ==
    /\ Rw!Inside(t) /\ pc[t] = from /\ pc' = [pc EXCEPT ![t] = to]
    /\ semaphore' = semaphore /\ stage' = stage /\ on' = on
    /\ monList' = monList /\ urgentNum' = urgentNum
    /\ to \notin {"sleep", "reading", "writing"}
    /\ IF t \in Readers THEN to \in Reads ELSE to \in Writes

LEMMA UnitSame ==
    ASSUME UnitInv, semaphore' = semaphore, stage' = stage, on' = on
    PROVE  /\ UnitInv'
           /\ \A u \in Threads : Owner(u)' <=> Owner(u)
           /\ \A u, r : QueuesAt(u, r)' <=> QueuesAt(u, r)
           /\ \A r : Free(r)' <=> Free(r)
<1>1. /\ \A u, r : QueuesAt(u, r)' <=> QueuesAt(u, r)
      /\ \A r : Free(r)' <=> Free(r)
    BY DEF QueuesAt, Free
<1>2. \A u \in Threads : (Owner(u)' <=> Owner(u)) /\ AtItsP(u)'
    BY <1>1 DEF UnitInv, Owner, AtItsP
<1>3. UnitTypes' /\ \A r \in RwNames : UnitQueue(r)'
    BY <1>1 DEF UnitInv, UnitTypes, UnitQueue
<1>4. OneOwner' /\ OneFree' /\ OwnedOrFree'
    BY <1>1, <1>2 DEF UnitInv, OneOwner, OneFree, OwnedOrFree
<1> QED BY <1>1, <1>2, <1>3, <1>4 DEF UnitInv

LEMMA RwStays ==
    ASSUME NEW t \in Threads, NEW from, NEW to, RwInv, Stays(t, from, to)
    PROVE  /\ Knows(t) /\ Owner(t) /\ Owner(t)' /\ pc'[t] = to
           /\ \A u \in Threads : u # t =>
                 /\ ReadIn(u)' <=> ReadIn(u)
                 /\ WriteIn(u)' <=> WriteIn(u)
           /\ /\ numReaders' \in Nat /\ busyWriting' \in BOOLEAN
              /\ Counted' /\ Knows(t)'
              => RwInv'
<1>1. /\ RwTypes /\ UnitInv /\ SignalsCounted
      /\ \A u \in Threads : RwThread(u)
      /\ \A c \in Conds : WaitingCounted(c)
    BY DEF RwInv
<1>2. /\ pc[t] = from /\ Rw!Inside(t) /\ pc' = [pc EXCEPT ![t] = to]
      /\ semaphore' = semaphore /\ stage' = stage /\ on' = on
      /\ monList' = monList /\ urgentNum' = urgentNum
      /\ to \notin {"sleep", "reading", "writing"}
      /\ IF t \in Readers THEN to \in Reads ELSE to \in Writes
    BY DEF Stays
<1>3. /\ stage[t] = "inside" /\ Owner(t)
      /\ \A r \in RwNames : ~QueuesAt(t, r)
    BY <1>1, <1>2, InsideOwns
<1>4. /\ UnitInv'
      /\ \A u \in Threads : Owner(u)' <=> Owner(u)
      /\ \A u, r : QueuesAt(u, r)' <=> QueuesAt(u, r)
      /\ \A r : Free(r)' <=> Free(r)
    BY <1>1, <1>2, UnitSame
<1>5. to \in Reads \cup Writes
    BY <1>2
<1>6. /\ pc' \in [Threads -> Reads \cup Writes] /\ pc'[t] = to
      /\ \A u \in Threads : u # t =>
            /\ pc'[u] = pc[u] /\ StageFits(u)' /\ Entering(u)'
            /\ ReadIn(u)' <=> ReadIn(u)
            /\ WriteIn(u)' <=> WriteIn(u)
    <2>1. /\ \A u \in Threads : u # t => stage'[u] = stage[u] /\ on'[u] = on[u]
          /\ \A u \in Threads, r \in RwNames :
                QueuesAt(u, r)' => QueuesAt(u, r) \/ u = t
        BY <1>2, <1>4
    <2> QED BY <1>1, <1>2, <1>5, <2>1, OthersStay
<1>7. StageFits(t)' /\ Entering(t)'
    <2>1. ~QueuesAt(t, "mutex")' /\ stage'[t] = "inside"
        BY <1>2, <1>3, <1>4 DEF RwNames
    <2> QED BY <1>2, <1>6, <2>1 DEF StageFits, Entering
<1>8. SignalsCounted'
    <2>1. \A u \in Threads : Signals(u)' <=> Signals(u)
        BY <1>2 DEF Signals
    <2> QED BY <1>1, <1>2, <2>1, SignalsSame
<1>9. \A c \in Conds : WaitingCounted(c)'
    <2>1. \A u \in Threads : \A c : WaitsFor(u, c)' <=> WaitsFor(u, c)
        BY <1>2 DEF WaitsFor
    <2> QED BY <1>1, <1>2, <2>1, WaitingSame
<1>10. \A c \in Conds : FreeKnows(c)'
    <2>1. \A c \in Conds : ~Free(c)
        BY <1>1, <1>3 DEF UnitInv, OwnedOrFree, RwNames
    <2> QED BY <1>4, <2>1 DEF FreeKnows
<1>11. \A u \in Threads : u # t => Knows(u)'
    <2>1. \A u \in Threads : u # t => ~Owner(u)
        BY <1>1, <1>3 DEF UnitInv, OneOwner
    <2> QED BY <1>4, <2>1 DEF Knows
<1>12. /\ numReaders' \in Nat /\ busyWriting' \in BOOLEAN
       => RwTypes'
    BY <1>1, <1>2, <1>6 DEF RwTypes
<1> QED BY <1>1, <1>3, <1>4, <1>6, <1>7, <1>8, <1>9, <1>10, <1>11, <1>12
        DEF RwInv, RwThread

(* Going on without waiting or waking anybody.                               *)
LEMMA RwGoes ==
    ASSUME NEW t \in Threads, NEW from, NEW to, RwInv, Stays(t, from, to),
           numReaders' = numReaders, busyWriting' = busyWriting,
           \/ from = "start read" /\ to = "may read" /\ ~busyWriting
           \/ /\ from = "start write" /\ to = "may write"
              /\ ~busyWriting /\ numReaders = 0
           \/ from = "signal reader" /\ to = "leave to read"
           \/ from = "signal writer" /\ to = "leave"
           \/ from = "signal readers" /\ to = "leave"
    PROVE  RwInv'
<1>1. RwTypes /\ Counted /\ pc[t] = from
    BY DEF RwInv, Stays
<1>2. /\ pc'[t] = to
      /\ \A u \in Threads : u # t =>
            /\ ReadIn(u)' <=> ReadIn(u)
            /\ WriteIn(u)' <=> WriteIn(u)
      /\ /\ numReaders' \in Nat /\ busyWriting' \in BOOLEAN
         /\ Counted' /\ Knows(t)'
         => RwInv'
    BY RwStays
<1>3. /\ ReadIn(t)' <=> ReadIn(t)
      /\ WriteIn(t)' <=> WriteIn(t)
    BY <1>1, <1>2 DEF ReadIn, WriteIn
<1>4. Counted'
    BY <1>1, <1>2, <1>3, CountedSame
<1>5. Knows(t)'
    BY <1>2 DEF Knows, May
<1> QED BY <1>1, <1>2, <1>4, <1>5 DEF RwTypes

LEMMA RwCountReader ==
    ASSUME NEW t \in Threads, RwInv, Stays(t, "may read", "signal reader"),
           t \in Readers, numReaders' = numReaders + 1,
           busyWriting' = busyWriting
    PROVE  RwInv'
<1>1. RwTypes /\ Counted /\ pc[t] = "may read"
    BY DEF RwInv, Stays
<1>2. /\ Knows(t) /\ Owner(t) /\ pc'[t] = "signal reader"
      /\ \A u \in Threads : u # t =>
            /\ ReadIn(u)' <=> ReadIn(u)
            /\ WriteIn(u)' <=> WriteIn(u)
      /\ /\ numReaders' \in Nat /\ busyWriting' \in BOOLEAN
         /\ Counted' /\ Knows(t)'
         => RwInv'
    BY RwStays
<1>3. ~busyWriting
    BY <1>1, <1>2 DEF Knows, May
<1>4. ReadIn(t)' /\ ~ReadIn(t) /\ ~WriteIn(t)' /\ ~WriteIn(t)
    BY <1>1, <1>2 DEF ReadIn, WriteIn
<1>5. Cardinality(ReadersIn') = Cardinality(ReadersIn) + 1
    <2>1. \A u : u \in ReadersIn' <=> u \in ReadersIn \/ u = t
        BY <1>2, <1>4 DEF ReadersIn
    <2>2. t \notin ReadersIn
        BY <1>4 DEF ReadersIn
    <2> QED BY <2>1, <2>2, RwFinite, OneMoreIn
<1>6. Counted'
    <2>1. ~busyWriting' /\ \A u \in Threads : ~WriteIn(u)'
        BY <1>1, <1>2, <1>3, <1>4 DEF Counted
    <2>2. numReaders' = Cardinality(ReadersIn')
        BY <1>1, <1>5 DEF Counted
    <2> QED BY <2>1, <2>2 DEF Counted, OneWriter
<1>7. Knows(t)'
    BY <1>2, <1>3 DEF Knows, May
<1>8. numReaders' \in Nat
    BY <1>1, SmallCounts DEF RwTypes
<1> QED BY <1>1, <1>2, <1>6, <1>7, <1>8 DEF RwTypes

LEMMA FewerReaders ==
    ASSUME NEW t, t \in ReadersIn, IsFiniteSet(ReadersIn),
           \A u : u \in ReadersIn' <=> u \in ReadersIn /\ u # t
    PROVE  /\ IsFiniteSet(ReadersIn')
           /\ Cardinality(ReadersIn') = Cardinality(ReadersIn) - 1
<1>1. ReadersIn' = ReadersIn \ {t}
    OBVIOUS
<1> QED BY <1>1, FS_RemoveElement

LEMMA RwStopRead ==
    ASSUME NEW t \in Threads, NEW to, RwInv, Stays(t, "stop read", to),
           t \in Readers, numReaders' = numReaders - 1,
           busyWriting' = busyWriting,
           to = IF numReaders = 1 THEN "signal writer" ELSE "leave"
    PROVE  RwInv'
<1>1. RwTypes /\ Counted /\ pc[t] = "stop read"
    BY DEF RwInv, Stays
<1>2. /\ pc'[t] = to
      /\ \A u \in Threads : u # t =>
            /\ ReadIn(u)' <=> ReadIn(u)
            /\ WriteIn(u)' <=> WriteIn(u)
      /\ /\ numReaders' \in Nat /\ busyWriting' \in BOOLEAN
         /\ Counted' /\ Knows(t)'
         => RwInv'
    BY RwStays
<1>3. ReadIn(t) /\ ~ReadIn(t)' /\ ~WriteIn(t)' /\ ~WriteIn(t)
    BY <1>1, <1>2 DEF ReadIn, WriteIn
<1>4. /\ IsFiniteSet(ReadersIn')
      /\ Cardinality(ReadersIn') = Cardinality(ReadersIn) - 1
    <2>1. \A u : u \in ReadersIn' <=> u \in ReadersIn /\ u # t
        <3>1. \A u \in Threads : ReadIn(u)' <=> ReadIn(u) /\ u # t
            BY <1>2, <1>3
        <3> QED BY <3>1 DEF ReadersIn
    <2>2. t \in ReadersIn
        BY <1>3 DEF ReadersIn
    <2>3. IsFiniteSet(ReadersIn)
        BY RwFinite
    <2> QED BY <2>1, <2>2, <2>3, FewerReaders
<1>5. numReaders' = Cardinality(ReadersIn') /\ numReaders' \in Nat
    BY <1>1, <1>4, FS_CardinalityType DEF Counted
<1>6. ~busyWriting
    <2>1. CASE busyWriting
        <3>1. numReaders' = 0 - 1
            BY <1>1, <2>1 DEF Counted
        <3> QED BY <1>5, <3>1, SmallCounts
    <2> QED BY <2>1
<1>7. Counted'
    <2>1. ~busyWriting' /\ \A u \in Threads : ~WriteIn(u)'
        BY <1>1, <1>2, <1>3, <1>6 DEF Counted
    <2> QED BY <1>5, <2>1 DEF Counted, OneWriter
<1>8. Knows(t)'
    <2>1. to = "signal writer" => numReaders' = 0
        BY SmallCounts
    <2>2. to \in {"signal writer", "leave"}
        OBVIOUS
    <2> QED BY <1>2, <1>6, <2>1, <2>2 DEF Knows, May
<1> QED BY <1>1, <1>2, <1>5, <1>7, <1>8 DEF RwTypes

LEMMA RwSetBusy ==
    ASSUME NEW t \in Threads, RwInv, Stays(t, "may write", "leave to write"),
           t \in Writers, numReaders' = numReaders, busyWriting' = TRUE
    PROVE  RwInv'
<1>1. RwTypes /\ Counted /\ pc[t] = "may write"
    BY DEF RwInv, Stays
<1>2. /\ Knows(t) /\ Owner(t) /\ pc'[t] = "leave to write"
      /\ \A u \in Threads : u # t =>
            /\ ReadIn(u)' <=> ReadIn(u)
            /\ WriteIn(u)' <=> WriteIn(u)
      /\ /\ numReaders' \in Nat /\ busyWriting' \in BOOLEAN
         /\ Counted' /\ Knows(t)'
         => RwInv'
    BY RwStays
<1>3. ~busyWriting /\ numReaders = 0
    BY <1>1, <1>2 DEF Knows, May
<1>4. /\ ReadIn(t)' <=> ReadIn(t)
      /\ WriteIn(t)'
    BY <1>1, <1>2 DEF ReadIn, WriteIn
<1>5. Counted'
    <2>1. ReadersIn' = ReadersIn
        BY <1>2, <1>4 DEF ReadersIn
    <2>2. \A u \in Threads : u # t => ~WriteIn(u)'
        BY <1>1, <1>2, <1>3 DEF Counted
    <2>3. OneWriter'
        BY <2>2 DEF OneWriter
    <2> QED BY <1>1, <1>3, <1>4, <2>1, <2>3 DEF Counted
<1>6. Knows(t)'
    BY <1>2 DEF Knows
<1> QED BY <1>1, <1>2, <1>5, <1>6 DEF RwTypes

LEMMA RwStopWrite ==
    ASSUME NEW t \in Threads, RwInv, Stays(t, "stop write", "signal readers"),
           t \in Writers, numReaders' = numReaders, busyWriting' = FALSE
    PROVE  RwInv'
<1>1. RwTypes /\ Counted /\ pc[t] = "stop write"
    BY DEF RwInv, Stays
<1>2. /\ pc'[t] = "signal readers"
      /\ \A u \in Threads : u # t =>
            /\ ReadIn(u)' <=> ReadIn(u)
            /\ WriteIn(u)' <=> WriteIn(u)
      /\ /\ numReaders' \in Nat /\ busyWriting' \in BOOLEAN
         /\ Counted' /\ Knows(t)'
         => RwInv'
    BY RwStays
<1>3. /\ ReadIn(t)' <=> ReadIn(t)
      /\ WriteIn(t) /\ ~WriteIn(t)'
    BY <1>1, <1>2 DEF ReadIn, WriteIn
<1>4. Counted'
    <2>1. ReadersIn' = ReadersIn
        BY <1>2, <1>3 DEF ReadersIn
    <2>2. \A u \in Threads : ~WriteIn(u)'
        BY <1>1, <1>2, <1>3 DEF Counted, OneWriter
    <2> QED BY <1>1, <2>1, <2>2 DEF Counted, OneWriter
<1>5. Knows(t)'
    BY <1>2 DEF Knows, May
<1> QED BY <1>1, <1>2, <1>4, <1>5 DEF RwTypes

LEMMA MoreSignals ==
    ASSUME NEW t, t \notin Signallers, IsFiniteSet(Signallers),
           \A u : u \in Signallers' <=> u \in Signallers \/ u = t
    PROVE  Cardinality(Signallers') = Cardinality(Signallers) + 1
<1>1. Signallers' = Signallers \cup {t}
    OBVIOUS
<1> QED BY <1>1, FS_AddElement

LEMMA FewerSignals ==
    ASSUME NEW t, t \in Signallers, IsFiniteSet(Signallers),
           \A u : u \in Signallers' <=> u \in Signallers /\ u # t
    PROVE  /\ IsFiniteSet(Signallers')
           /\ Cardinality(Signallers') = Cardinality(Signallers) - 1
<1>1. Signallers' = Signallers \ {t}
    OBVIOUS
<1> QED BY <1>1, FS_RemoveElement

LEMMA FewerWait ==
    ASSUME NEW c, NEW t, t \in Waiters(c), IsFiniteSet(Waiters(c)),
           \A u : u \in Waiters(c)' <=> u \in Waiters(c) /\ u # t
    PROVE  /\ IsFiniteSet(Waiters(c)')
           /\ Cardinality(Waiters(c)') = Cardinality(Waiters(c)) - 1
<1>1. Waiters(c)' = Waiters(c) \ {t}
    OBVIOUS
<1> QED BY <1>1, FS_RemoveElement

LEMMA WaitersFewer ==
    ASSUME NEW c \in Conds, RwTypes,
           monList' = [monList EXCEPT ![c] = monList[c] - 1]
    PROVE  /\ monList'[c] = monList[c] - 1
           /\ \A d \in Conds : d # c => monList'[d] = monList[d]
BY DEF RwTypes

LEMMA SomeoneIn ==
    ASSUME NEW S, NEW x, IsFiniteSet(S), x \in S
    PROVE  Cardinality(S) \in Nat /\ Cardinality(S) - 1 \in Nat
<1>1. Cardinality(S) \in Nat /\ Cardinality(S) # 0
    BY FS_CardinalityType, FS_EmptySet
<1> QED BY <1>1

(* MonSignal() with a thread waiting: it is told what it waits for.          *)
LEMMA RwSignals ==
    ASSUME NEW t \in Threads, NEW from, NEW c, NEW to, RwInv, c \in Conds,
           pc[t] = from, Rw!MonSignal(t, c), Rw!Go(t, to), UNCHANGED Rw!shared,
           \/ /\ from = "signal reader" /\ to = "leave to read"
              /\ c = "OKtoRead" /\ t \in Readers
           \/ /\ from = "signal writer" /\ to = "leave"
              /\ c = "OKtoWrite" /\ t \in Readers
           \/ /\ from = "signal readers" /\ to = "leave"
              /\ c = "OKtoRead" /\ t \notin Readers
    PROVE  RwInv'
<1>1. /\ RwTypes /\ UnitInv /\ Counted /\ SignalsCounted
      /\ \A u \in Threads : RwThread(u)
      /\ \A d \in Conds : FreeKnows(d) /\ WaitingCounted(d)
    BY DEF RwInv
<1>2. /\ Rw!Inside(t) /\ Rw!V(c)
      /\ stage' = [stage EXCEPT ![t] = "signal"]
      /\ on' = [on EXCEPT ![t] = c]
      /\ monList' = monList /\ urgentNum' = urgentNum + 1
      /\ pc' = [pc EXCEPT ![t] = to]
      /\ numReaders' = numReaders /\ busyWriting' = busyWriting
    BY DEF Rw!MonSignal, Rw!Becomes, Rw!Go, Rw!shared
<1>3. /\ stage[t] = "inside" /\ Owner(t)
      /\ \A r \in RwNames : ~QueuesAt(t, r)
    BY <1>1, <1>2, InsideOwns
<1>4. /\ on' \in [Threads -> Conds] /\ on'[t] = c
      /\ \A u \in Threads : u # t => on'[u] = on[u]
    BY <1>1, <1>2 DEF UnitInv, UnitTypes
<1>5. /\ UnitInv'
      /\ \A u \in Threads : Owner(u)' => u # t /\ QueuesAt(u, c)
      /\ \A r \in RwNames : Free(r)' => r = c
      /\ \A u \in Threads, r \in RwNames : QueuesAt(u, r)' => QueuesAt(u, r)
    <2>1. c \in RwNames /\ "signal" \in {"out", "wait", "signal"}
        BY DEF RwNames
    <2> QED BY <1>1, <1>2, <1>3, <1>4, <2>1, GivesTheUnit
<1>6. /\ stage'[t] = "signal" /\ to \in Reads \cup Writes
      /\ \A u \in Threads : u # t => stage'[u] = stage[u] /\ on'[u] = on[u]
    BY <1>1, <1>2, <1>4 DEF UnitInv, UnitTypes, Reads, Writes
<1>7. /\ pc' \in [Threads -> Reads \cup Writes] /\ pc'[t] = to
      /\ \A u \in Threads : u # t =>
            /\ pc'[u] = pc[u] /\ StageFits(u)' /\ Entering(u)'
            /\ ReadIn(u)' <=> ReadIn(u)
            /\ WriteIn(u)' <=> WriteIn(u)
            /\ Signals(u)' <=> Signals(u)
            /\ \A d : WaitsFor(u, d)' <=> WaitsFor(u, d)
    BY <1>1, <1>2, <1>5, <1>6, OthersStay
<1>8. StageFits(t)' /\ Entering(t)' /\ Knows(t)'
    <2>1. ~QueuesAt(t, "mutex")' /\ ~Owner(t)'
        BY <1>3, <1>5 DEF RwNames
    <2> QED BY <1>6, <1>7, <2>1 DEF StageFits, Entering, Knows, Reads, Writes
<1>9. /\ ReadIn(t)' <=> ReadIn(t)
      /\ WriteIn(t)' <=> WriteIn(t)
      /\ \A d : WaitsFor(t, d)' <=> WaitsFor(t, d)
      /\ ~Signals(t) /\ Signals(t)'
    <2>1. t \in Readers => t \notin Writers
        BY RwSizes
    <2> QED BY <1>3, <1>6, <1>7, <2>1 DEF ReadIn, WriteIn, Signals, WaitsFor
<1>10. Counted' /\ \A d \in Conds : WaitingCounted(d)'
    BY <1>1, <1>2, <1>7, <1>9, CountedSame, WaitingSame
<1>11. SignalsCounted'
    <2>1. \A u : u \in Signallers' <=> u \in Signallers \/ u = t
        BY <1>7, <1>9 DEF Signallers
    <2>2. t \notin Signallers
        BY <1>9 DEF Signallers
    <2>3. Cardinality(Signallers') = Cardinality(Signallers) + 1
        BY <2>1, <2>2, RwFinite, MoreSignals
    <2> QED BY <1>1, <1>2, <2>3 DEF SignalsCounted
<1>12. May(c)'
    <2>1. May(c)
        BY <1>1, <1>3 DEF RwThread, Knows
    <2> QED BY <1>2, <2>1 DEF May
<1>13. \A d \in Conds : FreeKnows(d)'
    BY <1>5, <1>12 DEF FreeKnows, RwNames
<1>14. \A u \in Threads : u # t => Knows(u)'
    <2>1. ASSUME NEW u \in Threads, u # t, Owner(u)'
          PROVE  Knows(u)'
        <3>1. QueuesAt(u, c)
            BY <1>5, <2>1
        <3>2. stage[u] = "woken" /\ on[u] = c
            BY <1>1, <3>1 DEF UnitInv, AtItsP
        <3>3. \/ pc[u] = "may read" /\ c = "OKtoRead"
              \/ pc[u] = "may write" /\ c = "OKtoWrite"
            BY <1>1, <3>2 DEF RwThread, StageFits
        <3>4. pc'[u] = pc[u]
            BY <1>7, <2>1
        <3> QED BY <1>12, <3>3, <3>4 DEF Knows
    <2> QED BY <2>1 DEF Knows
<1>15. RwTypes'
    <2>1. urgentNum' \in Nat
        BY <1>1, <1>2, SmallCounts DEF RwTypes
    <2> QED BY <1>1, <1>2, <1>7, <2>1 DEF RwTypes
<1> QED BY <1>5, <1>7, <1>8, <1>10, <1>11, <1>13, <1>14, <1>15
        DEF RwInv, RwThread

(* A step within MonWait() or MonSignal() does not move the thread in its    *)
(* procedure.                                                                *)
InCall(t, from, to) ==
    /\ stage[t] = from /\ ~Rw!Blocked(t) /\ on' = on /\ pc' = pc
    /\ stage' = [stage EXCEPT ![t] = to]
    /\ numReaders' = numReaders /\ busyWriting' = busyWriting
    /\ \/ from = "wait" /\ to = "woken"
       \/ from = "signal" /\ to = "urgent"
       \/ from \in {"woken", "urgent"} /\ to = "inside"

LEMMA RwInCall ==
    ASSUME NEW t \in Threads, NEW from, NEW to, RwInv, InCall(t, from, to),
           \A u \in Threads, r \in RwNames :
               QueuesAt(u, r)' => QueuesAt(u, r) \/ u = t
    PROVE  /\ \A r \in RwNames : ~QueuesAt(t, r)
           /\ from = "urgent" => Owner(t)
           /\ from = "woken" => Owner(t)
           /\ stage'[t] = to /\ pc'[t] = pc[t] /\ on'[t] = on[t]
           /\ \A u \in Threads : u # t => stage'[u] = stage[u]
           /\ \A u \in Threads : StageFits(u)'
           /\ Counted'
           /\ \A c : May(c)' <=> May(c)
           /\ \A u \in Threads : u # t =>
                 /\ Entering(u)'
                 /\ Signals(u)' <=> Signals(u)
                 /\ \A c : WaitsFor(u, c)' <=> WaitsFor(u, c)
<1>1. /\ RwTypes /\ UnitInv /\ Counted
      /\ \A u \in Threads : RwThread(u)
    BY DEF RwInv
<1>2. /\ stage[t] = from /\ ~Rw!Blocked(t) /\ on' = on /\ pc' = pc
      /\ stage' = [stage EXCEPT ![t] = to]
      /\ numReaders' = numReaders /\ busyWriting' = busyWriting
      /\ \/ from = "wait" /\ to = "woken"
         \/ from = "signal" /\ to = "urgent"
         \/ from \in {"woken", "urgent"} /\ to = "inside"
    BY DEF InCall
<1>3. \A r \in RwNames : ~QueuesAt(t, r)
    BY <1>1, <1>2, RwGoesOn
<1>4. /\ from = "urgent" => Owner(t)
      /\ from = "woken" => Owner(t)
    BY <1>1, <1>2, <1>3 DEF Owner, RwNames, UnitInv, UnitTypes
<1>5. /\ stage'[t] = to /\ pc'[t] = pc[t] /\ on'[t] = on[t]
      /\ \A u \in Threads : u # t => stage'[u] = stage[u]
    BY <1>1, <1>2 DEF UnitInv, UnitTypes
<1>6. StageFits(t)'
    <2>1. StageFits(t)
        BY <1>1 DEF RwThread
    <2> QED BY <1>2, <1>5, <2>1 DEF StageFits
<1>7. \A u \in Threads : u # t =>
          /\ StageFits(u)' /\ Entering(u)'
          /\ Signals(u)' <=> Signals(u)
          /\ \A c : WaitsFor(u, c)' <=> WaitsFor(u, c)
    <2>1. /\ pc' = [pc EXCEPT ![t] = pc[t]] /\ pc[t] \in Reads \cup Writes
          /\ \A u \in Threads : u # t => stage'[u] = stage[u] /\ on'[u] = on[u]
        BY <1>1, <1>2, <1>5 DEF RwTypes
    <2> QED BY <1>1, <2>1, OthersStay
<1>8. Counted'
    <2>1. \A u \in Threads : /\ ReadIn(u)' <=> ReadIn(u)
                             /\ WriteIn(u)' <=> WriteIn(u)
        BY <1>2 DEF ReadIn, WriteIn
    <2> QED BY <1>1, <1>2, <2>1, CountedSame
<1>9. \A c : May(c)' <=> May(c)
    BY <1>2 DEF May
<1> QED BY <1>3, <1>4, <1>5, <1>6, <1>7, <1>8, <1>9

(* P() in MonWait(): what the unit brings is what the thread waits for.      *)
LEMMA RwWaitP ==
    ASSUME NEW t \in Threads, RwInv, Rw!WaitP(t),
           UNCHANGED <<numReaders, busyWriting, pc>>
    PROVE  RwInv'
<1>1. /\ RwTypes /\ UnitInv /\ SignalsCounted
      /\ \A u \in Threads : RwThread(u)
      /\ \A c \in Conds : FreeKnows(c) /\ WaitingCounted(c)
    BY DEF RwInv
<1>2. /\ InCall(t, "wait", "woken") /\ Rw!P(t, on[t])
      /\ monList' = monList /\ urgentNum' = urgentNum
    BY DEF Rw!WaitP, Rw!At, Rw!Becomes, InCall
<1>3. \A r \in RwNames : ~QueuesAt(t, r)
    BY <1>1, <1>2, RwGoesOn DEF InCall
<1>4. on[t] \in Conds /\ on[t] \in RwNames
    BY <1>1 DEF UnitInv, UnitTypes, RwNames
<1>5. /\ UnitInv'
      /\ \A u \in Threads : Owner(u)' => Owner(u) \/ (u = t /\ Free(on[t]))
      /\ \A r \in RwNames : Free(r)' => Free(r)
      /\ \A u \in Threads, r \in RwNames :
            QueuesAt(u, r)' => QueuesAt(u, r) \/ (u = t /\ r = on[t])
    <2>1. /\ stage[t] \in {"out", "wait", "signal"}
          /\ stage' = [stage EXCEPT ![t] = "woken"] /\ on' = on
        BY <1>2 DEF InCall
    <2> QED BY <1>1, <1>2, <1>3, <1>4, <2>1, TakesTheUnit
<1>6. /\ stage'[t] = "woken" /\ pc'[t] = pc[t] /\ on'[t] = on[t]
      /\ \A u \in Threads : StageFits(u)'
      /\ Counted' /\ \A c : May(c)' <=> May(c)
      /\ \A u \in Threads : u # t =>
            /\ Entering(u)'
            /\ Signals(u)' <=> Signals(u)
            /\ \A c : WaitsFor(u, c)' <=> WaitsFor(u, c)
    BY <1>2, <1>5, RwInCall
<1>7. \/ pc[t] = "may read" /\ on[t] = "OKtoRead"
      \/ pc[t] = "may write" /\ on[t] = "OKtoWrite"
    <2>1. stage[t] = "wait"
        BY <1>2 DEF InCall
    <2>2. StageFits(t)
        BY <1>1 DEF RwThread
    <2> QED BY <2>1, <2>2 DEF StageFits
<1>8. Entering(t)' /\ Knows(t)'
    <2>1. ~QueuesAt(t, "mutex")'
        BY <1>3, <1>4, <1>5 DEF RwNames, Conds
    <2>2. Owner(t)' => May(on[t])'
        <3>1. ~Owner(t)
            BY <1>2 DEF InCall, Owner
        <3> QED BY <1>1, <1>4, <1>5, <1>6, <3>1 DEF FreeKnows
    <2> QED BY <1>6, <1>7, <2>1, <2>2 DEF Entering, Knows
<1>9. /\ Signals(t)' <=> Signals(t)
      /\ \A c : WaitsFor(t, c)' <=> WaitsFor(t, c)
    BY <1>2, <1>6 DEF InCall, Signals, WaitsFor
<1>10. SignalsCounted' /\ \A c \in Conds : WaitingCounted(c)'
    BY <1>1, <1>2, <1>6, <1>9, SignalsSame, WaitingSame
<1>11. \A c \in Conds : FreeKnows(c)'
    BY <1>1, <1>5, <1>6 DEF FreeKnows, RwNames
<1>12. \A u \in Threads : u # t => Knows(u)'
    BY <1>1, <1>5, <1>6 DEF Knows, RwThread
<1>13. RwTypes'
    BY <1>1, <1>2 DEF RwTypes
<1> QED BY <1>5, <1>6, <1>8, <1>10, <1>11, <1>12, <1>13 DEF RwInv, RwThread

(* MonWait() returns.                                                        *)
LEMMA RwWaitReturns ==
    ASSUME NEW t \in Threads, RwInv, Rw!WaitReturns(t),
           UNCHANGED <<numReaders, busyWriting, pc>>
    PROVE  RwInv'
<1>1. /\ RwTypes /\ UnitInv /\ SignalsCounted
      /\ \A u \in Threads : RwThread(u)
      /\ \A c \in Conds : FreeKnows(c) /\ WaitingCounted(c)
    BY DEF RwInv
<1>2. /\ InCall(t, "woken", "inside") /\ semaphore' = semaphore
      /\ monList' = [monList EXCEPT ![on[t]] = monList[on[t]] - 1]
      /\ urgentNum' = urgentNum
    BY DEF Rw!WaitReturns, Rw!At, Rw!Becomes, InCall
<1>3. /\ stage[t] = "woken" /\ on[t] \in Conds
      /\ stage' = [stage EXCEPT ![t] = "inside"] /\ on' = on
    BY <1>1, <1>2 DEF UnitInv, UnitTypes, InCall
<1>4. \A r \in RwNames : ~QueuesAt(t, r)
    BY <1>1, <1>2, RwGoesOn DEF InCall
<1>5. Owner(t)
    BY <1>3, <1>4 DEF Owner, RwNames
<1>6. /\ UnitInv'
      /\ \A u \in Threads : Owner(u)' <=> Owner(u)
      /\ \A u, r : QueuesAt(u, r)' <=> QueuesAt(u, r)
      /\ \A r : Free(r)' <=> Free(r)
    BY <1>1, <1>2, <1>3, <1>4, <1>5, KeepsTheUnit
<1>7. /\ stage'[t] = "inside" /\ pc'[t] = pc[t] /\ on'[t] = on[t]
      /\ \A u \in Threads : StageFits(u)'
      /\ Counted' /\ \A c : May(c)' <=> May(c)
      /\ \A u \in Threads : u # t =>
            /\ Entering(u)'
            /\ Signals(u)' <=> Signals(u)
            /\ \A c : WaitsFor(u, c)' <=> WaitsFor(u, c)
    <2>1. \A u \in Threads, r \in RwNames :
              QueuesAt(u, r)' => QueuesAt(u, r) \/ u = t
        BY <1>6
    <2> QED BY <1>2, <2>1, RwInCall
<1>8. pc' = pc
    BY <1>2 DEF InCall
<1>9. Entering(t)' /\ \A u \in Threads : Knows(u)'
    <2>1. ~QueuesAt(t, "mutex")'
        BY <1>4, <1>6 DEF RwNames
    <2> QED BY <1>1, <1>6, <1>7, <1>8, <2>1 DEF Entering, Knows, RwThread
<1>10. ~Signals(t) /\ ~Signals(t)' /\ \A c : ~WaitsFor(t, c)'
    BY <1>3, <1>7 DEF Signals, WaitsFor
<1>11. SignalsCounted'
    BY <1>1, <1>2, <1>7, <1>10, SignalsSame
<1>12. /\ monList'[on[t]] = monList[on[t]] - 1
       /\ \A d \in Conds : d # on[t] => monList'[d] = monList[d]
    BY <1>1, <1>2, <1>3, WaitersFewer
<1>13. WaitingCounted(on[t])' /\ monList'[on[t]] \in Nat
    <2>1. \A u : u \in Waiters(on[t])' <=> u \in Waiters(on[t]) /\ u # t
        <3>1. on' = on
            BY <1>3
        <3>2. \A u \in Threads :
                  WaitsFor(u, on[t])' <=> WaitsFor(u, on[t]) /\ u # t
            BY <1>3, <1>7, <1>10 DEF WaitsFor
        <3> QED BY <3>1, <3>2 DEF Waiters
    <2>2. t \in Waiters(on[t])
        BY <1>3 DEF Waiters, WaitsFor
    <2>3. IsFiniteSet(Waiters(on[t]))
        BY RwFinite
    <2>4. Waiters(on[t])' = Waiters(on[t]) \ {t}
        BY <2>1
    <2>5. Cardinality(Waiters(on[t]) \ {t}) = Cardinality(Waiters(on[t])) - 1
        BY <2>2, <2>3, FS_RemoveElement
    <2>6. Cardinality(Waiters(on[t])) - 1 \in Nat
        BY <2>2, <2>3, SomeoneIn
    <2>7. monList[on[t]] = Cardinality(Waiters(on[t]))
        BY <1>1, <1>3 DEF WaitingCounted
    <2> QED BY <1>3, <1>12, <2>4, <2>5, <2>6, <2>7 DEF WaitingCounted
<1>14. \A d \in Conds : d # on[t] => WaitingCounted(d)'
    <2>1. \A d : d # on[t] => ~WaitsFor(t, d)
        BY DEF WaitsFor
    <2> QED BY <1>1, <1>7, <1>10, <1>12, <2>1, WaitingSame
<1>15. \A c \in Conds : FreeKnows(c)' /\ WaitingCounted(c)'
    <2>1. on'[t] = on[t]
        BY <1>7
    <2> QED BY <1>1, <1>3, <1>6, <1>7, <1>13, <1>14, <2>1
            DEF FreeKnows, WaitingCounted
<1>16. RwTypes'
    <2>1. monList' \in [Conds -> Nat]
        <3>1. \A d \in Conds : monList'[d] \in Nat
            BY <1>1, <1>12, <1>13 DEF RwTypes
        <3>2. monList' = [d \in Conds |-> monList'[d]]
            BY <1>1, <1>2 DEF RwTypes
        <3> QED BY <3>1, <3>2
    <2> QED BY <1>1, <1>2, <1>7, <1>8, <2>1 DEF RwTypes, InCall
<1> QED BY <1>6, <1>7, <1>9, <1>11, <1>15, <1>16 DEF RwInv, RwThread

(* P() in MonSignal().                                                       *)
LEMMA RwSignalP ==
    ASSUME NEW t \in Threads, RwInv, Rw!SignalP(t),
           UNCHANGED <<numReaders, busyWriting, pc>>
    PROVE  RwInv'
<1>1. /\ RwTypes /\ UnitInv /\ SignalsCounted
      /\ \A u \in Threads : RwThread(u)
      /\ \A c \in Conds : FreeKnows(c) /\ WaitingCounted(c)
    BY DEF RwInv
<1>2. /\ InCall(t, "signal", "urgent") /\ Rw!P(t, "urgent")
      /\ monList' = monList /\ urgentNum' = urgentNum
    BY DEF Rw!SignalP, Rw!At, Rw!Becomes, InCall
<1>3. \A r \in RwNames : ~QueuesAt(t, r)
    BY <1>1, <1>2, RwGoesOn DEF InCall
<1>4. /\ UnitInv'
      /\ \A u \in Threads : Owner(u)' => Owner(u) \/ (u = t /\ Free("urgent"))
      /\ \A r \in RwNames : Free(r)' => Free(r)
      /\ \A u \in Threads, r \in RwNames :
            QueuesAt(u, r)' => QueuesAt(u, r) \/ (u = t /\ r = "urgent")
    <2>1. /\ stage[t] \in {"out", "wait", "signal"} /\ "urgent" \in RwNames
          /\ stage' = [stage EXCEPT ![t] = "urgent"] /\ on' = on
        BY <1>2 DEF InCall, RwNames
    <2> QED BY <1>1, <1>2, <1>3, <2>1, TakesTheUnit
<1>5. /\ stage'[t] = "urgent" /\ pc'[t] = pc[t] /\ on'[t] = on[t]
      /\ \A u \in Threads : StageFits(u)'
      /\ Counted' /\ \A c : May(c)' <=> May(c)
      /\ \A u \in Threads : u # t =>
            /\ Entering(u)'
            /\ Signals(u)' <=> Signals(u)
            /\ \A c : WaitsFor(u, c)' <=> WaitsFor(u, c)
    BY <1>2, <1>4, RwInCall
<1>6. pc[t] \in {"leave to read", "leave"}
    <2>1. stage[t] = "signal"
        BY <1>2 DEF InCall
    <2>2. StageFits(t)
        BY <1>1 DEF RwThread
    <2> QED BY <2>1, <2>2 DEF StageFits
<1>7. Entering(t)' /\ Knows(t)'
    <2>1. ~QueuesAt(t, "mutex")'
        BY <1>3, <1>4 DEF RwNames
    <2> QED BY <1>5, <1>6, <2>1 DEF Entering, Knows
<1>8. /\ Signals(t)' <=> Signals(t)
      /\ \A c : WaitsFor(t, c)' <=> WaitsFor(t, c)
    BY <1>2, <1>5 DEF InCall, Signals, WaitsFor
<1>9. SignalsCounted' /\ \A c \in Conds : WaitingCounted(c)'
    BY <1>1, <1>2, <1>5, <1>8, SignalsSame, WaitingSame
<1>10. pc' = pc
    BY <1>2 DEF InCall
<1>11. \A c \in Conds : FreeKnows(c)'
    BY <1>1, <1>4, <1>5 DEF FreeKnows, RwNames
<1>12. \A u \in Threads : u # t => Knows(u)'
    BY <1>1, <1>4, <1>5, <1>10 DEF Knows, RwThread
<1>13. RwTypes'
    BY <1>1, <1>2 DEF RwTypes
<1> QED BY <1>4, <1>5, <1>7, <1>9, <1>11, <1>12, <1>13 DEF RwInv, RwThread

(* MonSignal() returns.                                                      *)
LEMMA RwSignalReturns ==
    ASSUME NEW t \in Threads, RwInv, Rw!SignalReturns(t),
           UNCHANGED <<numReaders, busyWriting, pc>>
    PROVE  RwInv'
<1>1. /\ RwTypes /\ UnitInv /\ SignalsCounted
      /\ \A u \in Threads : RwThread(u)
      /\ \A c \in Conds : FreeKnows(c) /\ WaitingCounted(c)
    BY DEF RwInv
<1>2. /\ InCall(t, "urgent", "inside") /\ semaphore' = semaphore
      /\ monList' = monList /\ urgentNum' = urgentNum - 1
    BY DEF Rw!SignalReturns, Rw!At, Rw!Becomes, InCall
<1>3. /\ stage[t] = "urgent" /\ on' = on /\ pc' = pc
      /\ stage' = [stage EXCEPT ![t] = "inside"]
    BY <1>2 DEF InCall
<1>4. \A r \in RwNames : ~QueuesAt(t, r)
    BY <1>1, <1>2, RwGoesOn DEF InCall
<1>5. Owner(t)
    BY <1>3, <1>4 DEF Owner, RwNames
<1>6. /\ UnitInv'
      /\ \A u \in Threads : Owner(u)' <=> Owner(u)
      /\ \A u, r : QueuesAt(u, r)' <=> QueuesAt(u, r)
      /\ \A r : Free(r)' <=> Free(r)
    BY <1>1, <1>2, <1>3, <1>4, <1>5, KeepsTheUnit
<1>7. /\ stage'[t] = "inside" /\ pc'[t] = pc[t] /\ on'[t] = on[t]
      /\ \A u \in Threads : StageFits(u)'
      /\ Counted' /\ \A c : May(c)' <=> May(c)
      /\ \A u \in Threads : u # t =>
            /\ Entering(u)'
            /\ Signals(u)' <=> Signals(u)
            /\ \A c : WaitsFor(u, c)' <=> WaitsFor(u, c)
    <2>1. \A u \in Threads, r \in RwNames :
              QueuesAt(u, r)' => QueuesAt(u, r) \/ u = t
        BY <1>6
    <2> QED BY <1>2, <2>1, RwInCall
<1>8. Entering(t)' /\ \A u \in Threads : Knows(u)'
    <2>1. ~QueuesAt(t, "mutex")'
        BY <1>4, <1>6 DEF RwNames
    <2> QED BY <1>1, <1>3, <1>6, <1>7, <2>1 DEF Entering, Knows, RwThread
<1>9. /\ Signals(t) /\ ~Signals(t)'
      /\ \A c : WaitsFor(t, c)' <=> WaitsFor(t, c)
    BY <1>3, <1>7 DEF Signals, WaitsFor
<1>10. \A c \in Conds : WaitingCounted(c)' /\ FreeKnows(c)'
    <2>1. \A c \in Conds : WaitingCounted(c)'
        BY <1>1, <1>2, <1>7, <1>9, WaitingSame
    <2> QED BY <1>1, <1>6, <1>7, <2>1 DEF FreeKnows
<1>11. SignalsCounted' /\ urgentNum' \in Nat
    <2>1. \A u : u \in Signallers' <=> u \in Signallers /\ u # t
        <3>1. \A u \in Threads : Signals(u)' <=> Signals(u) /\ u # t
            BY <1>7, <1>9
        <3> QED BY <3>1 DEF Signallers
    <2>2. t \in Signallers
        BY <1>9 DEF Signallers
    <2>3. IsFiniteSet(Signallers)
        BY RwFinite
    <2>4. Cardinality(Signallers') = Cardinality(Signallers) - 1
        BY <2>1, <2>2, <2>3, FewerSignals
    <2>5. Cardinality(Signallers) - 1 \in Nat
        BY <2>2, <2>3, SomeoneIn
    <2>6. urgentNum = Cardinality(Signallers)
        BY <1>1 DEF SignalsCounted
    <2> QED BY <1>2, <2>4, <2>5, <2>6 DEF SignalsCounted
<1>12. RwTypes'
    BY <1>1, <1>2, <1>3, <1>7, <1>11 DEF RwTypes, InCall
<1> QED BY <1>6, <1>7, <1>8, <1>10, <1>11, <1>12 DEF RwInv, RwThread

LEMMA StaysBy ==
    ASSUME NEW t \in Threads, NEW from, NEW to, Rw!Inside(t), pc[t] = from,
           UNCHANGED Rw!monitor, Rw!Go(t, to),
           to \notin {"sleep", "reading", "writing"},
           IF t \in Readers THEN to \in Reads ELSE to \in Writes
    PROVE  Stays(t, from, to)
BY DEF Stays, Rw!monitor, Rw!Go

LEMMA RwStartRead ==
    ASSUME NEW t \in Threads, t \in Readers, RwInv, Rw!StartRead(t)
    PROVE  RwInv'
<1>1. /\ pc[t] = "start read" /\ Rw!Inside(t)
      /\ Rw!Go(t, "may read") /\ UNCHANGED Rw!shared
      /\ "OKtoRead" \in Conds
    BY DEF Rw!StartRead, Rw!Runs, Conds
<1>2. CASE busyWriting
    <2>1. Rw!MonWait(t, "OKtoRead")
        BY <1>2 DEF Rw!StartRead
    <2> QED BY <1>1, <2>1, RwWaits
<1>3. CASE ~busyWriting
    <2>1. Stays(t, "start read", "may read")
        BY <1>1, <1>3, StaysBy DEF Rw!StartRead, Reads
    <2> QED BY <1>1, <1>3, <2>1, RwGoes DEF Rw!shared
<1> QED BY <1>2, <1>3

LEMMA RwStartWrite ==
    ASSUME NEW t \in Threads, t \notin Readers, RwInv, Rw!StartWrite(t)
    PROVE  RwInv'
<1>1. /\ pc[t] = "start write" /\ Rw!Inside(t)
      /\ Rw!Go(t, "may write") /\ UNCHANGED Rw!shared
      /\ "OKtoWrite" \in Conds
    BY DEF Rw!StartWrite, Rw!Runs, Conds
<1>2. CASE numReaders # 0 \/ busyWriting
    <2>1. Rw!MonWait(t, "OKtoWrite")
        BY <1>2 DEF Rw!StartWrite
    <2> QED BY <1>1, <2>1, RwWaits
<1>3. CASE ~(numReaders # 0 \/ busyWriting)
    <2>1. Stays(t, "start write", "may write")
        BY <1>1, <1>3, StaysBy DEF Rw!StartWrite, Writes
    <2> QED BY <1>1, <1>3, <2>1, RwGoes DEF Rw!shared
<1> QED BY <1>2, <1>3

LEMMA RwSignal ==
    ASSUME NEW t \in Threads, NEW from, NEW c, NEW to, RwInv,
           Rw!Signal(t, from, c, to),
           \/ /\ from = "signal reader" /\ to = "leave to read"
              /\ c = "OKtoRead" /\ t \in Readers
           \/ /\ from = "signal writer" /\ to = "leave"
              /\ c = "OKtoWrite" /\ t \in Readers
           \/ /\ from = "signal readers" /\ to = "leave"
              /\ c = "OKtoRead" /\ t \notin Readers
    PROVE  RwInv'
<1>1. /\ pc[t] = from /\ Rw!Inside(t) /\ c \in Conds
      /\ Rw!Go(t, to) /\ UNCHANGED Rw!shared
    BY DEF Rw!Signal, Conds
<1>2. CASE Rw!MonSignal(t, c)
    BY <1>1, <1>2, RwSignals
<1>3. CASE UNCHANGED Rw!monitor
    <2>1. Stays(t, from, to)
        BY <1>1, <1>3, StaysBy DEF Reads, Writes
    <2>2. numReaders' = numReaders /\ busyWriting' = busyWriting
        BY <1>1 DEF Rw!shared
    <2> QED BY <2>1, <2>2, RwGoes
<1> QED BY <1>2, <1>3 DEF Rw!Signal

LEMMA RwReaderSteps ==
    ASSUME NEW t \in Threads, t \in Readers, RwInv, Rw!ReaderSteps(t)
    PROVE  RwInv'
<1>1. CASE Rw!StartRead(t)
    BY <1>1, RwStartRead
<1>2. CASE Rw!CountReader(t)
    <2>1. /\ Rw!Inside(t) /\ pc[t] = "may read" /\ Rw!Go(t, "signal reader")
          /\ UNCHANGED Rw!monitor /\ busyWriting' = busyWriting
          /\ numReaders' = numReaders + 1
        BY <1>2 DEF Rw!CountReader, Rw!Runs
    <2>2. Stays(t, "may read", "signal reader")
        BY <2>1, StaysBy DEF Reads
    <2> QED BY <2>1, <2>2, RwCountReader
<1>3. CASE Rw!Signal(t, "signal reader", "OKtoRead", "leave to read")
    BY <1>3, RwSignal
<1>4. CASE Rw!Leave(t, "leave to read", "reading")
    BY <1>4, RwLeave
<1>5. CASE Rw!Enter(t, "reading", "stop read")
    BY <1>5, RwEnter
<1>6. CASE Rw!StopRead(t)
    <2> DEFINE to == IF numReaders = 1 THEN "signal writer" ELSE "leave"
    <2>1. /\ Rw!Inside(t) /\ pc[t] = "stop read" /\ Rw!Go(t, to)
          /\ UNCHANGED Rw!monitor /\ busyWriting' = busyWriting
          /\ numReaders' = numReaders - 1
        BY <1>6 DEF Rw!StopRead, Rw!Runs
    <2>2. to \in Reads /\ to \notin {"sleep", "reading", "writing"}
        BY DEF Reads
    <2>3. to = IF numReaders = 1 THEN "signal writer" ELSE "leave"
        OBVIOUS
    <2> HIDE DEF to
    <2>4. Stays(t, "stop read", to)
        BY <2>1, <2>2, StaysBy
    <2> QED BY <2>1, <2>3, <2>4, RwStopRead
<1>7. CASE Rw!Signal(t, "signal writer", "OKtoWrite", "leave")
    BY <1>7, RwSignal
<1>8. CASE Rw!Leave(t, "leave", "sleep")
    BY <1>8, RwLeave
<1> QED BY <1>1, <1>2, <1>3, <1>4, <1>5, <1>6, <1>7, <1>8 DEF Rw!ReaderSteps

LEMMA RwWriterSteps ==
    ASSUME NEW t \in Threads, t \in Writers, RwInv, Rw!WriterSteps(t)
    PROVE  RwInv'
<1>0. t \notin Readers
    BY RwSizes
<1>1. CASE Rw!StartWrite(t)
    BY <1>0, <1>1, RwStartWrite
<1>2. CASE Rw!SetBusy(t)
    <2>1. /\ Rw!Inside(t) /\ pc[t] = "may write" /\ Rw!Go(t, "leave to write")
          /\ UNCHANGED Rw!monitor /\ busyWriting' = TRUE
          /\ numReaders' = numReaders
        BY <1>2 DEF Rw!SetBusy, Rw!Runs
    <2>2. Stays(t, "may write", "leave to write")
        BY <1>0, <2>1, StaysBy DEF Writes
    <2> QED BY <2>1, <2>2, RwSetBusy
<1>3. CASE Rw!Leave(t, "leave to write", "writing")
    BY <1>0, <1>3, RwLeave
<1>4. CASE Rw!Enter(t, "writing", "stop write")
    BY <1>0, <1>4, RwEnter
<1>5. CASE Rw!StopWrite(t)
    <2>1. /\ Rw!Inside(t) /\ pc[t] = "stop write" /\ Rw!Go(t, "signal readers")
          /\ UNCHANGED Rw!monitor /\ busyWriting' = FALSE
          /\ numReaders' = numReaders
        BY <1>5 DEF Rw!StopWrite, Rw!Runs
    <2>2. Stays(t, "stop write", "signal readers")
        BY <1>0, <2>1, StaysBy DEF Writes
    <2> QED BY <2>1, <2>2, RwStopWrite
<1>6. CASE Rw!Signal(t, "signal readers", "OKtoRead", "leave")
    BY <1>0, <1>6, RwSignal
<1>7. CASE Rw!Leave(t, "leave", "sleep")
    BY <1>7, RwLeave
<1> QED BY <1>1, <1>2, <1>3, <1>4, <1>5, <1>6, <1>7 DEF Rw!WriterSteps

LEMMA RwNext == RwInv /\ Rw!Next => RwInv'
<1> SUFFICES ASSUME RwInv, NEW t \in Threads, Rw!Step(t) PROVE RwInv'
    BY DEF Rw!Next, Threads
<1>1. CASE Rw!Start(t)
    <2>1. CASE t \in Readers
        <3>1. Rw!Enter(t, "sleep", "start read")
            BY <1>1, <2>1 DEF Rw!Start
        <3> QED BY <2>1, <3>1, RwEnter
    <2>2. CASE t \notin Readers
        <3>1. Rw!Enter(t, "sleep", "start write")
            BY <1>1, <2>2 DEF Rw!Start
        <3> QED BY <2>2, <3>1, RwEnter
    <2> QED BY <2>1, <2>2
<1>2. CASE Rw!InMonitor(t)
    <2>1. UNCHANGED <<numReaders, busyWriting, pc>>
        BY <1>2 DEF Rw!InMonitor, Rw!shared
    <2> QED BY <1>2, <2>1, RwWaitP, RwWaitReturns, RwSignalP, RwSignalReturns
            DEF Rw!InMonitor, Rw!Goes
<1> QED BY <1>1, <1>2, RwReaderSteps, RwWriterSteps DEF Rw!Step

LEMMA RwStutter ==
    ASSUME RwInv, UNCHANGED rwVars
    PROVE  RwInv'
<1>1. /\ RwTypes /\ UnitInv /\ Counted /\ SignalsCounted
      /\ \A u \in Threads : RwThread(u)
      /\ \A c \in Conds : FreeKnows(c) /\ WaitingCounted(c)
    BY DEF RwInv
<1>2. /\ semaphore' = semaphore /\ monList' = monList
      /\ urgentNum' = urgentNum /\ stage' = stage /\ on' = on
      /\ numReaders' = numReaders /\ busyWriting' = busyWriting /\ pc' = pc
    BY DEF rwVars
<1>3. /\ UnitInv'
      /\ \A u \in Threads : Owner(u)' <=> Owner(u)
      /\ \A u, r : QueuesAt(u, r)' <=> QueuesAt(u, r)
      /\ \A r : Free(r)' <=> Free(r)
    BY <1>1, <1>2, UnitSame
<1>4. /\ \A u \in Threads : /\ ReadIn(u)' <=> ReadIn(u)
                            /\ WriteIn(u)' <=> WriteIn(u)
                            /\ Signals(u)' <=> Signals(u)
                            /\ \A c : WaitsFor(u, c)' <=> WaitsFor(u, c)
      /\ \A c : May(c)' <=> May(c)
    BY <1>2 DEF ReadIn, WriteIn, Signals, WaitsFor, May
<1>5. Counted' /\ SignalsCounted' /\ \A c \in Conds : WaitingCounted(c)'
    BY <1>1, <1>2, <1>4, CountedSame, SignalsSame, WaitingSame
<1>6. \A u \in Threads : RwThread(u)'
    <2> TAKE u \in Threads
    <2>1. StageFits(u)'
        BY <1>1, <1>2 DEF RwThread, StageFits
    <2>2. Entering(u)' /\ Knows(u)'
        BY <1>1, <1>2, <1>3, <1>4 DEF RwThread, Entering, Knows
    <2> QED BY <2>1, <2>2 DEF RwThread
<1>7. \A c \in Conds : FreeKnows(c)'
    BY <1>1, <1>3, <1>4 DEF FreeKnows
<1>8. RwTypes'
    BY <1>1, <1>2 DEF RwTypes
<1> QED BY <1>3, <1>5, <1>6, <1>7, <1>8 DEF RwInv

LEMMA RwInductive == RwInv /\ [RttNext]_rttVars => RwInv'
BY RwNext, RwStutter
   DEF RttNext, rttVars, RwStep, PhilStep, ChatStep

LEMMA RwInit == Rw!Init => RwInv
<1> SUFFICES ASSUME Rw!Init PROVE RwInv
    OBVIOUS
<1>1. /\ semaphore = [s \in RwNames |->
             [count |-> IF s = "mutex" THEN 1 ELSE 0, queue |-> <<>>]]
      /\ monList = [c \in Conds |-> 0] /\ urgentNum = 0
      /\ stage = [t \in Threads |-> "out"]
      /\ on = [t \in Threads |-> "OKtoRead"]
      /\ numReaders = 0 /\ busyWriting = FALSE
      /\ pc = [t \in Threads |-> "sleep"]
    BY DEF Rw!Init, Rw!MonInit, Rw!NewSem, RwNames, Conds, Threads
<1>2. RwTypes
    BY <1>1 DEF RwTypes, Reads
<1>3. UnitTypes
    BY <1>1 DEF UnitTypes, Semaphores, Stages, Conds
<1>4. /\ \A s \in RwNames : OnceEach(semaphore[s].queue)
      /\ \A t, s : s \in RwNames => ~QueuesAt(t, s)
      /\ \A s \in RwNames : Free(s) <=> s = "mutex"
      /\ \A t \in Threads : stage[t] = "out" /\ pc[t] = "sleep"
    BY <1>1 DEF OnceEach, QueuesAt, Queued, Free
<1>5. \A t \in Threads : ~Owner(t)
    BY <1>4 DEF Owner
<1>6. UnitInv
    <2>1. OneOwner /\ OneFree /\ OwnedOrFree
        BY <1>4, <1>5 DEF OneOwner, OneFree, OwnedOrFree, RwNames
    <2>2. \A s \in RwNames : UnitQueue(s)
        BY <1>4 DEF UnitQueue
    <2>3. \A t \in Threads : AtItsP(t)
        BY <1>4 DEF AtItsP, RwNames
    <2> QED BY <1>3, <2>1, <2>2, <2>3 DEF UnitInv
<1>7. /\ ReadersIn = {} /\ Signallers = {} /\ \A c : Waiters(c) = {}
      /\ \A t \in Threads : ~WriteIn(t)
    BY <1>4 DEF ReadersIn, Signallers, Waiters, ReadIn, WriteIn, Signals,
                WaitsFor
<1>8. Counted /\ SignalsCounted /\ \A c \in Conds : WaitingCounted(c)
    BY <1>1, <1>7, FS_EmptySet
       DEF Counted, SignalsCounted, WaitingCounted, OneWriter
<1>9. \A c \in Conds : FreeKnows(c)
    BY <1>4 DEF FreeKnows, RwNames, Conds
<1>10. \A t \in Threads : RwThread(t)
    BY <1>4, <1>5 DEF RwThread, StageFits, Entering, Knows, Reads, Writes,
                      RwNames
<1> QED BY <1>2, <1>6, <1>8, <1>9, <1>10 DEF RwInv

(* From the inductive invariant to what the runs check.                      *)
LEMMA OwnersAre ==
    ASSUME RwInv, NEW t \in Threads
    PROVE  Owner(t) <=> \E s \in {"inside", "woken", "urgent"} : Rw!At(t, s)
<1>1. UnitInv
    BY DEF RwInv
<1>2. Rw!Blocked(t) <=> \E s \in RwNames : QueuesAt(t, s)
    BY <1>1 DEF Rw!Blocked, QueuesAt, Queued, UnitInv, UnitTypes, Semaphores
<1>3. AtItsP(t) /\ on[t] \in Conds
    BY <1>1 DEF UnitInv, UnitTypes
<1>4. stage[t] = "inside" => (Rw!Blocked(t) <=> QueuesAt(t, "mutex"))
    BY <1>2, <1>3 DEF AtItsP, RwNames
<1>5. stage[t] = "urgent" => (Rw!Blocked(t) <=> QueuesAt(t, "urgent"))
    BY <1>2, <1>3 DEF AtItsP, RwNames
<1>6. stage[t] = "woken" => (Rw!Blocked(t) <=> QueuesAt(t, on[t]))
    BY <1>2, <1>3 DEF AtItsP, RwNames
<1> QED BY <1>4, <1>5, <1>6 DEF Owner, Rw!At

LEMMA RwTypeOK == RwInv => Rw!TypeOK
<1> SUFFICES ASSUME RwInv PROVE Rw!TypeOK
    OBVIOUS
<1>1. /\ RwTypes /\ UnitTypes /\ Counted /\ SignalsCounted
      /\ \A c \in Conds : WaitingCounted(c)
    BY DEF RwInv, UnitInv
<1>2. /\ \A S : Rw!Cardinality(S) = Cardinality(S)
      /\ Threads = Readers \cup Writers /\ Conds = {"OKtoRead", "OKtoWrite"}
    BY DEF Rw!Cardinality, Cardinality, Threads, Conds
<1>3. /\ Cardinality(Threads) \in Nat /\ Cardinality(Readers) \in Nat
      /\ IsFiniteSet(Threads) /\ IsFiniteSet(Readers)
    BY RwSizes, FS_CardinalityType
<1>4. \A c \in Conds : Cardinality(Waiters(c)) \in 0..Cardinality(Threads)
    <2> TAKE c \in Conds
    <2>1. Waiters(c) \subseteq Threads
        BY DEF Waiters
    <2>2. /\ Cardinality(Waiters(c)) <= Cardinality(Threads)
          /\ Cardinality(Waiters(c)) \in Nat
        BY <1>3, <2>1, FS_Subset, FS_CardinalityType
    <2> QED BY <1>3, <2>2
<1>5. Cardinality(Signallers) \in 0..Cardinality(Threads)
    <2>1. Signallers \subseteq Threads
        BY DEF Signallers
    <2>2. /\ Cardinality(Signallers) <= Cardinality(Threads)
          /\ Cardinality(Signallers) \in Nat
        BY <1>3, <2>1, FS_Subset, FS_CardinalityType
    <2> QED BY <1>3, <2>2
<1>6. Cardinality(ReadersIn) \in 0..Cardinality(Readers)
    <2>1. ReadersIn \subseteq Readers
        BY DEF ReadersIn, ReadIn
    <2>2. /\ Cardinality(ReadersIn) <= Cardinality(Readers)
          /\ Cardinality(ReadersIn) \in Nat
        BY <1>3, <2>1, FS_Subset, FS_CardinalityType
    <2> QED BY <1>3, <2>2
<1>7. \A s \in DOMAIN semaphore : /\ semaphore[s].count \in 0..1
                                  /\ semaphore[s].queue \in Seq(Threads)
    BY <1>1 DEF UnitTypes, Semaphores
<1>8. monList \in [Conds -> 0..Cardinality(Threads)]
    <2>1. \A c \in Conds : monList[c] \in 0..Cardinality(Threads)
        BY <1>1, <1>4 DEF WaitingCounted
    <2>2. monList = [c \in Conds |-> monList[c]]
        BY <1>1 DEF RwTypes
    <2> QED BY <2>1, <2>2
<1>9. urgentNum \in 0..Cardinality(Threads) /\ on \in [Threads -> Conds]
    BY <1>1, <1>5 DEF SignalsCounted, UnitTypes
<1>10. numReaders \in 0..Cardinality(Readers) /\ busyWriting \in BOOLEAN
    BY <1>1, <1>6 DEF Counted, RwTypes
<1> QED BY <1>2, <1>7, <1>8, <1>9, <1>10 DEF Rw!TypeOK, Rw!MonitorTypeOK

LEMMA RwOneUnit == RwInv => Rw!OneUnit
<1> SUFFICES ASSUME RwInv PROVE Rw!OneUnit
    OBVIOUS
<1>1. UnitTypes /\ OneOwner /\ OneFree /\ OwnedOrFree
    BY DEF RwInv, UnitInv
<1> DEFINE has == {t \in Threads : Owner(t)}
           there == {s \in RwNames : Free(s)}
<1>2. /\ \A S : Rw!Cardinality(S) = Cardinality(S)
      /\ Threads = Readers \cup Writers
    BY DEF Rw!Cardinality, Cardinality, Threads
<1>3. Rw!Owners = has
    BY <1>2, OwnersAre DEF Rw!Owners
<1>4. {s \in DOMAIN semaphore : semaphore[s].count > 0} = there
    <2>1. DOMAIN semaphore = RwNames
        BY <1>1 DEF UnitTypes, Semaphores
    <2>2. \A s \in RwNames : semaphore[s].count > 0 <=> Free(s)
        BY <1>1 DEF UnitTypes, Free
    <2> QED BY <2>1, <2>2
<1>5. Cardinality(has) + Cardinality(there) = 1
    <2>1. CASE \E t \in Threads : Owner(t)
        <3>1. PICK t \in Threads : Owner(t)
            BY <2>1
        <3>2. has = {t} /\ there = {}
            BY <1>1, <3>1 DEF OneOwner, OwnedOrFree
        <3>3. Cardinality({t}) = 1 /\ Cardinality({}) = 0
            BY FS_Singleton, FS_EmptySet
        <3>4. Cardinality(has) = 1 /\ Cardinality(there) = 0
            BY <3>2, <3>3
        <3> HIDE DEF has, there
        <3> QED BY <3>4
    <2>2. CASE ~ \E t \in Threads : Owner(t)
        <3>1. PICK s \in RwNames : Free(s)
            BY <1>1, <2>2 DEF OwnedOrFree
        <3>2. has = {} /\ there = {s}
            BY <1>1, <2>2, <3>1 DEF OneFree
        <3>3. Cardinality({s}) = 1 /\ Cardinality({}) = 0
            BY FS_Singleton, FS_EmptySet
        <3>4. Cardinality(has) = 0 /\ Cardinality(there) = 1
            BY <3>2, <3>3
        <3> HIDE DEF has, there
        <3> QED BY <3>4
    <2> QED BY <2>1, <2>2
<1> HIDE DEF has, there
<1> QED BY <1>2, <1>3, <1>4, <1>5 DEF Rw!OneUnit

LEMMA RwCountsSound == RwInv => Rw!UrgentCounted /\ Rw!WaitersCounted
<1> SUFFICES ASSUME RwInv PROVE Rw!UrgentCounted /\ Rw!WaitersCounted
    OBVIOUS
<1>1. SignalsCounted /\ \A c \in Conds : WaitingCounted(c)
    BY DEF RwInv
<1>2. /\ \A S : Rw!Cardinality(S) = Cardinality(S)
      /\ Threads = Readers \cup Writers /\ Conds = {"OKtoRead", "OKtoWrite"}
    BY DEF Rw!Cardinality, Cardinality, Threads, Conds
<1>3. Signallers = {t \in Threads : stage[t] \in {"signal", "urgent"}}
    BY DEF Signallers, Signals
<1>4. \A c : Waiters(c) = {t \in Threads : stage[t] \in {"wait", "woken"}
                                           /\ on[t] = c}
    BY DEF Waiters, WaitsFor
<1>5. Rw!UrgentCounted
    BY <1>1, <1>2, <1>3 DEF Rw!UrgentCounted, SignalsCounted
<1>6. Rw!WaitersCounted
    BY <1>1, <1>2, <1>4 DEF Rw!WaitersCounted, WaitingCounted
<1> QED BY <1>5, <1>6

LEMMA RwReadersOrWriter == RwInv => Rw!ReadersOrWriter
<1> SUFFICES ASSUME RwInv PROVE Rw!ReadersOrWriter
    OBVIOUS
<1>1. Counted /\ IsFiniteSet(ReadersIn)
    BY RwFinite DEF RwInv
<1>2. \A S : Rw!Cardinality(S) = Cardinality(S)
    BY DEF Rw!Cardinality, Cardinality
<1>3. \A t \in Rw!Writing : t \in Threads /\ WriteIn(t)
    BY DEF Rw!Writing, WriteIn, Threads
<1>4. \A t \in Rw!Reading : t \in ReadersIn
    BY DEF Rw!Reading, ReadersIn, ReadIn, Threads
<1>5. Cardinality(Rw!Writing) <= 1
    <2>1. CASE Rw!Writing = {}
        <3>1. Cardinality({}) = 0
            BY FS_EmptySet
        <3> QED BY <2>1, <3>1
    <2>2. CASE Rw!Writing # {}
        <3>1. PICK t \in Rw!Writing : TRUE
            BY <2>2
        <3>2. Rw!Writing = {t}
            BY <1>1, <1>3, <3>1 DEF Counted, OneWriter
        <3>3. Cardinality({t}) = 1
            BY FS_Singleton
        <3> QED BY <3>2, <3>3
    <2> QED BY <2>1, <2>2
<1>6. Rw!Writing # {} => Rw!Reading = {}
    <2>1. Rw!Writing # {} => numReaders = 0
        BY <1>1, <1>3 DEF Counted
    <2>2. numReaders = 0 => ReadersIn = {}
        BY <1>1, FS_EmptySet DEF Counted
    <2> QED BY <1>4, <2>1, <2>2
<1> QED BY <1>2, <1>5, <1>6 DEF Rw!ReadersOrWriter

LEMMA RwCountersAgree == RwInv => Rw!CountersAgree
<1> SUFFICES ASSUME RwInv, semaphore["mutex"].count = 1
             PROVE  /\ numReaders = Rw!Cardinality(Rw!Reading)
                    /\ busyWriting <=> Rw!Writing # {}
    BY DEF Rw!CountersAgree
<1>1. Counted /\ UnitInv /\ \A t \in Threads : StageFits(t)
    BY DEF RwInv, RwThread
<1>2. Free("mutex") /\ "mutex" \in RwNames
    BY DEF Free, RwNames
<1>3. \A t \in Threads : ~QueuesAt(t, "mutex") /\ ~Owner(t)
    BY <1>1, <1>2 DEF UnitInv, UnitQueue, OwnedOrFree, Free
<1>4. \A t \in Threads : stage[t] # "inside" /\ stage[t] \in Stages
    BY <1>1, <1>3 DEF Owner, UnitInv, UnitTypes
<1>5. \A t \in Threads :
          pc[t] \notin {"signal reader", "stop read", "stop write"}
    <2> TAKE t \in Threads
    <2>1. StageFits(t) /\ stage[t] \in Stages \ {"inside"}
        BY <1>1, <1>4
    <2> QED BY <2>1 DEF StageFits, Stages
<1>6. Rw!Reading = ReadersIn
    BY <1>5 DEF Rw!Reading, ReadersIn, ReadIn, Threads
<1>7. \A t : t \in Rw!Writing <=> t \in Threads /\ WriteIn(t)
    BY <1>5 DEF Rw!Writing, WriteIn, Threads
<1>8. Rw!Cardinality(ReadersIn) = Cardinality(ReadersIn)
    BY DEF Rw!Cardinality, Cardinality
<1> QED BY <1>1, <1>6, <1>7, <1>8 DEF Counted

(* RwMonitorSound: with any number of readers and writers the monitor is one *)
(* unit wherever the threads are between their P()s and V()s, and its        *)
(* counts are those of the threads that signalled and that wait.             *)
THEOREM MonitorIsOneUnit == RttSpec => []RwMonitorSound
<1>1. RttInit => RwInv
    BY RwInit DEF RttInit
<1>2. RwInv /\ [RttNext]_rttVars => RwInv'
    BY RwInductive
<1>3. RwInv => RwMonitorSound
    BY RwTypeOK, RwOneUnit, RwCountsSound DEF RwMonitorSound
<1> QED BY <1>1, <1>2, <1>3, PTL DEF RttSpec

(* ReadersOrWriter: nobody reads while a writer writes, and writers are      *)
(* alone, although a thread that waited does not look again.                 *)
THEOREM WritersAreAlone == RttSpec => []ReadersOrWriter
<1>1. RttInit => RwInv
    BY RwInit DEF RttInit
<1>2. RwInv /\ [RttNext]_rttVars => RwInv'
    BY RwInductive
<1>3. RwInv => ReadersOrWriter
    BY RwReadersOrWriter, RwCountersAgree DEF ReadersOrWriter
<1> QED BY <1>1, <1>2, <1>3, PTL DEF RttSpec

-----------------------------------------------------------------------------
(* The chat.                                                                 *)

ChatThreads == Chat!Reader \cup Chat!Writer
ChatPlaces == {"ready", "asleep", "sending", "received", "ended"}
Message == [from : ChatThreads, data : 0..MaxRead]
BufferList == [items : Seq(Chat!Buffer), curser : Int]
WayLists == [freeList : BufferList, queue : BufferList,
             curMessage : Chat!Buffer, ready : BOOLEAN]
Contents == [Chat!Buffer -> 0..MaxRead]

ChatTypes ==
    /\ exitFlag \in BOOLEAN
    /\ chatpc \in [Chat!Thread -> ChatPlaces]
    /\ mailbox \in Seq(Message)
    /\ buffers \in [Chat!Way -> WayLists]
    /\ content \in [Chat!Way -> Contents]
    /\ inHand \in [Chat!Writer -> 0..MaxRead]
    /\ read \in [Chat!Reader -> 0..MaxRead]
    /\ accepted \in [Chat!Way -> Seq(Nat)]
    /\ output \in [Chat!Way -> Seq(Nat)]

(* The server has a message of each thread at most once, and who sent one    *)
(* waits, unless the program was killed.                                     *)
Sent(m, t) == \E k \in DOMAIN m : m[k].from = t
OneEach(m) == \A j, k \in DOMAIN m : m[j].from = m[k].from => j = k
Goes(t) == chatpc[t] # "ended"
SendersWait ==
    /\ OneEach(mailbox)
    /\ \A t \in ChatThreads : Sent(mailbox, t) =>
          chatpc[t] = "sending" \/ (chatpc[t] = "ended" /\ ~Goes("server"))

(* Where the buffers of a way are: each in one place.                        *)
FreeOf(l) == l.freeList.items
QueueOf(l) == l.queue.items
OnItsWay(l, b) == ~l.ready /\ b = l.curMessage
EachInOnePlace(l) ==
    /\ OnceEach(FreeOf(l)) /\ OnceEach(QueueOf(l))
    /\ \A b : ~(Queued(b, FreeOf(l)) /\ Queued(b, QueueOf(l)))
    /\ \A b : OnItsWay(l, b) => ~Queued(b, FreeOf(l)) /\ ~Queued(b, QueueOf(l))
NoneLost(l) ==
    /\ \A b \in Chat!Buffer :
          Queued(b, FreeOf(l)) \/ Queued(b, QueueOf(l)) \/ OnItsWay(l, b)
    /\ Len(FreeOf(l)) + Len(QueueOf(l)) + (IF l.ready THEN 0 ELSE 1) = QUEUESIZE
WaySound(l, c) ==
    /\ l \in WayLists /\ c \in Contents
    /\ EachInOnePlace(l) /\ NoneLost(l)
    /\ \A b : Queued(b, QueueOf(l)) => c[b] # Chat!EOF

(* The server knows which writer waits for an answer.                        *)
ReadyWaits(t, l, m) == l.ready <=> chatpc[t] = "sending" /\ ~Sent(m, t)

(* What was queued was written, is in the writer's hand or comes next.       *)
Holding(t) ==
    IF chatpc[t] = "received" /\ inHand[t] # Chat!EOF THEN <<inHand[t]>> ELSE <<>>
InOrder(t, a, l, c) ==
    a = output[Chat!WayOf[t]] \o (Holding(t) \o Texts(QueueOf(l), c))

ChatInv ==
    /\ ChatTypes /\ SendersWait
    /\ \A w \in Chat!Way : WaySound(buffers[w], content[w])
    /\ Goes("server") =>
          \A t \in Chat!Writer : ReadyWaits(t, buffers[Chat!WayOf[t]], mailbox)
    /\ (\E u \in Chat!Thread : Goes(u)) =>
          \A t \in Chat!Writer : LET w == Chat!WayOf[t]
                            IN  InOrder(t, accepted[w], buffers[w], content[w])

LEMMA ChatSizes ==
    /\ QUEUESIZE \in Nat /\ QUEUESIZE > 0 /\ MaxRead \in Nat
    /\ Chat!Buffer = 1..QUEUESIZE /\ Chat!EOF = 0
<1>1. QUEUESIZE \in Nat /\ QUEUESIZE > 0 /\ MaxRead \in Nat
    BY RttProgramsAssumption DEF RttProgramsAssumption, Chat!SChatAssumption
<1> QED BY <1>1 DEF Chat!Buffer, Chat!EOF

LastFree(l) == FreeOf(l)[Len(FreeOf(l))]
LastQueued(l) == QueueOf(l)[Len(QueueOf(l))]

(* What the operations do to the lists of a way.                             *)
LEMMA QueuedLists ==
    ASSUME NEW l \in WayLists, Len(FreeOf(l)) # 0
    PROVE  /\ Chat!Queued(l) \in WayLists
           /\ FreeOf(Chat!Queued(l)) = ButLast(FreeOf(l))
           /\ QueueOf(Chat!Queued(l)) = <<LastFree(l)>> \o QueueOf(l)
           /\ Chat!Queued(l).ready = l.ready
           /\ Chat!Queued(l).curMessage = l.curMessage
<1> DEFINE F == l.freeList.items  Q == l.queue.items  b == F[Len(F)]
           f == [items |-> ButLast(F), curser |-> Len(F) - 1]
           q == [items |-> <<b>> \o Q, curser |-> 1]
<1>1. F \in Seq(Chat!Buffer) /\ Q \in Seq(Chat!Buffer)
    BY DEF WayLists, BufferList
<1>2. b \in Chat!Buffer /\ ButLast(F) \in Seq(Chat!Buffer) /\ Len(F) \in Nat
    BY <1>1, QueueButLast, LenProperties DEF FreeOf
<1>3. /\ <<b>> \o Q \in Seq(Chat!Buffer)
      /\ Chat!InsertAt(Q, 1, b) = <<b>> \o Q
    BY <1>1, <1>2, QueuePutFirst, InsertFirst DEF Chat!InsertAt, InsertedAt
<1>4. f \in BufferList /\ q \in BufferList
    BY <1>2, <1>3 DEF BufferList
<1>5. Chat!ListTrim(l.freeList) = f
    BY DEF Chat!ListTrim, Chat!Front, Chat!ListCount, ButLast
<1>6. Chat!ListPrepend(l.queue, Chat!Last1(l.freeList)) = q
    BY <1>3 DEF Chat!ListPrepend, Chat!PutAt, Chat!Last1, Chat!Last
<1>7. Chat!Queued(l) = [l EXCEPT !.freeList = f, !.queue = q]
    BY <1>5, <1>6 DEF Chat!Queued
<1>8. f.items = ButLast(F) /\ q.items = <<b>> \o Q
    OBVIOUS
<1> HIDE DEF f, q
<1>9. /\ Chat!Queued(l) \in WayLists
      /\ Chat!Queued(l).freeList = f /\ Chat!Queued(l).queue = q
      /\ Chat!Queued(l).ready = l.ready
      /\ Chat!Queued(l).curMessage = l.curMessage
    BY <1>4, <1>7 DEF WayLists
<1> QED BY <1>8, <1>9 DEF FreeOf, QueueOf, LastFree

LEMMA SentLists ==
    ASSUME NEW l \in WayLists
    PROVE  /\ Chat!Sent(l) \in WayLists
           /\ FreeOf(Chat!Sent(l)) = FreeOf(l)
           /\ Chat!CanSend(l) =>
                 /\ QueueOf(Chat!Sent(l)) = ButLast(QueueOf(l))
                 /\ Chat!Sent(l).ready = FALSE
                 /\ Chat!Sent(l).curMessage = LastQueued(l)
           /\ ~Chat!CanSend(l) => Chat!Sent(l) = l
           /\ Chat!CanSend(l) <=> l.ready /\ Len(QueueOf(l)) # 0
<1> DEFINE Q == l.queue.items  b == Q[Len(Q)]
           q == [items |-> ButLast(Q), curser |-> Len(Q) - 1]
<1>1. Q \in Seq(Chat!Buffer) /\ Len(Q) \in Nat
    BY LenProperties DEF WayLists, BufferList
<1>2. Chat!CanSend(l) <=> l.ready /\ Len(Q) # 0
    BY <1>1 DEF Chat!CanSend, Chat!ListCount
<1>3. CASE ~Chat!CanSend(l)
    BY <1>2, <1>3 DEF Chat!Sent, QueueOf
<1>4. CASE Chat!CanSend(l)
    <2>1. b \in Chat!Buffer /\ ButLast(Q) \in Seq(Chat!Buffer)
        BY <1>1, <1>2, <1>4, QueueButLast
    <2>2. q \in BufferList /\ q.items = ButLast(Q)
        BY <1>1, <2>1 DEF BufferList
    <2>3. Chat!ListTrim(l.queue) = q
        BY DEF Chat!ListTrim, Chat!Front, Chat!ListCount, ButLast
    <2>4. Chat!Last1(l.queue) = b
        BY DEF Chat!Last1, Chat!Last
    <2> HIDE DEF q, b
    <2>5. Chat!Sent(l) = [l EXCEPT !.curMessage = b, !.queue = q, !.ready = FALSE]
        BY <1>4, <2>3, <2>4 DEF Chat!Sent
    <2>6. /\ Chat!Sent(l) \in WayLists /\ Chat!Sent(l).freeList = l.freeList
          /\ Chat!Sent(l).queue = q /\ Chat!Sent(l).ready = FALSE
          /\ Chat!Sent(l).curMessage = b
        BY <2>1, <2>2, <2>5 DEF WayLists
    <2> QED BY <1>2, <1>4, <2>2, <2>6 DEF FreeOf, QueueOf, LastQueued, b
<1> QED BY <1>3, <1>4

LEMMA GivenBackLists ==
    ASSUME NEW l \in WayLists
    PROVE  /\ Chat!GivenBack(l) \in WayLists
           /\ FreeOf(Chat!GivenBack(l)) = Append(FreeOf(l), l.curMessage)
           /\ QueueOf(Chat!GivenBack(l)) = QueueOf(l)
           /\ Chat!GivenBack(l).ready = TRUE
<1> DEFINE F == l.freeList.items  b == l.curMessage
           f == [items |-> Append(F, b), curser |-> Len(F) + 1]
<1>1. F \in Seq(Chat!Buffer) /\ Len(F) \in Nat /\ b \in Chat!Buffer
    BY LenProperties DEF WayLists, BufferList
<1>2. Chat!InsertAt(F, Len(F) + 1, b) = Append(F, b)
    BY <1>1, InsertLast DEF Chat!InsertAt, InsertedAt
<1>3. f \in BufferList /\ f.items = Append(F, b)
    BY <1>1, AppendProperties DEF BufferList
<1>4. Chat!ListAppend(l.freeList, b) = f
    BY <1>2 DEF Chat!ListAppend, Chat!PutAt, Chat!ListCount
<1> HIDE DEF f
<1>5. Chat!GivenBack(l) = [l EXCEPT !.freeList = f, !.ready = TRUE]
    BY <1>4 DEF Chat!GivenBack
<1>6. /\ Chat!GivenBack(l) \in WayLists /\ Chat!GivenBack(l).freeList = f
      /\ Chat!GivenBack(l).queue = l.queue /\ Chat!GivenBack(l).ready = TRUE
    BY <1>3, <1>5 DEF WayLists
<1> QED BY <1>3, <1>6 DEF FreeOf, QueueOf

(* A message is queued.                                                      *)
LEMMA WayQueued ==
    ASSUME NEW l, NEW c, WaySound(l, c), Len(FreeOf(l)) # 0,
           NEW d \in 0..MaxRead, d # Chat!EOF, NEW e,
           e = [c EXCEPT ![LastFree(l)] = d]
    PROVE  /\ WaySound(Chat!Queued(l), e)
           /\ Chat!Queued(l).ready = l.ready
           /\ Texts(QueueOf(Chat!Queued(l)), e) = Append(Texts(QueueOf(l), c), d)
<1> DEFINE m == Chat!Queued(l)  F == FreeOf(l)  Q == QueueOf(l)  b == LastFree(l)
<1>1. /\ l \in WayLists /\ c \in Contents /\ EachInOnePlace(l) /\ NoneLost(l)
      /\ \A x : Queued(x, Q) => c[x] # Chat!EOF
    BY DEF WaySound
<1>2. F \in Seq(Chat!Buffer) /\ Q \in Seq(Chat!Buffer)
    BY <1>1 DEF WayLists, BufferList, FreeOf, QueueOf
<1>3. /\ m \in WayLists /\ FreeOf(m) = ButLast(F) /\ QueueOf(m) = <<b>> \o Q
      /\ m.ready = l.ready /\ m.curMessage = l.curMessage
    BY <1>1, QueuedLists
<1>4. /\ b \in Chat!Buffer /\ Queued(b, F) /\ Len(ButLast(F)) = Len(F) - 1
      /\ \A t : Queued(t, F) <=> Queued(t, ButLast(F)) \/ t = b
      /\ OnceEach(F) => OnceEach(ButLast(F)) /\ ~Queued(b, ButLast(F))
    BY <1>2, QueueButLast DEF LastFree
<1>5. /\ Len(<<b>> \o Q) = Len(Q) + 1
      /\ \A t : Queued(t, <<b>> \o Q) <=> Queued(t, Q) \/ t = b
      /\ OnceEach(Q) /\ ~Queued(b, Q) => OnceEach(<<b>> \o Q)
    BY <1>2, <1>4, QueuePutFirst
<1>6. /\ OnceEach(F) /\ OnceEach(Q) /\ ~Queued(b, Q)
      /\ \A x : ~(Queued(x, F) /\ Queued(x, Q))
      /\ \A x : OnItsWay(l, x) => ~Queued(x, F) /\ ~Queued(x, Q)
    BY <1>1, <1>4 DEF EachInOnePlace
<1> HIDE DEF m, b, F, Q
<1>7. \A x : OnItsWay(m, x) <=> OnItsWay(l, x)
    BY <1>3 DEF OnItsWay
<1>8. EachInOnePlace(m)
    BY <1>3, <1>4, <1>5, <1>6, <1>7, Zenon DEF EachInOnePlace
<1>9. NoneLost(m)
    <2>1. /\ \A x \in Chat!Buffer : Queued(x, F) \/ Queued(x, Q) \/ OnItsWay(l, x)
          /\ Len(F) + Len(Q) + (IF l.ready THEN 0 ELSE 1) = QUEUESIZE
        BY <1>1 DEF NoneLost, F, Q
    <2>2. \A x \in Chat!Buffer :
              Queued(x, FreeOf(m)) \/ Queued(x, QueueOf(m)) \/ OnItsWay(m, x)
        BY <1>3, <1>4, <1>5, <1>7, <2>1
    <2>3. Len(F) \in Nat /\ Len(Q) \in Nat
        BY <1>2, LenProperties
    <2>4. Len(FreeOf(m)) + Len(QueueOf(m)) + (IF m.ready THEN 0 ELSE 1) = QUEUESIZE
        BY <1>3, <1>4, <1>5, <2>1, <2>3
    <2> QED BY <2>2, <2>4 DEF NoneLost
<1>10. e \in Contents /\ e[b] = d /\ \A x \in Chat!Buffer : x # b => e[x] = c[x]
    BY <1>1, <1>4 DEF Contents, b
<1>11. \A x : Queued(x, Q) => x \in Chat!Buffer /\ x # b /\ e[x] = c[x]
    BY <1>2, <1>6, <1>10, QueueTyped
<1>12. \A x : Queued(x, QueueOf(m)) => e[x] # Chat!EOF
    BY <1>1, <1>3, <1>5, <1>10, <1>11 DEF Q
<1>13. Texts(QueueOf(m), e) = Append(Texts(Q, c), d)
    <2>1. AllNat(e, Chat!Buffer)
        BY <1>10, ChatSizes DEF Contents, AllNat
    <2>2. Texts(<<b>> \o Q, e) = Append(Texts(Q, e), e[b])
        <3>1. GrowsBy(Q, b, e)
            BY <1>2, <1>4, <2>1, TextsGrow
        <3> QED BY <3>1 DEF GrowsBy
    <2>3. Texts(Q, e) = Texts(Q, c)
        BY <1>2, <1>11, TextsSame
    <2> QED BY <1>3, <1>10, <2>2, <2>3
<1> QED BY <1>3, <1>8, <1>9, <1>10, <1>12, <1>13 DEF WaySound, m, Q

(* The first message of the queue is sent, if the writer is ready.           *)
LEMMA WaySent ==
    ASSUME NEW l, NEW c, WaySound(l, c)
    PROVE  /\ WaySound(Chat!Sent(l), c)
           /\ Chat!CanSend(l) =>
                 /\ Chat!Sent(l).ready = FALSE
                 /\ c[LastQueued(l)] \in 0..MaxRead /\ c[LastQueued(l)] # Chat!EOF
                 /\ Texts(QueueOf(l), c)
                        = <<c[LastQueued(l)]>> \o Texts(QueueOf(Chat!Sent(l)), c)
           /\ ~Chat!CanSend(l) => Chat!Sent(l) = l
           /\ Chat!CanSend(l) => l.ready
<1> DEFINE m == Chat!Sent(l)  F == FreeOf(l)  Q == QueueOf(l)  b == LastQueued(l)
<1>1. /\ l \in WayLists /\ c \in Contents /\ EachInOnePlace(l) /\ NoneLost(l)
      /\ \A x : Queued(x, Q) => c[x] # Chat!EOF
    BY DEF WaySound
<1>2. F \in Seq(Chat!Buffer) /\ Q \in Seq(Chat!Buffer)
    BY <1>1 DEF WayLists, BufferList, FreeOf, QueueOf
<1>3. /\ m \in WayLists /\ FreeOf(m) = F
      /\ Chat!CanSend(l) =>
            QueueOf(m) = ButLast(Q) /\ m.ready = FALSE /\ m.curMessage = b
      /\ ~Chat!CanSend(l) => m = l
      /\ Chat!CanSend(l) <=> l.ready /\ Len(Q) # 0
    BY <1>1, SentLists
<1>4. CASE ~Chat!CanSend(l)
    BY <1>3, <1>4
<1>5. CASE Chat!CanSend(l)
    <2>1. /\ b \in Chat!Buffer /\ Queued(b, Q) /\ Len(ButLast(Q)) = Len(Q) - 1
          /\ \A t : Queued(t, Q) <=> Queued(t, ButLast(Q)) \/ t = b
          /\ OnceEach(Q) => OnceEach(ButLast(Q)) /\ ~Queued(b, ButLast(Q))
        BY <1>2, <1>3, <1>5, QueueButLast DEF LastQueued
    <2>2. /\ OnceEach(F) /\ OnceEach(Q) /\ ~Queued(b, F)
          /\ \A x : ~(Queued(x, F) /\ Queued(x, Q))
        BY <1>1, <2>1 DEF EachInOnePlace
    <2>3. AllNat(c, Chat!Buffer)
        BY <1>1, ChatSizes DEF Contents, AllNat
    <2>4. Texts(Q, c) = <<c[b]>> \o Texts(ButLast(Q), c)
        BY <1>2, <1>3, <1>5, <2>3, TextsShrink DEF LastQueued
    <2>5. c[b] \in 0..MaxRead /\ c[b] # Chat!EOF
        BY <1>1, <2>1 DEF Contents
    <2> HIDE DEF m, b, F, Q
    <2>6. \A x : OnItsWay(m, x) <=> x = b
        BY <1>3, <1>5 DEF OnItsWay
    <2>7. EachInOnePlace(m)
        BY <1>3, <1>5, <2>1, <2>2, <2>6, Zenon DEF EachInOnePlace
    <2>8. NoneLost(m)
        <3>1. /\ \A x \in Chat!Buffer : Queued(x, F) \/ Queued(x, Q)
              /\ Len(F) + Len(Q) + 0 = QUEUESIZE
            BY <1>1, <1>3, <1>5 DEF NoneLost, OnItsWay, F, Q
        <3>2. \A x \in Chat!Buffer :
                  Queued(x, FreeOf(m)) \/ Queued(x, QueueOf(m)) \/ OnItsWay(m, x)
            BY <1>3, <1>5, <2>1, <2>6, <3>1
        <3>3. Len(F) \in Nat /\ Len(Q) \in Nat
            BY <1>2, LenProperties
        <3>4. Len(FreeOf(m)) + Len(QueueOf(m)) + (IF m.ready THEN 0 ELSE 1) = QUEUESIZE
            BY <1>3, <1>5, <2>1, <3>1, <3>3
        <3> QED BY <3>2, <3>4 DEF NoneLost
    <2>9. \A x : Queued(x, QueueOf(m)) => c[x] # Chat!EOF
        BY <1>1, <1>3, <1>5, <2>1 DEF Q
    <2> QED BY <1>1, <1>3, <1>5, <2>4, <2>5, <2>7, <2>8, <2>9 DEF WaySound, m, b, Q
<1> QED BY <1>4, <1>5

(* A writer gives its buffer back.                                           *)
LEMMA WayGivenBack ==
    ASSUME NEW l, NEW c, WaySound(l, c), l.ready = FALSE, NEW e,
           e = [c EXCEPT ![l.curMessage] = Chat!EOF]
    PROVE  /\ WaySound(Chat!GivenBack(l), e)
           /\ Chat!GivenBack(l).ready = TRUE
           /\ Texts(QueueOf(Chat!GivenBack(l)), e) = Texts(QueueOf(l), c)
<1> DEFINE m == Chat!GivenBack(l)  F == FreeOf(l)  Q == QueueOf(l)
           b == l.curMessage
<1>1. /\ l \in WayLists /\ c \in Contents /\ EachInOnePlace(l) /\ NoneLost(l)
      /\ \A x : Queued(x, Q) => c[x] # Chat!EOF
    BY DEF WaySound
<1>2. F \in Seq(Chat!Buffer) /\ Q \in Seq(Chat!Buffer) /\ b \in Chat!Buffer
    BY <1>1 DEF WayLists, BufferList, FreeOf, QueueOf
<1>3. /\ m \in WayLists /\ FreeOf(m) = Append(F, b) /\ QueueOf(m) = Q
      /\ m.ready = TRUE
    BY <1>1, GivenBackLists
<1>4. /\ Len(Append(F, b)) = Len(F) + 1
      /\ \A t : Queued(t, Append(F, b)) <=> Queued(t, F) \/ t = b
      /\ OnceEach(F) /\ ~Queued(b, F) => OnceEach(Append(F, b))
    BY <1>2, QueueAppend, AppendProperties
<1>5. /\ OnceEach(F) /\ OnceEach(Q) /\ ~Queued(b, F) /\ ~Queued(b, Q)
      /\ \A x : ~(Queued(x, F) /\ Queued(x, Q))
    BY <1>1 DEF EachInOnePlace, OnItsWay
<1> HIDE DEF m, F, Q
<1>6. \A x : ~OnItsWay(m, x)
    BY <1>3 DEF OnItsWay
<1>7. EachInOnePlace(m)
    BY <1>3, <1>4, <1>5, <1>6, Zenon DEF EachInOnePlace
<1>8. NoneLost(m)
    <2>1. /\ \A x \in Chat!Buffer : Queued(x, F) \/ Queued(x, Q) \/ x = b
          /\ Len(F) + Len(Q) + 1 = QUEUESIZE
        BY <1>1 DEF NoneLost, OnItsWay, F, Q
    <2>2. \A x \in Chat!Buffer :
              Queued(x, FreeOf(m)) \/ Queued(x, QueueOf(m)) \/ OnItsWay(m, x)
        BY <1>3, <1>4, <2>1
    <2>3. Len(F) \in Nat /\ Len(Q) \in Nat
        BY <1>2, LenProperties
    <2>4. Len(FreeOf(m)) + Len(QueueOf(m)) + (IF m.ready THEN 0 ELSE 1) = QUEUESIZE
        BY <1>3, <1>4, <2>1, <2>3
    <2> QED BY <2>2, <2>4 DEF NoneLost
<1>9. e \in Contents /\ \A x \in Chat!Buffer : x # b => e[x] = c[x]
    BY <1>1, <1>2, ChatSizes DEF Contents
<1>10. \A x : Queued(x, Q) => x \in Chat!Buffer /\ x # b /\ e[x] = c[x]
    BY <1>2, <1>5, <1>9, QueueTyped
<1>11. \A x : Queued(x, QueueOf(m)) => e[x] # Chat!EOF
    BY <1>1, <1>3, <1>10 DEF Q
<1>12. Texts(Q, e) = Texts(Q, c)
    <2>1. \A x : Queued(x, Q) => e[x] = c[x]
        BY <1>10
    <2> HIDE DEF b
    <2> QED BY <1>2, <2>1, TextsSame
<1> QED BY <1>3, <1>7, <1>8, <1>9, <1>11, <1>12 DEF WaySound, m, Q

LEMMA ChatNames ==
    /\ Chat!Thread = ChatThreads \cup {"server"} /\ "server" \notin ChatThreads
    /\ Chat!Reader \subseteq ChatThreads /\ Chat!Writer \subseteq ChatThreads
    /\ \A t \in Chat!Reader : t \notin Chat!Writer
    /\ \A t \in ChatThreads : Chat!WayOf[t] \in Chat!Way
    /\ \A t, u \in Chat!Writer : Chat!WayOf[t] = Chat!WayOf[u] => t = u
    /\ "consoleIn" \in Chat!Reader
BY DEF Chat!Thread, ChatThreads, Chat!Reader, Chat!Writer, Chat!WayOf, Chat!Way

(* The server receives the first message.                                    *)
LEMMA MailTaken ==
    ASSUME NEW m \in Seq(Message), OneEach(m), m # <<>>
    PROVE  /\ Head(m) \in Message /\ Tail(m) \in Seq(Message) /\ OneEach(Tail(m))
           /\ ~Sent(Tail(m), Head(m).from)
           /\ \A t : Sent(m, t) <=> Sent(Tail(m), t) \/ t = Head(m).from
<1> DEFINE r == Tail(m)
<1>1. /\ r \in Seq(Message) /\ Len(r) = Len(m) - 1 /\ Len(m) \in Nat /\ Len(m) > 0
      /\ \A k \in 1..Len(r) : r[k] = m[k + 1]
      /\ Head(m) = m[1] /\ Head(m) \in Message
    BY HeadTailProperties, LenProperties, EmptySeq
<1> HIDE DEF r
<1>2. DOMAIN m = 1..Len(m) /\ DOMAIN r = 1..(Len(m) - 1)
    BY <1>1, LenProperties
<1>3. /\ 1 \in DOMAIN m
      /\ \A k \in DOMAIN r : k + 1 \in DOMAIN m /\ r[k] = m[k + 1] /\ k + 1 # 1
      /\ \A k \in DOMAIN m : k # 1 => k - 1 \in DOMAIN r /\ m[k] = r[k - 1]
    BY <1>1, <1>2
<1>4. OneEach(r)
    <2> SUFFICES ASSUME NEW j \in DOMAIN r, NEW k \in DOMAIN r, r[j].from = r[k].from
                 PROVE  j = k
        BY DEF OneEach
    <2>1. j + 1 = k + 1
        BY <1>3 DEF OneEach
    <2> QED BY <1>2, <2>1
<1>5. ~Sent(r, m[1].from)
    BY <1>3 DEF OneEach, Sent
<1>6. \A t : Sent(m, t) <=> Sent(r, t) \/ t = m[1].from
    BY <1>3 DEF Sent
<1> QED BY <1>1, <1>4, <1>5, <1>6 DEF r

LEMMA MailSent ==
    ASSUME NEW m \in Seq(Message), OneEach(m), NEW x \in Message, ~Sent(m, x.from)
    PROVE  /\ Append(m, x) \in Seq(Message) /\ OneEach(Append(m, x))
           /\ \A t : Sent(Append(m, x), t) <=> Sent(m, t) \/ t = x.from
<1> DEFINE a == Append(m, x)  n == Len(m)
<1>1. /\ a \in Seq(Message) /\ Len(a) = n + 1 /\ n \in Nat
      /\ \A k \in 1..n : a[k] = m[k]
      /\ a[n + 1] = x
    BY AppendProperties, LenProperties
<1> HIDE DEF a
<1>2. DOMAIN m = 1..n /\ DOMAIN a = 1..(n + 1)
    BY <1>1, LenProperties
<1>3. /\ \A k \in DOMAIN a : k \in DOMAIN m \/ k = n + 1
      /\ DOMAIN m \subseteq DOMAIN a /\ n + 1 \in DOMAIN a
      /\ \A k \in DOMAIN m : a[k] = m[k]
    BY <1>1, <1>2
<1> HIDE DEF n
<1>4. OneEach(a)
    BY <1>1, <1>3 DEF OneEach, Sent
<1>5. \A t : Sent(a, t) <=> Sent(m, t) \/ t = x.from
    BY <1>1, <1>3 DEF Sent
<1> QED BY <1>1, <1>4, <1>5 DEF a

LEMMA WayTexts ==
    ASSUME NEW l, NEW c, WaySound(l, c)
    PROVE  Texts(QueueOf(l), c) \in Seq(Nat)
<1>1. QueueOf(l) \in Seq(Chat!Buffer) /\ AllNat(c, Chat!Buffer)
    BY ChatSizes DEF WaySound, WayLists, BufferList, QueueOf, Contents, AllNat
<1> QED BY <1>1, TextsTyped

(* The rest of the server's turn, from the lists as the message left them.   *)
ReadyToDispatch(lists, contents, answered) ==
    /\ answered \subseteq Chat!Reader
    /\ mailbox' \in Seq(Message) /\ OneEach(mailbox')
    /\ accepted' \in [Chat!Way -> Seq(Nat)]
    /\ \A t \in ChatThreads : Sent(mailbox', t) =>
          t \notin answered /\ chatpc[t] = "sending"
    /\ \A w \in Chat!Way : WaySound(lists[w], contents[w])
    /\ \A t \in Chat!Writer : ReadyWaits(t, lists[Chat!WayOf[t]], mailbox')
    /\ \A t \in Chat!Writer : LET w == Chat!WayOf[t]
                              IN  InOrder(t, accepted'[w], lists[w], contents[w])

LEMMA ChatDispatches ==
    ASSUME ChatTypes, NEW lists, NEW contents, NEW answered,
           contents \in [Chat!Way -> Contents],
           ReadyToDispatch(lists, contents, answered),
           Chat!Dispatch(lists, contents, answered)
    PROVE  ChatInv'
<1> DEFINE gets(t) == Chat!CanSend(lists[Chat!WayOf[t]])
<1>1. /\ answered \subseteq Chat!Reader
      /\ mailbox' \in Seq(Message) /\ OneEach(mailbox')
      /\ accepted' \in [Chat!Way -> Seq(Nat)]
      /\ \A t \in ChatThreads : Sent(mailbox', t) =>
            t \notin answered /\ chatpc[t] = "sending"
      /\ \A w \in Chat!Way : WaySound(lists[w], contents[w])
      /\ \A t \in Chat!Writer : ReadyWaits(t, lists[Chat!WayOf[t]], mailbox')
      /\ \A t \in Chat!Writer :
            InOrder(t, accepted'[Chat!WayOf[t]], lists[Chat!WayOf[t]],
                    contents[Chat!WayOf[t]])
    BY DEF ReadyToDispatch
<1>2. /\ buffers' = [w \in Chat!Way |-> Chat!Sent(lists[w])]
      /\ content' = contents
      /\ inHand' = [t \in Chat!Writer |->
                       IF gets(t) THEN contents[Chat!WayOf[t]]
                                           [LastQueued(lists[Chat!WayOf[t]])]
                       ELSE inHand[t]]
      /\ chatpc' = [t \in Chat!Thread |->
                       CASE t = "server" -> IF exitFlag THEN "ended" ELSE "asleep"
                         [] t \in answered -> "ready"
                         [] t \in Chat!Writer -> IF gets(t) THEN "received"
                                                 ELSE chatpc[t]
                         [] OTHER -> chatpc[t]]
      /\ exitFlag' = exitFlag /\ read' = read /\ output' = output
    BY DEF Chat!Dispatch, Chat!Last1, Chat!Last, LastQueued, QueueOf
<1>3. \A w \in Chat!Way :
          /\ WaySound(Chat!Sent(lists[w]), contents[w])
          /\ Chat!CanSend(lists[w]) =>
                /\ Chat!Sent(lists[w]).ready = FALSE
                /\ contents[w][LastQueued(lists[w])] \in 0..MaxRead
                /\ contents[w][LastQueued(lists[w])] # Chat!EOF
                /\ Texts(QueueOf(lists[w]), contents[w])
                       = <<contents[w][LastQueued(lists[w])]>>
                         \o Texts(QueueOf(Chat!Sent(lists[w])), contents[w])
          /\ ~Chat!CanSend(lists[w]) => Chat!Sent(lists[w]) = lists[w]
          /\ Chat!CanSend(lists[w]) => lists[w].ready
    BY <1>1, WaySent
<1>4. \A t \in Chat!Writer :
          /\ t \in Chat!Thread /\ t # "server" /\ t \notin answered
          /\ Chat!WayOf[t] \in Chat!Way
    BY <1>1, ChatNames
<1>5. \A t \in Chat!Writer : chatpc'[t] = IF gets(t) THEN "received" ELSE chatpc[t]
    BY <1>2, <1>4
<1>6. \A t \in ChatThreads : t \notin Chat!Writer =>
          chatpc'[t] = IF t \in answered THEN "ready" ELSE chatpc[t]
    BY <1>2, ChatNames
<1>7. chatpc' \in [Chat!Thread -> ChatPlaces]
    <2>1. \A t \in Chat!Thread : chatpc[t] \in ChatPlaces
        BY DEF ChatTypes
    <2>2. {"ended", "asleep", "ready", "received"} \subseteq ChatPlaces
        BY DEF ChatPlaces
    <2> HIDE DEF ChatPlaces, gets
    <2> QED BY <1>2, <2>1, <2>2
<1>8. \A t \in Chat!Writer : gets(t) => chatpc[t] = "sending" /\ ~Sent(mailbox', t)
    BY <1>1, <1>3, <1>4 DEF ReadyWaits
<1>9. ChatTypes'
    <2>1. inHand' \in [Chat!Writer -> 0..MaxRead]
        BY <1>2, <1>3, <1>4 DEF ChatTypes
    <2>2. \A w \in Chat!Way : Chat!Sent(lists[w]) \in WayLists
        BY <1>3 DEF WaySound
    <2>3. buffers' \in [Chat!Way -> WayLists]
        BY <1>2, <2>2
    <2> QED BY <1>1, <1>2, <1>7, <2>1, <2>3 DEF ChatTypes
<1> HIDE DEF gets
<1>10. SendersWait'
    <2> SUFFICES ASSUME NEW t \in ChatThreads, Sent(mailbox', t)
                 PROVE  chatpc'[t] = "sending"
        BY <1>1 DEF SendersWait
    <2>1. t \notin answered /\ chatpc[t] = "sending"
        BY <1>1
    <2>2. t \in Chat!Writer => ~gets(t)
        BY <1>8
    <2> QED BY <1>5, <1>6, <2>1, <2>2
<1>11. ASSUME NEW w \in Chat!Way PROVE WaySound(buffers'[w], content'[w])
    BY <1>2, <1>3
<1>12. ASSUME NEW t \in Chat!Writer
       PROVE  ReadyWaits(t, buffers[Chat!WayOf[t]], mailbox)'
    <2> DEFINE w == Chat!WayOf[t]
    <2>1. w \in Chat!Way /\ buffers'[w] = Chat!Sent(lists[w])
        BY <1>2, <1>4
    <2>2. CASE gets(t)
        BY <1>3, <1>5, <2>1, <2>2 DEF ReadyWaits, gets
    <2>3. CASE ~gets(t)
        BY <1>1, <1>3, <1>5, <2>1, <2>3 DEF ReadyWaits, gets
    <2> QED BY <2>2, <2>3
<1>13. ASSUME NEW t \in Chat!Writer
       PROVE  InOrder(t, accepted[Chat!WayOf[t]], buffers[Chat!WayOf[t]],
                      content[Chat!WayOf[t]])'
    <2> DEFINE w == Chat!WayOf[t]  b == contents[w][LastQueued(lists[w])]
               after == Texts(QueueOf(Chat!Sent(lists[w])), contents[w])
               before == Texts(QueueOf(lists[w]), contents[w])
    <2>1. /\ w \in Chat!Way /\ buffers'[w] = Chat!Sent(lists[w])
          /\ content'[w] = contents[w]
        BY <1>2, <1>4
    <2>2. accepted'[w] = output[w] \o (Holding(t) \o before)
        BY <1>1 DEF InOrder
    <2>3. SUFFICES accepted'[w] = output[w] \o (Holding(t)' \o after)
        BY <1>2, <2>1 DEF InOrder
    <2>4. after \in Seq(Nat) /\ before \in Seq(Nat)
        BY <1>1, <1>3, <2>1, WayTexts
    <2>5. CASE gets(t)
        <3>1. /\ b # Chat!EOF /\ inHand'[t] = b /\ chatpc'[t] = "received"
              /\ before = <<b>> \o after
            BY <1>2, <1>3, <1>5, <2>1, <2>5 DEF gets
        <3>2. chatpc[t] # "received"
            BY <1>8, <2>5
        <3>3. Holding(t) = <<>> /\ Holding(t)' = <<b>>
            BY <3>1, <3>2 DEF Holding
        <3>4. <<>> \o before = before
            BY <2>4, ConcatEmptySeq
        <3> HIDE DEF before, after, b
        <3> QED BY <2>2, <3>1, <3>3, <3>4
    <2>6. CASE ~gets(t)
        <3>1. inHand'[t] = inHand[t] /\ chatpc'[t] = chatpc[t]
            BY <1>2, <1>5, <2>6
        <3>2. Holding(t)' = Holding(t)
            BY <3>1 DEF Holding
        <3>3. after = before
            BY <1>3, <2>1, <2>6 DEF gets
        <3> QED BY <2>2, <3>2, <3>3
    <2> QED BY <2>5, <2>6
<1> QED BY <1>9, <1>10, <1>11, <1>12, <1>13, Zenon DEF ChatInv

(* What ChatInv says while the server is waiting for a message.              *)
LEMMA ServerWaits ==
    ASSUME ChatInv, chatpc["server"] = "asleep"
    PROVE  /\ ChatTypes /\ OneEach(mailbox) /\ mailbox \in Seq(Message)
           /\ content \in [Chat!Way -> Contents]
           /\ \A t \in ChatThreads :
                 Sent(mailbox, t) => chatpc[t] = "sending"
           /\ \A w \in Chat!Way : WaySound(buffers[w], content[w])
           /\ \A t \in Chat!Writer :
                 /\ ReadyWaits(t, buffers[Chat!WayOf[t]], mailbox)
                 /\ InOrder(t, accepted[Chat!WayOf[t]], buffers[Chat!WayOf[t]],
                            content[Chat!WayOf[t]])
<1>1. Goes("server") /\ "server" \in Chat!Thread
    BY DEF Goes, Chat!Thread
<1>2. content \in [Chat!Way -> Contents] /\ ChatTypes
    BY DEF ChatInv, ChatTypes
<1> QED BY <1>1, <1>2 DEF ChatInv, SendersWait, ChatTypes

LEMMA ChatNoMessage ==
    ASSUME ChatInv, Chat!NoMessage
    PROVE  ChatInv'
<1>1. /\ chatpc["server"] = "asleep" /\ mailbox' = mailbox
      /\ accepted' = accepted /\ Chat!Dispatch(buffers, content, {})
    BY DEF Chat!NoMessage
<1>2. ReadyToDispatch(buffers, content, {})
    BY <1>1, ServerWaits DEF ReadyToDispatch, ChatTypes
<1> QED BY <1>1, <1>2, ServerWaits, ChatDispatches

(* The mailbox when the server took a message.                               *)
LEMMA ServerTakes ==
    ASSUME ChatInv, NEW msg, msg \in Chat!ToSet(mailbox), Chat!RttReceive(msg)
    PROVE  /\ chatpc["server"] = "asleep" /\ msg \in Message
           /\ mailbox' \in Seq(Message) /\ OneEach(mailbox')
           /\ \A t : Sent(mailbox, t) <=> Sent(mailbox', t) \/ t = msg.from
           /\ ~Sent(mailbox', msg.from) /\ msg.from \in ChatThreads
           /\ chatpc[msg.from] = "sending"
           /\ \A t \in ChatThreads : Sent(mailbox', t) =>
                 t # msg.from /\ chatpc[t] = "sending"
<1>1. /\ chatpc["server"] = "asleep" /\ msg = Head(mailbox)
      /\ mailbox' = Tail(mailbox)
    BY DEF Chat!RttReceive
<1>2. OneEach(mailbox) /\ mailbox \in Seq(Message)
    BY <1>1, ServerWaits
<1>3. mailbox # <<>>
    BY DEF Chat!ToSet
<1>4. /\ msg \in Message /\ mailbox' \in Seq(Message) /\ OneEach(mailbox')
      /\ ~Sent(mailbox', msg.from)
      /\ \A t : Sent(mailbox, t) <=> Sent(mailbox', t) \/ t = msg.from
    BY <1>1, <1>2, <1>3, MailTaken
<1>5. msg.from \in ChatThreads
    BY <1>4 DEF Message
<1> QED BY <1>1, <1>4, <1>5, ServerWaits

LEMMA ChatDrops ==
    ASSUME ChatInv, NEW msg, msg \in Chat!ToSet(mailbox), Chat!RttReceive(msg),
           Chat!FromReaderNoBuffer(msg)
    PROVE  ChatInv'
<1>1. /\ msg.from \in Chat!Reader /\ accepted' = accepted
      /\ Chat!Dispatch(buffers, content, {})
    BY DEF Chat!FromReaderNoBuffer
<1>2. \A t \in Chat!Writer : Sent(mailbox', t) <=> Sent(mailbox, t)
    BY <1>1, ServerTakes, ChatNames
<1>3. \A t \in Chat!Writer : ReadyWaits(t, buffers[Chat!WayOf[t]], mailbox')
    BY <1>2, ServerTakes, ServerWaits DEF ReadyWaits
<1>4. ReadyToDispatch(buffers, content, {})
    BY <1>1, <1>3, ServerTakes, ServerWaits DEF ReadyToDispatch, ChatTypes
<1> QED BY <1>1, <1>4, ServerTakes, ServerWaits, ChatDispatches

LEMMA ChatQueues ==
    ASSUME ChatInv, NEW msg, msg \in Chat!ToSet(mailbox), Chat!RttReceive(msg),
           Chat!FromReader(msg)
    PROVE  ChatInv'
<1> DEFINE w == Chat!WayOf[msg.from]
           lists == [buffers EXCEPT ![w] = Chat!Queued(@)]
           text == [content[w] EXCEPT ![LastFree(buffers[w])] = msg.data]
           contents == [content EXCEPT ![w] = text]
<1>1. /\ msg.from \in Chat!Reader /\ msg.data # Chat!EOF
      /\ Len(FreeOf(buffers[w])) # 0
      /\ Chat!Dispatch(lists, contents, {msg.from})
      /\ accepted' = [accepted EXCEPT ![w] = Append(@, msg.data)]
    <2>1. /\ msg.from \in Chat!Reader /\ msg.data # Chat!EOF
          /\ Len(FreeOf(buffers[w])) # 0
        BY DEF Chat!FromReader, Chat!NoBuffer, Chat!TakesNull, Chat!ListCount,
               FreeOf
    <2>2. Chat!Last1(buffers[w].freeList) = LastFree(buffers[w])
        BY DEF Chat!Last1, Chat!Last, LastFree, FreeOf
    <2>3. [content EXCEPT ![w][Chat!Last1(buffers[w].freeList)] = msg.data]
              = contents
        BY <2>2
    <2> QED BY <2>1, <2>3 DEF Chat!FromReader
<1>2. msg.data \in 0..MaxRead /\ msg.data \in Nat /\ w \in Chat!Way
    BY <1>1, ServerTakes, ChatNames, ChatSizes DEF Message
<1>3. WaySound(buffers[w], content[w])
    BY <1>2, ServerTakes, ServerWaits
<1>4. /\ WaySound(Chat!Queued(buffers[w]), text)
      /\ Chat!Queued(buffers[w]).ready = buffers[w].ready
      /\ Texts(QueueOf(Chat!Queued(buffers[w])), text)
             = Append(Texts(QueueOf(buffers[w]), content[w]), msg.data)
    BY <1>1, <1>2, <1>3, WayQueued
<1>5. /\ buffers \in [Chat!Way -> WayLists] /\ content \in [Chat!Way -> Contents]
      /\ accepted \in [Chat!Way -> Seq(Nat)] /\ output \in [Chat!Way -> Seq(Nat)]
      /\ inHand \in [Chat!Writer -> 0..MaxRead]
    BY DEF ChatInv, ChatTypes
<1>6. /\ text \in Contents /\ lists[w] = Chat!Queued(buffers[w])
      /\ contents[w] = text /\ contents \in [Chat!Way -> Contents]
      /\ \A v \in Chat!Way : v # w => /\ lists[v] = buffers[v]
                                      /\ contents[v] = content[v]
                                      /\ accepted'[v] = accepted[v]
      /\ accepted'[w] = Append(accepted[w], msg.data)
      /\ accepted' \in [Chat!Way -> Seq(Nat)]
    <2>1. text \in Contents
        BY <1>4 DEF WaySound
    <2>2. Append(accepted[w], msg.data) \in Seq(Nat)
        BY <1>2, <1>5, AppendProperties
    <2> HIDE DEF text
    <2> QED BY <1>1, <1>2, <1>5, <2>1, <2>2
<1> HIDE DEF lists, contents, text
<1>7. ASSUME NEW v \in Chat!Way PROVE WaySound(lists[v], contents[v])
    BY <1>4, <1>6, ServerTakes, ServerWaits
<1>8. ASSUME NEW t \in Chat!Writer
      PROVE  ReadyWaits(t, lists[Chat!WayOf[t]], mailbox')
    <2>1. Sent(mailbox', t) <=> Sent(mailbox, t)
        BY <1>1, ServerTakes, ChatNames
    <2>2. Chat!WayOf[t] \in Chat!Way
        BY ChatNames
    <2>3. lists[Chat!WayOf[t]].ready = buffers[Chat!WayOf[t]].ready
        BY <1>4, <1>6, <2>2
    <2> QED BY <2>1, <2>3, ServerTakes, ServerWaits DEF ReadyWaits
<1>9. ASSUME NEW t \in Chat!Writer
      PROVE  InOrder(t, accepted'[Chat!WayOf[t]], lists[Chat!WayOf[t]],
                     contents[Chat!WayOf[t]])
    <2> DEFINE v == Chat!WayOf[t]  o == output[v]  h == Holding(t)
               q == Texts(QueueOf(buffers[v]), content[v])
    <2>1. v \in Chat!Way /\ accepted[v] = o \o (h \o q)
        BY ServerTakes, ServerWaits, ChatNames DEF InOrder
    <2>2. CASE v # w
        BY <1>6, <2>1, <2>2 DEF InOrder
    <2>3. CASE v = w
        <3>1. q \in Seq(Nat) /\ o \in Seq(Nat)
            BY <1>5, <2>1, ServerTakes, ServerWaits, WayTexts
        <3>2. h \in Seq(Nat)
            <4>1. inHand[t] \in Nat
                BY <1>5, ChatSizes
            <4>2. <<inHand[t]>> \in Seq(Nat) /\ <<>> \in Seq(Nat)
                BY <4>1
            <4> QED BY <4>2 DEF Holding
        <3>3. Texts(QueueOf(lists[v]), contents[v]) = Append(q, msg.data)
            BY <1>4, <1>6, <2>3
        <3>4. accepted'[v] = Append(o \o (h \o q), msg.data)
            BY <1>6, <2>1, <2>3
        <3> HIDE DEF o, h, q
        <3>5. h \o q \in Seq(Nat)
            BY <3>1, <3>2, ConcatProperties
        <3>6. Append(o \o (h \o q), msg.data) = o \o Append(h \o q, msg.data)
            BY <1>2, <3>1, <3>5, PutLast
        <3>7. Append(h \o q, msg.data) = h \o Append(q, msg.data)
            BY <1>2, <3>1, <3>2, PutLast
        <3> QED BY <3>3, <3>4, <3>6, <3>7 DEF InOrder, o, h
    <2> QED BY <2>2, <2>3
<1>10. ReadyToDispatch(lists, contents, {msg.from})
    BY <1>1, <1>6, <1>7, <1>8, <1>9, ServerTakes DEF ReadyToDispatch
<1>11. ChatTypes
    BY DEF ChatInv
<1> QED BY <1>1, <1>6, <1>10, <1>11, ChatDispatches

LEMMA ChatAsked ==
    ASSUME ChatInv, NEW msg, msg \in Chat!ToSet(mailbox), Chat!RttReceive(msg),
           Chat!FromWriter(msg)
    PROVE  ChatInv'
<1> DEFINE w == Chat!WayOf[msg.from]
           lists == [buffers EXCEPT ![w] = Chat!GivenBack(@)]
           text == [content[w] EXCEPT ![buffers[w].curMessage] = Chat!EOF]
           contents == [content EXCEPT ![w] = text]
<1>1. /\ msg.from \in Chat!Writer /\ accepted' = accepted
      /\ Chat!Dispatch(lists, contents, {})
    <2>1. [content EXCEPT ![w][buffers[w].curMessage] = Chat!EOF] = contents
        OBVIOUS
    <2> QED BY <2>1 DEF Chat!FromWriter
<1>2. w \in Chat!Way
    BY <1>1, ChatNames
<1>3. WaySound(buffers[w], content[w]) /\ ReadyWaits(msg.from, buffers[w], mailbox)
    BY <1>1, <1>2, ServerTakes, ServerWaits
<1>4. Sent(mailbox, msg.from)
    BY ServerTakes
<1>5. buffers[w].ready = FALSE
    <2>1. buffers[w].ready \in BOOLEAN
        BY <1>3 DEF WaySound, WayLists
    <2> QED BY <1>3, <1>4, <2>1 DEF ReadyWaits
<1>6. /\ WaySound(Chat!GivenBack(buffers[w]), text)
      /\ Chat!GivenBack(buffers[w]).ready = TRUE
      /\ Texts(QueueOf(Chat!GivenBack(buffers[w])), text)
             = Texts(QueueOf(buffers[w]), content[w])
    BY <1>3, <1>5, WayGivenBack
<1>7. buffers \in [Chat!Way -> WayLists] /\ content \in [Chat!Way -> Contents]
    BY DEF ChatInv, ChatTypes
<1>8. /\ lists[w] = Chat!GivenBack(buffers[w])
      /\ contents[w] = text /\ contents \in [Chat!Way -> Contents]
      /\ \A v \in Chat!Way :
            v # w => lists[v] = buffers[v] /\ contents[v] = content[v]
    <2>1. text \in Contents
        BY <1>6 DEF WaySound
    <2> HIDE DEF text
    <2> QED BY <1>2, <1>7, <2>1
<1> HIDE DEF lists, contents, text
<1>9. ASSUME NEW v \in Chat!Way PROVE WaySound(lists[v], contents[v])
    BY <1>6, <1>8, ServerTakes, ServerWaits
<1>10. ASSUME NEW t \in Chat!Writer
       PROVE  /\ ReadyWaits(t, lists[Chat!WayOf[t]], mailbox')
              /\ InOrder(t, accepted[Chat!WayOf[t]], lists[Chat!WayOf[t]],
                         contents[Chat!WayOf[t]])
    <2> DEFINE v == Chat!WayOf[t]
    <2>1. /\ v \in Chat!Way /\ ReadyWaits(t, buffers[v], mailbox)
          /\ InOrder(t, accepted[v], buffers[v], content[v])
        BY ServerTakes, ServerWaits, ChatNames
    <2>2. CASE t = msg.from
        <3>1. chatpc[t] = "sending" /\ ~Sent(mailbox', t)
            BY <2>2, ServerTakes
        <3> QED BY <1>6, <1>8, <2>1, <2>2, <3>1 DEF ReadyWaits, InOrder
    <2>3. CASE t # msg.from
        <3>1. v # w /\ (Sent(mailbox', t) <=> Sent(mailbox, t))
            BY <1>1, <2>3, ServerTakes, ChatNames
        <3> QED BY <1>8, <2>1, <3>1 DEF ReadyWaits
    <2> QED BY <2>2, <2>3
<1>11. ReadyToDispatch(lists, contents, {})
    BY <1>1, <1>8, <1>9, <1>10, ServerTakes, ServerWaits
       DEF ReadyToDispatch, ChatTypes
<1>12. ChatTypes
    BY DEF ChatInv
<1> QED BY <1>1, <1>8, <1>11, <1>12, ChatDispatches

LEMMA ChatCrashes ==
    ASSUME ChatInv, NEW msg, msg \in Chat!ToSet(mailbox), Chat!RttReceive(msg),
           Chat!Crash(msg)
    PROVE  ChatInv'
<1>1. /\ chatpc' = [t \in Chat!Thread |-> "ended"]
      /\ exitFlag' = exitFlag /\ buffers' = buffers /\ content' = content
      /\ inHand' = inHand /\ accepted' = accepted /\ read' = read
      /\ output' = output
    BY DEF Chat!Crash, Chat!server
<1>2. \A t \in Chat!Thread : chatpc'[t] = "ended" /\ ~Goes(t)'
    BY <1>1 DEF Goes
<1>3. mailbox' \in Seq(Message) /\ OneEach(mailbox')
    BY ServerTakes
<1>4. ChatTypes'
    <2>1. chatpc' \in [Chat!Thread -> ChatPlaces]
        BY <1>1 DEF ChatPlaces
    <2> QED BY <1>1, <1>3, <2>1 DEF ChatInv, ChatTypes
<1>5. SendersWait'
    BY <1>2, <1>3, ChatNames DEF SendersWait
<1>6. \A w \in Chat!Way : WaySound(buffers[w], content[w])'
    BY <1>1 DEF ChatInv
<1>7. ~Goes("server")'
    BY <1>2, ChatNames
<1> QED BY <1>2, <1>4, <1>5, <1>6, <1>7, Zenon DEF ChatInv

(* The last message: writers that wait go on with nothing in hand.           *)
LEMMA ChatEnds ==
    ASSUME ChatInv, NEW msg, msg \in Chat!ToSet(mailbox), Chat!RttReceive(msg),
           Chat!FromEOF(msg)
    PROVE  ChatInv'
<1> DEFINE answered(t) == buffers[Chat!WayOf[t]].ready
<1>1. /\ exitFlag' = TRUE /\ buffers' = buffers /\ content' = content
      /\ accepted' = accepted /\ read' = read /\ output' = output
      /\ inHand' = [t \in Chat!Writer |->
                       IF answered(t) THEN Chat!EOF ELSE inHand[t]]
      /\ chatpc' = [t \in Chat!Thread |->
             CASE t = "server" -> "ended"
               [] t = "consoleIn" -> "ended"
               [] t = "networkIn" /\ Chat!Waits(t) -> "ready"
               [] t \in Chat!Writer -> IF answered(t) THEN "received" ELSE chatpc[t]
               [] OTHER -> chatpc[t]]
    BY DEF Chat!FromEOF
<1>2. ChatTypes /\ \A t \in Chat!Thread : chatpc[t] \in ChatPlaces
    BY DEF ChatInv, ChatTypes
<1>3. mailbox' \in Seq(Message) /\ OneEach(mailbox')
    BY ServerTakes
<1>4. \A t \in Chat!Writer :
          /\ t \in Chat!Thread /\ t \notin {"server", "consoleIn", "networkIn"}
          /\ Chat!WayOf[t] \in Chat!Way
    BY ChatNames DEF Chat!Writer
<1>5. \A t \in Chat!Writer :
          /\ chatpc'[t] = IF answered(t) THEN "received" ELSE chatpc[t]
          /\ inHand'[t] = IF answered(t) THEN Chat!EOF ELSE inHand[t]
    BY <1>1, <1>4
<1>6. \A t \in Chat!Writer : answered(t) =>
          chatpc[t] = "sending" /\ ~Sent(mailbox', t)
    BY ServerTakes, ServerWaits DEF ReadyWaits
<1>7. chatpc'["server"] = "ended" /\ ~Goes("server")'
    BY <1>1, ChatNames DEF Goes
<1>8. Chat!Waits("networkIn") => ~Sent(mailbox', "networkIn")
    BY DEF Chat!Waits, Sent
<1>9. ChatTypes'
    <2>1. {"ended", "ready", "received"} \subseteq ChatPlaces
        BY DEF ChatPlaces
    <2>2. inHand' \in [Chat!Writer -> 0..MaxRead]
        BY <1>1, <1>2, ChatSizes DEF ChatTypes
    <2> HIDE DEF ChatPlaces, answered
    <2>3. chatpc' \in [Chat!Thread -> ChatPlaces]
        BY <1>1, <1>2, <2>1
    <2> QED BY <1>1, <1>2, <1>3, <2>2, <2>3 DEF ChatTypes
<1> HIDE DEF answered
<1>10. ASSUME NEW t \in ChatThreads, Sent(mailbox', t)
       PROVE  chatpc'[t] \in {"sending", "ended"}
    <2>1. chatpc[t] = "sending"
        BY <1>10, ServerTakes
    <2>2. CASE t \in Chat!Writer
        BY <1>5, <1>6, <1>10, <2>1, <2>2
    <2>3. CASE t \notin Chat!Writer
        <3>1. t \in Chat!Thread /\ t # "server"
            BY ChatNames
        <3>2. ~(t = "networkIn" /\ Chat!Waits(t))
            BY <1>8, <1>10
        <3> QED BY <1>1, <2>1, <2>3, <3>1, <3>2
    <2> QED BY <2>2, <2>3
<1>11. SendersWait'
    BY <1>3, <1>7, <1>10 DEF SendersWait
<1>12. \A w \in Chat!Way : WaySound(buffers[w], content[w])'
    BY <1>1 DEF ChatInv
<1>13. ASSUME NEW t \in Chat!Writer
       PROVE  InOrder(t, accepted[Chat!WayOf[t]], buffers[Chat!WayOf[t]],
                      content[Chat!WayOf[t]])'
    <2>1. InOrder(t, accepted[Chat!WayOf[t]], buffers[Chat!WayOf[t]],
                  content[Chat!WayOf[t]])
        BY ServerTakes, ServerWaits
    <2>2. Holding(t)' = Holding(t)
        <3>1. CASE answered(t)
            <4>1. chatpc[t] # "received" /\ inHand'[t] = Chat!EOF
                BY <1>5, <1>6, <3>1
            <4>2. Holding(t) = <<>> /\ Holding(t)' = <<>>
                BY <4>1 DEF Holding, Chat!EOF
            <4> QED BY <4>2
        <3>2. CASE ~answered(t)
            <4>1. chatpc'[t] = chatpc[t] /\ inHand'[t] = inHand[t]
                BY <1>5, <3>2
            <4> QED BY <4>1 DEF Holding
        <3> QED BY <3>1, <3>2
    <2> QED BY <1>1, <2>1, <2>2 DEF InOrder
<1> QED BY <1>7, <1>9, <1>11, <1>12, <1>13, Zenon DEF ChatInv

LEMMA ChatServer == ChatInv /\ Chat!Server => ChatInv'
BY ChatNoMessage, ChatEnds, ChatQueues, ChatDrops, ChatAsked, ChatCrashes, Zenon
   DEF Chat!Server

(* A thread other than the server does something, and perhaps sends: only    *)
(* its own place changes, and the lists and buffers do not.                  *)
Turns(t, to) ==
    /\ chatpc[t] \in {"ready", "received", "asleep"}
    /\ to \in {"asleep", "sending", "ended"}
    /\ chatpc' = [chatpc EXCEPT ![t] = to]
    /\ \/ mailbox' = mailbox /\ to # "sending"
       \/ /\ to = "sending"
          /\ \E d \in 0..MaxRead :
                mailbox' = Append(mailbox, [from |-> t, data |-> d])
    /\ buffers' = buffers /\ content' = content /\ inHand' = inHand
    /\ accepted' = accepted

LEMMA ChatTurns ==
    ASSUME ChatInv, NEW t \in ChatThreads, NEW to, Turns(t, to),
           exitFlag' \in BOOLEAN, read' \in [Chat!Reader -> 0..MaxRead],
           output' \in [Chat!Way -> Seq(Nat)],
           \A u \in Chat!Writer : u # t =>
               output'[Chat!WayOf[u]] = output[Chat!WayOf[u]],
           t \in Chat!Writer =>
               InOrder(t, accepted[Chat!WayOf[t]], buffers[Chat!WayOf[t]],
                       content[Chat!WayOf[t]])'
    PROVE  ChatInv'
<1>1. ChatTypes /\ SendersWait
    BY DEF ChatInv
<1>2. t \in Chat!Thread /\ t # "server" /\ Goes(t)
    BY ChatNames DEF Turns, Goes
<1>3. /\ chatpc' \in [Chat!Thread -> ChatPlaces] /\ chatpc'[t] = to
      /\ \A u \in Chat!Thread : u # t => chatpc'[u] = chatpc[u]
    <2>1. to \in ChatPlaces /\ chatpc \in [Chat!Thread -> ChatPlaces]
        BY <1>1 DEF Turns, ChatTypes, ChatPlaces
    <2> QED BY <1>2, <2>1 DEF Turns
<1>4. mailbox \in Seq(Message) /\ OneEach(mailbox) /\ ~Sent(mailbox, t)
    BY <1>1 DEF SendersWait, ChatTypes, Turns
<1>5. /\ mailbox' \in Seq(Message) /\ OneEach(mailbox')
      /\ \A u \in ChatThreads : u # t => (Sent(mailbox', u) <=> Sent(mailbox, u))
      /\ Sent(mailbox', t) <=> to = "sending"
    <2>1. CASE mailbox' = mailbox /\ to # "sending"
        BY <1>4, <2>1
    <2>2. CASE to = "sending"
        <3>1. PICK d \in 0..MaxRead :
                  mailbox' = Append(mailbox, [from |-> t, data |-> d])
            BY <2>2 DEF Turns
        <3> DEFINE x == [from |-> t, data |-> d]
        <3>2. x \in Message /\ x.from = t
            BY DEF Message
        <3> HIDE DEF x
        <3> QED BY <1>4, <2>2, <3>1, <3>2, MailSent DEF x
    <2> QED BY <2>1, <2>2 DEF Turns
<1>6. ChatTypes'
    BY <1>1, <1>3, <1>5 DEF ChatTypes, Turns
<1>7. Goes("server")' <=> Goes("server")
    BY <1>2, <1>3, ChatNames DEF Goes
<1>8. SendersWait'
    <2> SUFFICES ASSUME NEW u \in ChatThreads, Sent(mailbox', u)
                 PROVE  \/ chatpc'[u] = "sending"
                        \/ chatpc'[u] = "ended" /\ ~Goes("server")'
        BY <1>5 DEF SendersWait
    <2>1. CASE u = t
        BY <1>3, <1>5, <2>1
    <2>2. CASE u # t
        <3>1. Sent(mailbox, u) /\ chatpc'[u] = chatpc[u]
            BY <1>3, <1>5, <2>2, ChatNames
        <3> QED BY <1>1, <1>7, <3>1 DEF SendersWait
    <2> QED BY <2>1, <2>2
<1>9. \A w \in Chat!Way : WaySound(buffers[w], content[w])'
    BY DEF ChatInv, Turns
<1>10. ASSUME Goes("server")', NEW u \in Chat!Writer
       PROVE  ReadyWaits(u, buffers[Chat!WayOf[u]], mailbox)'
    <2>1. ReadyWaits(u, buffers[Chat!WayOf[u]], mailbox)
        BY <1>7, <1>10 DEF ChatInv
    <2>2. CASE u = t
        <3>1. ~buffers[Chat!WayOf[u]].ready
            BY <2>1, <2>2 DEF ReadyWaits, Turns
        <3>2. ~(chatpc'[u] = "sending" /\ ~Sent(mailbox', u))
            BY <1>3, <1>5, <2>2
        <3> QED BY <3>1, <3>2 DEF ReadyWaits, Turns
    <2>3. CASE u # t
        <3>1. chatpc'[u] = chatpc[u] /\ (Sent(mailbox', u) <=> Sent(mailbox, u))
            BY <1>3, <1>5, <2>3, ChatNames
        <3> QED BY <2>1, <3>1 DEF ReadyWaits, Turns
    <2> QED BY <2>2, <2>3
<1>11. ASSUME NEW u \in Chat!Writer
       PROVE  InOrder(u, accepted[Chat!WayOf[u]], buffers[Chat!WayOf[u]],
                      content[Chat!WayOf[u]])'
    <2>1. CASE u = t
        BY <2>1
    <2>2. CASE u # t
        <3>1. InOrder(u, accepted[Chat!WayOf[u]], buffers[Chat!WayOf[u]],
                      content[Chat!WayOf[u]])
            BY <1>2 DEF ChatInv
        <3>2. chatpc'[u] = chatpc[u]
            BY <1>3, <2>2, ChatNames
        <3>3. Holding(u)' = Holding(u)
            BY <3>2 DEF Holding, Turns
        <3> QED BY <2>2, <3>1, <3>3 DEF InOrder, Turns
    <2> QED BY <2>1, <2>2
<1> QED BY <1>6, <1>8, <1>9, <1>10, <1>11, Zenon DEF ChatInv

LEMMA ChatReader ==
    ASSUME ChatInv, NEW r \in Chat!Reader,
           \/ Chat!ReaderLoops(r) \/ Chat!ReadMessage(r) \/ Chat!ReadNothing(r)
           \/ r = "consoleIn" /\ Chat!ReadEOF
    PROVE  ChatInv'
<1>1. ChatTypes /\ r \in ChatThreads /\ r \notin Chat!Writer
    BY ChatNames DEF ChatInv
<1>2. /\ output' = output /\ exitFlag' \in BOOLEAN
      /\ read' \in [Chat!Reader -> 0..MaxRead]
      /\ \E to : Turns(r, to)
    <2>1. CASE Chat!ReaderLoops(r)
        <3>1. Turns(r, IF exitFlag THEN "ended" ELSE "asleep")
            BY <2>1 DEF Chat!ReaderLoops, Chat!Becomes, Chat!server, Turns
        <3> QED BY <1>1, <2>1, <3>1 DEF Chat!ReaderLoops, ChatTypes
    <2>2. CASE Chat!ReadMessage(r)
        <3>1. /\ read[r] + 1 \in 0..MaxRead
              /\ read' = [read EXCEPT ![r] = read[r] + 1]
              /\ read \in [Chat!Reader -> 0..MaxRead]
            BY <1>1, <2>2, ChatSizes DEF Chat!ReadMessage, ChatTypes
        <3>2. mailbox' = Append(mailbox, [from |-> r, data |-> read[r] + 1])
            BY <2>2 DEF Chat!ReadMessage, Chat!RttSend
        <3>3. Turns(r, "sending")
            BY <2>2, <3>1, <3>2
               DEF Chat!ReadMessage, Chat!RttSend, Chat!Becomes, Chat!server, Turns
        <3> QED BY <1>1, <2>2, <3>1, <3>3 DEF Chat!ReadMessage, ChatTypes
    <2>3. CASE Chat!ReadNothing(r)
        <3>1. \E to \in {"asleep", "ended"} : chatpc' = [chatpc EXCEPT ![r] = to]
            BY <2>3 DEF Chat!ReadNothing, Chat!Becomes
        <3>2. PICK to \in {"asleep", "ended"} : chatpc' = [chatpc EXCEPT ![r] = to]
            BY <3>1
        <3>3. Turns(r, to)
            BY <2>3, <3>2 DEF Chat!ReadNothing, Chat!server, Turns
        <3> QED BY <1>1, <2>3, <3>3 DEF Chat!ReadNothing, ChatTypes
    <2>4. CASE r = "consoleIn" /\ Chat!ReadEOF
        <3>1. 0 \in 0..MaxRead
            BY ChatSizes
        <3>2. mailbox' = Append(mailbox, [from |-> r, data |-> 0])
            BY <2>4 DEF Chat!ReadEOF, Chat!RttSend, Chat!EOF
        <3>3. Turns(r, "sending")
            BY <2>4, <3>1, <3>2
               DEF Chat!ReadEOF, Chat!RttSend, Chat!Becomes, Chat!server, Turns
        <3> QED BY <1>1, <2>4, <3>3 DEF Chat!ReadEOF, ChatTypes
    <2> QED BY <2>1, <2>2, <2>3, <2>4
<1>3. output \in [Chat!Way -> Seq(Nat)]
    BY <1>1 DEF ChatTypes
<1> QED BY <1>1, <1>2, <1>3, ChatTurns

LEMMA ChatWriter ==
    ASSUME ChatInv, NEW t \in Chat!Writer, Chat!WriterLoops(t)
    PROVE  ChatInv'
<1> DEFINE w == Chat!WayOf[t]  o == output[w]  h == Holding(t)
           q == Texts(QueueOf(buffers[w]), content[w])
           to == IF exitFlag THEN "ended" ELSE "sending"
<1>1. /\ ChatTypes /\ t \in ChatThreads /\ w \in Chat!Way
      /\ t \in Chat!Thread /\ Goes(t)
    BY ChatNames DEF ChatInv, Chat!WriterLoops, Goes
<1>2. exitFlag' \in BOOLEAN /\ read' \in [Chat!Reader -> 0..MaxRead]
    BY <1>1 DEF Chat!WriterLoops, ChatTypes
<1>3. Turns(t, to)
    <2>1. 0 \in 0..MaxRead
        BY ChatSizes
    <2> QED BY <2>1 DEF Chat!WriterLoops, Chat!RttSend, Chat!Becomes, Chat!server,
                        Chat!EOF, Turns
<1>4. /\ o \in Seq(Nat) /\ q \in Seq(Nat) /\ inHand[t] \in Nat
      /\ output \in [Chat!Way -> Seq(Nat)]
    <2>1. WaySound(buffers[w], content[w])
        BY <1>1 DEF ChatInv
    <2> QED BY <1>1, <2>1, ChatSizes, WayTexts DEF ChatTypes
<1>5. IF h = <<>> THEN output' = output
      ELSE h = <<inHand[t]>> /\ output' = [output EXCEPT ![w] = Append(@, inHand[t])]
    <2>1. <<inHand[t]>> # <<>>
        OBVIOUS
    <2> QED BY <2>1 DEF Chat!WriterLoops, Chat!Write, Holding
<1>6. accepted[w] = o \o (h \o q)
    BY <1>1 DEF ChatInv, InOrder
<1>7. output' \in [Chat!Way -> Seq(Nat)]
    <2>1. Append(o, inHand[t]) \in Seq(Nat)
        BY <1>4, AppendProperties
    <2> HIDE DEF h
    <2> QED BY <1>1, <1>4, <1>5, <2>1
<1>8. \A u \in Chat!Writer : u # t =>
          output'[Chat!WayOf[u]] = output[Chat!WayOf[u]]
    <2>1. \A u \in Chat!Writer :
              u # t => Chat!WayOf[u] # w /\ Chat!WayOf[u] \in Chat!Way
        BY ChatNames
    <2> HIDE DEF h, w
    <2> QED BY <1>4, <1>5, <2>1
<1>9. output'[w] \o (<<>> \o q) = o \o (h \o q)
    <2>1. <<>> \o q = q
        BY <1>4, ConcatEmptySeq
    <2>2. CASE h = <<>>
        BY <1>5, <2>2
    <2>3. CASE h # <<>>
        <3>1. h = <<inHand[t]>> /\ output'[w] = Append(o, inHand[t])
            BY <1>1, <1>4, <1>5, <2>3
        <3> HIDE DEF h, o, q
        <3>2. o \o (<<inHand[t]>> \o q) = Append(o, inHand[t]) \o q
            BY <1>4, TakeFirst
        <3> QED BY <2>1, <3>1, <3>2
    <2> QED BY <2>2, <2>3
<1>10. Holding(t)' = <<>>
    <2>1. chatpc'[t] = to
        BY <1>1, <1>3 DEF Turns, ChatTypes
    <2> QED BY <2>1 DEF Holding
<1>11. InOrder(t, accepted[w], buffers[w], content[w])'
    BY <1>3, <1>6, <1>9, <1>10 DEF InOrder, Turns
<1> HIDE DEF to
<1> QED BY <1>1, <1>2, <1>3, <1>7, <1>8, <1>11, ChatTurns

LEMMA ChatNext == ChatInv /\ Chat!Next => ChatInv'
<1> SUFFICES ASSUME ChatInv, NEW t \in Chat!Thread, Chat!Steps(t)
             PROVE  ChatInv'
    BY DEF Chat!Next
<1>1. CASE t = "server" /\ Chat!Server
    BY <1>1, ChatServer
<1>2. CASE t \in Chat!Reader
               /\ (Chat!ReaderLoops(t) \/ Chat!ReadMessage(t) \/ Chat!ReadNothing(t))
    BY <1>2, ChatReader
<1>3. CASE t = "consoleIn" /\ Chat!ReadEOF
    BY <1>3, ChatReader, ChatNames
<1>4. CASE t \in Chat!Writer /\ Chat!WriterLoops(t)
    BY <1>4, ChatWriter
<1> QED BY <1>1, <1>2, <1>3, <1>4 DEF Chat!Steps

LEMMA ChatStutter == ChatInv /\ UNCHANGED chatVars => ChatInv'
<1> SUFFICES ASSUME ChatInv, UNCHANGED chatVars PROVE ChatInv'
    OBVIOUS
<1>1. /\ exitFlag' = exitFlag /\ chatpc' = chatpc /\ mailbox' = mailbox
      /\ buffers' = buffers /\ content' = content /\ inHand' = inHand
      /\ read' = read /\ accepted' = accepted /\ output' = output
    BY DEF chatVars
<1>2. ChatTypes' /\ SendersWait'
    BY <1>1 DEF ChatInv, ChatTypes, SendersWait, Goes
<1>3. \A t : /\ Goes(t)' <=> Goes(t)
            /\ Holding(t)' = Holding(t)
    BY <1>1 DEF Goes, Holding
<1>4. \A w \in Chat!Way : WaySound(buffers[w], content[w])'
    BY <1>1 DEF ChatInv
<1>5. ASSUME NEW t \in Chat!Writer, Goes("server")
      PROVE  ReadyWaits(t, buffers[Chat!WayOf[t]], mailbox)'
    BY <1>1, <1>5 DEF ChatInv, ReadyWaits
<1>6. ASSUME NEW t \in Chat!Writer, \E u \in Chat!Thread : Goes(u)
      PROVE  InOrder(t, accepted[Chat!WayOf[t]], buffers[Chat!WayOf[t]],
                     content[Chat!WayOf[t]])'
    BY <1>1, <1>3, <1>6 DEF ChatInv, InOrder
<1> QED BY <1>2, <1>3, <1>4, <1>5, <1>6, Zenon DEF ChatInv

LEMMA ChatInductive == ChatInv /\ [RttNext]_rttVars => ChatInv'
BY ChatNext, ChatStutter
   DEF RttNext, rttVars, RwStep, PhilStep, ChatStep

(* configureLists(): all buffers but the last are free.                      *)
LEMMA FreshSound ==
    ASSUME NEW c \in Contents
    PROVE  /\ WaySound(Chat!Fresh, c) /\ Chat!Fresh.ready = FALSE
           /\ QueueOf(Chat!Fresh) = <<>>
<1> DEFINE I == [k \in Chat!Buffer |-> k]  n == QUEUESIZE
           f == [items |-> ButLast(I), curser |-> n - 1]
           e == [items |-> <<>>, curser |-> 0]
<1>1. n \in Nat /\ n > 0 /\ Chat!Buffer = 1..n
    BY ChatSizes
<1>2. I \in Seq(Chat!Buffer) /\ Len(I) = n /\ \A k \in 1..n : I[k] = k
    <2>1. I \in [1..n -> Chat!Buffer]
        BY <1>1
    <2> QED BY <1>1, <2>1, SeqDef, LenProperties
<1>3. Chat!Fresh = [freeList |-> f, queue |-> e, curMessage |-> n, ready |-> FALSE]
    BY <1>2 DEF Chat!Fresh, Chat!ListTrim, Chat!Front, Chat!ListCount,
                Chat!EmptyList, ButLast
<1> HIDE DEF I
<1>4. /\ ButLast(I) \in Seq(Chat!Buffer) /\ Len(ButLast(I)) = n - 1
      /\ \A k \in 1..(n - 1) : ButLast(I)[k] = k
    <2>1. Len(I) # 0 /\ \A k \in 1..(n - 1) : k \in 1..n
        BY <1>1, <1>2
    <2>2. /\ ButLast(I) \in Seq(Chat!Buffer) /\ Len(ButLast(I)) = Len(I) - 1
          /\ \A k \in 1..(Len(I) - 1) : ButLast(I)[k] = I[k]
        BY <1>2, <2>1, QueueButLast, Zenon
    <2> QED BY <1>2, <2>1, <2>2
<1>5. DOMAIN ButLast(I) = 1..(n - 1)
    BY <1>4, LenProperties
<1>6. <<>> \in Seq(Chat!Buffer) /\ Len(<<>>) = 0 /\ \A x : ~Queued(x, <<>>)
    BY DEF Queued
<1>7. \A x : Queued(x, ButLast(I)) <=> x \in 1..(n - 1)
    BY <1>4, <1>5 DEF Queued
<1>8. OnceEach(ButLast(I)) /\ OnceEach(<<>>)
    BY <1>4, <1>5 DEF OnceEach
<1>9. f \in BufferList /\ e \in BufferList
    BY <1>1, <1>4, <1>6 DEF BufferList
<1>10. FreeOf(Chat!Fresh) = ButLast(I) /\ QueueOf(Chat!Fresh) = <<>>
    BY <1>3 DEF FreeOf, QueueOf
<1> HIDE DEF f, e
<1>11. /\ Chat!Fresh \in WayLists /\ Chat!Fresh.ready = FALSE
       /\ Chat!Fresh.curMessage = n
    BY <1>1, <1>3, <1>9 DEF WayLists
<1>12. \A x : OnItsWay(Chat!Fresh, x) <=> x = n
    BY <1>11 DEF OnItsWay
<1>13. EachInOnePlace(Chat!Fresh)
    BY <1>1, <1>6, <1>7, <1>8, <1>10, <1>12 DEF EachInOnePlace
<1>14. NoneLost(Chat!Fresh)
    <2>1. \A x \in Chat!Buffer : x \in 1..(n - 1) \/ x = n
        BY <1>1
    <2> QED BY <1>1, <1>4, <1>6, <1>7, <1>10, <1>11, <1>12, <2>1 DEF NoneLost
<1> QED BY <1>6, <1>10, <1>11, <1>13, <1>14 DEF WaySound

LEMMA ChatInit == Chat!Init => ChatInv
<1> SUFFICES ASSUME Chat!Init PROVE ChatInv
    OBVIOUS
<1>1. /\ exitFlag = FALSE /\ mailbox = <<>>
      /\ chatpc = [t \in Chat!Thread |->
                      IF t = "server" THEN "asleep" ELSE "ready"]
      /\ buffers = [w \in Chat!Way |-> Chat!Fresh]
      /\ content = [w \in Chat!Way |-> [b \in Chat!Buffer |-> 0]]
      /\ inHand = [t \in Chat!Writer |-> 0]
      /\ read = [r \in Chat!Reader |-> 0]
      /\ accepted = [w \in Chat!Way |-> <<>>]
      /\ output = [w \in Chat!Way |-> <<>>]
    BY DEF Chat!Init, Chat!EOF
<1>2. 0 \in 0..MaxRead
    BY ChatSizes
<1>3. [b \in Chat!Buffer |-> 0] \in Contents
    BY <1>2 DEF Contents
<1>4. /\ WaySound(Chat!Fresh, [b \in Chat!Buffer |-> 0])
      /\ Chat!Fresh \in WayLists
      /\ Chat!Fresh.ready = FALSE /\ QueueOf(Chat!Fresh) = <<>>
    BY <1>3, FreshSound, Zenon DEF WaySound
<1>5. ChatTypes
    <2>1. chatpc \in [Chat!Thread -> ChatPlaces]
        BY <1>1 DEF ChatPlaces
    <2>2. mailbox \in Seq(Message)
        BY <1>1
    <2>3. buffers \in [Chat!Way -> WayLists] /\ content \in [Chat!Way -> Contents]
        BY <1>1, <1>3, <1>4
    <2>4. /\ accepted \in [Chat!Way -> Seq(Nat)]
          /\ output \in [Chat!Way -> Seq(Nat)]
        BY <1>1
    <2> QED BY <1>1, <1>2, <2>1, <2>2, <2>3, <2>4 DEF ChatTypes
<1>6. \A t : ~Sent(mailbox, t)
    BY <1>1 DEF Sent
<1>7. SendersWait
    BY <1>1, <1>6 DEF SendersWait, OneEach
<1>8. \A w \in Chat!Way : WaySound(buffers[w], content[w])
    BY <1>1, <1>4
<1>9. \A t \in Chat!Writer :
          /\ Chat!WayOf[t] \in Chat!Way /\ chatpc[t] = "ready"
          /\ buffers[Chat!WayOf[t]] = Chat!Fresh
    BY <1>1, ChatNames
<1>10. \A t \in Chat!Writer : ReadyWaits(t, buffers[Chat!WayOf[t]], mailbox)
    BY <1>4, <1>9 DEF ReadyWaits
<1>11. ASSUME NEW t \in Chat!Writer
       PROVE  InOrder(t, accepted[Chat!WayOf[t]], buffers[Chat!WayOf[t]],
                      content[Chat!WayOf[t]])
    <2>1. /\ accepted[Chat!WayOf[t]] = <<>> /\ output[Chat!WayOf[t]] = <<>>
          /\ Holding(t) = <<>>
        BY <1>1, <1>9 DEF Holding
    <2>2. Texts(<<>>, content[Chat!WayOf[t]]) = <<>>
        BY DEF Texts
    <2>3. <<>> \o (<<>> \o <<>>) = <<>>
        OBVIOUS
    <2> QED BY <1>4, <1>9, <2>1, <2>2, <2>3 DEF InOrder
<1> QED BY <1>5, <1>7, <1>8, <1>10, <1>11, Zenon DEF ChatInv

(***************************************************************************)
(* What the invariant says.                                                *)
(***************************************************************************)

(* Five messages would be from five threads.                                 *)
LEMMA ChatTypeOK == ChatInv => Chat!TypeOK
<1> SUFFICES ASSUME ChatInv PROVE Chat!TypeOK
    OBVIOUS
<1>1. ChatTypes /\ SendersWait
    BY DEF ChatInv
<1>2. mailbox \in Seq(Message) /\ OneEach(mailbox)
    BY <1>1 DEF ChatTypes, SendersWait
<1>3. Len(mailbox) \in Nat /\ DOMAIN mailbox = 1..Len(mailbox)
    BY <1>2, LenProperties
<1>4. \A k \in DOMAIN mailbox : mailbox[k].from \in ChatThreads
    <2>1. \A k \in DOMAIN mailbox : mailbox[k] \in Message
        BY <1>2, <1>3, ElementOfSeq
    <2> QED BY <2>1 DEF Message
<1>5. Len(mailbox) <= 4
    <2> SUFFICES ASSUME Len(mailbox) > 4 PROVE FALSE
        BY <1>3
    <2> DEFINE f(k) == mailbox[k].from
    <2>1. \A k \in 1..5 : k \in DOMAIN mailbox
        BY <1>3
    <2>2. \A j, k \in 1..5 : f(j) = f(k) => j = k
        BY <1>2, <2>1 DEF OneEach
    <2>3. \A k \in 1..5 :
              f(k) \in {"consoleIn", "networkIn", "consoleOut", "networkOut"}
        BY <1>4, <2>1 DEF ChatThreads, Chat!Reader, Chat!Writer
    <2> HIDE DEF f
    <2>4. /\ f(1) # f(2) /\ f(1) # f(3) /\ f(1) # f(4) /\ f(1) # f(5)
          /\ f(2) # f(3) /\ f(2) # f(4) /\ f(2) # f(5)
          /\ f(3) # f(4) /\ f(3) # f(5) /\ f(4) # f(5)
        BY <2>2
    <2>5. /\ f(1) \in {"consoleIn", "networkIn", "consoleOut", "networkOut"}
          /\ f(2) \in {"consoleIn", "networkIn", "consoleOut", "networkOut"}
          /\ f(3) \in {"consoleIn", "networkIn", "consoleOut", "networkOut"}
          /\ f(4) \in {"consoleIn", "networkIn", "consoleOut", "networkOut"}
          /\ f(5) \in {"consoleIn", "networkIn", "consoleOut", "networkOut"}
        BY <2>3
    <2> QED BY <2>4, <2>5
<1> QED BY <1>1, <1>4, <1>5, ChatNames
        DEF Chat!TypeOK, ChatTypes, ChatPlaces

LEMMA ChatBuffers == ChatInv => Chat!BuffersAccounted
<1> SUFFICES ASSUME ChatInv, NEW w \in Chat!Way
             PROVE  LET l == buffers[w]
                        all == l.freeList.items \o l.queue.items
                               \o (IF l.ready THEN <<>> ELSE <<l.curMessage>>)
                    IN  Len(all) = QUEUESIZE /\ Chat!ToSet(all) = Chat!Buffer
    BY DEF Chat!BuffersAccounted
<1> DEFINE l == buffers[w]  F == FreeOf(l)  Q == QueueOf(l)
           h == IF l.ready THEN <<>> ELSE <<l.curMessage>>
           all == F \o Q \o h
<1>1. /\ l \in WayLists /\ NoneLost(l)
    BY DEF ChatInv, WaySound
<1>2. /\ F \in Seq(Chat!Buffer) /\ Q \in Seq(Chat!Buffer)
      /\ l.curMessage \in Chat!Buffer
    BY <1>1 DEF WayLists, BufferList, FreeOf, QueueOf
<1>3. /\ h \in Seq(Chat!Buffer) /\ Len(h) = IF l.ready THEN 0 ELSE 1
      /\ \A b : OnItsWay(l, b) => Queued(b, h)
    BY <1>2 DEF OnItsWay, Queued
<1> HIDE DEF h
<1>4. /\ F \o Q \in Seq(Chat!Buffer) /\ Len(F \o Q) = Len(F) + Len(Q)
      /\ \A b : Queued(b, F \o Q) <=> Queued(b, F) \/ Queued(b, Q)
    BY <1>2, QueueConcat
<1>5. /\ all \in Seq(Chat!Buffer) /\ Len(all) = Len(F \o Q) + Len(h)
      /\ \A b : Queued(b, all) <=> Queued(b, F \o Q) \/ Queued(b, h)
    <2> DEFINE g == F \o Q
    <2>1. g \in Seq(Chat!Buffer) /\ all = g \o h
        BY <1>4
    <2> HIDE DEF g, all
    <2>2. /\ g \o h \in Seq(Chat!Buffer) /\ Len(g \o h) = Len(g) + Len(h)
          /\ \A b : Queued(b, g \o h) <=> Queued(b, g) \/ Queued(b, h)
        BY <1>3, <2>1, QueueConcat
    <2> QED BY <2>1, <2>2 DEF g
<1> HIDE DEF all, l
<1>6. Len(all) = QUEUESIZE
    BY <1>1, <1>3, <1>4, <1>5 DEF NoneLost
<1>7. \A b \in Chat!Buffer : Queued(b, all)
    BY <1>1, <1>3, <1>4, <1>5 DEF NoneLost
<1>8. \A b : Queued(b, all) => b \in Chat!Buffer
    BY <1>5, QueueTyped
<1>9. Chat!ToSet(all) = Chat!Buffer
    BY <1>7, <1>8 DEF Chat!ToSet, Queued
<1> QED BY <1>6, <1>9 DEF all, l, h, FreeOf, QueueOf

LEMMA ChatOrder == ChatInv => Chat!WrittenInOrder
<1> SUFFICES ASSUME ChatInv, NEW t \in Chat!Writer,
                    \E u \in Chat!Thread : chatpc[u] # "ended"
             PROVE  LET w == Chat!WayOf[t]
                        q == Chat!Reverse(buffers[w].queue.items)
                        due == (IF chatpc[t] = "received" /\ inHand[t] # Chat!EOF
                                THEN <<inHand[t]>> ELSE <<>>)
                               \o [k \in DOMAIN q |-> content[w][q[k]]]
                    IN  accepted[w] = output[w] \o due
    BY DEF Chat!WrittenInOrder
<1> DEFINE w == Chat!WayOf[t]  Q == QueueOf(buffers[w])  c == content[w]
           q == Chat!Reverse(Q)
<1>1. accepted[w] = output[w] \o (Holding(t) \o Texts(Q, c))
    BY DEF ChatInv, InOrder, Goes
<1>2. [k \in DOMAIN q |-> c[q[k]]] = Texts(Q, c)
    BY DEF Chat!Reverse, Texts
<1> QED BY <1>1, <1>2 DEF Holding, QueueOf

LEMMA ChatReady == ChatInv => Chat!ReadyMeansWaiting
BY DEF ChatInv, Chat!ReadyMeansWaiting, ReadyWaits, Goes, Sent

(* ChatSound: the chat server of assignment 2 loses no buffer and uses none  *)
(* twice, what it queued is written in order and once, and it takes a writer *)
(* for ready just while one waits for an answer, for any number of buffers   *)
(* and messages.                                                             *)
THEOREM ChatKeepsOrder == RttSpec => []ChatSound
<1>1. RttInit => ChatInv
    BY ChatInit DEF RttInit
<1>2. ChatInv /\ [RttNext]_rttVars => ChatInv'
    BY ChatInductive
<1>3. ChatInv => ChatSound
    BY ChatTypeOK, ChatBuffers, ChatOrder, ChatReady DEF ChatSound
<1> QED BY <1>1, <1>2, <1>3, PTL DEF RttSpec
=============================================================================
