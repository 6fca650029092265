-------------------------- MODULE RttMonitorProofs --------------------------
(* That the server of RttMonitor is a monitor, for any number of threads and *)
(* conditions.                                                               *)
EXTENDS RttMonitor, TLAPS

(* monBusy says truly whether a thread has the monitor, and nobody queues    *)
(* for a monitor that is free.                                               *)
BusyIsTrue ==
    /\ monBusy <=> Occupants # {}
    /\ ~monBusy => enterQueue = <<>> /\ urgentQueue = <<>>

IInv == TypeOK /\ BlockedOnce /\ MutualExclusion /\ BusyIsTrue

(***************************************************************************)
(* The list operations, on sequences without repetitions.                  *)
(***************************************************************************)

(* ListAdd() at the tail, ListAppend() and RttSend() add one element.        *)
LEMMA AppendAdds ==
    ASSUME NEW S, NEW s \in Seq(S), NEW e \in S
    PROVE  /\ Append(s, e) \in Seq(S)
           /\ ToSet(Append(s, e)) = ToSet(s) \cup {e}
           /\ e \notin ToSet(s) /\ IsInjective(s) => IsInjective(Append(s, e))
BY DEF ToSet, IsInjective

(* RttReceive() and ListRemove() at the head take one element away.          *)
LEMMA TailRemoves ==
    ASSUME NEW S, NEW s \in Seq(S), s # <<>>, IsInjective(s)
    PROVE  /\ Tail(s) \in Seq(S)
           /\ Head(s) \in ToSet(s)
           /\ ToSet(Tail(s)) = ToSet(s) \ {Head(s)}
           /\ IsInjective(Tail(s))
<1>1. /\ Len(s) > 0 /\ Head(s) = s[1] /\ DOMAIN s = 1..Len(s)
      /\ Tail(s) \in Seq(S) /\ DOMAIN Tail(s) = 1..(Len(s) - 1)
      /\ \A i \in 1..(Len(s) - 1) : Tail(s)[i] = s[i + 1]
    OBVIOUS
<1>2. Head(s) \in ToSet(s)
    BY <1>1 DEF ToSet
<1>3. IsInjective(Tail(s))
    BY <1>1 DEF IsInjective
<1>4. ASSUME NEW x \in ToSet(Tail(s))
      PROVE  x \in ToSet(s) \ {Head(s)}
    BY <1>1 DEF ToSet, IsInjective
<1>5. ASSUME NEW x \in ToSet(s), x # Head(s)
      PROVE  x \in ToSet(Tail(s))
    <2>1. PICK i \in 1..Len(s) : s[i] = x
        BY <1>1 DEF ToSet
    <2>2. i - 1 \in 1..(Len(s) - 1) /\ Tail(s)[i - 1] = x
        BY <1>1, <1>5, <2>1
    <2> QED
        BY <1>1, <2>2 DEF ToSet
<1> QED
    BY <1>1, <1>2, <1>3, <1>4, <1>5

(* ListTrim() takes the last element away.                                   *)
LEMMA FrontRemoves ==
    ASSUME NEW S, NEW s \in Seq(S), s # <<>>, IsInjective(s)
    PROVE  /\ Front(s) \in Seq(S)
           /\ Len(Front(s)) = Len(s) - 1
           /\ Last(s) \in ToSet(s)
           /\ ToSet(Front(s)) = ToSet(s) \ {Last(s)}
           /\ IsInjective(Front(s))
<1>1. /\ Len(s) > 0 /\ Last(s) = s[Len(s)] /\ DOMAIN s = 1..Len(s)
      /\ Front(s) \in Seq(S) /\ Len(Front(s)) = Len(s) - 1
      /\ DOMAIN Front(s) = 1..(Len(s) - 1)
      /\ \A i \in 1..(Len(s) - 1) : Front(s)[i] = s[i]
    <2>1. Len(s) \in Nat /\ Len(s) > 0 /\ DOMAIN s = 1..Len(s)
        OBVIOUS
    <2> QED
        BY <2>1 DEF Front, Last
<1>2. Last(s) \in ToSet(s)
    BY <1>1 DEF ToSet
<1>3. IsInjective(Front(s))
    BY <1>1 DEF IsInjective
<1>4. ASSUME NEW x \in ToSet(Front(s))
      PROVE  x \in ToSet(s) \ {Last(s)}
    BY <1>1 DEF ToSet, IsInjective
<1>5. ASSUME NEW x \in ToSet(s), x # Last(s)
      PROVE  x \in ToSet(Front(s))
    BY <1>1, <1>5 DEF ToSet
<1> QED
    BY <1>1, <1>2, <1>3, <1>4, <1>5

(* ListInsert() before the cursor adds one element.                          *)
LEMMA InsertAdds ==
    ASSUME NEW S, NEW s \in Seq(S), NEW i \in 1..Len(s), NEW e \in S
    PROVE  /\ InsertAt(s, i, e) \in Seq(S)
           /\ Len(InsertAt(s, i, e)) = Len(s) + 1
           /\ ToSet(InsertAt(s, i, e)) = ToSet(s) \cup {e}
           /\ e \notin ToSet(s) /\ IsInjective(s)
              => IsInjective(InsertAt(s, i, e))
<1> DEFINE r == InsertAt(s, i, e)
<1>1. /\ r \in Seq(S) /\ Len(r) = Len(s) + 1
      /\ DOMAIN r = 1..(Len(s) + 1) /\ DOMAIN s = 1..Len(s)
      /\ \A j \in 1..(Len(s) + 1) :
            r[j] = IF j < i THEN s[j] ELSE IF j = i THEN e ELSE s[j - 1]
    BY DEF InsertAt
<1> HIDE DEF r
<1>2. ToSet(r) \subseteq ToSet(s) \cup {e}
    BY <1>1 DEF ToSet
<1>3. e \in ToSet(r)
    BY <1>1 DEF ToSet
<1>4. ASSUME NEW x \in ToSet(s)
      PROVE  x \in ToSet(r)
    <2>1. PICK k \in 1..Len(s) : s[k] = x
        BY <1>1 DEF ToSet
    <2>2. CASE k < i
        BY <1>1, <2>1, <2>2 DEF ToSet
    <2>3. CASE k >= i
        <3>1. k + 1 \in 1..(Len(s) + 1) /\ r[k + 1] = x
            BY <1>1, <2>1, <2>3
        <3> QED
            BY <1>1, <3>1 DEF ToSet
    <2> QED
        BY <2>1, <2>2, <2>3
<1>5. ASSUME e \notin ToSet(s), IsInjective(s)
      PROVE  IsInjective(r)
    <2>1. SUFFICES ASSUME NEW a \in 1..(Len(s) + 1), NEW b \in 1..(Len(s) + 1),
                          r[a] = r[b]
                   PROVE  a = b
        BY <1>1 DEF IsInjective
    <2>2. \A j \in 1..Len(s) : s[j] # e
        BY <1>1, <1>5 DEF ToSet
    <2>3. \A j, k \in 1..Len(s) : s[j] = s[k] => j = k
        BY <1>1, <1>5 DEF IsInjective
    <2>4. CASE a = i \/ b = i
        BY <1>1, <2>1, <2>2, <2>4
    <2>5. CASE a # i /\ b # i
        BY <1>1, <2>1, <2>3, <2>5
    <2> QED
        BY <2>4, <2>5
<1> QED
    BY <1>1, <1>2, <1>3, <1>4, <1>5 DEF r

(***************************************************************************)
(* What each step does to the sets of queued threads.                      *)
(***************************************************************************)

Entering == ToSet(enterQueue)
Urgent == ToSet(urgentQueue)
WaitingFor(c) == ToSet(CVlistDict[c])

LEMMA QueuesOfThreads ==
    ASSUME TypeOK
    PROVE  /\ ToSet(inbox) \subseteq Thread
           /\ Entering \subseteq Thread
           /\ Urgent \subseteq Thread
           /\ \A c \in Cond : WaitingFor(c) \subseteq Thread
BY DEF TypeOK, ToSet, Entering, Urgent, WaitingFor

(* A call puts its thread into the inbox and changes no other queue.         *)
LEMMA SendStep ==
    ASSUME IInv, NEW t \in Thread, NEW call \in Calls,
           at[t] \in {"outside", "inside"},
           call = "enter" <=> at[t] = "outside",
           Send(t, call), arg' \in [Thread -> Cond]
    PROVE  IInv' /\ UNCHANGED Hoare!vars
<1> USE DEF IInv
<1>1. /\ inbox' \in Seq(Thread)
      /\ ToSet(inbox)' = ToSet(inbox) \cup {t}
      /\ t \notin ToSet(inbox)
      /\ IsInjective(inbox)'
    <2>1. t \notin ToSet(inbox)
        BY DEF BlockedOnce, Calls
    <2>2. inbox \in Seq(Thread) /\ inbox' = Append(inbox, t) /\ IsInjective(inbox)
        BY DEF Send, TypeOK, BlockedOnce
    <2> QED
        BY <2>1, <2>2, AppendAdds
<1>2. TypeOK'
    BY <1>1 DEF TypeOK, Send, Calls
<1>3. at' = [at EXCEPT ![t] = call] /\ at \in [Thread -> Calls \cup {"outside", "inside"}]
    BY DEF Send, TypeOK
<1>4. UNCHANGED <<Entering, Urgent, Waiting, CVlistDict, enterQueue, urgentQueue, monBusy>>
    BY DEF Send, Entering, Urgent, Waiting
<1>5. BlockedOnce'
    <2>1. t \notin Entering \cup Urgent \cup Waiting
        BY DEF BlockedOnce, Entering, Urgent, Calls
    <2>2. ToSet(inbox)' \cup ((Entering \cup Urgent) \cup Waiting)'
              = {u \in Thread : at'[u] \in Calls}
        BY <1>1, <1>3, <1>4 DEF BlockedOnce, Entering, Urgent
    <2>3. ToSet(inbox)' \cap ((Entering \cup Urgent) \cup Waiting)' = {}
        BY <1>1, <1>4, <2>1 DEF BlockedOnce, Entering, Urgent
    <2>4. /\ \A u \in Entering' : at'[u] = "enter"
          /\ \A u \in Urgent' : at'[u] = "signal"
          /\ \A u \in Waiting' : at'[u] = "wait"
        BY <1>3, <1>4, <2>1 DEF BlockedOnce, Entering, Urgent
    <2> QED
        BY <1>1, <1>4, <2>2, <2>3, <2>4 DEF BlockedOnce, Entering, Urgent
<1>6. Occupants' = Occupants
    <2>1. ASSUME NEW u \in Thread
          PROVE  u \in Occupants' <=> u \in Occupants
        BY <1>1, <1>3 DEF Occupants, Calls
    <2> QED
        BY <2>1 DEF Occupants
<1>7. UNCHANGED Hoare!vars
    BY <1>4, <1>6 DEF Hoare!vars, Entering, Urgent
<1> QED
    BY <1>2, <1>4, <1>5, <1>6, <1>7 DEF MutualExclusion, BusyIsTrue

(* The server takes the oldest message; its sender has the monitor unless it *)
(* only asks for it.                                                         *)
LEMMA ReceiveStep ==
    ASSUME IInv, NEW t \in Thread, NEW call \in Calls, Receive(t, call)
    PROVE  /\ inbox' \in Seq(Thread)
           /\ t \in ToSet(inbox)
           /\ ToSet(inbox)' = ToSet(inbox) \ {t}
           /\ IsInjective(inbox)'
           /\ at[t] = call
           /\ t \notin Entering \cup Urgent \cup Waiting
           /\ call # "enter" => Occupants = {t} /\ monBusy
<1> USE DEF IInv
<1>1. /\ inbox' \in Seq(Thread)
      /\ t \in ToSet(inbox)
      /\ ToSet(inbox)' = ToSet(inbox) \ {t}
      /\ IsInjective(inbox)'
    <2>1. /\ inbox \in Seq(Thread) /\ inbox # <<>> /\ IsInjective(inbox)
          /\ t = Head(inbox) /\ inbox' = Tail(inbox)
        BY DEF Receive, TypeOK, BlockedOnce
    <2> QED
        BY <2>1, TailRemoves
<1>2. at[t] = call /\ t \notin Entering \cup Urgent \cup Waiting
    BY <1>1 DEF Receive, BlockedOnce, Entering, Urgent
<1>3. ASSUME call # "enter"
      PROVE  Occupants = {t} /\ monBusy
    <2>1. t \in Occupants
        BY <1>1, <1>2, <1>3 DEF Occupants, Calls
    <2> QED
        BY <2>1 DEF MutualExclusion, BusyIsTrue, Occupants
<1> QED
    BY <1>1, <1>2, <1>3

(* The monitor goes to a thread of urgentQueue, else to one of enterQueue,   *)
(* else it is free.                                                          *)
LEMMA HandOnStep ==
    ASSUME TypeOK, BlockedOnce, monBusy, NEW ts \in SUBSET Thread, HandOn(ts)
    PROVE  \E next \in SUBSET Thread :
              /\ Reply(ts \cup next)
              /\ \A a, b \in next : a = b
              /\ next \subseteq Entering \cup Urgent
              /\ Urgent # {} => next \subseteq Urgent
              /\ next = {} => Entering = {} /\ Urgent = {}
              /\ Entering' = Entering \ next
              /\ Urgent' = Urgent \ next
              /\ enterQueue' \in Seq(Thread) /\ IsInjective(enterQueue)'
              /\ urgentQueue' \in Seq(Thread) /\ IsInjective(urgentQueue)'
              /\ urgentCurser' \in 0..Len(urgentQueue')
              /\ urgentQueue' # <<>> => urgentCurser' # 0
              /\ monBusy' \in BOOLEAN
              /\ monBusy' <=> next # {}
              /\ ~monBusy' => enterQueue' = <<>> /\ urgentQueue' = <<>>
<1>0. /\ enterQueue \in Seq(Thread) /\ IsInjective(enterQueue)
      /\ urgentQueue \in Seq(Thread) /\ IsInjective(urgentQueue)
      /\ urgentCurser \in 0..Len(urgentQueue)
      /\ urgentQueue # <<>> => urgentCurser # 0
      /\ Entering \cap Urgent = {}
    BY DEF TypeOK, BlockedOnce, Entering, Urgent
<1>1. CASE urgentQueue # <<>>
    <2>1. /\ Reply(ts \cup {Last(urgentQueue)})
          /\ urgentQueue' = Front(urgentQueue)
          /\ urgentCurser' = Len(urgentQueue) - 1
          /\ UNCHANGED <<monBusy, enterQueue>>
        BY <1>1 DEF HandOn, TrimUrgentQueue
    <2>2. /\ urgentQueue' \in Seq(Thread) /\ IsInjective(urgentQueue)'
          /\ Len(urgentQueue') = Len(urgentQueue) - 1
          /\ Last(urgentQueue) \in Urgent
          /\ Urgent' = Urgent \ {Last(urgentQueue)}
        BY <1>0, <1>1, <2>1, FrontRemoves DEF Urgent
    <2>3. Entering' = Entering
        BY <2>1 DEF Entering
    <2>4. urgentCurser' = Len(urgentQueue') /\ Len(urgentQueue') \in Nat
          /\ (urgentQueue' # <<>> => Len(urgentQueue') # 0)
        BY <2>1, <2>2
    <2>5. {Last(urgentQueue)} \in SUBSET Thread
        BY <2>2, QueuesOfThreads
    <2> USE <2>5
    <2> WITNESS {Last(urgentQueue)} \in SUBSET Thread
    <2> QED
        BY <1>0, <1>1, <2>1, <2>2, <2>3, <2>4
<1>2. CASE urgentQueue = <<>> /\ enterQueue # <<>>
    <2>1. /\ Reply(ts \cup {Last(enterQueue)})
          /\ enterQueue' = Front(enterQueue)
          /\ UNCHANGED <<monBusy, urgentQueue, urgentCurser>>
        BY <1>2 DEF HandOn
    <2>2. /\ enterQueue' \in Seq(Thread) /\ IsInjective(enterQueue)'
          /\ Last(enterQueue) \in Entering
          /\ Entering' = Entering \ {Last(enterQueue)}
        BY <1>0, <1>2, <2>1, FrontRemoves DEF Entering
    <2>3. Urgent = {} /\ Urgent' = {}
        BY <1>2, <2>1 DEF Urgent, ToSet
    <2>4. {Last(enterQueue)} \in SUBSET Thread
        BY <2>2, QueuesOfThreads
    <2> USE <2>4
    <2> WITNESS {Last(enterQueue)} \in SUBSET Thread
    <2> QED
        BY <1>0, <1>2, <2>1, <2>2, <2>3
<1>3. CASE urgentQueue = <<>> /\ enterQueue = <<>>
    <2>1. /\ Reply(ts \cup {})
          /\ monBusy' = FALSE
          /\ UNCHANGED <<enterQueue, urgentQueue, urgentCurser>>
        BY <1>3, Zenon DEF HandOn, Reply
    <2>2. Urgent = {} /\ Entering = {} /\ Urgent' = {} /\ Entering' = {}
        BY <1>3, <2>1 DEF Urgent, Entering, ToSet
    <2> WITNESS {} \in SUBSET Thread
    <2> QED
        BY <1>0, <1>3, <2>1, <2>2
<1> QED
    BY <1>1, <1>2, <1>3

(* A wait appends its thread to the list of the server's condition.          *)
LEMMA AppendWaiting ==
    ASSUME TypeOK, BlockedOnce, NEW t \in Thread, t \notin Waiting,
           CVlistDict' = [CVlistDict EXCEPT ![condVar] = Append(@, t)]
    PROVE  /\ CVlistDict' \in [Cond -> Seq(Thread)]
           /\ Waiting' = Waiting \cup {t}
           /\ \A c, d \in Cond : c # d =>
                 ToSet(CVlistDict'[c]) \cap ToSet(CVlistDict'[d]) = {}
           /\ \A c \in Cond : IsInjective(CVlistDict'[c])
<1>1. /\ CVlistDict \in [Cond -> Seq(Thread)] /\ condVar \in Cond
      /\ \A c \in Cond : t \notin ToSet(CVlistDict[c])
    BY DEF TypeOK, Waiting
<1>2. /\ Append(CVlistDict[condVar], t) \in Seq(Thread)
      /\ ToSet(Append(CVlistDict[condVar], t)) = ToSet(CVlistDict[condVar]) \cup {t}
      /\ IsInjective(Append(CVlistDict[condVar], t))
    BY <1>1, AppendAdds DEF BlockedOnce
<1>3. \A c \in Cond : CVlistDict'[c] =
          IF c = condVar THEN Append(CVlistDict[condVar], t) ELSE CVlistDict[c]
    BY <1>1
<1>4. \A c \in Cond : ToSet(CVlistDict'[c]) =
          ToSet(CVlistDict[c]) \cup (IF c = condVar THEN {t} ELSE {})
    <2> TAKE c \in Cond
    <2>1. CASE c = condVar
        BY <1>2, <1>3, <2>1
    <2>2. CASE c # condVar
        BY <1>3, <2>2
    <2> QED
        BY <2>1, <2>2
<1>5. CVlistDict' \in [Cond -> Seq(Thread)]
    BY <1>1, <1>2
<1>6. Waiting' = Waiting \cup {t}
    <2>1. ASSUME NEW u
          PROVE  (\E c \in Cond : u \in ToSet(CVlistDict'[c]))
                     <=> u = t \/ \E c \in Cond : u \in ToSet(CVlistDict[c])
        BY <1>1, <1>4
    <2> QED
        BY <2>1 DEF Waiting
<1>7. \A c, d \in Cond : c # d =>
          ToSet(CVlistDict'[c]) \cap ToSet(CVlistDict'[d]) = {}
    <2> TAKE c, d \in Cond
    <2> HAVE c # d
    <2>1. ToSet(CVlistDict[c]) \cap ToSet(CVlistDict[d]) = {}
        BY DEF BlockedOnce
    <2>2. t \notin ToSet(CVlistDict[c]) /\ t \notin ToSet(CVlistDict[d])
        BY <1>1
    <2> QED
        BY <1>4, <2>1, <2>2
<1>8. \A c \in Cond : IsInjective(CVlistDict'[c])
    BY <1>2, <1>3 DEF BlockedOnce
<1> QED
    BY <1>5, <1>6, <1>7, <1>8

(* A signal takes the first thread of that list.                             *)
LEMMA RemoveWaiting ==
    ASSUME TypeOK, BlockedOnce, CVlistDict[condVar] # <<>>,
           CVlistDict' = [CVlistDict EXCEPT ![condVar] = Tail(@)]
    PROVE  /\ CVlistDict' \in [Cond -> Seq(Thread)]
           /\ Head(CVlistDict[condVar]) \in Waiting
           /\ Waiting' = Waiting \ {Head(CVlistDict[condVar])}
           /\ \A c, d \in Cond : c # d =>
                 ToSet(CVlistDict'[c]) \cap ToSet(CVlistDict'[d]) = {}
           /\ \A c \in Cond : IsInjective(CVlistDict'[c])
<1> DEFINE w == Head(CVlistDict[condVar])
<1>1. CVlistDict \in [Cond -> Seq(Thread)] /\ condVar \in Cond
    BY DEF TypeOK
<1>2. /\ Tail(CVlistDict[condVar]) \in Seq(Thread)
      /\ w \in ToSet(CVlistDict[condVar])
      /\ ToSet(Tail(CVlistDict[condVar])) = ToSet(CVlistDict[condVar]) \ {w}
      /\ IsInjective(Tail(CVlistDict[condVar]))
    <2>1. CVlistDict[condVar] \in Seq(Thread) /\ IsInjective(CVlistDict[condVar])
        BY <1>1 DEF BlockedOnce
    <2> QED
        BY <2>1, TailRemoves
<1> HIDE DEF w
<1>3. \A c \in Cond : CVlistDict'[c] =
          IF c = condVar THEN Tail(CVlistDict[condVar]) ELSE CVlistDict[c]
    BY <1>1
<1>4. \A c \in Cond : ToSet(CVlistDict'[c]) = ToSet(CVlistDict[c]) \ {w}
    BY <1>1, <1>2, <1>3 DEF BlockedOnce
<1>5. CVlistDict' \in [Cond -> Seq(Thread)]
    BY <1>1, <1>2
<1>6. w \in Waiting /\ Waiting' = Waiting \ {w}
    BY <1>1, <1>2, <1>4 DEF Waiting
<1>7. \A c, d \in Cond : c # d =>
          ToSet(CVlistDict'[c]) \cap ToSet(CVlistDict'[d]) = {}
    BY <1>4 DEF BlockedOnce
<1>8. \A c \in Cond : IsInjective(CVlistDict'[c])
    BY <1>2, <1>3 DEF BlockedOnce
<1> QED
    BY <1>5, <1>6, <1>7, <1>8 DEF w

(* The threads replied to leave the queues; the others stay in theirs.       *)
LEMMA ReplyStep ==
    ASSUME TypeOK, BlockedOnce, NEW ts \in SUBSET Thread, Reply(ts),
           ToSet(inbox)' \cup ((Entering \cup Urgent) \cup Waiting)'
               = (ToSet(inbox) \cup ((Entering \cup Urgent) \cup Waiting)) \ ts
    PROVE  /\ at' \in [Thread -> Calls \cup {"outside", "inside"}]
           /\ \A u \in ts : at'[u] = IF at[u] = "leave" THEN "outside" ELSE "inside"
           /\ \A u \in Thread \ ts : at'[u] = at[u]
           /\ ToSet(inbox)' \cup ((Entering \cup Urgent) \cup Waiting)'
                  = {u \in Thread : at'[u] \in Calls}
<1>1. at \in [Thread -> Calls \cup {"outside", "inside"}]
    BY DEF TypeOK
<1>2. \A u \in Thread : at'[u] =
          IF u \notin ts THEN at[u]
          ELSE IF at[u] = "leave" THEN "outside" ELSE "inside"
    BY DEF Reply
<1>3. at' \in [Thread -> Calls \cup {"outside", "inside"}]
    BY <1>1 DEF Reply, Calls
<1>4. ToSet(inbox)' \cup ((Entering \cup Urgent) \cup Waiting)'
          = {u \in Thread : at'[u] \in Calls}
    <2>1. ToSet(inbox) \cup ((Entering \cup Urgent) \cup Waiting)
              = {u \in Thread : at[u] \in Calls}
        BY DEF BlockedOnce, Entering, Urgent
    <2>2. {u \in Thread : at'[u] \in Calls} = {u \in Thread : at[u] \in Calls} \ ts
        BY <1>2 DEF Calls
    <2> QED
        BY <2>1, <2>2
<1> QED
    BY <1>2, <1>3, <1>4

(***************************************************************************)
(* The server's steps keep the invariant and are those of the abstraction. *)
(***************************************************************************)

LEMMA ServeEnterStep ==
    ASSUME IInv, NEW t \in Thread, ServeEnter(t)
    PROVE  IInv' /\ Hoare!Enter(t)
<1> USE DEF IInv
<1>0. Receive(t, "enter") /\ "enter" \in Calls
    BY DEF ServeEnter, Calls
<1>1. /\ inbox' \in Seq(Thread)
      /\ t \in ToSet(inbox)
      /\ ToSet(inbox)' = ToSet(inbox) \ {t}
      /\ IsInjective(inbox)'
      /\ at[t] = "enter"
      /\ t \notin Entering \cup Urgent \cup Waiting
      /\ t \notin Occupants
    BY <1>0, ReceiveStep DEF Occupants
<1>2. UNCHANGED <<arg, condVar, urgentQueue, urgentCurser, CVlistDict, Urgent, Waiting>>
    BY DEF ServeEnter, Receive, Urgent, Waiting
<1>3. CASE monBusy
    <2>1. UNCHANGED <<at, monBusy>> /\ enterQueue' = Append(enterQueue, t)
        BY <1>3 DEF ServeEnter
    <2>2. /\ enterQueue' \in Seq(Thread)
          /\ Entering' = Entering \cup {t}
          /\ IsInjective(enterQueue)'
        BY <1>1, <2>1, AppendAdds DEF TypeOK, BlockedOnce, Entering
    <2>3. TypeOK'
        BY <1>1, <1>2, <2>1, <2>2 DEF TypeOK
    <2>4. BlockedOnce'
        <3>1. ToSet(inbox)' \cup ((Entering \cup Urgent) \cup Waiting)'
                  = {u \in Thread : at'[u] \in Calls}
            BY <1>1, <1>2, <2>1, <2>2 DEF BlockedOnce, Entering, Urgent
        <3>2. ToSet(inbox)' \cap ((Entering \cup Urgent) \cup Waiting)' = {}
            BY <1>1, <1>2, <2>2 DEF BlockedOnce, Entering, Urgent
        <3>3. /\ \A u \in Entering' : at'[u] = "enter"
              /\ \A u \in Urgent' : at'[u] = "signal"
              /\ \A u \in Waiting' : at'[u] = "wait"
            BY <1>1, <1>2, <2>1, <2>2 DEF BlockedOnce, Entering, Urgent
        <3> QED
            BY <1>1, <1>2, <2>2, <3>1, <3>2, <3>3 DEF BlockedOnce, Entering, Urgent
    <2>5. Occupants' = Occupants
        BY <1>1, <2>1 DEF Occupants
    <2>6. MutualExclusion' /\ BusyIsTrue'
        BY <1>3, <2>1, <2>5 DEF MutualExclusion, BusyIsTrue
    <2>7. Hoare!Enter(t)
        BY <1>1, <1>2, <1>3, <2>2, <2>5
           DEF Hoare!Enter, Hoare!Idle, BusyIsTrue, Entering, Urgent
    <2> QED
        BY <2>3, <2>4, <2>6, <2>7
<1>4. CASE ~monBusy
    <2>1. Reply({t}) /\ monBusy' = TRUE /\ UNCHANGED enterQueue
        BY <1>4 DEF ServeEnter
    <2>2. Occupants = {} /\ Entering = {} /\ Urgent = {} /\ UNCHANGED Entering
        BY <1>4, <2>1 DEF BusyIsTrue, Entering, Urgent, ToSet
    <2>3. ToSet(inbox)' \cup ((Entering \cup Urgent) \cup Waiting)'
              = (ToSet(inbox) \cup ((Entering \cup Urgent) \cup Waiting)) \ {t}
        BY <1>1, <1>2, <2>2
    <2>4. /\ at' \in [Thread -> Calls \cup {"outside", "inside"}]
          /\ at'[t] = "inside"
          /\ \A u \in Thread \ {t} : at'[u] = at[u]
          /\ ToSet(inbox)' \cup ((Entering \cup Urgent) \cup Waiting)'
                 = {u \in Thread : at'[u] \in Calls}
        BY <1>1, <2>1, <2>3, ReplyStep
    <2>5. TypeOK'
        BY <1>1, <1>2, <2>1, <2>4 DEF TypeOK
    <2>6. BlockedOnce'
        BY <1>1, <1>2, <2>1, <2>4 DEF BlockedOnce, Entering, Urgent
    <2>7. Occupants' = {t}
        BY <1>1, <2>2, <2>4 DEF Occupants
    <2>8. MutualExclusion' /\ BusyIsTrue'
        BY <2>1, <2>7 DEF MutualExclusion, BusyIsTrue
    <2>9. Hoare!Enter(t)
        BY <1>1, <1>2, <2>2, <2>7
           DEF Hoare!Enter, Hoare!Idle, Entering, Urgent
    <2> QED
        BY <2>5, <2>6, <2>8, <2>9
<1> QED
    BY <1>3, <1>4

(* What ServeLeave() and ServeWait() have in common.                         *)
LEMMA HandOver ==
    ASSUME IInv, NEW t \in Thread, NEW call \in {"leave", "wait"},
           Receive(t, call),
           HandOn(IF call = "leave" THEN {t} ELSE {}),
           CVlistDict' \in [Cond -> Seq(Thread)],
           Waiting' = Waiting \cup (IF call = "wait" THEN {t} ELSE {}),
           \A c, d \in Cond : c # d =>
               ToSet(CVlistDict'[c]) \cap ToSet(CVlistDict'[d]) = {},
           \A c \in Cond : IsInjective(CVlistDict'[c])
    PROVE  IInv' /\ Occupants = {t} /\ Hoare!HandOn
<1> USE DEF IInv
<1> DEFINE ts == IF call = "leave" THEN {t} ELSE {}
<1>1. /\ inbox' \in Seq(Thread)
      /\ t \in ToSet(inbox)
      /\ ToSet(inbox)' = ToSet(inbox) \ {t}
      /\ IsInjective(inbox)'
      /\ at[t] = call
      /\ t \notin Entering \cup Urgent \cup Waiting
      /\ Occupants = {t} /\ monBusy
    BY ReceiveStep DEF Calls
<1>2. ts \in SUBSET Thread /\ HandOn(ts)
    OBVIOUS
<1> HIDE DEF ts
<1>3. PICK next \in SUBSET Thread :
          /\ Reply(ts \cup next)
          /\ \A a, b \in next : a = b
          /\ next \subseteq Entering \cup Urgent
          /\ Urgent # {} => next \subseteq Urgent
          /\ next = {} => Entering = {} /\ Urgent = {}
          /\ Entering' = Entering \ next
          /\ Urgent' = Urgent \ next
          /\ enterQueue' \in Seq(Thread) /\ IsInjective(enterQueue)'
          /\ urgentQueue' \in Seq(Thread) /\ IsInjective(urgentQueue)'
          /\ urgentCurser' \in 0..Len(urgentQueue')
          /\ urgentQueue' # <<>> => urgentCurser' # 0
          /\ monBusy' \in BOOLEAN
          /\ monBusy' <=> next # {}
          /\ ~monBusy' => enterQueue' = <<>> /\ urgentQueue' = <<>>
    BY <1>1, <1>2, HandOnStep
<1>4. next \cap (ToSet(inbox) \cup Waiting) = {} /\ t \notin next
    BY <1>1, <1>3 DEF BlockedOnce, Entering, Urgent
<1>5. ToSet(inbox)' \cup ((Entering \cup Urgent) \cup Waiting)'
          = (ToSet(inbox) \cup ((Entering \cup Urgent) \cup Waiting))
            \ (ts \cup next)
    BY <1>1, <1>3, <1>4 DEF ts
<1>6. /\ at' \in [Thread -> Calls \cup {"outside", "inside"}]
      /\ \A u \in ts \cup next :
            at'[u] = IF at[u] = "leave" THEN "outside" ELSE "inside"
      /\ \A u \in Thread \ (ts \cup next) : at'[u] = at[u]
      /\ ToSet(inbox)' \cup ((Entering \cup Urgent) \cup Waiting)'
             = {u \in Thread : at'[u] \in Calls}
    BY <1>2, <1>3, <1>5, ReplyStep
<1>7. /\ \A u \in next : at'[u] = "inside"
      /\ at'[t] = IF call = "leave" THEN "outside" ELSE "wait"
      /\ \A u \in Thread \ (next \cup {t}) : at'[u] = at[u]
    <2>1. \A u \in next : at[u] # "leave"
        BY <1>3 DEF BlockedOnce, Entering, Urgent
    <2> QED
        BY <1>1, <1>4, <1>6, <2>1 DEF ts
<1>8. TypeOK'
    BY <1>1, <1>3, <1>6 DEF TypeOK, Receive
<1>9. BlockedOnce'
    <2>1. ToSet(inbox)' \cap ((Entering \cup Urgent) \cup Waiting)' = {}
        BY <1>1, <1>3 DEF BlockedOnce, Entering, Urgent
    <2>2. /\ \A u \in Entering' : at'[u] = "enter"
          /\ \A u \in Urgent' : at'[u] = "signal"
        BY <1>1, <1>3, <1>7, QueuesOfThreads DEF BlockedOnce, Entering, Urgent
    <2>3. \A u \in Waiting' : at'[u] = "wait"
        <3>1. \A u \in Waiting : u \in Thread /\ at[u] = "wait"
            BY DEF BlockedOnce, TypeOK, Waiting, ToSet
        <3> QED
            BY <1>1, <1>4, <1>7, <3>1
    <2> QED
        BY <1>1, <1>3, <1>6, <2>1, <2>2, <2>3 DEF BlockedOnce, Entering, Urgent
<1>10. Occupants' = next
    <2>1. ASSUME NEW u \in Thread
          PROVE  u \in Occupants' <=> u \in next
        <3>1. CASE u \in next
            BY <1>7, <3>1 DEF Occupants
        <3>2. CASE u = t
            BY <1>1, <1>4, <1>7, <3>2 DEF Occupants
        <3>3. CASE u \notin next \cup {t}
            <4>1. u \notin Occupants
                BY <1>1, <3>3
            <4> QED
                BY <1>1, <1>7, <3>3, <4>1 DEF Occupants
        <3> QED
            BY <3>1, <3>2, <3>3
    <2> QED
        BY <2>1 DEF Occupants
<1>11. MutualExclusion' /\ BusyIsTrue'
    BY <1>3, <1>10 DEF MutualExclusion, BusyIsTrue
<1>12. Hoare!HandOn
    <2>1. CASE next = {}
        BY <1>3, <1>10, <2>1 DEF Hoare!HandOn, Entering, Urgent
    <2>2. CASE next # {}
        <3>1. PICK u \in next : next = {u}
            BY <1>3, <2>2
        <3>2. CASE u \in Urgent
            <4>1. Entering' = Entering
                BY <1>3, <3>1, <3>2 DEF BlockedOnce, Entering, Urgent
            <4> QED
                BY <1>3, <1>10, <3>1, <3>2, <4>1
                   DEF Hoare!HandOn, Entering, Urgent
        <3>3. CASE u \notin Urgent
            BY <1>3, <1>10, <3>1, <3>3 DEF Hoare!HandOn, Entering, Urgent
        <3> QED
            BY <3>2, <3>3
    <2> QED
        BY <2>1, <2>2
<1> QED
    BY <1>1, <1>8, <1>9, <1>11, <1>12

LEMMA ServeLeaveStep ==
    ASSUME IInv, NEW t \in Thread, ServeLeave(t)
    PROVE  IInv' /\ Hoare!Leave(t)
<1>1. /\ Receive(t, "leave") /\ HandOn({t})
      /\ UNCHANGED <<CVlistDict, Waiting>>
    BY DEF ServeLeave, Waiting
<1>2. /\ CVlistDict' \in [Cond -> Seq(Thread)]
      /\ \A c, d \in Cond : c # d =>
             ToSet(CVlistDict'[c]) \cap ToSet(CVlistDict'[d]) = {}
      /\ \A c \in Cond : IsInjective(CVlistDict'[c])
    BY <1>1 DEF IInv, TypeOK, BlockedOnce
<1>3. IInv' /\ Occupants = {t} /\ Hoare!HandOn
    BY <1>1, <1>2, HandOver
<1> QED
    BY <1>1, <1>3 DEF Hoare!Leave

LEMMA ServeWaitStep ==
    ASSUME IInv, NEW t \in Thread, ServeWait(t)
    PROVE  IInv' /\ Hoare!Wait(t)
<1>1. /\ Receive(t, "wait") /\ HandOn({})
      /\ CVlistDict' = [CVlistDict EXCEPT ![condVar] = Append(@, t)]
    BY DEF ServeWait
<1>2. t \notin Waiting
    BY <1>1, ReceiveStep DEF Calls
<1>3. /\ CVlistDict' \in [Cond -> Seq(Thread)]
      /\ Waiting' = Waiting \cup {t}
      /\ \A c, d \in Cond : c # d =>
             ToSet(CVlistDict'[c]) \cap ToSet(CVlistDict'[d]) = {}
      /\ \A c \in Cond : IsInjective(CVlistDict'[c])
    BY <1>1, <1>2, AppendWaiting DEF IInv
<1>4. IInv' /\ Occupants = {t} /\ Hoare!HandOn
    BY <1>1, <1>3, HandOver
<1> QED
    BY <1>3, <1>4 DEF Hoare!Wait

LEMMA ServeSignalStep ==
    ASSUME IInv, NEW t \in Thread, ServeSignal(t)
    PROVE  IInv' /\ (Hoare!Signal(t) \/ UNCHANGED Hoare!vars)
<1> USE DEF IInv
<1>0. Receive(t, "signal") /\ "signal" \in Calls
    BY DEF ServeSignal, Calls
<1>1. /\ inbox' \in Seq(Thread)
      /\ t \in ToSet(inbox)
      /\ ToSet(inbox)' = ToSet(inbox) \ {t}
      /\ IsInjective(inbox)'
      /\ at[t] = "signal"
      /\ t \notin Entering \cup Urgent \cup Waiting
      /\ Occupants = {t} /\ monBusy
    BY <1>0, ReceiveStep
<1>2. UNCHANGED <<arg, condVar, monBusy, enterQueue, Entering>>
    BY DEF ServeSignal, Receive, Entering
<1>3. CASE CVlistDict[condVar] # <<>>
    <2> DEFINE w == Head(CVlistDict[condVar])
    <2>1. /\ Reply({w})
          /\ CVlistDict' = [CVlistDict EXCEPT ![condVar] = Tail(@)]
          /\ InsertUrgentQueue(t)
        BY <1>3 DEF ServeSignal
    <2>2. /\ CVlistDict' \in [Cond -> Seq(Thread)]
          /\ w \in Waiting
          /\ Waiting' = Waiting \ {w}
          /\ \A c, d \in Cond : c # d =>
                 ToSet(CVlistDict'[c]) \cap ToSet(CVlistDict'[d]) = {}
          /\ \A c \in Cond : IsInjective(CVlistDict'[c])
        BY <1>3, <2>1, RemoveWaiting
    <2> HIDE DEF w
    <2>3. /\ urgentQueue' \in Seq(Thread)
          /\ urgentQueue' # <<>>
          /\ Urgent' = Urgent \cup {t}
          /\ IsInjective(urgentQueue)'
          /\ urgentCurser' \in 1..Len(urgentQueue')
        <3>1. /\ urgentQueue \in Seq(Thread) /\ IsInjective(urgentQueue)
              /\ t \notin ToSet(urgentQueue)
            BY <1>1 DEF TypeOK, BlockedOnce, Urgent
        <3>2. CASE urgentQueue = <<>>
            <4>1. urgentQueue' = Append(urgentQueue, t) /\ urgentCurser' = 1
                BY <2>1, <3>2 DEF InsertUrgentQueue
            <4>2. Len(urgentQueue') = 1
                BY <3>2, <4>1
            <4>3. /\ urgentQueue' \in Seq(Thread)
                  /\ ToSet(urgentQueue') = ToSet(urgentQueue) \cup {t}
                  /\ IsInjective(urgentQueue')
                BY <3>1, <4>1, AppendAdds
            <4>4. urgentQueue' # <<>> /\ urgentCurser' \in 1..Len(urgentQueue')
                BY <4>1, <4>2
            <4> QED
                BY <4>3, <4>4 DEF Urgent
        <3>3. CASE urgentQueue # <<>>
            <4>1. urgentCurser \in 1..Len(urgentQueue) /\ Len(urgentQueue) \in Nat
                BY <3>1, <3>3 DEF TypeOK
            <4>2. /\ urgentQueue' = InsertAt(urgentQueue, urgentCurser, t)
                  /\ urgentCurser' = urgentCurser
                BY <2>1, <3>3 DEF InsertUrgentQueue
            <4>3. /\ urgentQueue' \in Seq(Thread)
                  /\ Len(urgentQueue') = Len(urgentQueue) + 1
                  /\ ToSet(urgentQueue') = ToSet(urgentQueue) \cup {t}
                  /\ IsInjective(urgentQueue')
                BY <3>1, <4>1, <4>2, InsertAdds
            <4>4. urgentQueue' # <<>> /\ urgentCurser' \in 1..Len(urgentQueue')
                BY <4>1, <4>2, <4>3
            <4> QED
                BY <4>3, <4>4 DEF Urgent
        <3> QED
            BY <3>2, <3>3
    <2>4. w \in Thread /\ w # t /\ at[w] = "wait"
          /\ w \notin ToSet(inbox) \cup Entering \cup Urgent
        BY <1>1, <2>2 DEF BlockedOnce, Waiting, TypeOK, ToSet, Entering, Urgent
    <2>5. ToSet(inbox)' \cup ((Entering \cup Urgent) \cup Waiting)'
              = (ToSet(inbox) \cup ((Entering \cup Urgent) \cup Waiting)) \ {w}
        BY <1>1, <1>2, <2>2, <2>3, <2>4
    <2>6. /\ at' \in [Thread -> Calls \cup {"outside", "inside"}]
          /\ at'[w] = "inside"
          /\ \A u \in Thread \ {w} : at'[u] = at[u]
          /\ ToSet(inbox)' \cup ((Entering \cup Urgent) \cup Waiting)'
                 = {u \in Thread : at'[u] \in Calls}
        BY <2>1, <2>4, <2>5, ReplyStep
    <2>7. TypeOK'
        <3>1. urgentCurser' \in 0..Len(urgentQueue') /\ urgentCurser' # 0
            BY <2>3
        <3> QED
            BY <1>1, <1>2, <2>2, <2>3, <2>6, <3>1 DEF TypeOK
    <2>8. BlockedOnce'
        <3>1. ToSet(inbox)' \cap ((Entering \cup Urgent) \cup Waiting)' = {}
            BY <1>1, <1>2, <2>2, <2>3 DEF BlockedOnce, Entering, Urgent
        <3>2. \A u \in Entering' : at'[u] = "enter"
            BY <1>2, <2>4, <2>6, QueuesOfThreads DEF BlockedOnce, Entering
        <3>3. \A u \in Urgent' : at'[u] = "signal"
            BY <1>1, <2>3, <2>4, <2>6, QueuesOfThreads DEF BlockedOnce, Urgent
        <3>4. \A u \in Waiting' : at'[u] = "wait"
            <4>1. \A u \in Waiting : u \in Thread /\ at[u] = "wait"
                BY DEF BlockedOnce, TypeOK, Waiting, ToSet
            <4> QED
                BY <2>2, <2>6, <4>1
        <3> QED
            BY <1>1, <1>2, <2>2, <2>3, <2>6, <3>1, <3>2, <3>3, <3>4
               DEF BlockedOnce, Entering, Urgent
    <2>9. Occupants' = {w}
        <3>1. ASSUME NEW u \in Thread
              PROVE  u \in Occupants' <=> u = w
            <4>1. u # t => u \notin Occupants
                BY <1>1
            <4> QED
                BY <1>1, <2>4, <2>6, <4>1 DEF Occupants
        <3> QED
            BY <2>4, <3>1 DEF Occupants
    <2>10. MutualExclusion' /\ BusyIsTrue'
        BY <1>1, <1>2, <2>9 DEF MutualExclusion, BusyIsTrue
    <2>11. Hoare!Signal(t)
        BY <1>1, <1>2, <2>2, <2>3, <2>9 DEF Hoare!Signal, Entering, Urgent
    <2> QED
        BY <2>7, <2>8, <2>10, <2>11
<1>4. CASE CVlistDict[condVar] = <<>>
    <2>1. /\ Reply({t})
          /\ UNCHANGED <<CVlistDict, urgentQueue, urgentCurser, Urgent, Waiting>>
        BY <1>4 DEF ServeSignal, Urgent, Waiting
    <2>2. ToSet(inbox)' \cup ((Entering \cup Urgent) \cup Waiting)'
              = (ToSet(inbox) \cup ((Entering \cup Urgent) \cup Waiting)) \ {t}
        BY <1>1, <1>2, <2>1
    <2>3. /\ at' \in [Thread -> Calls \cup {"outside", "inside"}]
          /\ at'[t] = "inside"
          /\ \A u \in Thread \ {t} : at'[u] = at[u]
          /\ ToSet(inbox)' \cup ((Entering \cup Urgent) \cup Waiting)'
                 = {u \in Thread : at'[u] \in Calls}
        BY <1>1, <2>1, <2>2, ReplyStep
    <2>4. TypeOK'
        BY <1>1, <1>2, <2>1, <2>3 DEF TypeOK
    <2>5. BlockedOnce'
        <3>1. ToSet(inbox)' \cap ((Entering \cup Urgent) \cup Waiting)' = {}
            BY <1>1, <1>2, <2>1 DEF BlockedOnce, Entering, Urgent
        <3>2. /\ \A u \in Entering' : at'[u] = "enter"
              /\ \A u \in Urgent' : at'[u] = "signal"
            BY <1>1, <1>2, <2>1, <2>3, QueuesOfThreads
               DEF BlockedOnce, Entering, Urgent
        <3>3. \A u \in Waiting' : at'[u] = "wait"
            <4>1. \A u \in Waiting : u \in Thread /\ at[u] = "wait"
                BY DEF BlockedOnce, TypeOK, Waiting, ToSet
            <4> QED
                BY <1>1, <2>1, <2>3, <4>1
        <3> QED
            BY <1>1, <1>2, <2>1, <2>3, <3>1, <3>2, <3>3
               DEF BlockedOnce, Entering, Urgent
    <2>6. Occupants' = {t}
        <3>1. ASSUME NEW u \in Thread
              PROVE  u \in Occupants' <=> u = t
            <4>1. u # t => u \notin Occupants
                BY <1>1
            <4> QED
                BY <1>1, <2>3, <4>1 DEF Occupants
        <3> QED
            BY <1>1, <3>1 DEF Occupants
    <2>7. MutualExclusion' /\ BusyIsTrue'
        BY <1>1, <1>2, <2>1, <2>6 DEF MutualExclusion, BusyIsTrue
    <2>8. UNCHANGED Hoare!vars
        BY <1>1, <1>2, <2>1, <2>6 DEF Hoare!vars, Entering, Urgent
    <2> QED
        BY <2>4, <2>5, <2>7, <2>8
<1> QED
    BY <1>3, <1>4

LEMMA CallerStep ==
    ASSUME IInv, NEW t \in Thread, Caller(t)
    PROVE  IInv' /\ UNCHANGED Hoare!vars
<1>1. arg \in [Thread -> Cond]
    BY DEF IInv, TypeOK
<1>2. PICK call \in Calls :
          /\ at[t] = IF call = "enter" THEN "outside" ELSE "inside"
          /\ Send(t, call)
          /\ arg' \in [Thread -> Cond]
    <2>1. CASE RttMonEnter(t)
        BY <1>1, <2>1 DEF RttMonEnter, Calls
    <2>2. CASE RttMonLeave(t)
        BY <1>1, <2>2 DEF RttMonLeave, Calls
    <2>3. ASSUME NEW c \in Cond, RttMonWait(t, c)
          PROVE  at[t] = "inside" /\ Send(t, "wait") /\ arg' \in [Thread -> Cond]
        BY <1>1, <2>3 DEF RttMonWait
    <2>4. ASSUME NEW c \in Cond, RttMonSignal(t, c)
          PROVE  at[t] = "inside" /\ Send(t, "signal") /\ arg' \in [Thread -> Cond]
        BY <1>1, <2>4 DEF RttMonSignal
    <2> QED
        BY <2>1, <2>2, <2>3, <2>4 DEF Caller, Calls
<1> QED
    BY <1>2, SendStep

LEMMA InitHolds ==
    ASSUME Init
    PROVE  IInv /\ Hoare!Init
<1>1. \A t \in Thread : at[t] = "outside"
    BY DEF Init
<1>2. /\ ToSet(inbox) = {} /\ ToSet(enterQueue) = {} /\ ToSet(urgentQueue) = {}
      /\ Waiting = {}
      /\ inbox \in Seq(Thread) /\ enterQueue \in Seq(Thread)
      /\ urgentQueue \in Seq(Thread) /\ Len(urgentQueue) = 0
    BY DEF Init, ToSet, Waiting
<1>3. /\ IsInjective(inbox) /\ IsInjective(enterQueue) /\ IsInjective(urgentQueue)
      /\ \A c \in Cond : CVlistDict[c] = <<>> /\ IsInjective(CVlistDict[c])
                         /\ ToSet(CVlistDict[c]) = {}
    BY DEF Init, IsInjective, ToSet
<1>4. Occupants = {}
    BY <1>1 DEF Occupants
<1>5. TypeOK
    <2>1. CVlistDict \in [Cond -> Seq(Thread)]
        BY DEF Init
    <2>2. at \in [Thread -> Calls \cup {"outside", "inside"}]
        BY DEF Init
    <2>3. arg \in [Thread -> Cond]
        BY DEF Init
    <2>4. urgentCurser \in 0..Len(urgentQueue) /\ urgentQueue = <<>>
        BY <1>2 DEF Init
    <2> QED
        BY <1>2, <2>1, <2>2, <2>3, <2>4 DEF Init, TypeOK
<1>6. BlockedOnce
    BY <1>1, <1>2, <1>3 DEF BlockedOnce, Calls
<1>7. MutualExclusion /\ BusyIsTrue
    BY <1>4 DEF Init, MutualExclusion, BusyIsTrue
<1>8. Hoare!Init
    BY <1>2, <1>4 DEF Hoare!Init
<1> QED
    BY <1>5, <1>6, <1>7, <1>8 DEF IInv

LEMMA NextStep ==
    ASSUME IInv, [Next]_vars
    PROVE  IInv' /\ [Hoare!Next]_(Hoare!vars)
<1>1. CASE UNCHANGED vars
    <2>1. UNCHANGED <<at, inbox, enterQueue, urgentQueue, CVlistDict, monBusy>>
        BY <1>1 DEF vars
    <2>2. UNCHANGED <<Occupants, Waiting, ToSet(inbox), Entering, Urgent>>
        BY <2>1 DEF Occupants, Waiting, Entering, Urgent
    <2>3. UNCHANGED Hoare!vars
        BY <2>2 DEF Hoare!vars, Entering, Urgent
    <2>4. IInv'
        BY <1>1, <2>1, <2>2 DEF IInv, TypeOK, BlockedOnce, MutualExclusion,
                                BusyIsTrue, vars, Entering, Urgent
    <2> QED
        BY <2>3, <2>4
<1>2. ASSUME NEW t \in Thread, Caller(t)
      PROVE  IInv' /\ [Hoare!Next]_(Hoare!vars)
    BY <1>2, CallerStep
<1>3. ASSUME NEW t \in Thread, ServeEnter(t)
      PROVE  IInv' /\ Hoare!Next
    BY <1>3, ServeEnterStep DEF Hoare!Next
<1>4. ASSUME NEW t \in Thread, ServeLeave(t)
      PROVE  IInv' /\ Hoare!Next
    BY <1>4, ServeLeaveStep DEF Hoare!Next
<1>5. ASSUME NEW t \in Thread, ServeWait(t)
      PROVE  IInv' /\ Hoare!Next
    BY <1>5, ServeWaitStep DEF Hoare!Next
<1>6. ASSUME NEW t \in Thread, ServeSignal(t)
      PROVE  IInv' /\ [Hoare!Next]_(Hoare!vars)
    BY <1>6, ServeSignalStep DEF Hoare!Next
<1> QED
    BY <1>1, <1>2, <1>3, <1>4, <1>5, <1>6 DEF Next, MonServer

(***************************************************************************)
(* The theorems.                                                           *)
(***************************************************************************)

(* Every behaviour of the server and its callers keeps the invariant.        *)
THEOREM Invariance == Spec => []IInv
<1>1. Init => IInv
    BY InitHolds
<1>2. IInv /\ [Next]_vars => IInv'
    BY NextStep
<1> QED
    BY <1>1, <1>2, PTL DEF Spec

(* The variables keep their types; ListInsert() finds a node to insert       *)
(* before whenever urgentQueue has any.                                      *)
THEOREM TypeCorrect == Spec => []TypeOK
<1>1. IInv => TypeOK
    BY DEF IInv
<1> QED
    BY <1>1, Invariance, PTL

(* Two threads never have the monitor, however many use it.                  *)
THEOREM Exclusion == Spec => []MutualExclusion
<1>1. IInv => MutualExclusion
    BY DEF IInv
<1> QED
    BY <1>1, Invariance, PTL

(* A blocked thread is queued in one place, so it gets exactly one reply.    *)
THEOREM NobodyLost == Spec => []BlockedOnce
<1>1. IInv => BlockedOnce
    BY DEF IInv
<1> QED
    BY <1>1, Invariance, PTL

(* The server implements the signal-and-wait monitor.                        *)
THEOREM ImplementsMonitor == Spec => HoareSpec
<1>1. Init => Hoare!Init
    BY InitHolds
<1>2. IInv /\ [Next]_vars => [Hoare!Next]_(Hoare!vars)
    BY NextStep
<1> QED
    BY <1>1, <1>2, Invariance, PTL DEF Spec, HoareSpec, Hoare!Spec
=============================================================================
