----------------------------- MODULE RttMonitor -----------------------------
(* The monitor of assignment 4 (a4/partA/monitor.c): a thread MonServer owns *)
(* it, and RttMonEnter, RttMonLeave, RttMonWait and RttMonSignal send it a   *)
(* message and block until it replies.  Threads of RT Threads do not preempt *)
(* each other (a2_phase2/PartC.design.txt:94), so a call up to its RttSend   *)
(* is one step, and one message handled by the server is another.            *)
(*                                                                           *)
(* RttSend, RttReceive and RttReply are not in the repository: a message     *)
(* queues at the receiver in order of sending, and the sender stays blocked  *)
(* until somebody replies to it.                                             *)
EXTENDS Naturals, SequencesExt

CONSTANTS
    Thread,     \* the threads that use the monitor
    Cond        \* the condition variables, 0..numConds-1 in the code

ASSUME MonitorAssumption == Cond # {}

VARIABLES
    at,             \* outside, inside, or the call the thread is blocked in
    arg,            \* the condition it passed to its last wait or signal
    inbox,          \* the messages queued at the server, by their sender
    monBusy, enterQueue, urgentQueue,
    urgentCurser,   \* position of urgentQueue->curser, 0 in an empty list
    CVlistDict,
    condVar         \* msg->condVar, as the server sees it

vars == <<at, arg, inbox, monBusy, enterQueue, urgentQueue, urgentCurser,
          CVlistDict, condVar>>

Calls == {"enter", "leave", "wait", "signal"}

(* RttMonInit() has run and the server is in RttReceive().  The message's    *)
(* condVar lies beyond the 10 bytes of it that are sent (len = 10), so the   *)
(* server always reads what malloc() left in msg->condVar: any condition.    *)
(* (A value that is no condition would index outside CVlistDict[].)          *)
Init ==
    /\ at = [t \in Thread |-> "outside"]
    /\ \E c \in Cond : arg = [t \in Thread |-> c]
    /\ inbox = <<>>
    /\ monBusy = FALSE
    /\ enterQueue = <<>>
    /\ urgentQueue = <<>>
    /\ urgentCurser = 0
    /\ CVlistDict = [c \in Cond |-> <<>>]
    /\ condVar \in Cond

(***************************************************************************)
(* The callers, up to RttSend().                                           *)
(***************************************************************************)

Send(t, call) ==
    /\ at' = [at EXCEPT ![t] = call]
    /\ inbox' = Append(inbox, t)
    /\ UNCHANGED <<monBusy, enterQueue, urgentQueue, urgentCurser, CVlistDict,
                   condVar>>

RttMonEnter(t) == at[t] = "outside" /\ Send(t, "enter") /\ UNCHANGED arg

RttMonLeave(t) == at[t] = "inside" /\ Send(t, "leave") /\ UNCHANGED arg

RttMonWait(t, c) ==
    at[t] = "inside" /\ Send(t, "wait") /\ arg' = [arg EXCEPT ![t] = c]

RttMonSignal(t, c) ==
    at[t] = "inside" /\ Send(t, "signal") /\ arg' = [arg EXCEPT ![t] = c]

(***************************************************************************)
(* MonServer(): one message each.                                          *)
(***************************************************************************)

Receive(t, call) ==
    /\ inbox # <<>>
    /\ t = Head(inbox)
    /\ at[t] = call
    /\ inbox' = Tail(inbox)
    /\ UNCHANGED <<arg, condVar>>

(* RttReply() to each of ts: its call returns.                               *)
Reply(ts) ==
    at' = [t \in Thread |->
              IF t \notin ts THEN at[t]
              ELSE IF at[t] = "leave" THEN "outside" ELSE "inside"]

(* Mutant: the monitor is not marked busy.                                   *)
ServeEnterNotBusy(t) ==
    /\ Receive(t, "enter")
    /\ IF monBusy
       THEN enterQueue' = Append(enterQueue, t) /\ UNCHANGED at
       ELSE Reply({t}) /\ UNCHANGED enterQueue
    /\ UNCHANGED <<monBusy, urgentQueue, urgentCurser, CVlistDict>>

ServeEnter(t) ==
    /\ Receive(t, "enter")
    /\ IF monBusy
       THEN enterQueue' = Append(enterQueue, t) /\ UNCHANGED <<at, monBusy>>
       ELSE Reply({t}) /\ monBusy' = TRUE /\ UNCHANGED enterQueue
    /\ UNCHANGED <<urgentQueue, urgentCurser, CVlistDict>>

(* ListTrim(urgentQueue): the cursor moves to the new tail.                  *)
TrimUrgentQueue ==
    /\ urgentQueue' = Front(urgentQueue)
    /\ urgentCurser' = Len(urgentQueue) - 1

(* Mutant: a thread that enters goes before one that signalled.              *)
HandOnToEntering(answered) ==
    \/ /\ enterQueue # <<>>
       /\ Reply(answered \cup {Last(enterQueue)})
       /\ enterQueue' = Front(enterQueue)
       /\ UNCHANGED <<monBusy, urgentQueue, urgentCurser>>
    \/ /\ enterQueue = <<>> /\ urgentQueue # <<>>
       /\ Reply(answered \cup {Last(urgentQueue)})
       /\ TrimUrgentQueue
       /\ UNCHANGED <<monBusy, enterQueue>>
    \/ /\ urgentQueue = <<>> /\ enterQueue = <<>>
       /\ Reply(answered)
       /\ monBusy' = FALSE
       /\ UNCHANGED <<enterQueue, urgentQueue, urgentCurser>>

(* Mutant: nobody looks at enterQueue.                                       *)
HandOnToUrgentOnly(answered) ==
    \/ /\ urgentQueue # <<>>
       /\ Reply(answered \cup {Last(urgentQueue)})
       /\ TrimUrgentQueue
       /\ UNCHANGED <<monBusy, enterQueue>>
    \/ /\ urgentQueue = <<>>
       /\ Reply(answered)
       /\ monBusy' = FALSE
       /\ UNCHANGED <<enterQueue, urgentQueue, urgentCurser>>

(* What leave and wait end with: reply to the tail of urgentQueue, else to   *)
(* the tail of enterQueue, else the monitor is free.  enterQueue's cursor is *)
(* always at its tail, so ListAdd() appends and ListTrim() takes the newest. *)
HandOn(answered) ==
    \/ /\ urgentQueue # <<>>
       /\ Reply(answered \cup {Last(urgentQueue)})
       /\ TrimUrgentQueue
       /\ UNCHANGED <<monBusy, enterQueue>>
    \/ /\ urgentQueue = <<>> /\ enterQueue # <<>>
       /\ Reply(answered \cup {Last(enterQueue)})
       /\ enterQueue' = Front(enterQueue)
       /\ UNCHANGED <<monBusy, urgentQueue, urgentCurser>>
    \/ /\ urgentQueue = <<>> /\ enterQueue = <<>>
       /\ Reply(answered)
       /\ monBusy' = FALSE
       /\ UNCHANGED <<enterQueue, urgentQueue, urgentCurser>>

ServeLeave(t) == Receive(t, "leave") /\ HandOn({t}) /\ UNCHANGED CVlistDict

ServeWait(t) ==
    /\ Receive(t, "wait")
    /\ CVlistDict' = [CVlistDict EXCEPT ![condVar] = Append(@, t)]
    /\ HandOn({})

(* ListInsert(urgentQueue, senderPid): before the cursor, which moves to it. *)
InsertUrgentQueue(t) ==
    IF urgentQueue = <<>>
    THEN urgentQueue' = <<t>> /\ urgentCurser' = 1
    ELSE /\ urgentQueue' = InsertAt(urgentQueue, urgentCurser, t)
         /\ UNCHANGED urgentCurser

(* Mutant: the signaller is not queued.                                      *)
ServeSignalDropsSender(t) ==
    /\ Receive(t, "signal")
    /\ IF CVlistDict[condVar] # <<>>
       THEN /\ Reply({Head(CVlistDict[condVar])})
            /\ CVlistDict' = [CVlistDict EXCEPT ![condVar] = Tail(@)]
       ELSE /\ Reply({t})
            /\ UNCHANGED CVlistDict
    /\ UNCHANGED <<monBusy, enterQueue, urgentQueue, urgentCurser>>

(* ListFirst() and ListRemove() take the longest waiter off its list.        *)
ServeSignal(t) ==
    /\ Receive(t, "signal")
    /\ IF CVlistDict[condVar] # <<>>
       THEN /\ Reply({Head(CVlistDict[condVar])})
            /\ CVlistDict' = [CVlistDict EXCEPT ![condVar] = Tail(@)]
            /\ InsertUrgentQueue(t)
       ELSE /\ Reply({t})
            /\ UNCHANGED <<CVlistDict, urgentQueue, urgentCurser>>
    /\ UNCHANGED <<monBusy, enterQueue>>

Caller(t) ==
    \/ RttMonEnter(t)
    \/ RttMonLeave(t)
    \/ \E c \in Cond : RttMonWait(t, c) \/ RttMonSignal(t, c)

MonServer ==
    \E t \in Thread :
        ServeEnter(t) \/ ServeLeave(t) \/ ServeWait(t) \/ ServeSignal(t)

Next == MonServer \/ \E t \in Thread : Caller(t)

Spec == Init /\ [][Next]_vars

(* The server handles its messages.  A thread inside the monitor leaves it   *)
(* or waits at last: no procedure of mem-management.c signals in a loop.     *)
GivesUp(t) == RttMonLeave(t) \/ \E c \in Cond : RttMonWait(t, c)

Fairness == WF_vars(MonServer) /\ \A t \in Thread : SF_vars(GivesUp(t))

FairSpec == Spec /\ Fairness

(***************************************************************************)
(* Properties.                                                             *)
(***************************************************************************)

(* Who has the monitor: inside it, or still waiting for the server to take   *)
(* its leave, wait or signal.                                                *)
Occupants ==
    {t \in Thread :
        \/ at[t] = "inside"
        \/ at[t] \in {"leave", "wait", "signal"} /\ t \in ToSet(inbox)}

Waiting == UNION {ToSet(CVlistDict[c]) : c \in Cond}

(* Every variable has its type; the cursor of urgentQueue is on one of its   *)
(* nodes, which ListInsert() takes for granted.                              *)
TypeOK ==
    /\ at \in [Thread -> Calls \cup {"outside", "inside"}]
    /\ arg \in [Thread -> Cond]
    /\ inbox \in Seq(Thread)
    /\ monBusy \in BOOLEAN
    /\ enterQueue \in Seq(Thread)
    /\ urgentQueue \in Seq(Thread)
    /\ urgentCurser \in 0..Len(urgentQueue)
    /\ urgentQueue # <<>> => urgentCurser # 0
    /\ CVlistDict \in [Cond -> Seq(Thread)]
    /\ condVar \in Cond

(* Mutual exclusion: two threads never have the monitor at once, from the    *)
(* reply that lets one in to the message that gives it up.                   *)
MutualExclusion == \A t, u \in Occupants : t = u

(* No reply is lost and none is given twice: a thread blocked in a call is   *)
(* in exactly one of the server's queues, once, and no other thread is.      *)
BlockedOnce ==
    LET queued == ToSet(enterQueue) \cup ToSet(urgentQueue) \cup Waiting
    IN  /\ ToSet(inbox) \cup queued = {t \in Thread : at[t] \in Calls}
        /\ ToSet(inbox) \cap queued = {}
        /\ \A t \in ToSet(enterQueue) : at[t] = "enter"
        /\ \A t \in ToSet(urgentQueue) : at[t] = "signal"
        /\ \A t \in Waiting : at[t] = "wait"
        /\ \A c, d \in Cond : c # d =>
              ToSet(CVlistDict[c]) \cap ToSet(CVlistDict[d]) = {}
        /\ IsInjective(inbox)
        /\ IsInjective(enterQueue)
        /\ IsInjective(urgentQueue)
        /\ \A c \in Cond : IsInjective(CVlistDict[c])

(* The server keeps the promise of a signal-and-wait monitor.                *)
Hoare == INSTANCE HoareMonitor
    WITH inside <- Occupants, entering <- ToSet(enterQueue),
         urgent <- ToSet(urgentQueue), waiting <- Waiting
HoareSpec == Hoare!Spec

(* When no more threads enter and no more of them signal, as when the        *)
(* simulation runs out of iterations, every thread whose enter or signal is  *)
(* pending gets into the monitor: no handover is forgotten.                  *)
EveryoneGetsIn ==
    <>[][\A t \in Thread : ~RttMonEnter(t)
                           /\ \A c \in Cond : ~RttMonSignal(t, c)]_vars
    => \A t \in Thread : at[t] \in {"enter", "signal"} ~> at[t] = "inside"

(* A signal wakes a thread that waits for the condition it names.            *)
SignalWakesItsCondition ==
    [][\A s, w \in Thread :
          ServeSignal(s) /\ at[w] = "wait" /\ at'[w] = "inside"
          => arg[w] = arg[s]]_vars
=============================================================================
