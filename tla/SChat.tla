-------------------------------- MODULE SChat -------------------------------
(* The chat program of assignment 2 (a2_phase2/s_chat.c): a server that      *)
(* takes messages from two readers (consoleIn, networkIn) and hands them to  *)
(* two writers (networkOut, consoleOut) through lists of buffers.  A thread  *)
(* runs until it sleeps or blocks in RttSend(); which one runs next is RT    *)
(* Threads' choice, and any here.  A message is the number its reader gave   *)
(* it.                                                                       *)
EXTENDS CursorList, FiniteSets

CONSTANTS
    QUEUESIZE,
    MaxRead         \* bound of this model: messages a reader reads

SChatAssumption == QUEUESIZE \in Nat \ {0} /\ MaxRead \in Nat

Reader == {"consoleIn", "networkIn"}
Writer == {"consoleOut", "networkOut"}
Thread == Reader \cup Writer \cup {"server"}
Way == {"console", "network"}       \* to the console, to the network
WayOf == [consoleIn |-> "network", networkIn |-> "console",
          consoleOut |-> "console", networkOut |-> "network"]
EOF == 0
Buffer == 1..QUEUESIZE              \* of each way

VARIABLES
    exitFlag,
    pc,             \* per thread: ready, asleep, sending, received, ended
    mailbox,        \* what was sent to the server: from and data
    list,           \* per way: freeList, queue, curMessage and ready
    content,        \* per way, what is in each buffer
    inHand,         \* per writer, what it was last given
    read,           \* per reader, the number of messages read
    accepted,       \* per way, the messages the server queued
    output          \* per way, the messages written

server == <<list, content, inHand, accepted>>
vars == <<exitFlag, pc, mailbox, server, read, output>>

(* configureLists(), and the first buffer of each way, which is taken.       *)
Fresh ==
    LET full == [items |-> [i \in Buffer |-> i], curser |-> QUEUESIZE]
    IN  [freeList |-> ListTrim(full), queue |-> EmptyList,
         curMessage |-> QUEUESIZE, ready |-> FALSE]

Init ==
    /\ exitFlag = FALSE
    /\ pc = [t \in Thread |-> IF t = "server" THEN "asleep" ELSE "ready"]
    /\ mailbox = <<>>
    /\ list = [w \in Way |-> Fresh]
    /\ content = [w \in Way |-> [b \in Buffer |-> EOF]]
    /\ inHand = [t \in Writer |-> EOF]
    /\ read = [r \in Reader |-> 0]
    /\ accepted = [w \in Way |-> <<>>]
    /\ output = [w \in Way |-> <<>>]

Becomes(t, s) == pc' = [pc EXCEPT ![t] = s]

(***************************************************************************)
(* Readers.                                                                *)
(***************************************************************************)

(* The test of the loop, and RttUSleep().                                    *)
ReaderLoops(r) ==
    /\ pc[r] = "ready"
    /\ Becomes(r, IF exitFlag THEN "ended" ELSE "asleep")
    /\ UNCHANGED <<exitFlag, mailbox, server, read, output>>

RttSend(t, data) ==
    /\ mailbox' = Append(mailbox, [from |-> t, data |-> data])
    /\ Becomes(t, "sending")

ReadMessage(r) ==
    /\ pc[r] = "asleep" /\ read[r] < MaxRead
    /\ read' = [read EXCEPT ![r] = @ + 1]
    /\ RttSend(r, read[r] + 1)
    /\ UNCHANGED <<exitFlag, server, output>>

(* There was nothing to read, or an error.                                   *)
ReadNothing(r) ==
    /\ pc[r] = "asleep"
    /\ \/ Becomes(r, IF exitFlag THEN "ended" ELSE "asleep")
       \/ Becomes(r, "ended")
    /\ UNCHANGED <<exitFlag, mailbox, server, read, output>>

ReadEOF ==
    /\ pc["consoleIn"] = "asleep"
    /\ exitFlag' = TRUE
    /\ RttSend("consoleIn", EOF)
    /\ UNCHANGED <<server, read, output>>

(***************************************************************************)
(* Writers.                                                                *)
(***************************************************************************)

Write(t) ==
    IF inHand[t] = EOF THEN UNCHANGED output
    ELSE output' = [output EXCEPT ![WayOf[t]] = Append(@, inHand[t])]

(* Write what was received, and ask for more unless it is time to exit.      *)
WriterLoops(t) ==
    /\ pc[t] \in {"ready", "received"}
    /\ IF pc[t] = "received" THEN Write(t) ELSE UNCHANGED output
    /\ IF exitFlag THEN Becomes(t, "ended") /\ UNCHANGED mailbox
       ELSE RttSend(t, EOF)
    /\ UNCHANGED <<exitFlag, server, read>>

(***************************************************************************)
(* The server.  One turn of its loop is a step: nothing in it blocks.      *)
(***************************************************************************)

Last1(l) == Last(l.items)
CanSend(l) == l.ready /\ ListCount(l.queue) > 0

(* Mutant: a buffer that is on its way stays in the queue.                   *)
SentStaysQueued(l) ==
    IF CanSend(l)
    THEN [l EXCEPT !.curMessage = Last1(l.queue), !.ready = FALSE]
    ELSE l

(* Mutant: the writer is still taken for ready.                              *)
SentStaysReady(l) ==
    IF CanSend(l)
    THEN [l EXCEPT !.curMessage = Last1(l.queue), !.queue = ListTrim(@)]
    ELSE l

Sent(l) ==
    IF CanSend(l)
    THEN [l EXCEPT !.curMessage = Last1(l.queue), !.queue = ListTrim(@),
                   !.ready = FALSE]
    ELSE l

(* The rest of a turn, with the lists and buffers as the message left them:  *)
(* what is queued goes to the writers that are ready, and the loop's test.   *)
Dispatch(lists, contents, answered) ==
    LET gets(t) == CanSend(lists[WayOf[t]])
        given(t) == contents[WayOf[t]][Last1(lists[WayOf[t]].queue)]
    IN  /\ list' = [w \in Way |-> Sent(lists[w])]
        /\ content' = contents
        /\ inHand' = [t \in Writer |-> IF gets(t) THEN given(t) ELSE inHand[t]]
        /\ pc' = [t \in Thread |->
                     CASE t = "server" -> IF exitFlag THEN "ended" ELSE "asleep"
                       [] t \in answered -> "ready"
                       [] t \in Writer -> IF gets(t) THEN "received" ELSE pc[t]
                       [] OTHER -> pc[t]]
        /\ UNCHANGED <<exitFlag, read, output>>

RttReceive(msg) ==
    /\ pc["server"] = "asleep"
    /\ msg = Head(mailbox)
    /\ mailbox' = Tail(mailbox)

NoMessage ==
    /\ pc["server"] = "asleep"
    /\ mailbox = <<>>
    /\ Dispatch(list, content, {})
    /\ UNCHANGED <<mailbox, accepted>>

(* Both readers' branches test the free list to the console.                 *)
NoBuffer == ListCount(list["console"].freeList) = 0

(* Mutant: queued at the end that is sent next.                              *)
QueuedLast(l) ==
    [l EXCEPT !.freeList = ListTrim(@),
              !.queue = ListAppend(@, Last1(l.freeList))]

Queued(l) ==
    [l EXCEPT !.freeList = ListTrim(@),
              !.queue = ListPrepend(@, Last1(l.freeList))]

(* ListTrim() of the empty list is NULL.                                     *)
TakesNull(msg) ==
    /\ msg.from \in Reader /\ msg.data # EOF /\ ~NoBuffer
    /\ ListCount(list[WayOf[msg.from]].freeList) = 0

(* The server writes through NULL, and the program is killed.                *)
Crash(msg) ==
    /\ TakesNull(msg)
    /\ pc' = [t \in Thread |-> "ended"]
    /\ UNCHANGED <<exitFlag, server, read, output>>

FromReader(msg) ==
    LET w == WayOf[msg.from]
    IN  /\ msg.from \in Reader /\ msg.data # EOF /\ ~NoBuffer
        /\ ~TakesNull(msg)
        /\ Dispatch([list EXCEPT ![w] = Queued(@)],
                    [content EXCEPT ![w][Last1(list[w].freeList)] = msg.data],
                    {msg.from})
        /\ accepted' = [accepted EXCEPT ![w] = Append(@, msg.data)]

(* The message is dropped, and its sender gets no reply.                     *)
FromReaderNoBuffer(msg) ==
    /\ msg.from \in Reader /\ msg.data # EOF /\ NoBuffer
    /\ Dispatch(list, content, {})
    /\ UNCHANGED accepted

(* Mutant: the writer is not taken for ready.                                *)
GivenBackUnready(l) == [l EXCEPT !.freeList = ListAppend(@, l.curMessage)]

GivenBack(l) ==
    [l EXCEPT !.freeList = ListAppend(@, l.curMessage), !.ready = TRUE]

FromWriter(msg) ==
    LET w == WayOf[msg.from]
    IN  /\ msg.from \in Writer
        /\ Dispatch([list EXCEPT ![w] = GivenBack(@)],
                    [content EXCEPT ![w][list[w].curMessage] = EOF], {})
        /\ UNCHANGED accepted

(* A reply reaches a thread whose message the server has received.           *)
Waits(t) ==
    /\ pc[t] = "sending"
    /\ \A i \in DOMAIN mailbox' : mailbox'[i].from # t

FromEOF(msg) ==
    /\ msg.from \in Reader /\ msg.data = EOF
    /\ exitFlag' = TRUE
    /\ inHand' = [t \in Writer |->
                     IF list[WayOf[t]].ready THEN EOF ELSE inHand[t]]
    /\ pc' = [t \in Thread |->
                 CASE t = "server" -> "ended"
                   [] t = "consoleIn" -> "ended"
                   [] t = "networkIn" /\ Waits(t) -> "ready"
                   [] t \in Writer -> IF list[WayOf[t]].ready
                                      THEN "received" ELSE pc[t]
                   [] OTHER -> pc[t]]
    /\ UNCHANGED <<list, content, accepted, read, output>>

Server ==
    \/ NoMessage
    \/ \E msg \in ToSet(mailbox) :
           /\ RttReceive(msg)
           /\ FromEOF(msg) \/ FromReader(msg) \/ FromReaderNoBuffer(msg)
              \/ FromWriter(msg) \/ Crash(msg)

Steps(t) ==
    \/ t = "server" /\ Server
    \/ t \in Reader /\ (ReaderLoops(t) \/ ReadMessage(t) \/ ReadNothing(t))
    \/ t = "consoleIn" /\ ReadEOF
    \/ t \in Writer /\ WriterLoops(t)

Next == \E t \in Thread : Steps(t)

Spec == Init /\ [][Next]_vars

(* No thread is kept from running for ever: all have the same priority and   *)
(* sleep or block in each turn of their loops.                               *)
Fairness == \A t \in Thread : WF_vars(Steps(t))
FairSpec == Spec /\ Fairness

(***************************************************************************)
(* Properties.                                                             *)
(***************************************************************************)

(* Every variable has its type.                                              *)
TypeOK ==
    /\ exitFlag \in BOOLEAN
    /\ pc \in [Thread -> {"ready", "asleep", "sending", "received", "ended"}]
    /\ \A i \in DOMAIN mailbox : mailbox[i].from \in Thread
    /\ Len(mailbox) <= 4
    /\ inHand \in [Writer -> 0..MaxRead]

(* The buffers a way has are each in its free list, in its queue or, while   *)
(* the writer has it, the current one: none is lost or in two places.        *)
BuffersAccounted ==
    \A w \in Way :
        LET l == list[w]
            all == l.freeList.items \o l.queue.items
                   \o (IF l.ready THEN <<>> ELSE <<l.curMessage>>)
        IN  Len(all) = QUEUESIZE /\ ToSet(all) = Buffer

(* What was queued is written in order, once and as it was, with what the    *)
(* writer has in hand and what is in the buffers of the queue still to come, *)
(* as long as a thread is left.                                              *)
WrittenInOrder ==
    \A t \in Writer :
        LET w == WayOf[t]
            q == Reverse(list[w].queue.items)
            due == (IF pc[t] = "received" /\ inHand[t] # EOF
                    THEN <<inHand[t]>> ELSE <<>>)
                   \o [i \in DOMAIN q |-> content[w][q[i]]]
        IN  (\E u \in Thread : pc[u] # "ended")
                => accepted[w] = output[w] \o due

(* The server takes a writer for ready just when it received its request and *)
(* did not answer, so no answer is lost and no request is answered twice.    *)
ReadyMeansWaiting ==
    pc["server"] # "ended" =>
        \A t \in Writer :
            list[WayOf[t]].ready <=>
                pc[t] = "sending" /\ \A i \in DOMAIN mailbox : mailbox[i].from # t

(* A message that is queued is written, unless the server ends.              *)
QueuedIsWritten ==
    \A w \in Way :
        \A n \in 1..MaxRead :
            Len(accepted[w]) >= n ~> Len(output[w]) >= n \/ pc["server"] = "ended"

(* There is a buffer to take for a message that is not dropped.              *)
BufferToTake ==
    pc["server"] = "asleep" /\ mailbox # <<>> => ~TakesNull(Head(mailbox))

(* A reader whose message the server received is answered at once.           *)
ReaderAnswered ==
    \A r \in Reader :
        pc[r] = "sending" /\ pc["server"] # "ended" =>
            \E i \in DOMAIN mailbox : mailbox[i].from = r

(* At the end of the input all threads end.                                  *)
ExitReachesAll == exitFlag ~> \A t \in Thread : pc[t] = "ended"
=============================================================================
