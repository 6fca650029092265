----------------------------- MODULE VirtioDisk -----------------------------
(* The disk driver of xv6 (a3/xv6-riscv/kernel/virtio_disk.c) with the       *)
(* device.  Processes and the interrupt handler have vdisk_lock while they   *)
(* run, so that what one does until it sleeps is one step; the device works  *)
(* at any time.  Each process transfers its own locked buffer, which is      *)
(* named after it.                                                           *)
EXTENDS Integers, FiniteSets

CONSTANTS
    Proc,
    NUM,            \* descriptors, and entries of each ring
    IDX,            \* the indexes of the rings count modulo this
    Nil

DiskAssumption ==
    /\ NUM \in Nat /\ NUM > 2
    /\ IDX \in Nat /\ IDX > NUM /\ IDX % NUM = 0
    /\ Nil \notin Proc \cup Int

Desc == 0..(NUM - 1)

VARIABLES
    free,           \* the descriptors that are free
    desc,           \* of each: the address, and the next one of the chain
    ops,            \* the header of each: the buffer whose sector it names
    info,           \* of each: the buffer b and the status
    avail, availIdx,    \* the ring of requests
    used, usedIdx,      \* the ring of answers
    used_idx,       \* how far the driver has looked in used
    disk,           \* b->disk: the buffers the device has
    pc,             \* where a process is in virtio_disk_rw()
    head,           \* its idx[0]
    handler,        \* the interrupt handler has the lock
    \* the device:
    seen,           \* how far it has looked in avail
    works,          \* the chains it works on
    raises,         \* it is about to interrupt
    interrupt,
    done            \* the buffers whose transfer it did

driver == <<free, desc, ops, info, avail, availIdx, used_idx, disk, pc, head>>
device == <<seen, works, raises, done, used, usedIdx>>
vars == <<driver, device, handler, interrupt>>

(* The address of the op, of the data and of the status byte.                *)
Address == {<<"op", d>> : d \in Desc} \cup {<<"status", d>> : d \in Desc}
           \cup {<<"data", p>> : p \in Proc}
NoDesc == [addr |-> Nil, next |-> Nil]

virtio_disk_init ==
    /\ free = Desc
    /\ desc = [d \in Desc |-> NoDesc]
    /\ ops = [d \in Desc |-> Nil]
    /\ info = [d \in Desc |-> [b |-> Nil, status |-> 0]]
    /\ avail = [k \in Desc |-> Nil] /\ used = [k \in Desc |-> Nil]
    /\ availIdx = 0 /\ usedIdx = 0 /\ used_idx = 0 /\ seen = 0
    /\ disk = {} /\ works = {} /\ done = {}
    /\ pc = [p \in Proc |-> "out"]
    /\ head = [p \in Proc |-> Nil]
    /\ handler = FALSE /\ raises = FALSE /\ interrupt = FALSE

After(k) == (k + 1) % IDX

(* Mutant: nobody is woken.                                                  *)
WakeNone(states) == states

(* Who sleeps for a descriptor tries again.                                  *)
WakeAll(states) ==
    [p \in Proc |-> IF states[p] = "sleeps" THEN "tries" ELSE states[p]]

Call(p) ==
    /\ pc[p] = "out"
    /\ pc' = [pc EXCEPT ![p] = "tries"]
    /\ done' = done \ {p}
    /\ UNCHANGED <<free, desc, ops, info, avail, availIdx, used_idx, disk, head>>
    /\ UNCHANGED <<seen, works, raises, used, usedIdx, handler, interrupt>>

IsLowest(i, ds) == i \in ds /\ \A d \in ds : i <= d

(* Mutant: b->disk is not set.                                               *)
SubmitUnmarked(p, i, j, k) ==
    /\ free' = free \ {i, j, k}
    /\ desc' = [desc EXCEPT ![i] = [addr |-> <<"op", i>>, next |-> j],
                            ![j] = [addr |-> <<"data", p>>, next |-> k],
                            ![k] = [addr |-> <<"status", i>>, next |-> Nil]]
    /\ ops' = [ops EXCEPT ![i] = p]
    /\ info' = [info EXCEPT ![i] = [b |-> p, status |-> 255]]
    /\ avail' = [avail EXCEPT ![availIdx % NUM] = i]
    /\ availIdx' = After(availIdx)
    /\ disk' = disk
    /\ head' = [head EXCEPT ![p] = i]
    /\ pc' = [pc EXCEPT ![p] = "waits"]

(* The request is put in the ring, and the process sleeps on its buffer.     *)
Submit(p, i, j, k) ==
    /\ free' = free \ {i, j, k}
    /\ desc' = [desc EXCEPT ![i] = [addr |-> <<"op", i>>, next |-> j],
                            ![j] = [addr |-> <<"data", p>>, next |-> k],
                            ![k] = [addr |-> <<"status", i>>, next |-> Nil]]
    /\ ops' = [ops EXCEPT ![i] = p]
    /\ info' = [info EXCEPT ![i] = [b |-> p, status |-> 255]]
    /\ avail' = [avail EXCEPT ![availIdx % NUM] = i]
    /\ availIdx' = After(availIdx)
    /\ disk' = disk \cup {p}
    /\ head' = [head EXCEPT ![p] = i]
    /\ pc' = [pc EXCEPT ![p] = "waits"]

(* It takes the three lowest free descriptors.                               *)
Alloc3(p) ==
    \E i, j, k \in free :
        /\ IsLowest(i, free) /\ IsLowest(j, free \ {i})
        /\ IsLowest(k, free \ {i, j})
        /\ Submit(p, i, j, k)

virtio_disk_rw(p) ==
    /\ ~handler /\ pc[p] = "tries"
    /\ Alloc3(p)
    /\ UNCHANGED <<used_idx, device, handler, interrupt>>

(* With less than three, those that were taken are free again, which wakes   *)
(* who sleeps for one.                                                       *)
NoDescriptors(p) ==
    /\ ~handler /\ pc[p] = "tries" /\ Cardinality(free) < 3
    /\ pc' = [IF free = {} THEN pc ELSE WakeAll(pc)
                EXCEPT ![p] = "sleeps"]
    /\ UNCHANGED <<free, desc, ops, info, avail, availIdx, used_idx, disk, head>>
    /\ UNCHANGED <<device, handler, interrupt>>

(* The descriptors from d on, by the links.                                  *)
Chain(d) ==
    LET second == desc[d].next
    IN  {d} \cup IF second = Nil THEN {}
                 ELSE {second} \cup ({desc[second].next} \ {Nil})

(* Mutant: the links are read after they were cleared.                       *)
free_first(d) ==
    /\ free' = free \cup {d}
    /\ desc' = [desc EXCEPT ![d] = NoDesc]

free_chain(d) ==
    /\ free' = free \cup Chain(d)
    /\ desc' = [c \in Desc |-> IF c \in Chain(d) THEN NoDesc ELSE desc[c]]

(* Mutant: b->disk is not tested again.                                      *)
WakesUntested(p) ==
    /\ ~handler /\ pc[p] = "woken"
    /\ info' = [info EXCEPT ![head[p]].b = Nil]
    /\ free_chain(head[p])
    /\ head' = [head EXCEPT ![p] = Nil]
    /\ pc' = WakeAll([pc EXCEPT ![p] = "out"])
    /\ UNCHANGED <<ops, avail, availIdx, used_idx, disk>>
    /\ UNCHANGED <<device, handler, interrupt>>

(* It wakes, by the handler or because it was killed, and waits again or     *)
(* returns.                                                                  *)
Wakes(p) ==
    /\ ~handler /\ pc[p] = "woken"
    /\ \/ /\ p \in disk
          /\ pc' = [pc EXCEPT ![p] = "waits"]
          /\ UNCHANGED <<free, desc, info, head>>
       \/ /\ p \notin disk
          /\ info' = [info EXCEPT ![head[p]].b = Nil]
          /\ free_chain(head[p])
          /\ head' = [head EXCEPT ![p] = Nil]
          /\ pc' = WakeAll([pc EXCEPT ![p] = "out"])
    /\ UNCHANGED <<ops, avail, availIdx, used_idx, disk>>
    /\ UNCHANGED <<device, handler, interrupt>>

(* kill() wakes whoever sleeps.                                              *)
Killed(p) ==
    /\ pc[p] \in {"waits", "sleeps"}
    /\ pc' = [pc EXCEPT ![p] = IF @ = "waits" THEN "woken" ELSE "tries"]
    /\ UNCHANGED <<free, desc, ops, info, avail, availIdx, used_idx, disk, head>>
    /\ UNCHANGED <<device, handler, interrupt>>

(* virtio_disk_intr(): it acknowledges, then takes what is in the ring.  An  *)
(* entry of a ring is not read again, so this model forgets it.              *)
Begins ==
    /\ interrupt /\ ~handler
    /\ handler' = TRUE /\ interrupt' = FALSE
    /\ UNCHANGED <<driver, device>>

(* Mutant: one entry is taken for each interrupt.                            *)
TakesOneOnly ==
    /\ handler /\ used_idx # usedIdx
    /\ LET b == info[used[used_idx % NUM]].b
       IN  /\ disk' = disk \ {b}
           /\ pc' = [pc EXCEPT ![b] = IF @ = "waits" THEN "woken" ELSE @]
    /\ used' = [used EXCEPT ![used_idx % NUM] = Nil]
    /\ used_idx' = After(used_idx)
    /\ handler' = FALSE
    /\ UNCHANGED <<free, desc, ops, info, avail, availIdx, head>>
    /\ UNCHANGED <<seen, works, raises, done, usedIdx, interrupt>>

TakesOne ==
    /\ handler /\ used_idx # usedIdx
    /\ LET b == info[used[used_idx % NUM]].b
       IN  /\ disk' = disk \ {b}
           /\ pc' = [pc EXCEPT ![b] = IF @ = "waits" THEN "woken" ELSE @]
    /\ used' = [used EXCEPT ![used_idx % NUM] = Nil]
    /\ used_idx' = After(used_idx)
    /\ UNCHANGED <<free, desc, ops, info, avail, availIdx, head>>
    /\ UNCHANGED <<seen, works, raises, done, usedIdx, handler, interrupt>>

Ends ==
    /\ handler /\ used_idx = usedIdx
    /\ handler' = FALSE
    /\ UNCHANGED <<driver, device, interrupt>>

(* The device takes the requests in order.                                   *)
Fetch ==
    /\ seen # availIdx
    /\ works' = works \cup {avail[seen % NUM]}
    /\ avail' = [avail EXCEPT ![seen % NUM] = Nil]
    /\ seen' = After(seen)
    /\ UNCHANGED <<free, desc, ops, info, availIdx, used_idx, disk, pc, head>>
    /\ UNCHANGED <<raises, done, used, usedIdx, handler, interrupt>>

(* It completes them in any order, and interrupts after that.                *)
Complete(d) ==
    /\ d \in works
    /\ works' = works \ {d}
    /\ LET data == desc[desc[d].next]
       IN  /\ done' = done \cup {b \in Proc : ops[d] = b /\ data.addr = <<"data", b>>}
           /\ info' = [info EXCEPT ![desc[data.next].addr[2]].status = 0]
    /\ used' = [used EXCEPT ![usedIdx % NUM] = d]
    /\ usedIdx' = After(usedIdx)
    /\ raises' = TRUE
    /\ UNCHANGED <<free, desc, ops, avail, availIdx, used_idx, disk, pc, head>>
    /\ UNCHANGED <<seen, handler, interrupt>>

Raise ==
    /\ raises
    /\ raises' = FALSE /\ interrupt' = TRUE
    /\ UNCHANGED <<driver, seen, works, done, used, usedIdx, handler>>

Next ==
    \/ \E p \in Proc :
          \/ Call(p) \/ virtio_disk_rw(p) \/ NoDescriptors(p)
          \/ Wakes(p) \/ Killed(p)
    \/ Begins \/ TakesOne \/ Ends
    \/ Fetch \/ Raise \/ \E d \in Desc : Complete(d)

Spec == virtio_disk_init /\ [][Next]_vars

HandlerStep == Begins \/ TakesOne \/ Ends
HasLock(p) == virtio_disk_rw(p) \/ Wakes(p)

(* The device works and interrupts, the handler runs, and a process that is  *)
(* awake gets vdisk_lock when it is free again and again.                    *)
Fairness ==
    /\ WF_vars(HandlerStep) /\ WF_vars(Fetch) /\ WF_vars(Raise)
    /\ \A d \in Desc : WF_vars(Complete(d))
    /\ \A p \in Proc : SF_vars(HasLock(p))

FairSpec == Spec /\ Fairness

(***************************************************************************)
(* Properties.                                                             *)
(***************************************************************************)

InFlight == {p \in Proc : pc[p] \in {"waits", "woken"}}

(* Every variable has its type, and a process has a chain while it waits.    *)
TypeOK ==
    /\ free \subseteq Desc
    /\ desc \in [Desc -> [addr : Address \cup {Nil}, next : Desc \cup {Nil}]]
    /\ ops \in [Desc -> Proc \cup {Nil}]
    /\ info \in [Desc -> [b : Proc \cup {Nil}, status : {0, 255}]]
    /\ {avail, used} \subseteq [Desc -> Desc \cup {Nil}]
    /\ {availIdx, usedIdx, used_idx, seen} \subseteq 0..(IDX - 1)
    /\ pc \in [Proc -> {"out", "tries", "sleeps", "waits", "woken"}]
    /\ \A p \in Proc : IF p \in InFlight THEN head[p] \in Desc ELSE head[p] = Nil
    /\ disk \subseteq InFlight /\ works \subseteq Desc

(* Whoever fails, is killed or finishes in what order: each request has      *)
(* three descriptors of its own, and all others are free.                    *)
DescriptorsAccounted ==
    /\ \A p \in InFlight : Cardinality(Chain(head[p])) = 3
    /\ \A p, q \in InFlight :
          p # q => Chain(head[p]) \cap Chain(head[q]) = {}
    /\ free = Desc \ UNION {Chain(head[p]) : p \in InFlight}

(* What the device works on is the untouched request of a process that has   *)
(* it still.                                                                 *)
DeviceReadsRequests ==
    \A d \in works : \E p \in InFlight \cap disk :
        /\ head[p] = d /\ ops[d] = p /\ p \notin done
        /\ info[d] = [b |-> p, status |-> 255]
        /\ desc[desc[d].next].addr = <<"data", p>>

(* A process goes on with its buffer only after the device did the transfer  *)
(* of this buffer and this call.                                             *)
ReturnsServed ==
    \A p \in InFlight : p \notin disk => p \in done

(* Each call returns: no interrupt is lost between the acknowledgement and   *)
(* the look at the ring, and no wakeup for a descriptor.                     *)
CallReturns == \A p \in Proc : pc[p] = "tries" ~> pc[p] = "out"
=============================================================================
