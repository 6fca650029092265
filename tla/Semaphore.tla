------------------------------ MODULE Semaphore -----------------------------
(* The semaphores of the UBC threads that assignment 2 runs on (NewSem(), P()*)
(* and V() of os.h, which is not in this repository): a count and the threads*)
(* blocked in P(), first come first served.  A V() hands its unit to the     *)
(* first of them.                                                            *)
EXTENDS Naturals, Sequences

VARIABLE semaphore      \* by name: count and queue

NewSem(n) == [count |-> n, queue |-> <<>>]

P(t, s) ==
    semaphore' = [semaphore EXCEPT
        ![s] = IF @.count > 0
               THEN [count |-> @.count - 1, queue |-> @.queue]
               ELSE [count |-> @.count, queue |-> Append(@.queue, t)]]

V(s) ==
    semaphore' = [semaphore EXCEPT
        ![s] = IF @.queue = <<>>
               THEN [count |-> @.count + 1, queue |-> @.queue]
               ELSE [count |-> @.count, queue |-> Tail(@.queue)]]

Blocked(t) ==
    \E s \in DOMAIN semaphore :
        \E i \in DOMAIN semaphore[s].queue : semaphore[s].queue[i] = t
=============================================================================
