------------------------------ MODULE ListLib -------------------------------
(* The list library of assignment 4 (a4/partA/list_adders.c, list_movers.c,  *)
(* list_removers.c): lists of nodes taken from one pool, linked both ways.   *)
(* Unused nodes are chained by next from aviableNode, unused LIST structs by *)
(* nextfreeList from aviableList.  listNum is left out: nothing reads it.    *)
EXTENDS Integers, SequencesExt, FiniteSetsExt

CONSTANTS
    MIN_NODES,  \* nodes in the pool, numbered from 1 in nodeDict
    MIN_LISTS,  \* LIST structs at first; the pool is doubled once
    Item,
    NULL,
    MaxDebt,    \* bound of this model: how far nodeNum falls below zero
    Calls       \* the calls made, of the names in Next

ListAssumption ==
    /\ MIN_NODES \in Nat \ {0} /\ MIN_LISTS \in Nat \ {0}
    /\ NULL \notin Item \cup Nat

Node == 1..MIN_NODES
List == 1..(2 * MIN_LISTS)

VARIABLES
    node,           \* node[n]: item, next and prev of a NODE
    aviableNode, nodeNum,
    list,           \* list[l]: head, tail, curser and size of a LIST
    aviableList,    \* the chain of unused LIST structs
    doubled,        \* LIST structs beyond MIN_LISTS exist
    given           \* the lists that ListCreate() gave out and ListConcat()
                    \* did not take back

pool == <<aviableList, doubled, given>>
vars == <<node, aviableNode, nodeNum, list, pool>>

Cleared == [head |-> NULL, tail |-> NULL, curser |-> NULL, size |-> 0]

(* The first ListCreate() makes the pools; a fresh node's prev is the node   *)
(* before it in nodeDict, but for the last, which has what malloc() left     *)
(* there: zero, in fresh memory.                                             *)
Init ==
    /\ node = [n \in Node |->
                  [item |-> NULL,
                   next |-> IF n = MIN_NODES THEN NULL ELSE n + 1,
                   prev |-> IF n \in {1, MIN_NODES} THEN NULL ELSE n - 1]]
    /\ aviableNode = 1
    /\ nodeNum = 0
    /\ list = [l \in List |-> Cleared]
    /\ aviableList = [i \in 1..MIN_LISTS |-> i]
    /\ doubled = FALSE
    /\ given = {}

Called(call, l) == call \in Calls /\ l \in given

(***************************************************************************)
(* ListCreate().                                                           *)
(***************************************************************************)

ListCreate(l) ==
    /\ "create" \in Calls
    /\ aviableList # <<>> /\ l = Head(aviableList)
    /\ aviableList' = Tail(aviableList)
    /\ list' = [list EXCEPT ![l] = Cleared]
    /\ given' = given \cup {l}
    /\ UNCHANGED <<node, aviableNode, nodeNum, doubled>>

(* No struct is left: the pool becomes 2 * MIN_LISTS long, each time, and    *)
(* every struct beyond the first MIN_LISTS is new to it, used or not.  (The  *)
(* realloc() is taken not to move the pool, to which every caller points.)   *)
ListCreateMore(l) ==
    /\ (IF doubled THEN "create again" ELSE "create more") \in Calls
    /\ aviableList = <<>>
    /\ l = 2 * MIN_LISTS
    /\ aviableList' = [i \in 1..(MIN_LISTS - 1) |-> 2 * MIN_LISTS - i]
    /\ list' = [m \in List |->
                   IF m = l THEN Cleared
                   ELSE IF m > MIN_LISTS THEN [list[m] EXCEPT !.size = 0]
                   ELSE list[m]]
    /\ doubled' = TRUE
    /\ given' = given \cup {l}
    /\ UNCHANGED <<node, aviableNode, nodeNum>>

(***************************************************************************)
(* Moving the cursor.                                                      *)
(***************************************************************************)

MoveCurser(l, n) ==
    /\ list' = [list EXCEPT ![l].curser = n]
    /\ UNCHANGED <<node, aviableNode, nodeNum, pool>>

Moving(l) == Called("move", l) /\ list[l].size > 0

ListFirst(l) == Moving(l) /\ MoveCurser(l, list[l].head)
ListLast(l) == Moving(l) /\ MoveCurser(l, list[l].tail)

ListNext(l) ==
    /\ Moving(l) /\ list[l].curser # list[l].tail
    /\ MoveCurser(l, node[list[l].curser].next)

(* Mutant: it goes on instead of back.                                       *)
ListPrevGoesOn(l) ==
    /\ Moving(l) /\ list[l].curser # list[l].tail
    /\ MoveCurser(l, node[list[l].curser].next)

ListPrev(l) ==
    /\ Moving(l) /\ list[l].curser # list[l].head
    /\ MoveCurser(l, node[list[l].curser].prev)

(* The nodes from n along next, or along prev, up to a NULL.                 *)
Walk(n, field) ==
    LET after(m) == IF m = NULL THEN NULL ELSE node[m][field]
        at[i \in 0..MIN_NODES] == IF i = 0 THEN n ELSE after(at[i - 1])
        nodes == {i \in 0..(MIN_NODES - 1) : at[i] # NULL}
    IN  [i \in 1..Cardinality(nodes) |-> at[i - 1]]

ListSearch(l, x) ==
    LET rest == Walk(list[l].curser, "next")
        hits == {i \in DOMAIN rest : node[rest[i]].item = x}
    IN  /\ Moving(l)
        /\ MoveCurser(l, IF hits = {} THEN list[l].tail ELSE rest[Min(hits)])

(***************************************************************************)
(* Adding.  The calls return -1 when nodeNum is MIN_NODES.                 *)
(***************************************************************************)

(* List a with node n as its current one and at these ends.                  *)
Grown(a, n, ends) ==
    [head |-> IF "head" \in ends THEN n ELSE a.head,
     tail |-> IF "tail" \in ends THEN n ELSE a.tail,
     curser |-> n, size |-> a.size + 1]

(* A node for x, between p and q in list l; what it has for prev is back.    *)
Place(l, x, p, q, back, ends) ==
    LET n == aviableNode
    IN  /\ nodeNum # MIN_NODES /\ n # NULL
        /\ aviableNode' = node[n].next
        /\ nodeNum' = nodeNum + 1
        /\ node' = [m \in Node |->
                       CASE m = n -> [item |-> x, next |-> q, prev |-> back]
                         [] m = p -> [node[m] EXCEPT !.next = n]
                         [] m = q -> [node[m] EXCEPT !.prev = n]
                         [] OTHER -> node[m]]
        /\ list' = [list EXCEPT ![l] = Grown(@, n, ends)]
        /\ UNCHANGED pool

(* The prev that was in the node it takes.                                   *)
OldPrev == IF aviableNode = NULL THEN NULL ELSE node[aviableNode].prev

Both == {"head", "tail"}

ListAdd(l, x) ==
    LET c == list[l].curser
    IN  /\ Called("add", l)
        /\ IF list[l].size = 0 THEN Place(l, x, NULL, NULL, NULL, Both)
           ELSE IF c = list[l].tail THEN Place(l, x, c, NULL, c, {"tail"})
           ELSE Place(l, x, c, node[c].next, c, {})

(* Mutant: the node before the cursor still leads to the cursor.             *)
ListInsertHalf(l, x) ==
    LET c == list[l].curser
    IN  /\ Called("insert", l)
        /\ IF list[l].size = 0 THEN Place(l, x, NULL, NULL, OldPrev, Both)
           ELSE IF c = list[l].head
           THEN Place(l, x, NULL, c, OldPrev, {"head"})
           ELSE Place(l, x, NULL, c, node[c].prev, {})

(* prev is not set at the head of the list.                                  *)
ListInsert(l, x) ==
    LET c == list[l].curser
    IN  /\ Called("insert", l)
        /\ IF list[l].size = 0 THEN Place(l, x, NULL, NULL, OldPrev, Both)
           ELSE IF c = list[l].head
           THEN Place(l, x, NULL, c, OldPrev, {"head"})
           ELSE Place(l, x, node[c].prev, c, node[c].prev, {})

ListAppend(l, x) ==
    LET t == list[l].tail
    IN  /\ Called("append", l)
        /\ IF list[l].size = 0 THEN Place(l, x, NULL, NULL, NULL, Both)
           ELSE Place(l, x, t, NULL, t, {"tail"})

ListPrepend(l, x) ==
    /\ Called("prepend", l)
    /\ IF list[l].size = 0 THEN Place(l, x, NULL, NULL, OldPrev, Both)
       ELSE Place(l, x, NULL, list[l].head, OldPrev, {"head"})

(***************************************************************************)
(* Removing.  nodeNum does not change; only ListFree() lowers it.          *)
(***************************************************************************)

(* r leaves list l between p and q, and goes on the chain of unused nodes.   *)
Unlink(l, r, p, q, back, record) ==
    /\ node' = [m \in Node |->
                   CASE m = r -> [node[m] EXCEPT !.next = aviableNode,
                                                 !.prev = back]
                     [] m = p -> [node[m] EXCEPT !.next = q]
                     [] m = q -> [node[m] EXCEPT !.prev = p]
                     [] OTHER -> node[m]]
    /\ aviableNode' = r
    /\ list' = [list EXCEPT ![l] = record]
    /\ UNCHANGED <<nodeNum, pool>>

(* Mutant: the cursor stays where it was when the tail is removed.           *)
TakeTailKeepsCurser(l) ==
    LET t == list[l].tail
        p == node[t].prev
    IN  IF list[l].size = 1 THEN Unlink(l, t, NULL, NULL, node[t].prev, Cleared)
        ELSE Unlink(l, t, p, NULL, NULL,
                    [list[l] EXCEPT !.tail = p, !.size = @ - 1])

(* The tail goes and the cursor moves to the new one.                        *)
TakeTail(l) ==
    LET t == list[l].tail
        p == node[t].prev
    IN  IF list[l].size = 1 THEN Unlink(l, t, NULL, NULL, node[t].prev, Cleared)
        ELSE Unlink(l, t, p, NULL, NULL,
                    [list[l] EXCEPT !.tail = p, !.curser = p, !.size = @ - 1])

ListTrim(l) == Called("trim", l) /\ list[l].size > 0 /\ TakeTail(l)

ListRemove(l) ==
    LET c == list[l].curser
        q == node[c].next
    IN  /\ Called("remove", l) /\ list[l].size > 0
        /\ IF c = list[l].tail THEN TakeTail(l)
           ELSE IF c = list[l].head
           THEN Unlink(l, c, NULL, q, node[c].prev,
                       [list[l] EXCEPT !.head = q, !.curser = q, !.size = @ - 1])
           ELSE Unlink(l, c, node[c].prev, q, NULL,
                       [list[l] EXCEPT !.curser = q, !.size = @ - 1])

(* Mutant: the nodes are not returned.                                       *)
ListFreeKeepsNodes(l) ==
    /\ Called("free", l)
    /\ nodeNum > -MaxDebt
    /\ nodeNum' = nodeNum - list[l].size - 1
    /\ list' = [list EXCEPT ![l] = Cleared]
    /\ UNCHANGED <<node, aviableNode, pool>>

(* Every node from the tail along prev becomes unused, to the first whose    *)
(* prev is NULL and not to the head; nodeNum is lowered once more than that. *)
(* The LIST struct stays in use.                                             *)
ListFree(l) ==
    LET gone == IF list[l].size = 0 THEN <<>> ELSE Walk(list[l].tail, "prev")
        k == Len(gone)
    IN  /\ Called("free", l)
        /\ nodeNum > -MaxDebt
        /\ node' = [m \in Node |->
                       IF m \notin ToSet(gone) THEN node[m]
                       ELSE IF m = gone[1]
                       THEN [node[m] EXCEPT !.next = aviableNode]
                       ELSE [node[m] EXCEPT !.next =
                                gone[(CHOOSE i \in 1..k : gone[i] = m) - 1]]]
        /\ aviableNode' = IF k = 0 THEN aviableNode ELSE gone[k]
        /\ nodeNum' = nodeNum - k - 1
        /\ list' = [list EXCEPT ![l] = Cleared]
        /\ UNCHANGED pool

(* Mutant: the first node of the second list does not lead back.             *)
JoinOneWay(p, q) == node' = [node EXCEPT ![p].next = q]

Join(p, q) == node' = [node EXCEPT ![p].next = q, ![q].prev = p]

(* m's nodes go to the end of l, and its struct is unused.                   *)
ListConcat(l, m) ==
    LET a == list[l]
        b == list[m]
    IN  /\ Called("concat", l) /\ m \in given /\ l # m
        /\ IF a.size # 0 /\ b.size # 0 THEN Join(a.tail, b.head)
           ELSE UNCHANGED node
        /\ list' = [list EXCEPT
                       ![l] = IF b.size = 0 THEN a
                              ELSE IF a.size = 0 THEN b
                              ELSE [a EXCEPT !.tail = b.tail,
                                             !.size = @ + b.size],
                       ![m] = Cleared]
        /\ aviableList' = <<m>> \o aviableList
        /\ given' = given \ {m}
        /\ UNCHANGED <<aviableNode, nodeNum, doubled>>

Next ==
    \E l \in List :
        \/ ListCreate(l) \/ ListCreateMore(l)
        \/ ListFirst(l) \/ ListLast(l) \/ ListNext(l) \/ ListPrev(l)
        \/ \E x \in Item :
              \/ ListSearch(l, x) \/ ListAdd(l, x) \/ ListInsert(l, x)
              \/ ListAppend(l, x) \/ ListPrepend(l, x)
        \/ ListRemove(l) \/ ListTrim(l) \/ ListFree(l)
        \/ \E m \in List : ListConcat(l, m)

Spec == Init /\ [][Next]_vars

(***************************************************************************)
(* Properties.                                                             *)
(***************************************************************************)

(* Every variable has its type.                                              *)
TypeOK ==
    /\ node \in [Node -> [item : Item \cup {NULL}, next : Node \cup {NULL},
                          prev : Node \cup {NULL}]]
    /\ aviableNode \in Node \cup {NULL}
    /\ nodeNum \in Int
    /\ list \in [List -> [head : Node \cup {NULL}, tail : Node \cup {NULL},
                          curser : Node \cup {NULL}, size : 0..MIN_NODES]]
    /\ ToSet(aviableList) \subseteq List /\ IsInjective(aviableList)
    /\ doubled \in BOOLEAN
    /\ given \subseteq List

Unused == ToSet(Walk(aviableNode, "next"))
NodesOf(l) == ToSet(Walk(list[l].head, "next"))

(* The nodes from n on end with a NULL and do not go in circles.             *)
Ends(n) == n # NULL => node[Last(Walk(n, "next"))].next = NULL

(* No node is lost or used twice: it is on the chain of unused nodes or in   *)
(* one list, and size is the number of nodes in a list.                      *)
NodesAccounted ==
    /\ \A n \in {aviableNode} \cup {list[l].head : l \in List} : Ends(n)
    /\ Unused \cup UNION {NodesOf(l) : l \in List} = Node
    /\ \A l \in List :
          /\ Cardinality(NodesOf(l)) = list[l].size
          /\ NodesOf(l) \cap Unused = {}
          /\ \A m \in List : l # m => NodesOf(l) \cap NodesOf(m) = {}

(* Going back from the tail passes the nodes that going on from the head     *)
(* passes, in reverse order: both directions agree after any calls.          *)
BackAgrees ==
    \A l \in given :
        list[l].size > 0 =>
            LET there == Walk(list[l].head, "next")
                back == Walk(list[l].tail, "prev")
            IN  /\ Len(there) <= Len(back)
                /\ \A i \in DOMAIN there : back[Len(there) + 1 - i] = there[i]

(* What a call needs to work, and leaves to the next.                        *)
Sound == NodesAccounted /\ BackAgrees

(* The two calls that may break a sound state: the second growth of the pool *)
(* gives out a LIST struct that is in use (list_adders.c:101), and ListFree()*)
(* goes on past a head whose prev an earlier use of the node left behind     *)
(* (list_removers.c:151).                                                    *)
GrowsAgain(l) == ListCreateMore(l) /\ doubled
FreesTooMuch(l) ==
    ListFree(l) /\ list[l].size > 0 /\ node[list[l].head].prev # NULL

(* From a sound state every call leads to a sound state, but for those two:  *)
(* it loses no node, uses none twice and keeps next and prev in agreement.   *)
StaysSound ==
    Sound => Sound' \/ \E l \in List : GrowsAgain(l) \/ FreesTooMuch(l)

(* An add returns -1 ("Out of list nodes") only when no node is left.        *)
FullOnlyWhenFull == nodeNum = MIN_NODES => Unused = {}

(* An add that passes the test of nodeNum finds a node to take: but for      *)
(* ListAdd() they do not look whether there is one.                          *)
NodeToTake == nodeNum # MIN_NODES => aviableNode # NULL

(* The lists as their users see them.                                        *)
AsCursorList(l) ==
    IF l \notin given THEN NULL
    ELSE LET nodes == IF list[l].size = 0 THEN <<>>
                      ELSE Walk(list[l].head, "next")
         IN  [items |-> [i \in DOMAIN nodes |-> node[nodes[i]].item],
              curser |-> SelectInSeq(nodes, LAMBDA n : n = list[l].curser)]

Abstract == INSTANCE ListSpec
    WITH lists <- [l \in List |-> AsCursorList(l)], NoList <- NULL

(* ListConcat() of two lists that both have items: only the cursor of l2 is  *)
(* not taken over (ConcatTakesCurser).                                       *)
BothHaveItems(l, m) == list[l].size # 0 /\ list[m].size # 0

(* From a sound state every call has the effect its name promises, on its    *)
(* own lists alone: each implements the one call of ListSpec, but for the    *)
(* two that break the state and the cursor after ListConcat().               *)
KeepsPromise ==
    Sound => \A l \in List :
        /\ ListCreate(l) => Abstract!DoCreate(l)
        /\ ListCreateMore(l) => Abstract!DoCreate(l) \/ GrowsAgain(l)
        /\ ListFirst(l) => Abstract!DoFirst(l)
        /\ ListLast(l) => Abstract!DoLast(l)
        /\ ListNext(l) => Abstract!DoNext(l)
        /\ ListPrev(l) => Abstract!DoPrev(l)
        /\ ListRemove(l) => Abstract!DoRemove(l)
        /\ ListTrim(l) => Abstract!DoTrim(l)
        /\ ListFree(l) => Abstract!DoFree(l) \/ FreesTooMuch(l)
        /\ \A x \in Item :
              /\ ListSearch(l, x) => Abstract!DoSearch(l, x)
              /\ ListAdd(l, x) => Abstract!DoAdd(l, x)
              /\ ListInsert(l, x) => Abstract!DoInsert(l, x)
              /\ ListAppend(l, x) => Abstract!DoAppend(l, x)
              /\ ListPrepend(l, x) => Abstract!DoPrepend(l, x)
        /\ \A m \in List : ListConcat(l, m) =>
              /\ Abstract!DoJoin(l, m)
              /\ Abstract!DoConcat(l, m) \/ BothHaveItems(l, m)

(* A new list takes nothing from the lists in use.                           *)
CreateKeepsOthers ==
    [][\A l \in List : ListCreateMore(l) =>
          \A m \in given : AsCursorList(m)' = AsCursorList(m)]_vars

(* A freed list takes no node of another along.                              *)
FreeKeepsOthers ==
    [][\A l \in List : ListFree(l) =>
          \A m \in given \ {l} : NodesOf(m) \cap Unused' = {}]_vars

(* After ListConcat() the current item is that of the second list.           *)
ConcatTakesCurser ==
    [][\A l, m \in List :
          ListConcat(l, m) /\ list[m].size # 0
          => list'[l].curser = list[m].curser]_vars
=============================================================================
