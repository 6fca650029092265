------------------------------ MODULE ListSpec ------------------------------
(* What the list library promises: every list that was created is a sequence *)
(* with a cursor, and a call changes the lists it is given and no other.     *)
EXTENDS CursorList

CONSTANTS List, NoList

VARIABLE lists      \* lists[l]: a list of CursorList, or NoList

Init == lists = [l \in List |-> NoList]

Becomes(l, new) == lists[l] # NoList /\ lists' = [lists EXCEPT ![l] = new]
Holds(l) == lists[l] # NoList /\ ~IsEmpty(lists[l])

DoCreate(l) == lists[l] = NoList /\ lists' = [lists EXCEPT ![l] = EmptyList]

DoFirst(l) == Becomes(l, ListFirst(lists[l]))
DoLast(l) == Becomes(l, ListLast(lists[l]))
DoNext(l) == Becomes(l, ListNext(lists[l]))
DoPrev(l) == Becomes(l, ListPrev(lists[l]))
DoSearch(l, x) == Becomes(l, ListSearch(lists[l], {x}))

DoAdd(l, x) == Becomes(l, ListAdd(lists[l], x))
DoInsert(l, x) == Becomes(l, ListInsert(lists[l], x))
DoAppend(l, x) == Becomes(l, ListAppend(lists[l], x))
DoPrepend(l, x) == Becomes(l, ListPrepend(lists[l], x))

DoRemove(l) == Holds(l) /\ Becomes(l, ListRemove(lists[l]))
DoTrim(l) == Holds(l) /\ Becomes(l, ListTrim(lists[l]))
DoFree(l) == Becomes(l, EmptyList)

(* The items of m come after those of l, and the current item becomes the   *)
(* one of m (list.h:183).                                                    *)
Joined(l, m) ==
    [items |-> l.items \o m.items,
     curser |-> IF IsEmpty(m) THEN l.curser ELSE ListCount(l) + m.curser]

(* Both lists' items in l, whatever the current one is; m is gone.           *)
DoJoin(l, m) ==
    LET joined == Joined(lists[l], lists[m]) IN
    /\ l # m /\ lists[l] # NoList /\ lists[m] # NoList
    /\ \E i \in 0..ListCount(joined) :
          lists' = [lists EXCEPT ![l] = MoveTo(joined, i), ![m] = NoList]

DoConcat(l, m) ==
    /\ DoJoin(l, m)
    /\ lists'[l].curser = Joined(lists[l], lists[m]).curser
=============================================================================
