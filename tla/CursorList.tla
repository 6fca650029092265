----------------------------- MODULE CursorList -----------------------------
(* A list of assignment 4's list library (a4/partA/list.h) as its users see  *)
(* it: a sequence of items, and the position of the current one, 0 if there  *)
(* is none.  Every operator gives the list after the call.                   *)
EXTENDS Naturals, SequencesExt

EmptyList == [items |-> <<>>, curser |-> 0]

ListCount(l) == Len(l.items)
IsEmpty(l) == l.items = <<>>
MoveTo(l, i) == [l EXCEPT !.curser = i]

ListFirst(l) == IF IsEmpty(l) THEN l ELSE MoveTo(l, 1)
ListLast(l) == MoveTo(l, ListCount(l))
ListNext(l) == IF l.curser = ListCount(l) THEN l ELSE MoveTo(l, l.curser + 1)
ListPrev(l) == IF l.curser <= 1 THEN l ELSE MoveTo(l, l.curser - 1)

ListCurr(l) == l.items[l.curser]

(* From the current item to the first that is one of wanted, else to the end.*)
ListSearch(l, wanted) ==
    LET found == {i \in l.curser..ListCount(l) : l.items[i] \in wanted}
    IN  IF IsEmpty(l) THEN l
        ELSE IF found = {} THEN ListLast(l)
        ELSE MoveTo(l, CHOOSE i \in found : \A j \in found : i <= j)

PutAt(l, i, x) == [items |-> InsertAt(l.items, i, x), curser |-> i]

ListAdd(l, x) == PutAt(l, l.curser + 1, x)
ListInsert(l, x) == PutAt(l, IF IsEmpty(l) THEN 1 ELSE l.curser, x)
ListAppend(l, x) == PutAt(l, ListCount(l) + 1, x)
ListPrepend(l, x) == PutAt(l, 1, x)

(* The next item becomes the current one, or the new last one.               *)
ListRemove(l) ==
    [items |-> RemoveAt(l.items, l.curser),
     curser |-> IF l.curser = ListCount(l) THEN l.curser - 1 ELSE l.curser]

ListTrim(l) == [items |-> Front(l.items), curser |-> ListCount(l) - 1]
=============================================================================
