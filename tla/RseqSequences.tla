--------------------------- MODULE RseqSequences ---------------------------
(***************************************************************************)
(* What the operations of list.h promise: the lists are sequences of       *)
(* elements, and an element is in one of them or in none.                  *)
(***************************************************************************)
EXTENDS Integers, Sequences

CONSTANTS Elem, Heads

VARIABLE list        \* of each list head, the elements in their order

Members(h) == {list[h][k] : k \in DOMAIN list[h]}
Free == Elem \ UNION {Members(h) : h \in Heads}

Init == list = [h \in Heads |-> << >>]

Without(s, e) == SelectSeq(s, LAMBDA f : f # e)
Removed(e) == [h \in Heads |-> Without(list[h], e)]

Add(e, h) == e \in Free /\ list' = [list EXCEPT ![h] = <<e>> \o @]
AddTail(e, h) == e \in Free /\ list' = [list EXCEPT ![h] = @ \o <<e>>]
Del(e) == e \notin Free /\ list' = Removed(e)
Move(e, h) == e \notin Free /\ list' = [Removed(e) EXCEPT ![h] = <<e>> \o @]
Replace(e, f) ==
    /\ e \notin Free /\ f \in Free
    /\ list' = [h \in Heads |-> [k \in DOMAIN list[h] |-> IF list[h][k] = e THEN f ELSE list[h][k]]]
Splice(add, h) == add # h /\ list' = [list EXCEPT ![h] = list[add] \o @, ![add] = << >>]

Next ==
    \/ \E e \in Elem : Del(e) \/ \E f \in Elem : Replace(e, f)
    \/ \E e \in Elem, h \in Heads : Add(e, h) \/ AddTail(e, h) \/ Move(e, h)
    \/ \E g, h \in Heads : Splice(g, h)

Spec == Init /\ [][Next]_list

=============================================================================
