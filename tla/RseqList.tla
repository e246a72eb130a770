----------------------------- MODULE RseqList -----------------------------
(***************************************************************************)
(* The doubly linked lists of list.h: the operations as the assignments to *)
(* the pointers they make, one after the other, and the iterations that    *)
(* allow the current element to be removed.                                *)
(***************************************************************************)
EXTENDS Integers, Sequences, FiniteSets

CONSTANTS Elem, Heads, NULL

Node == Elem \cup Heads

VARIABLES
    next, prev,      \* struct list_head
    in,              \* the elements that are in a list
    stale,           \* the heads whose elements were spliced to another list
    freed,           \* the elements whose memory was freed
    iter,            \* the head that is iterated on, or NULL,
    dir,             \* and the direction
    pos, p,          \* the cursors of the iteration
    first,           \* the elements of the list when the iteration started
    seen             \* and those it has visited

linkvars == <<next, prev>>
itervars == <<iter, dir, pos, p, first, seen>>
vars == <<linkvars, in, stale, freed, itervars>>

Init ==
    /\ next = [n \in Node |-> IF n \in Heads THEN n ELSE NULL]
    /\ prev = [n \in Node |-> IF n \in Heads THEN n ELSE NULL]
    /\ in = {} /\ stale = {} /\ freed = {}
    /\ iter = NULL /\ dir = "next" /\ pos = NULL /\ p = NULL /\ first = << >> /\ seen = << >>

-----------------------------------------------------------------------------
\* The memory, and the functions as their assignments to it, in their order.
Mem == [next |-> next, prev |-> prev]
SetNext(m, n, v) == [m EXCEPT !.next[n] = v]
SetPrev(m, n, v) == [m EXCEPT !.prev[n] = v]

INIT_LIST_HEAD(m, n) == SetNext(SetPrev(m, n, n), n, n)

list_add(m, newp, head) ==
    LET m1 == SetPrev(m, m.next[head], newp)
        m2 == SetNext(m1, newp, m1.next[head])
        m3 == SetPrev(m2, newp, head)
    IN  SetNext(m3, head, newp)

list_add_tail(m, newp, head) ==
    LET m1 == SetNext(m, m.prev[head], newp)
        m2 == SetNext(m1, newp, head)
        m3 == SetPrev(m2, newp, m2.prev[head])
    IN  SetPrev(m3, head, newp)

__list_del(m, before, after) == SetNext(SetPrev(m, after, before), before, after)

list_del(m, elem) == __list_del(m, m.prev[elem], m.next[elem])

list_del_init(m, elem) == INIT_LIST_HEAD(list_del(m, elem), elem)

list_move(m, elem, head) == list_add(__list_del(m, m.prev[elem], m.next[elem]), elem, head)

list_replace(m, old, new) ==
    LET m1 == SetNext(m, new, m.next[old])
        m2 == SetPrev(m1, new, m1.prev[old])
        m3 == SetNext(m2, m2.prev[new], new)
    IN  SetPrev(m3, m3.next[new], new)

list_replace_init(m, old, new) ==
    LET head == m.next[old]
    IN  INIT_LIST_HEAD(list_add_tail(list_del(m, old), new, head), old)

\* Mutant: the head is set first.
SpliceHeadFirst(m, add, head) ==
    IF add = m.next[add] THEN m
    ELSE LET m1 == SetNext(m, head, m.next[add])
             m2 == SetPrev(m1, m1.next[add], head)
             m3 == SetNext(m2, m2.prev[add], m2.next[head])
         IN  SetPrev(m3, m3.next[head], m3.prev[add])

list_splice(m, add, head) ==
    IF add = m.next[add] THEN m
    ELSE LET m1 == SetPrev(m, m.next[add], head)
             m2 == SetNext(m1, m1.prev[add], m1.next[head])
             m3 == SetPrev(m2, m2.next[head], m2.prev[add])
         IN  SetNext(m3, head, m3.next[add])

list_empty(head) == head = next[head]

-----------------------------------------------------------------------------
\* The program: elements that are in no list are added, elements of a list
\* removed, moved and replaced, and a list whose elements went to another one is
\* initialized before it is used again.
Assign(m) == next' = m.next /\ prev' = m.prev
Out == Elem \ (in \cup freed)
Usable == Heads \ stale
Idle == iter = NULL

Add(e, h) ==
    /\ Idle /\ e \in Out /\ h \in Usable
    /\ Assign(list_add(Mem, e, h)) \/ Assign(list_add_tail(Mem, e, h))
    /\ in' = in \cup {e}
    /\ UNCHANGED <<stale, freed, itervars>>

Del(e) ==
    /\ Idle /\ e \in in
    /\ Assign(list_del(Mem, e)) \/ Assign(list_del_init(Mem, e))
    /\ in' = in \ {e}
    /\ UNCHANGED <<stale, freed, itervars>>

Move(e, h) ==
    /\ Idle /\ e \in in /\ h \in Usable
    /\ Assign(list_move(Mem, e, h))
    /\ UNCHANGED <<in, stale, freed, itervars>>

Replace(e, f) ==
    /\ Idle /\ e \in in /\ f \in Out
    /\ Assign(list_replace(Mem, e, f)) \/ Assign(list_replace_init(Mem, e, f))
    /\ in' = (in \ {e}) \cup {f}
    /\ UNCHANGED <<stale, freed, itervars>>

Splice(add, h) ==
    /\ Idle /\ add \in Usable /\ h \in Usable /\ add # h
    /\ Assign(list_splice(Mem, add, h))
    /\ stale' = IF list_empty(add) THEN stale ELSE stale \cup {add}
    /\ UNCHANGED <<in, freed, itervars>>

Reinit(h) ==
    /\ Idle /\ h \in stale
    /\ Assign(INIT_LIST_HEAD(Mem, h))
    /\ stale' = stale \ {h}
    /\ UNCHANGED <<in, freed, itervars>>

-----------------------------------------------------------------------------
\* The elements from node n to head h along a pointer, with NULL at the end if
\* it does not lead there in k steps.
RECURSIVE Path(_, _, _, _)
Path(n, h, link, k) ==
    IF n = h THEN << >>
    ELSE IF n = NULL \/ k = 0 THEN <<NULL>>
    ELSE <<n>> \o Path(link[n], h, link, k - 1)
Walk(h, link) == Path(link[h], h, link, Cardinality(Node))

Follow(m, n) == IF dir = "next" THEN m.next[n] ELSE m.prev[n]

\* list_for_each_entry_safe() and list_for_each_prev_safe(): the start of the
\* loop.
list_for_each_safe(h, d) ==
    LET link == IF d = "next" THEN next ELSE prev
    IN  /\ Idle /\ h \in Usable
        /\ iter' = h /\ dir' = d
        /\ pos' = link[h] /\ p' = link[link[h]]
        /\ first' = Walk(h, link) /\ seen' = << >>
        /\ UNCHANGED <<linkvars, in, stale, freed>>

\* pos = p, p = pos->next.
Advance(m) == pos' = p /\ p' = Follow(m, p)

\* An iteration with a body that leaves the memory m.
Iterate(m) ==
    /\ iter # NULL /\ pos # iter
    /\ Assign(m)
    /\ seen' = Append(seen, pos)
    /\ Advance(m)
    /\ UNCHANGED <<stale, iter, dir, first>>

Keep == Iterate(Mem) /\ UNCHANGED <<in, freed>>

\* The element is removed and its memory freed, as rseq_mempool_destroy() does.
Remove ==
    /\ Iterate(SetNext(SetPrev(list_del(Mem, pos), pos, NULL), pos, NULL))
    /\ in' = in \ {pos} /\ freed' = freed \cup {pos}

\* It is moved to the other list.
MoveAway(h) == h \in Usable \ {iter} /\ Iterate(list_move(Mem, pos, h)) /\ UNCHANGED <<in, freed>>

\* A range that cannot be unmapped goes back to the list, and the loop ends.
PutBack ==
    /\ iter # NULL /\ pos # iter
    /\ Assign(list_add(list_del(Mem, pos), pos, iter))
    /\ iter' = NULL /\ pos' = NULL /\ p' = NULL /\ first' = << >> /\ seen' = << >>
    /\ UNCHANGED <<in, stale, freed, dir>>

EndLoop ==
    /\ iter # NULL /\ pos = iter
    /\ iter' = NULL /\ pos' = NULL /\ p' = NULL /\ first' = << >> /\ seen' = << >>
    /\ UNCHANGED <<linkvars, in, stale, freed, dir>>

Allocate(e) ==
    /\ Idle /\ e \in freed
    /\ freed' = freed \ {e}
    /\ UNCHANGED <<linkvars, in, stale, itervars>>

Next ==
    \/ \E e \in Elem : Del(e) \/ Allocate(e) \/ \E f \in Elem : Replace(e, f)
    \/ \E e \in Elem, h \in Heads : Add(e, h) \/ Move(e, h)
    \/ \E h \in Heads : Reinit(h) \/ MoveAway(h) \/ \E g \in Heads : Splice(g, h)
    \/ \E h \in Heads, d \in {"next", "prev"} : list_for_each_safe(h, d)
    \/ Keep \/ Remove \/ PutBack \/ EndLoop

Spec == Init /\ [][Next]_vars

-----------------------------------------------------------------------------
\* Every operation does to the pointers what it promises for the sequences, for
\* every order of operations: the sequence of a list is what next leads to.
ListMap == [h \in Heads |-> IF h \in stale THEN << >> ELSE Walk(h, next)]
Seqs == INSTANCE RseqSequences WITH list <- ListMap
ImplementsSequences == Seqs!Spec

\* The pointers of every list agree both ways.
LinkedBothWays == \A h \in Usable : \A n \in {h} \cup {Walk(h, next)[k] : k \in DOMAIN Walk(h, next)} :
                      prev[next[n]] = n /\ next[prev[n]] = n

\* A loop that removes, frees or moves elements visits each element the list had,
\* in order, once, and does not look at freed memory.
VisitsEach ==
    iter # NULL => /\ pos \in (in \cup {iter}) \ freed
                   /\ seen = SubSeq(first, 1, Len(seen))
                   /\ pos = iter => seen = first

=============================================================================
