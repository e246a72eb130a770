--------------------------- MODULE RseqAllocator ---------------------------
(***************************************************************************)
(* What a memory pool promises the threads that use it (mempool.h): an     *)
(* item is held by one thread at a time, from the moment the pool takes it *)
(* for the thread's allocation until the pool takes it back; between the   *)
(* return of the allocation and the call of the free, only the users'      *)
(* stores change what any CPU sees of it; and when the allocation returns, *)
(* each CPU sees what the operation asked for.                             *)
(***************************************************************************)
CONSTANTS
    Thread, Cpu, Item, Word,
    Kind,            \* the allocating operations and "free"
    Promised(_)      \* the words an allocating operation may leave in an item

VARIABLES
    want,            \* the operation each thread is in, or "idle"
    held,            \* the items each thread holds
    busy,            \* the item each thread is allocating or freeing, as a set
    data             \* what each CPU sees of each held item

vars == <<want, held, busy, data>>

Init ==
    /\ want = [t \in Thread |-> "idle"]
    /\ held = [t \in Thread |-> {}]
    /\ busy = [t \in Thread |-> {}]
    /\ data \in [Item -> [Cpu -> Word]]

\* The step changes no other item than i.
OnlyItem(i) ==
    /\ data' \in [Item -> [Cpu -> Word]]
    /\ \A j \in Item \ {i} : data'[j] = data[j]

Alloc(t, k) ==
    /\ want[t] = "idle" /\ k # "free"
    /\ want' = [want EXCEPT ![t] = k]
    /\ UNCHANGED <<held, busy, data>>

Take(t, i) ==
    /\ want[t] \notin {"idle", "free"} /\ busy[t] = {}
    /\ \A u \in Thread : i \notin held[u]
    /\ held' = [held EXCEPT ![t] = @ \cup {i}]
    /\ busy' = [busy EXCEPT ![t] = {i}]
    /\ OnlyItem(i)
    /\ UNCHANGED want

Prepare(t, i) ==
    /\ i \in busy[t]
    /\ OnlyItem(i)
    /\ UNCHANGED <<want, held, busy>>

Return(t, i) ==
    /\ want[t] \notin {"idle", "free"} /\ busy[t] = {i}
    /\ \A c \in Cpu : data[i][c] \in Promised(want[t])
    /\ want' = [want EXCEPT ![t] = "idle"]
    /\ busy' = [busy EXCEPT ![t] = {}]
    /\ UNCHANGED <<held, data>>

\* The operation ends without an item: the allocation failed or the item is free.
ReturnNothing(t) ==
    /\ want[t] # "idle" /\ busy[t] = {}
    /\ want' = [want EXCEPT ![t] = "idle"]
    /\ UNCHANGED <<held, busy, data>>

Free(t, i) ==
    /\ want[t] = "idle" /\ i \in held[t]
    /\ want' = [want EXCEPT ![t] = "free"]
    /\ busy' = [busy EXCEPT ![t] = {i}]
    /\ UNCHANGED <<held, data>>

Release(t, i) ==
    /\ want[t] = "free" /\ busy[t] = {i}
    /\ held' = [held EXCEPT ![t] = @ \ {i}]
    /\ busy' = [busy EXCEPT ![t] = {}]
    /\ OnlyItem(i)
    /\ UNCHANGED want

Store(t, i) ==
    /\ \E u \in Thread : i \in held[u] \ busy[u]
    /\ want[t] = "idle"
    /\ OnlyItem(i)
    /\ UNCHANGED <<want, held, busy>>

Next ==
    \E t \in Thread :
        \/ \E k \in Kind : Alloc(t, k)
        \/ ReturnNothing(t)
        \/ \E i \in Item : \/ Take(t, i) \/ Prepare(t, i) \/ Return(t, i)
                           \/ Free(t, i) \/ Release(t, i) \/ Store(t, i)

Spec == Init /\ [][Next]_vars

=============================================================================
