-------------------------- MODULE RseqMempoolSet --------------------------
(***************************************************************************)
(* A pool set of rseq-mempool.c: one entry per order, pools of different   *)
(* item sizes, and allocations that fall back to larger items.  Threads    *)
(* add pools, allocate and free concurrently.                              *)
(*                                                                         *)
(* The pools are the allocator RseqMempool is shown to implement: an       *)
(* allocation takes a free item or fails with ENOMEM, at one instant.      *)
(***************************************************************************)
EXTENDS Integers, FiniteSets

CONSTANTS
    Thread,
    Pool,                 \* the pools the program creates,
    ItemOrder,            \*   the order of their item_len
    Capacity,             \*   the items they have,
    Creator,              \*   and the thread that creates them
    POOL_SET_MIN_ENTRY, POOL_SET_NR_ENTRIES,
    Lens,                 \* the lengths asked for
    Kinds,                \* the kinds of allocation called
    MaxCalls              \* calls per thread (bound)

NULL == "NULL"
Order == POOL_SET_MIN_ENTRY .. POOL_SET_NR_ENTRIES - 1
Kind == {"malloc", "zmalloc", "malloc_init"}

SetAssumption ==
    /\ POOL_SET_MIN_ENTRY \in Nat /\ POOL_SET_NR_ENTRIES \in Nat
    /\ ItemOrder \in [Pool -> Order] /\ Capacity \in [Pool -> Nat]
    /\ Creator \in [Pool -> Thread]
    /\ NULL \notin Pool
    /\ Lens \subseteq Nat /\ Kinds \subseteq Kind /\ MaxCalls \in Nat

VARIABLES
    entries, lock,
    used,            \* of each pool: the items that are allocated, by number
    mine,            \* of each thread: the pools it owns
    gone,            \* how often each pool was destroyed
    pc,
    kind, len,       \* of each thread: its allocation,
    order,           \*   the order its search is at,
    pool,            \*   the pool it adds or has found
    got,             \*   and the items it has been given
    could,           \* history: the pools that had room all through the call
    skipped,         \* history: the calls a fitting pool of these was not used for
    calls, set

locals == <<kind, len, order, pool>>
vars == <<entries, lock, used, mine, gone, pc, locals, got, could, skipped, calls, set>>

item_len(p) == 2^ItemOrder[p]
Count(l) == CHOOSE k \in 0 .. l : 2^k >= l /\ \A j \in 0 .. k - 1 : 2^j < l

Location == {"idle", "malloc_lock", "search", "malloc_unlock", "alloc",
             "add_lock", "test", "store", "add_unlock", "destroy"}
Item == [pool : Pool, index : Nat, len : Lens, kind : Kind, contents : {"any", "zero", "init"}]

TypeOK ==
    /\ entries \in [Order -> Pool \cup {NULL}]
    /\ lock \subseteq Thread
    /\ \A p \in Pool : used[p] \subseteq 1 .. Capacity[p]
    /\ mine \in [Thread -> SUBSET Pool] /\ gone \in [Pool -> Nat]
    /\ pc \in [Thread -> Location]
    /\ kind \in [Thread -> Kind] /\ len \in [Thread -> Nat]
    /\ order \in [Thread -> 0 .. POOL_SET_NR_ENTRIES] /\ pool \in [Thread -> Pool \cup {NULL}]
    /\ \A t \in Thread : got[t] \subseteq Item
    /\ could \in [Thread -> SUBSET Pool] /\ skipped \subseteq Pool
    /\ calls \in [Thread -> 0 .. MaxCalls] /\ set \in {"used", "destroying", "freed"}

\* rseq_mempool_set_create(); the pools have been created.
Init ==
    /\ entries = [o \in Order |-> NULL]
    /\ lock = {}
    /\ used = [p \in Pool |-> {}]
    /\ mine = [t \in Thread |-> {p \in Pool : Creator[p] = t}]
    /\ gone = [p \in Pool |-> 0]
    /\ pc = [t \in Thread |-> "idle"]
    /\ kind = [t \in Thread |-> "malloc"] /\ len = [t \in Thread |-> 0]
    /\ order = [t \in Thread |-> 0] /\ pool = [t \in Thread |-> NULL]
    /\ got = [t \in Thread |-> {}]
    /\ could = [t \in Thread |-> {}] /\ skipped = {}
    /\ calls = [t \in Thread |-> 0] /\ set = "used"

-----------------------------------------------------------------------------
At(t, l) == pc[t] = l
Goto(t, l) == pc' = [pc EXCEPT ![t] = l]
Present(p) == \E o \in Order : entries[o] = p

Unused(p) == 1 .. Capacity[p] \ used[p]
HasRoom(p) == Present(p) /\ Unused(p) # {}

\* The history: a call starts with the pools that have room.
Observe ==
    could' = [t \in Thread |->
                 IF pc'[t] = "idle" THEN {}
                 ELSE {p \in Pool : HasRoom(p)' /\ (pc[t] = "idle" \/ p \in could[t])}]

Call(t) ==
    /\ At(t, "idle") /\ set = "used" /\ calls[t] < MaxCalls
    /\ calls' = [calls EXCEPT ![t] = @ + 1]

\* The end of a call; its locals end.
Return(t) ==
    /\ Goto(t, "idle")
    /\ kind' = [kind EXCEPT ![t] = "malloc"] /\ len' = [len EXCEPT ![t] = 0]
    /\ order' = [order EXCEPT ![t] = 0] /\ pool' = [pool EXCEPT ![t] = NULL]

\* __rseq_mempool_set_malloc(): rseq_get_count_order_ulong(0) is -1.
Malloc(t, k, l) ==
    /\ Call(t)
    /\ kind' = [kind EXCEPT ![t] = k] /\ len' = [len EXCEPT ![t] = l]
    /\ order' = [order EXCEPT ![t] = IF l > 0 /\ Count(l) > POOL_SET_MIN_ENTRY
                                       THEN Count(l) ELSE POOL_SET_MIN_ENTRY]
    /\ Goto(t, "malloc_lock")
    /\ UNCHANGED <<entries, lock, used, mine, gone, pool, got, skipped, set>>

MallocLock(t) ==
    /\ At(t, "malloc_lock") /\ lock = {}
    /\ lock' = {t}
    /\ Goto(t, "search")
    /\ UNCHANGED <<entries, used, mine, gone, locals, got, skipped, calls, set>>

\* One iteration of the search.
Search(t) ==
    /\ At(t, "search")
    /\ IF order[t] = POOL_SET_NR_ENTRIES
         THEN Goto(t, "malloc_unlock") /\ UNCHANGED locals
         ELSE LET p == entries[order[t]]
              IN  IF p # NULL /\ item_len(p) >= len[t]
                    THEN /\ pool' = [pool EXCEPT ![t] = p]
                         /\ Goto(t, "malloc_unlock")
                         /\ UNCHANGED <<kind, len, order>>
                    ELSE /\ order' = [order EXCEPT ![t] = @ + 1]
                         /\ UNCHANGED <<pc, kind, len, pool>>
    /\ UNCHANGED <<entries, lock, used, mine, gone, got, skipped, calls, set>>

\* The fitting pools that had room all through the call and are not the result.
Overlooked(t, p) ==
    {q \in could[t] : /\ item_len(q) >= len[t]
                      /\ p # NULL => ItemOrder[q] < ItemOrder[p]}

MallocUnlock(t) ==
    /\ At(t, "malloc_unlock")
    /\ lock' = {}
    /\ IF pool[t] # NULL
         THEN Goto(t, "alloc") /\ UNCHANGED <<locals, skipped>>
         ELSE Return(t) /\ skipped' = skipped \cup Overlooked(t, NULL)
    /\ UNCHANGED <<entries, used, mine, gone, got, calls, set>>

\* The flags __rseq_percpu_malloc() is called with: zeroed wins.
Contents(k) == IF k \in {"zmalloc", "malloc_init"} THEN "zero" ELSE "any"

Take(t, p) ==
    LET i == CHOOSE i \in Unused(p) : TRUE
    IN  /\ used' = [used EXCEPT ![p] = @ \cup {i}]
        /\ got' = [got EXCEPT ![t] = @ \cup {[pool |-> p, index |-> i, len |-> len[t], kind |-> kind[t],
                                             contents |-> Contents(kind[t])]}]
        /\ skipped' = skipped \cup Overlooked(t, p)

\* Mutant: a freed item of the pool is expected after ENOMEM.
AllocRetriesPool(t) ==
    /\ At(t, "alloc")
    /\ IF Unused(pool[t]) # {}
         THEN Take(t, pool[t]) /\ Return(t)
         ELSE /\ pool' = [pool EXCEPT ![t] = NULL]
              /\ Goto(t, "malloc_lock")
              /\ UNCHANGED <<used, kind, len, order, got, skipped>>
    /\ UNCHANGED <<entries, lock, mine, gone, calls, set>>

\* __rseq_percpu_malloc(); after ENOMEM the search goes on with larger items.
Alloc(t) ==
    /\ At(t, "alloc")
    /\ IF Unused(pool[t]) # {}
         THEN Take(t, pool[t]) /\ Return(t)
         ELSE /\ order' = [order EXCEPT ![t] = @ + 1]
              /\ pool' = [pool EXCEPT ![t] = NULL]
              /\ Goto(t, "malloc_lock")
              /\ UNCHANGED <<used, kind, len, got, skipped>>
    /\ UNCHANGED <<entries, lock, mine, gone, calls, set>>

\* The program frees an item.
Free(t, i) ==
    /\ At(t, "idle") /\ set = "used" /\ i \in got[t]
    /\ used' = [used EXCEPT ![i.pool] = @ \ {i.index}]
    /\ got' = [got EXCEPT ![t] = @ \ {i}]
    /\ UNCHANGED <<entries, lock, mine, gone, pc, locals, skipped, calls, set>>

-----------------------------------------------------------------------------
rseq_mempool_set_add_pool(t, p) ==
    /\ Call(t) /\ p \in mine[t]
    /\ pool' = [pool EXCEPT ![t] = p]
    /\ Goto(t, "add_lock")
    /\ UNCHANGED <<entries, lock, used, mine, gone, kind, len, order, got, skipped, set>>

\* Mutant: no mutex.
AddLockShared(t) ==
    /\ At(t, "add_lock")
    /\ lock' = {t}
    /\ Goto(t, "test")
    /\ UNCHANGED <<entries, used, mine, gone, locals, got, skipped, calls, set>>

AddLock(t) ==
    /\ At(t, "add_lock") /\ lock = {}
    /\ lock' = {t}
    /\ Goto(t, "test")
    /\ UNCHANGED <<entries, used, mine, gone, locals, got, skipped, calls, set>>

AddTest(t) ==
    /\ At(t, "test")
    /\ Goto(t, IF entries[ItemOrder[pool[t]]] # NULL THEN "add_unlock" ELSE "store")
    /\ UNCHANGED <<entries, lock, used, mine, gone, locals, got, skipped, calls, set>>

\* The ownership of the pool is handed over.
AddStore(t) ==
    /\ At(t, "store")
    /\ entries' = [entries EXCEPT ![ItemOrder[pool[t]]] = pool[t]]
    /\ mine' = [mine EXCEPT ![t] = @ \ {pool[t]}]
    /\ Goto(t, "add_unlock")
    /\ UNCHANGED <<lock, used, gone, locals, got, skipped, calls, set>>

AddUnlock(t) ==
    /\ At(t, "add_unlock")
    /\ lock' = {}
    /\ Return(t)
    /\ UNCHANGED <<entries, used, mine, gone, got, skipped, calls, set>>

-----------------------------------------------------------------------------
\* A thread destroys a pool it owns.
DestroyPool(t, p) ==
    /\ At(t, "idle") /\ p \in mine[t]
    /\ gone' = [gone EXCEPT ![p] = @ + 1]
    /\ mine' = [mine EXCEPT ![t] = @ \ {p}]
    /\ UNCHANGED <<entries, lock, used, pc, locals, got, skipped, calls, set>>

\* rseq_mempool_set_destroy(), called when the set is not used any more.
rseq_mempool_set_destroy(t) ==
    /\ set = "used" /\ \A u \in Thread : pc[u] = "idle" /\ got[u] = {}
    /\ set' = "destroying"
    /\ order' = [order EXCEPT ![t] = POOL_SET_MIN_ENTRY]
    /\ Goto(t, "destroy")
    /\ UNCHANGED <<entries, lock, used, mine, gone, kind, len, pool, got, skipped, calls>>

\* One iteration of it: rseq_mempool_destroy() returns 0.
DestroyEntry(t) ==
    /\ At(t, "destroy")
    /\ IF order[t] = POOL_SET_NR_ENTRIES
         THEN set' = "freed" /\ Return(t) /\ UNCHANGED <<entries, gone>>
         ELSE /\ LET p == entries[order[t]]
                 IN  IF p = NULL THEN UNCHANGED <<entries, gone>>
                     ELSE /\ gone' = [gone EXCEPT ![p] = @ + 1]
                          /\ entries' = [entries EXCEPT ![order[t]] = NULL]
              /\ order' = [order EXCEPT ![t] = @ + 1]
              /\ UNCHANGED <<pc, kind, len, pool, set>>
    /\ UNCHANGED <<lock, used, mine, got, skipped, calls>>

-----------------------------------------------------------------------------
Step(t) ==
    \/ MallocLock(t) \/ Search(t) \/ MallocUnlock(t) \/ Alloc(t)
    \/ AddLock(t) \/ AddTest(t) \/ AddStore(t) \/ AddUnlock(t)
    \/ DestroyEntry(t)

ThreadStep(t) ==
    \/ Step(t)
    \/ \E k \in Kinds, l \in Lens : Malloc(t, k, l)
    \/ \E i \in got[t] : Free(t, i)
    \/ \E p \in Pool : rseq_mempool_set_add_pool(t, p) \/ DestroyPool(t, p)
    \/ rseq_mempool_set_destroy(t)

Next == \E t \in Thread : ThreadStep(t) /\ Observe

Spec == Init /\ [][Next]_vars

-----------------------------------------------------------------------------
\* A pool has one owner, the thread that created it or one entry of the set,
\* until it is destroyed, once.  An add that fails leaves it with the caller, and
\* a set that is freed leaves no pool behind.
OwnedOnce ==
    \A p \in Pool :
        Cardinality({t \in Thread : p \in mine[t]})
            + Cardinality({o \in Order : set # "freed" /\ entries[o] = p}) + gone[p] = 1

\* An item that is given is as long as was asked for, and belongs to a pool that
\* has not been destroyed.
ItemFits ==
    \A t \in Thread : \A i \in got[t] : item_len(i.pool) >= i.len /\ gone[i.pool] = 0

\* The search finds the smallest fitting pool with room: no call fails or takes
\* a larger item although a smaller fitting pool had room all the time.
SmallestWithRoom == skipped = {}

\* malloc_init() returns memory with the contents it was given.
InitContents == \A t \in Thread : \A i \in got[t] : i.kind = "malloc_init" => i.contents = "init"

=============================================================================
