---------------------------- MODULE RseqMempool ----------------------------
(***************************************************************************)
(* A memory pool of rseq-mempool.c: threads allocate, use and free its     *)
(* items while other threads do the same.  The pool's mutex protects the   *)
(* list of ranges, the free list, which is linked through the memory of    *)
(* the freed items, and the bitmap of robust pools.  The memory of the     *)
(* items is written outside of it.                                         *)
(*                                                                         *)
(* An item is one word (item_len = sizeof(void * )), so that the link of   *)
(* the free list takes all of it.  A range has one copy of an item per     *)
(* CPU, the initial values (COW_INIT) and the links (robust).  The pages   *)
(* of a CPU's copy are mapped copy-on-write over the initial values and    *)
(* are modelled as one page.                                               *)
(***************************************************************************)
EXTENDS Integers, Sequences, FiniteSets

CONSTANTS
    Thread,
    NCpu,            \* attr.max_nr_cpus
    ItemsPerRange,   \* attr.stride >> item_order
    MaxNrRanges,     \* attr.max_nr_ranges (the bound; the limit is optional)
    Attrs,           \* attributes the pool may be created with
    Kinds,           \* operations the threads call
    MapFails,        \* TRUE if the mapping of a range may fail
    DoubleFree,      \* TRUE if threads may free an item they have freed
    MaxCalls         \* calls per thread (bound)

Cpu == 0 .. NCpu - 1
Ranges == 1 .. MaxNrRanges
Item == Ranges \X (0 .. ItemsPerRange - 1)

\* Words of memory: the address of an item, or <<0, v>> for a value v.
Zero == <<0, 0>>
NULL == Zero
Poison == <<0, 1>>           \* DEFAULT_COW_INIT_POISON_VALUE
InitValue == <<0, 2>>        \* *init_ptr of malloc_init
UserValue == <<0, 3>>        \* what the owner of an item stores
Word == Item \cup {Zero, Poison, InitValue, UserValue}

\* Attributes after the defaults of rseq_mempool_create(): robust pools have
\* a poison value.
Attr == [robust : BOOLEAN, cow_init : BOOLEAN, poison_set : BOOLEAN,
         poison : {Zero, Poison}]
Kind == {"malloc", "zmalloc", "malloc_init", "free"}

ASSUME MempoolAssumption ==
    /\ NCpu \in Nat \ {0}
    /\ ItemsPerRange \in Nat \ {0}
    /\ MaxNrRanges \in Nat \ {0}
    /\ Attrs \subseteq {a \in Attr : a.robust => a.poison_set}
    /\ Kinds \subseteq Kind
    /\ MapFails \in BOOLEAN /\ DoubleFree \in BOOLEAN
    /\ MaxCalls \in Nat

Location == {"idle", "lock", "node", "pop", "range", "slot", "full", "nomem", "unlock",
             "fill", "fill_cpu", "clear", "link", "push"}

VARIABLES
    attr,            \* pool->attr
    range_list, nr_ranges,
    next_unused,     \* of each range, in items
    free_list_head,
    alloc_bitmap,    \* the items whose bit is set
    lock,            \* the thread that holds pool->lock, as a set
    init,            \* the initial values of each item
    percpu,          \* the private pages of each CPU
    cowed,           \* the <<range, cpu>> that have a private page
    links,           \* the free list area of robust pools
    pc,
    kind,            \* of each thread: the operation it is in,
    item,            \*   the item it is about,
    node,            \*   the head of the free list it has read,
    cpu,             \*   and the CPU its loop over the copies is at
    owned,           \* the items each thread has been given (client)
    freed,           \* the items each thread has freed (client)
    alarm,           \* why abort() was called, or "none"
    destroyed,
    calls

poolvars == <<range_list, nr_ranges, next_unused, free_list_head, alloc_bitmap>>
memvars == <<init, percpu, cowed, links>>
callvars == <<kind, item, node, cpu>>
uservars == <<owned, freed, destroyed, calls>>
vars == <<attr, poolvars, lock, memvars, pc, callvars, uservars, alarm>>

Init ==
    /\ attr \in Attrs
    /\ range_list = <<1>> /\ nr_ranges = 1      \* created with one range
    /\ next_unused = [r \in Ranges |-> 0]
    /\ free_list_head = NULL
    /\ alloc_bitmap = {}
    /\ lock = {}
    /\ init = [i \in Item |-> Zero]
    /\ percpu = [c \in Cpu |-> [i \in Item |-> Zero]]
    /\ cowed = {}
    /\ links = [i \in Item |-> Zero]
    /\ pc = [t \in Thread |-> "idle"]
    /\ kind = [t \in Thread |-> "malloc"]
    /\ item = [t \in Thread |-> NULL]
    /\ node = [t \in Thread |-> NULL]
    /\ cpu = [t \in Thread |-> 0]
    /\ owned = [t \in Thread |-> {}]
    /\ freed = [t \in Thread |-> {}]
    /\ alarm = "none"
    /\ destroyed = FALSE
    /\ calls = [t \in Thread |-> 0]

-----------------------------------------------------------------------------
\* Memory.  What CPU c sees of an item, and a store to CPU c's copy: the first
\* one to a page of a COW_INIT pool copies the page.
View(c, i) ==
    IF attr.cow_init /\ <<i[1], c>> \notin cowed THEN init[i] ELSE percpu[c][i]

StoreCpu(c, i, w) ==
    /\ percpu' = [percpu EXCEPT ![c] =
                    [j \in Item |-> IF j = i THEN w
                                    ELSE IF j[1] = i[1] THEN View(c, j) ELSE percpu[c][j]]]
    /\ cowed' = IF attr.cow_init THEN cowed \cup {<<i[1], c>>} ELSE cowed
    /\ UNCHANGED <<init, links>>

\* Mutant: the links of a COW_INIT pool are looked for in the copy of CPU 0.
FreeListInCpu0(i) == IF attr.robust THEN links[i] ELSE percpu[0][i]

\* The link of a freed item: in the area of its own of a robust pool, in the
\* initial values of a COW_INIT pool, in the copy of CPU 0 otherwise.
__rseq_percpu_to_free_list_ptr(i) ==
    IF attr.robust THEN links[i] ELSE IF attr.cow_init THEN init[i] ELSE percpu[0][i]

StoreLink(i, w) ==
    IF attr.robust
      THEN links' = [links EXCEPT ![i] = w] /\ UNCHANGED <<init, percpu, cowed>>
      ELSE IF attr.cow_init
             THEN init' = [init EXCEPT ![i] = w] /\ UNCHANGED <<links, percpu, cowed>>
             ELSE StoreCpu(0, i, w)

-----------------------------------------------------------------------------
Running == alarm = "none" /\ ~destroyed
At(t, l) == Running /\ pc[t] = l
Goto(t, l) == pc' = [pc EXCEPT ![t] = l]

Call(t, k) ==
    /\ At(t, "idle") /\ calls[t] < MaxCalls /\ k \in Kinds
    /\ calls' = [calls EXCEPT ![t] = @ + 1]
    /\ kind' = [kind EXCEPT ![t] = k]
    /\ Goto(t, "lock")
    /\ UNCHANGED <<attr, poolvars, lock, memvars, node, cpu, destroyed, alarm>>

\* rseq_mempool_percpu_malloc(), _zmalloc() and _malloc_init().
Malloc(t, k) ==
    /\ Call(t, k) /\ k # "free"
    /\ UNCHANGED <<item, owned, freed>>

\* malloc_init() with init_len > item_len returns NULL before it locks.
MallocInitTooLong(t) ==
    /\ At(t, "idle") /\ calls[t] < MaxCalls /\ "malloc_init" \in Kinds
    /\ calls' = [calls EXCEPT ![t] = @ + 1]
    /\ UNCHANGED <<attr, poolvars, lock, memvars, pc, callvars, owned, freed, destroyed, alarm>>

\* librseq_mempool_percpu_free() of an item the thread owns, or has freed.
Free(t, i) ==
    /\ Call(t, "free")
    /\ i \in owned[t] \/ (DoubleFree /\ i \in freed[t])
    /\ item' = [item EXCEPT ![t] = i]
    /\ owned' = [owned EXCEPT ![t] = @ \ {i}]
    /\ freed' = IF DoubleFree THEN [freed EXCEPT ![t] = @ \cup {i}] ELSE freed

Lock(t) ==
    /\ At(t, "lock") /\ lock = {}
    /\ lock' = {t}
    /\ Goto(t, IF kind[t] = "free" THEN "clear" ELSE "node")
    /\ UNCHANGED <<attr, poolvars, memvars, callvars, uservars, alarm>>

-----------------------------------------------------------------------------
\* __rseq_percpu_malloc() under the mutex.
ReadHead(t) ==
    /\ At(t, "node")
    /\ node' = [node EXCEPT ![t] = free_list_head]
    /\ Goto(t, IF free_list_head # NULL THEN "pop" ELSE "range")
    /\ UNCHANGED <<attr, poolvars, lock, memvars, kind, item, cpu, uservars, alarm>>

rseq_percpu_check_poison_item(i) ==
    attr.robust => /\ attr.cow_init => init[i] = attr.poison
                   /\ \A c \in Cpu : View(c, i) = attr.poison

Pop(t) ==
    /\ At(t, "pop")
    /\ free_list_head' = __rseq_percpu_to_free_list_ptr(node[t])
    /\ item' = [item EXCEPT ![t] = node[t]]
    /\ alarm' = IF rseq_percpu_check_poison_item(node[t]) THEN "none" ELSE "poison"
    /\ Goto(t, "slot")
    /\ UNCHANGED <<attr, range_list, nr_ranges, next_unused, alloc_bitmap, lock, memvars,
                   kind, node, cpu, uservars>>

\* Mutant: one item too few.
RoomForOneLess == range_list # << >> /\ next_unused[Head(range_list)] + 1 < ItemsPerRange

RoomLeft == range_list # << >> /\ next_unused[Head(range_list)] + 1 <= ItemsPerRange

TakeUnused(t, r) ==
    /\ item' = [item EXCEPT ![t] = <<r, next_unused[r]>>]
    /\ next_unused' = [next_unused EXCEPT ![r] = @ + 1]
    /\ Goto(t, "slot")

Bump(t) ==
    /\ At(t, "range") /\ RoomLeft
    /\ TakeUnused(t, Head(range_list))
    /\ UNCHANGED <<attr, range_list, nr_ranges, free_list_head, alloc_bitmap, lock, memvars,
                   kind, node, cpu, uservars, alarm>>

\* rseq_mempool_range_create() succeeds; RseqMempoolRange has its steps.  The
\* memory of the new range is zero.
CreateRange(t) ==
    /\ At(t, "range") /\ ~RoomLeft
    /\ nr_ranges < MaxNrRanges
    /\ nr_ranges' = nr_ranges + 1
    /\ range_list' = <<nr_ranges + 1>> \o range_list
    /\ TakeUnused(t, nr_ranges + 1)
    /\ UNCHANGED <<attr, free_list_head, alloc_bitmap, lock, memvars, kind, node, cpu,
                   uservars, alarm>>

\* ... or not, because of the limit or because the system refuses.
Exhausted(t) ==
    /\ At(t, "range") /\ ~RoomLeft
    /\ nr_ranges >= MaxNrRanges
    /\ Goto(t, "full")
    /\ UNCHANGED <<attr, poolvars, lock, memvars, callvars, uservars, alarm>>

MappingFails(t) ==
    /\ At(t, "range") /\ ~RoomLeft
    /\ nr_ranges < MaxNrRanges /\ MapFails
    /\ Goto(t, "nomem")
    /\ UNCHANGED <<attr, poolvars, lock, memvars, callvars, uservars, alarm>>

set_alloc_slot(t) ==
    /\ At(t, "slot")
    /\ IF attr.robust
         THEN /\ alarm' = IF item[t] \in alloc_bitmap THEN "allocator" ELSE "none"
              /\ alloc_bitmap' = alloc_bitmap \cup {item[t]}
         ELSE UNCHANGED <<alarm, alloc_bitmap>>
    /\ Goto(t, "unlock")
    /\ UNCHANGED <<attr, range_list, nr_ranges, next_unused, free_list_head, lock, memvars,
                   callvars, uservars>>

\* The call returns the item to its caller, or NULL; its locals end.
Return(t) ==
    /\ Goto(t, "idle")
    /\ owned' = IF kind[t] # "free" /\ item[t] # NULL
                  THEN [owned EXCEPT ![t] = @ \cup {item[t]}] ELSE owned
    /\ kind' = [kind EXCEPT ![t] = "malloc"]
    /\ item' = [item EXCEPT ![t] = NULL]
    /\ node' = [node EXCEPT ![t] = NULL]
    /\ cpu' = [cpu EXCEPT ![t] = 0]
    /\ UNCHANGED <<freed, destroyed, calls>>

Unlock(t) ==
    /\ Running /\ pc[t] \in {"unlock", "full", "nomem"}
    /\ lock' = {}
    /\ IF pc[t] = "unlock" /\ kind[t] \in {"zmalloc", "malloc_init"}
         THEN Goto(t, "fill") /\ UNCHANGED <<callvars, uservars>>
         ELSE Return(t)
    /\ UNCHANGED <<attr, poolvars, memvars, alarm>>

-----------------------------------------------------------------------------
\* Filling an item with a word: the initial values first, then the copy of
\* each CPU that does not have the word.
Value(t) == IF kind[t] = "zmalloc" THEN Zero
            ELSE IF kind[t] = "malloc_init" THEN InitValue
            ELSE attr.poison

\* Mutant: rseq_percpu_poison_item() leaves the initial values.
FillInitNotPoisoned(t) ==
    /\ At(t, "fill")
    /\ IF attr.cow_init /\ kind[t] # "free"
         THEN init' = [init EXCEPT ![item[t]] = Value(t)] ELSE UNCHANGED init
    /\ cpu' = [cpu EXCEPT ![t] = 0]
    /\ Goto(t, "fill_cpu")
    /\ UNCHANGED <<attr, poolvars, lock, percpu, cowed, links, kind, item, node, uservars, alarm>>

FillInit(t) ==
    /\ At(t, "fill")
    /\ IF attr.cow_init THEN init' = [init EXCEPT ![item[t]] = Value(t)] ELSE UNCHANGED init
    /\ cpu' = [cpu EXCEPT ![t] = 0]
    /\ Goto(t, "fill_cpu")
    /\ UNCHANGED <<attr, poolvars, lock, percpu, cowed, links, kind, item, node, uservars, alarm>>

\* Mutant: the CPUs of a COW_INIT pool are taken to see the initial values.
FillCpuTrustsInit(t) ==
    /\ At(t, "fill_cpu") /\ cpu[t] < NCpu
    /\ IF attr.cow_init \/ View(cpu[t], item[t]) = Value(t)
         THEN UNCHANGED memvars
         ELSE StoreCpu(cpu[t], item[t], Value(t))
    /\ cpu' = [cpu EXCEPT ![t] = @ + 1]
    /\ UNCHANGED <<attr, poolvars, lock, pc, kind, item, node, uservars, alarm>>

FillCpu(t) ==
    /\ At(t, "fill_cpu") /\ cpu[t] < NCpu
    /\ IF View(cpu[t], item[t]) = Value(t) THEN UNCHANGED memvars
                                           ELSE StoreCpu(cpu[t], item[t], Value(t))
    /\ cpu' = [cpu EXCEPT ![t] = @ + 1]
    /\ UNCHANGED <<attr, poolvars, lock, pc, kind, item, node, uservars, alarm>>

\* rseq_percpu_zero_item() and rseq_percpu_init_item() end the allocation,
\* rseq_percpu_poison_item() leads to the free list.
Filled(t) ==
    /\ At(t, "fill_cpu") /\ cpu[t] = NCpu
    /\ IF kind[t] = "free" THEN Goto(t, "link") /\ UNCHANGED <<callvars, uservars>>
                           ELSE Return(t)
    /\ UNCHANGED <<attr, poolvars, lock, memvars, alarm>>

-----------------------------------------------------------------------------
\* librseq_mempool_percpu_free() under the mutex.
\* Mutant: the bit is not cleared.
ClearNothing(t) ==
    /\ At(t, "clear")
    /\ alarm' = IF attr.robust /\ item[t] \notin alloc_bitmap THEN "double_free" ELSE "none"
    /\ node' = [node EXCEPT ![t] = free_list_head]
    /\ Goto(t, IF attr.poison_set THEN "fill" ELSE "link")
    /\ UNCHANGED <<attr, poolvars, lock, memvars, kind, item, cpu, uservars>>

clear_alloc_slot(t) ==
    /\ At(t, "clear")
    /\ IF attr.robust
         THEN /\ alarm' = IF item[t] \in alloc_bitmap THEN "none" ELSE "double_free"
              /\ alloc_bitmap' = alloc_bitmap \ {item[t]}
         ELSE UNCHANGED <<alarm, alloc_bitmap>>
    /\ node' = [node EXCEPT ![t] = free_list_head]
    /\ Goto(t, IF attr.poison_set THEN "fill" ELSE "link")
    /\ UNCHANGED <<attr, range_list, nr_ranges, next_unused, free_list_head, lock, memvars,
                   kind, item, cpu, uservars>>

Link(t) ==
    /\ At(t, "link")
    /\ StoreLink(item[t], node[t])
    /\ Goto(t, "push")
    /\ UNCHANGED <<attr, poolvars, lock, callvars, uservars, alarm>>

Push(t) ==
    /\ At(t, "push")
    /\ free_list_head' = item[t]
    /\ Goto(t, "unlock")
    /\ UNCHANGED <<attr, range_list, nr_ranges, next_unused, alloc_bitmap, lock, memvars,
                   callvars, uservars, alarm>>

-----------------------------------------------------------------------------
\* A thread that runs on CPU c stores to an item some thread owns.
Store(t, c, i) ==
    /\ At(t, "idle")
    /\ \E u \in Thread : i \in owned[u]
    /\ View(c, i) # UserValue
    /\ StoreCpu(c, i, UserValue)
    /\ UNCHANGED <<attr, poolvars, lock, pc, callvars, uservars, alarm>>

\* The items that are in the free list or have been handed out.
EverAllocated == {i \in Item : i[1] \in {range_list[k] : k \in DOMAIN range_list}
                               /\ i[2] < next_unused[i[1]]}

\* The nodes a traversal of the free list meets; NULL after its end or after a
\* node that is not in the pool.
FreeList ==
    LET at[k \in 0 .. Cardinality(EverAllocated)] ==
            IF k = 0 THEN free_list_head
            ELSE IF at[k - 1] \in EverAllocated THEN __rseq_percpu_to_free_list_ptr(at[k - 1])
            ELSE NULL
    IN  at


\* The traversal meets as many nodes as there are items that have been
\* allocated (total_never_allocated + total_freed = total_item), each in the
\* pool, and ends there.
check_free_list ==
    LET max_list_traversal == Cardinality(EverAllocated)
    IN  /\ \A k \in 0 .. max_list_traversal - 1 : FreeList[k] \in EverAllocated
        /\ FreeList[max_list_traversal] = NULL

check_pool_poison == \A i \in EverAllocated : rseq_percpu_check_poison_item(i)

\* rseq_mempool_destroy() when no thread uses the pool any more, in a process
\* that has the mappings and whose munmap() succeeds (RseqMempoolRange has the
\* other cases).
Destroy ==
    /\ Running /\ \A t \in Thread : pc[t] = "idle"
    /\ alarm' = IF attr.robust /\ ~check_free_list THEN "free_list"
                ELSE IF attr.robust /\ ~check_pool_poison THEN "poison"
                ELSE IF attr.robust /\ alloc_bitmap # {} THEN "leak"
                ELSE "none"
    /\ destroyed' = (alarm' = "none")
    /\ UNCHANGED <<attr, poolvars, lock, memvars, pc, callvars, owned, freed, calls>>

Step(t) ==
    \/ Lock(t) \/ ReadHead(t) \/ Pop(t) \/ Bump(t) \/ CreateRange(t)
    \/ Exhausted(t) \/ MappingFails(t) \/ set_alloc_slot(t) \/ Unlock(t)
    \/ FillInit(t) \/ FillCpu(t) \/ Filled(t)
    \/ clear_alloc_slot(t) \/ Link(t) \/ Push(t)

Next ==
    \/ \E t \in Thread :
         \/ Step(t)
         \/ \E k \in Kind : Malloc(t, k)
         \/ MallocInitTooLong(t)
         \/ \E i \in Item : Free(t, i)
         \/ \E c \in Cpu, i \in Item : Store(t, c, i)
    \/ Destroy
    \/ ~Running /\ UNCHANGED vars

Spec == Init /\ [][Next]_vars

-----------------------------------------------------------------------------
\* Type correctness.
TypeOK ==
    /\ attr \in Attrs
    /\ range_list \in Seq(Ranges) /\ nr_ranges \in Ranges
    /\ next_unused \in [Ranges -> 0 .. ItemsPerRange]
    /\ free_list_head \in Item \cup {NULL}
    /\ alloc_bitmap \subseteq Item
    /\ lock \in SUBSET Thread
    /\ init \in [Item -> Word]
    /\ percpu \in [Cpu -> [Item -> Word]]
    /\ cowed \subseteq Ranges \X Cpu
    /\ links \in [Item -> Word]
    /\ pc \in [Thread -> Location]
    /\ kind \in [Thread -> Kind]
    /\ item \in [Thread -> Item \cup {NULL}]
    /\ node \in [Thread -> Item \cup {NULL}]
    /\ cpu \in [Thread -> 0 .. NCpu]
    /\ owned \in [Thread -> SUBSET Item]
    /\ freed \in [Thread -> SUBSET Item]
    /\ alarm \in {"none", "poison", "allocator", "double_free", "free_list", "leak"}
    /\ destroyed \in BOOLEAN
    /\ calls \in [Thread -> 0 .. MaxCalls]

\* The item thread t is allocating or freeing, from the step that takes it out
\* of the pool to the return, and from the call to the step that puts it back.
Busy(t) == IF pc[t] = "idle" \/ item[t] = NULL \/ (kind[t] = "free" /\ pc[t] = "unlock")
             THEN {} ELSE {item[t]}
Held(t) == owned[t] \cup Busy(t)
IsHeld(i) == \E t \in Thread : i \in Held(t)

\* An item is held by at most one thread: two allocations never return the
\* same item, and neither returns one whose free has not ended.
HeldByOne == \A t, u \in Thread : t # u => Held(t) \cap Held(u) = {}

\* The items that were allocated and are not held, and what it means that the
\* free list meets them in the order of s.
FreeItems == {i \in EverAllocated : ~IsHeld(i)}
ListedAs(n, s) ==
    /\ \A j, k \in 1 .. n : s[j] = s[k] => j = k
    /\ {s[k] : k \in 1 .. n} = FreeItems
    /\ free_list_head = IF n = 0 THEN NULL ELSE s[1]
    /\ \A k \in 1 .. n :
         __rseq_percpu_to_free_list_ptr(s[k]) = IF k = n THEN NULL ELSE s[k + 1]

\* The free list, linked through the memory of the items, meets each item that
\* was allocated and is not held, once, and nothing else.
FreeListSound ==
    Running => \E s \in [1 .. Cardinality(FreeItems) -> FreeItems] :
                   ListedAs(Cardinality(FreeItems), s)

\* The checks of a robust pool never abort an allocation or a free of a program
\* that frees what it allocated, once, and does not touch it afterwards.
NoFalseAlarm == alarm # "none" => \A t \in Thread : pc[t] = "idle"

\* rseq_mempool_destroy() aborts for a robust pool if and only if an item has
\* not been freed.
DestroyVerdict ==
    /\ (\A t \in Thread : pc[t] = "idle") /\ alarm # "none" =>
           \E t \in Thread : owned[t] # {}
    /\ destroyed /\ attr.robust => \A t \in Thread : owned[t] = {}

\* An allocation fails for the limit of ranges only when every item of every
\* range is held by some thread.
RefusedWhenFull ==
    \A t \in Thread : pc[t] = "full" => \A i \in Item : IsHeld(i)

\* The pool keeps the allocator's promises: items held by one thread, what the
\* CPUs see of an owned item changed by its users only, zmalloc() and
\* malloc_init() returning the word they promise on every CPU.
Promised(k) == IF k = "zmalloc" THEN {Zero}
               ELSE IF k = "malloc_init" THEN {InitValue}
               ELSE Word
WantMap == [t \in Thread |-> IF pc[t] = "idle" THEN "idle" ELSE kind[t]]
HeldMap == [t \in Thread |-> Held(t)]
BusyMap == [t \in Thread |-> Busy(t)]
DataMap == [i \in Item |-> [c \in Cpu |-> IF IsHeld(i) THEN View(c, i) ELSE Zero]]
Allocator == INSTANCE RseqAllocator WITH
    want <- WantMap, held <- HeldMap, busy <- BusyMap, data <- DataMap
ImplementsAllocator == Allocator!Spec

\* Even a program that frees an item twice, from any threads, does not corrupt
\* the free list of a robust pool: it is aborted before, or the item was
\* allocated again in between and the free takes it from its new owner.
FreeListEnds ==
    \E n \in 0 .. Cardinality(EverAllocated) :
        /\ \A k \in 0 .. n - 1 : FreeList[k] \in EverAllocated
        /\ FreeList[n] = NULL

=============================================================================
