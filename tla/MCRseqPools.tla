---------------------------- MODULE MCRseqPools ----------------------------
(***************************************************************************)
(* Instances of the modules of memory pools for TLC, of which a behaviour  *)
(* takes one: the system calls of ranges (RseqMempoolRange) and their      *)
(* layout (RseqMempoolMap), pools that grow by ranges and programs that    *)
(* free twice (RseqMempool), copy-on-write initialization                  *)
(* (RseqMempoolCow), attributes (RseqMempoolCreate) and sets of pools      *)
(* (RseqMempoolSet).                                                       *)
(***************************************************************************)
EXTENDS RseqMempoolRange, FiniteSets, TLC

CONSTANTS Parts, t1, t2, c1, c2

VARIABLES
    part,
    \* several modules have, besides RseqMempoolRange:
    at, policy, on, lock, init, kind, calls, handle,
    \* RseqMempool
    list, nr, bitmap, next_unused, free_list_head, percpu, cowed, links, item, node, owned, freed,
    alarm, destroyed,
    \* RseqMempoolCow
    scenario, private, pte, word, fault, stored,
    \* RseqMempoolCreate
    request, created,
    \* RseqMempoolSet
    entries, used, mine, gone, len, order, got, could, skipped, set,
    \* RseqMempoolMap
    owner, local, extent, asserts

mempool == <<list, nr, bitmap, next_unused, free_list_head, percpu, cowed, links, item, node,
             owned, freed, alarm, destroyed>>
mempool_cow == <<scenario, private, pte, word, fault, stored>>
mempool_create == <<request, created>>
mempool_set == <<entries, used, mine, gone, len, order, got, could, skipped, set>>
mempool_map == <<owner, local, extent, asserts>>

MCvars == <<part, at, policy, on, lock, init, kind, calls, handle, mempool, mempool_cow,
            mempool_create, mempool_set, mempool_map, vars>>

-----------------------------------------------------------------------------
\* init_set and named add a step each that may fail: together, with the steps of
\* robust, or not at all.
RangeAttrs == {a \in Attr : a.init_set = a.named /\ (a.named => a.robust)}

\* A pool whose munmap() may fail.
FailingMunmap == INSTANCE RseqMempoolRange WITH
    Attrs <- {a \in RangeAttrs : ~a.robust /\ ~a.named}, Fails <- FALSE, MunmapFails <- TRUE,
    Allocates <- FALSE

\* With and without robust and COW_INIT, poisoned as by default.
PolicyAttrs ==
    {[robust |-> r, cow_init |-> ci, poison_set |-> r,
      poison |-> IF ci THEN <<0, 1>> ELSE <<0, 0>>] : r \in BOOLEAN, ci \in BOOLEAN}

\* Two items on a page that every CPU copies; ranges of one item that may fail to
\* map; and a program that frees what it has freed.
Shared == INSTANCE RseqMempool WITH
    Thread <- {t1, t2}, NCpu <- 2, ItemsPerRange <- 2, MaxNrRanges <- 1,
    Attrs <- PolicyAttrs, Kinds <- {"malloc", "zmalloc", "free"},
    MapFails <- FALSE, DoubleFree <- FALSE, MaxCalls <- 2,
    attr <- policy, range_list <- list, nr_ranges <- nr, alloc_bitmap <- bitmap, pc <- at, cpu <- on

Growth == INSTANCE RseqMempool WITH
    Thread <- {t1, t2}, NCpu <- 1, ItemsPerRange <- 1, MaxNrRanges <- 3,
    Attrs <- PolicyAttrs, Kinds <- {"malloc", "free"}, MapFails <- TRUE, DoubleFree <- FALSE,
    MaxCalls <- 3,
    attr <- policy, range_list <- list, nr_ranges <- nr, alloc_bitmap <- bitmap, pc <- at, cpu <- on

DoubleFree == INSTANCE RseqMempool WITH
    Thread <- {t1, t2}, NCpu <- 1, ItemsPerRange <- 2, MaxNrRanges <- 1,
    Attrs <- {a \in PolicyAttrs : a.robust}, Kinds <- {"malloc", "free"}, MapFails <- FALSE,
    DoubleFree <- TRUE, MaxCalls <- 4,
    attr <- policy, range_list <- list, nr_ranges <- nr, alloc_bitmap <- bitmap, pc <- at, cpu <- on

\* Either one of the threads initializes its item: nothing has mapped the page
\* when it stores the initial values (mempool_cow_race_test.c).  Or all threads
\* do, and the copy of a mapped page is atomic.
Scenarios ==
    {s \in [kind : [0 .. 1 -> {"malloc", "zmalloc", "malloc_init"}], atomic : {FALSE}] :
        \E t \in 0 .. 1 : \A u \in 0 .. 1 : u # t => s.kind[u] = "malloc"}
    \cup [kind : [0 .. 1 -> {"zmalloc", "malloc_init"}], atomic : {TRUE}]
Cow == INSTANCE RseqMempoolCow WITH
    NThread <- 2, NCpu <- 2, ItemLen <- 2, pc <- at, cpu <- on

\* Lengths up to the largest power of two: beyond it the order exceeds the word.
Creation == INSTANCE RseqMempoolCreate WITH
    BITS_PER_LONG <- 8, PageLen <- 4, RSEQ_MEMPOOL_STRIDE <- 16,
    Lens <- {0, 1, 2, 3, 4, 5, 8, 9, 64, 65, 127, 128}, Strides <- {0, 2, 4, 6, 64, 128},
    Counts <- {-1, 0, 1, 3}, PossibleCpus <- {0, 2}, attr <- policy, pool <- handle

\* Two pools of one size class, created by different threads, and a larger one.
Pools == {"small", "other", "large"}
Set == INSTANCE RseqMempoolSet WITH
    Thread <- {1, 2}, Pool <- Pools, ItemOrder <- [p \in Pools |-> IF p = "large" THEN 4 ELSE 3],
    Capacity <- [p \in Pools |-> 1], Creator <- [p \in Pools |-> IF p = "other" THEN 2 ELSE 1],
    POOL_SET_MIN_ENTRY <- 2, POOL_SET_NR_ENTRIES <- 5,
    Lens <- {0, 9, 17}, Kinds <- {"malloc_init"}, MaxCalls <- 3, pc <- at, pool <- handle

\* Strides of one and of two pages, one of four that needs three more to be
\* aligned, and a pool whose length is that of the address space.
Layout(s, n) == {[stride |-> s, max_nr_cpus |-> n, cow_init |-> ci, robust |-> ro] :
                    ci, ro \in BOOLEAN}
Plain(s, n) == [stride |-> s, max_nr_cpus |-> n, cow_init |-> FALSE, robust |-> FALSE]
Map == INSTANCE RseqMempoolMap WITH
    Caller <- {c1, c2}, BITS_PER_LONG <- 8, PageLen <- 16, RANGE_HEADER_OFFSET <- 5,
    Attrs <- Layout(16, 2) \cup Layout(32, 2) \cup {Plain(64, 1), Plain(32, 8)},
    pc <- at, attr <- policy, range <- extent

ASSUME PoolsAssumption ==
    /\ Shared!MempoolAssumption /\ Growth!MempoolAssumption /\ DoubleFree!MempoolAssumption
    /\ Cow!CowAssumption /\ Creation!CreateAssumption
    /\ Set!SetAssumption /\ Map!MapAssumption

Symmetry == Permutations({t1, t2}) \cup Permutations({c1, c2})

-----------------------------------------------------------------------------
\* The variables a behaviour does not use have one value.
Unused(v) == v = "unused"

NoMempool ==
    /\ Unused(list) /\ Unused(nr) /\ Unused(bitmap)
    /\ Unused(next_unused) /\ Unused(free_list_head) /\ Unused(percpu) /\ Unused(cowed)
    /\ Unused(links) /\ Unused(item) /\ Unused(node) /\ Unused(owned) /\ Unused(freed)
    /\ Unused(alarm) /\ Unused(destroyed)
NoMempoolCow ==
    /\ Unused(scenario) /\ Unused(private) /\ Unused(pte) /\ Unused(word) /\ Unused(fault)
    /\ Unused(stored)
NoMempoolCreate ==
    /\ Unused(request) /\ Unused(created)
NoMempoolSet ==
    /\ Unused(entries) /\ Unused(used) /\ Unused(mine) /\ Unused(gone) /\ Unused(len)
    /\ Unused(order) /\ Unused(got) /\ Unused(could) /\ Unused(skipped) /\ Unused(set)
NoMempoolMap ==
    /\ Unused(owner) /\ Unused(local) /\ Unused(extent) /\ Unused(asserts)
\* The state RseqMempoolRange is left in.
AtRest == Init /\ attr = [robust |-> FALSE, cow_init |-> FALSE, init_set |-> FALSE, named |-> FALSE]

MCInit ==
    /\ part \in Parts
    /\ \/ /\ part = "range" /\ Init /\ Unused(at) /\ Unused(policy) /\ Unused(on) /\ Unused(lock)
          /\ Unused(init) /\ Unused(kind) /\ Unused(calls) /\ Unused(handle) /\ NoMempool
          /\ NoMempoolCow /\ NoMempoolCreate /\ NoMempoolSet /\ NoMempoolMap
       \/ /\ part = "munmap" /\ FailingMunmap!Init /\ Unused(at) /\ Unused(policy) /\ Unused(on)
          /\ Unused(lock) /\ Unused(init) /\ Unused(kind) /\ Unused(calls) /\ Unused(handle)
          /\ NoMempool /\ NoMempoolCow /\ NoMempoolCreate /\ NoMempoolSet /\ NoMempoolMap
       \/ /\ part = "shared" /\ Shared!Init /\ AtRest /\ Unused(handle) /\ NoMempoolCow
          /\ NoMempoolCreate /\ NoMempoolSet /\ NoMempoolMap
       \/ /\ part = "growth" /\ Growth!Init /\ AtRest /\ Unused(handle) /\ NoMempoolCow
          /\ NoMempoolCreate /\ NoMempoolSet /\ NoMempoolMap
       \/ /\ part = "double_free" /\ DoubleFree!Init /\ AtRest /\ Unused(handle) /\ NoMempoolCow
          /\ NoMempoolCreate /\ NoMempoolSet /\ NoMempoolMap
       \/ /\ part = "cow" /\ Cow!Init /\ AtRest /\ Unused(policy) /\ Unused(lock) /\ Unused(kind)
          /\ Unused(calls) /\ Unused(handle) /\ NoMempool /\ NoMempoolCreate /\ NoMempoolSet
          /\ NoMempoolMap
       \/ /\ part = "create" /\ Creation!Init /\ AtRest /\ Unused(at) /\ Unused(on) /\ Unused(lock)
          /\ Unused(init) /\ Unused(kind) /\ Unused(calls) /\ NoMempool /\ NoMempoolCow
          /\ NoMempoolSet /\ NoMempoolMap
       \/ /\ part = "set" /\ Set!Init /\ AtRest /\ Unused(policy) /\ Unused(on) /\ Unused(init)
          /\ NoMempool /\ NoMempoolCow /\ NoMempoolCreate /\ NoMempoolMap
       \/ /\ part = "map" /\ Map!Init /\ AtRest /\ Unused(on) /\ Unused(lock) /\ Unused(init)
          /\ Unused(kind) /\ Unused(calls) /\ Unused(handle) /\ NoMempool /\ NoMempoolCow
          /\ NoMempoolCreate /\ NoMempoolSet

MCNext ==
    \/ /\ part = "range" /\ Next
       /\ UNCHANGED <<part, at, policy, on, lock, init, kind, calls, handle, mempool, mempool_cow,
                      mempool_create, mempool_set, mempool_map>>
    \/ /\ part = "munmap" /\ FailingMunmap!Next
       /\ UNCHANGED <<part, at, policy, on, lock, init, kind, calls, handle, mempool, mempool_cow,
                      mempool_create, mempool_set, mempool_map>>
    \/ /\ part = "shared" /\ Shared!Next
       /\ UNCHANGED <<part, handle, mempool_cow, mempool_create, mempool_set, mempool_map, vars>>
    \/ /\ part = "growth" /\ Growth!Next
       /\ UNCHANGED <<part, handle, mempool_cow, mempool_create, mempool_set, mempool_map, vars>>
    \/ /\ part = "double_free" /\ DoubleFree!Next
       /\ UNCHANGED <<part, handle, mempool_cow, mempool_create, mempool_set, mempool_map, vars>>
    \/ /\ part = "cow" /\ Cow!Next
       /\ UNCHANGED <<part, policy, lock, kind, calls, handle, mempool, mempool_create, mempool_set,
                      mempool_map, vars>>
    \/ /\ part = "create" /\ Creation!Next
       /\ UNCHANGED <<part, at, on, lock, init, kind, calls, mempool, mempool_cow, mempool_set,
                      mempool_map, vars>>
    \/ /\ part = "set" /\ Set!Next
       /\ UNCHANGED <<part, policy, on, init, mempool, mempool_cow, mempool_create, mempool_map,
                      vars>>
    \/ /\ part = "map" /\ Map!Next
       /\ UNCHANGED <<part, on, lock, init, kind, calls, handle, mempool, mempool_cow,
                      mempool_create, mempool_set, vars>>

MCSpec == MCInit /\ [][MCNext]_MCvars

-----------------------------------------------------------------------------


\* Whatever setters were called in whatever order: the items of a pool hold what
\* was asked for and a link of the free list, are a power of two long and fill the
\* stride, the bitmap has a bit for each, the pool has the CPUs its query reports,
\* and one that maps initial values is a per-CPU pool, as
\* rseq_mempool_range_create() asserts.
CreatedAsAsked ==
    part = "create" =>
        /\ Creation!ItemFits /\ Creation!BitmapCovers
        /\ Creation!HasCpus /\ Creation!CowInitIsPerCpu

\* A pool of a set has one owner, the thread that created it or one entry, until it
\* is destroyed, once; an item is as long as was asked for and of a pool that still
\* exists; and no call fails or takes a larger item although a smaller fitting
\* pool had room all the time.
SetServes == part = "set" => Set!OwnedOnce /\ Set!ItemFits /\ Set!SmallestWithRoom

\* malloc_init() of a set returns memory with the contents it was given.
InitContents == part = "set" => Set!InitContents

\* Whatever place the kernel chooses and whoever maps in between: a range that is
\* created has its header and all of its areas and not a page more, nothing is
\* left behind by a creation that failed or by a destruction, and no assertion of
\* aligned_mmap_anonymous() fails.  The areas lie behind the header and apart, a
\* byte of an item leads to the structure of its range and to the copy of each
\* CPU, and a node is one of the pool exactly if it lies in the area of the links.
LaidOut ==
    part = "map" =>
        /\ Map!MappedExactly /\ Map!AssertsHold
        /\ Map!AreasApart /\ Map!PointersResolve /\ Map!NodesResolve

=============================================================================
