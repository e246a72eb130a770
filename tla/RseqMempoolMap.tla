--------------------------- MODULE RseqMempoolMap ---------------------------
(***************************************************************************)
(* The addresses of memory pools, in an address space of 2^BITS_PER_LONG   *)
(* bytes: how aligned_mmap_anonymous() trims what the kernel returns, how  *)
(* a range is laid out, and how a pointer leads to the copy of a CPU, to   *)
(* its link of the free list and back to its range.                        *)
(*                                                                         *)
(* The callers create a range each, in pools of their own: nothing orders  *)
(* their calls to the kernel, which may give one the pages the other just  *)
(* returned.                                                               *)
(***************************************************************************)
EXTENDS RseqUtils

CONSTANTS
    Caller,
    PageLen,                \* rseq_get_page_len()
    RANGE_HEADER_OFFSET,    \* sizeof(struct rseq_mempool_range)
    Attrs                   \* attributes of the pools

None == "none"
POOL_HEADER_NR_PAGES == 2
HeaderLen == POOL_HEADER_NR_PAGES * PageLen

MapAssumption ==
    /\ None \notin Caller
    /\ is_pow2(PageLen) /\ PageLen \in ULong \ {0}
    /\ RANGE_HEADER_OFFSET \in 1 .. PageLen
    /\ \A a \in Attrs :
          /\ a.stride \in ULong /\ a.stride >= PageLen /\ is_pow2(a.stride)
          /\ a.max_nr_cpus \in Nat \ {0}
          /\ {a.cow_init, a.robust} \subseteq BOOLEAN

\* The kernel maps neither the first nor the last page.
Page == 1 .. (ULongs \div PageLen) - 2
PagesOf(addr, len) == {p \in Page : addr < (p + 1) * PageLen /\ p * PageLen < addr + len}

VARIABLES
    owner,      \* whose mapping a page belongs to
    pc,
    attr,       \* attributes of the caller's pool
    local,      \* ptr, page_count and total_allocate
    range,      \* struct rseq_mempool_range, once created
    asserts     \* FALSE when an assertion has failed

vars == <<owner, pc, attr, local, range, asserts>>

NoLocal == [ptr |-> 0, page_count |-> 0, total |-> 0]
NULL == [base |-> 0]

Init ==
    /\ owner = [p \in Page |-> None]
    /\ pc = [c \in Caller |-> "idle"]
    /\ attr \in [Caller -> Attrs]
    /\ local = [c \in Caller |-> NoLocal]
    /\ range = [c \in Caller |-> NULL]
    /\ asserts = TRUE

-----------------------------------------------------------------------------
range_len(a) ==
    Wrap(a.stride * a.max_nr_cpus + (IF a.cow_init THEN a.stride ELSE 0)
                                  + (IF a.robust THEN a.stride ELSE 0))

PageOrder == rseq_get_count_order_ulong(PageLen)
InPages(len) == Wrap(len) \div 2^PageOrder
InBytes(n) == Wrap(n * 2^PageOrder)

minimum_page_count(a) == InPages(HeaderLen + range_len(a))

page_count(a) == InPages(HeaderLen + range_len(a) + a.stride - PageLen)

EInval(a) ==
    \/ range_len(a) < PageLen \/ a.stride < PageLen
    \/ ~is_pow2(a.stride) \/ range_len(a) & (a.stride - 1) # 0
    \/ HeaderLen & (PageLen - 1) # 0

Aligned(ptr, a) == Wrap(ptr + HeaderLen) & (a.stride - 1) = 0

\* rseq_mempool_range_create() calls aligned_mmap_anonymous(), which refuses.
Refuse(c) ==
    /\ pc[c] = "idle" /\ range[c] = NULL
    /\ EInval(attr[c])
    /\ pc' = [pc EXCEPT ![c] = "failed"]
    /\ UNCHANGED <<owner, attr, local, range, asserts>>

Mmap(c) ==
    /\ pc[c] = "idle" /\ range[c] = NULL
    /\ ~EInval(attr[c])
    /\ asserts' = (page_count(attr[c]) >= minimum_page_count(attr[c]))
    /\ \E p \in Page :
          LET n == page_count(attr[c])
              ptr == p * PageLen
          IN  /\ n > 0 /\ p + n - 1 \in Page
              /\ \A q \in p .. p + n - 1 : owner[q] = None
              /\ owner' = [q \in Page |-> IF q \in p .. p + n - 1 THEN c ELSE owner[q]]
              /\ local' = [local EXCEPT ![c] = [ptr |-> ptr, page_count |-> n,
                                                total |-> InBytes(n)]]
              /\ pc' = [pc EXCEPT ![c] = IF Aligned(ptr, attr[c]) THEN "after" ELSE "before"]
    /\ UNCHANGED <<attr, range>>

MmapFails(c) ==
    /\ pc[c] = "idle" /\ range[c] = NULL
    /\ ~EInval(attr[c])
    /\ asserts' = (page_count(attr[c]) >= minimum_page_count(attr[c]))
    /\ pc' = [pc EXCEPT ![c] = "failed"]
    /\ UNCHANGED <<owner, attr, local, range>>

\* The caller may try again.
Retry(c) ==
    /\ pc[c] = "failed"
    /\ pc' = [pc EXCEPT ![c] = "idle"]
    /\ UNCHANGED <<owner, attr, local, range, asserts>>

\* Unmaps whatever is there.
munmap(addr, len) == [p \in Page |-> IF p \in PagesOf(addr, len) THEN None ELSE owner[p]]

ExtraBefore(l, a) == offset_align(Wrap(l.ptr + HeaderLen), a.stride)

UnmapBefore(c) ==
    LET l == local[c]
        extra == ExtraBefore(l, attr[c])
    IN  /\ pc[c] = "before"
        /\ asserts' = (extra & (PageLen - 1) = 0)
        /\ owner' = munmap(l.ptr, extra)
        /\ local' = [local EXCEPT ![c] = [ptr |-> Wrap(l.ptr + extra),
                                          page_count |-> l.page_count - InPages(extra),
                                          total |-> l.total - extra]]
        /\ pc' = [pc EXCEPT ![c] = "after"]
        /\ UNCHANGED <<attr, range>>

\* Unmaps what is left over behind, if anything, and fills in the range.
UnmapAfter(c) ==
    LET l == local[c]
        a == attr[c]
        least == minimum_page_count(a)
        extra == InBytes(l.page_count - least)
        base == Wrap(l.ptr + HeaderLen)
    IN  /\ pc[c] = "after"
        /\ asserts' = /\ l.page_count >= least
                      /\ Aligned(l.ptr, a)
                      /\ l.total - extra = Wrap(range_len(a) + HeaderLen)
        /\ owner' = munmap(Wrap(l.ptr + InBytes(least)), extra)
        /\ range' = [range EXCEPT ![c] =
                        [header |-> l.ptr, base |-> base,
                         init |-> IF a.cow_init THEN Wrap(base + a.stride * a.max_nr_cpus) ELSE 0,
                         mmap_addr |-> l.ptr, mmap_len |-> Wrap(HeaderLen + range_len(a))]]
        /\ local' = [local EXCEPT ![c] = NoLocal]
        /\ pc' = [pc EXCEPT ![c] = "idle"]
        /\ UNCHANGED attr

\* By the destruction of the pool, or because a later step of the creation fails.
rseq_mempool_range_destroy(c) ==
    /\ pc[c] = "idle" /\ range[c] # NULL
    /\ owner' = munmap(range[c].mmap_addr, range[c].mmap_len)
    /\ range' = [range EXCEPT ![c] = NULL]
    /\ UNCHANGED <<pc, attr, local, asserts>>

Next ==
    /\ asserts
    /\ \E c \in Caller :
          \/ Refuse(c) \/ Mmap(c) \/ MmapFails(c) \/ Retry(c)
          \/ UnmapBefore(c) \/ UnmapAfter(c) \/ rseq_mempool_range_destroy(c)

Spec == Init /\ [][Next]_vars

-----------------------------------------------------------------------------
\* The pointers.  An item is known by the address of its copy for CPU 0.

__rseq_pool_range_percpu_ptr(r, cpu, item_offset, stride) ==
    Wrap(r.base + stride * cpu + item_offset)

rseq_percpu_ptr(ptr, cpu, stride) == Wrap(ptr + cpu * stride)

__rseq_pool_range_init_ptr(r, item_offset) ==
    IF r.init = 0 THEN 0 ELSE Wrap(r.init + item_offset)

\* Mutant: the initial values of a robust pool are not skipped.
LinksOffsetEarly(a) == IF a.robust \/ a.cow_init THEN a.max_nr_cpus * a.stride ELSE 0

\* From an item to its link of the free list.
LinksOffset(a) ==
    IF a.robust THEN a.max_nr_cpus * a.stride + (IF a.cow_init THEN a.stride ELSE 0)
    ELSE IF a.cow_init THEN a.max_nr_cpus * a.stride
    ELSE 0

__rseq_percpu_to_free_list_ptr(p, a) == Wrap(p + LinksOffset(a))
__rseq_free_list_to_percpu_ptr(node, a) == Wrap(node - LinksOffset(a))

\* For the range r of a pool.
percpu_addr_in_pool(r, next_unused, addr) == r.base <= addr /\ addr < r.base + next_unused

\* What librseq_mempool_percpu_free() takes for the base, and for the structure.
range_base(ptr, stride) == ptr & Complement(stride - 1)
RangeOf(ptr, stride) == Wrap(range_base(ptr, stride) - RANGE_HEADER_OFFSET)

-----------------------------------------------------------------------------
TypeOK ==
    /\ owner \in [Page -> Caller \cup {None}]
    /\ pc \in [Caller -> {"idle", "failed", "before", "after"}]
    /\ attr \in [Caller -> Attrs]
    /\ \A c \in Caller : {local[c].ptr, local[c].page_count, local[c].total} \subseteq ULong
    /\ \A c \in Caller : range[c] # NULL =>
          {range[c][f] : f \in {"header", "base", "init", "mmap_addr", "mmap_len"}} \subseteq ULong
    /\ asserts \in BOOLEAN

Owned(c) == {p \in Page : owner[p] = c}

\* The strides of a range: one per CPU, the initial values, the free list.
Areas(a) == a.max_nr_cpus + (IF a.cow_init THEN 1 ELSE 0) + (IF a.robust THEN 1 ELSE 0)

\* Whatever place the kernel chooses and whoever maps in between, a range that
\* is created has its header and all of its areas and not a page more, one that
\* is being trimmed has what its variables say, and nothing is left behind by a
\* creation that failed or by a destruction.
MappedExactly ==
    \A c \in Caller :
        Owned(c) = IF range[c] # NULL
                     THEN PagesOf(range[c].header, HeaderLen + Areas(attr[c]) * attr[c].stride)
                     ELSE PagesOf(local[c].ptr, local[c].page_count * PageLen)

\* No assertion of aligned_mmap_anonymous() fails.
AssertsHold == asserts

Bytes(addr, len) == addr .. addr + len - 1

\* The areas of a range, by the pointers the code computes.
AreaBytes(r, a) ==
    LET at == [i \in 1 .. Areas(a) |->
                 CASE i <= a.max_nr_cpus -> __rseq_pool_range_percpu_ptr(r, i - 1, 0, a.stride)
                   [] i = a.max_nr_cpus + 1 /\ a.cow_init -> __rseq_pool_range_init_ptr(r, 0)
                   [] OTHER -> __rseq_percpu_to_free_list_ptr(r.base, a)]
    IN  [i \in 1 .. Areas(a) |-> Bytes(at[i], a.stride)]

\* The copies of the CPUs, the initial values and the free list of a robust pool
\* lie in pages of the range behind its header, and no two of them overlap.
AreasApart ==
    \A c \in Caller :
        LET r == range[c]
            area == AreaBytes(r, attr[c])
        IN  r # NULL =>
              \A i \in DOMAIN area :
                  /\ \A x \in area[i] : x \div PageLen \in Owned(c) /\ x >= r.header + HeaderLen
                  /\ \A j \in DOMAIN area : i # j => area[i] \cap area[j] = {}

\* From any byte of an item, freeing finds the structure of its range, in the
\* header, and rseq_percpu_ptr() the copy that the pool initialises.
PointersResolve ==
    \A c \in Caller :
        LET r == range[c]
            a == attr[c]
        IN  r # NULL =>
              /\ Bytes(RangeOf(r.base, a.stride), RANGE_HEADER_OFFSET)
                   \subseteq Bytes(r.header + PageLen, PageLen)
              /\ \A offset \in 0 .. a.stride - 1 :
                    LET p == r.base + offset
                    IN  /\ RangeOf(p, a.stride) = RangeOf(r.base, a.stride)
                        /\ \A cpu \in 0 .. a.max_nr_cpus - 1 :
                              rseq_percpu_ptr(p, cpu, a.stride)
                                = __rseq_pool_range_percpu_ptr(r, cpu, offset, a.stride)

\* The verification of a free list takes a node for one of the pool exactly if
\* it lies in the area of the links of its range: in the list of its own where
\* the pool is robust, in the initial values or in the copy of CPU 0 if not.
NodesResolve ==
    \A c \in Caller :
        LET r == range[c]
            a == attr[c]
            links == IF a.robust THEN Areas(a) ELSE IF a.cow_init THEN a.max_nr_cpus + 1 ELSE 1
        IN  r # NULL =>
              \A node \in ULong :
                  percpu_addr_in_pool(r, a.stride, __rseq_free_list_to_percpu_ptr(node, a))
                    <=> node \in AreaBytes(r, a)[links]

\* A created range has a stride of memory for each of the CPUs the pool is for.
\* It does not hold if range_len() wraps around to a multiple of the stride.
CopiesMapped ==
    \A c \in Caller :
        range[c] # NULL =>
          \A cpu \in 0 .. attr[c].max_nr_cpus - 1 :
              LET first == range[c].base + attr[c].stride * cpu
              IN  \A x \in Bytes(first, attr[c].stride) : x \div PageLen \in Owned(c)

=============================================================================
