------------------------- MODULE RseqMempoolCreate -------------------------
(***************************************************************************)
(* The attributes of a memory pool: the setters, called in any order, and  *)
(* what rseq_mempool_create() makes of them, on words of BITS_PER_LONG     *)
(* bits.                                                                   *)
(***************************************************************************)
EXTENDS RseqUtils

CONSTANTS
    PageLen,                 \* rseq_get_page_len()
    RSEQ_MEMPOOL_STRIDE,
    Lens, Strides, Counts,   \* the lengths, strides and CPU counts passed
    PossibleCpus             \* what rseq_get_max_nr_cpus() may return

PointerLen == BITS_PER_LONG \div 8
Policy == {"COW_INIT", "COW_ZERO"}

CreateAssumption ==
    /\ BITS_PER_LONG >= 8
    /\ is_pow2(PageLen) /\ PageLen > 0
    /\ is_pow2(RSEQ_MEMPOOL_STRIDE) /\ RSEQ_MEMPOOL_STRIDE >= PageLen
    /\ Lens \subseteq ULong /\ Strides \subseteq ULong
    /\ Counts \subseteq Int /\ PossibleCpus \subseteq Nat

VARIABLES
    attr,            \* struct rseq_mempool_attr
    pool,            \* what rseq_mempool_create() returned
    request,         \* and the item length it was asked for
    created          \* TRUE when it has

vars == <<attr, pool, request, created>>

\* calloc().
NoAttr == [init_set |-> FALSE, robust_set |-> FALSE, type |-> "PERCPU", stride |-> 0,
           max_nr_cpus |-> 0, max_nr_ranges |-> 0, poison_set |-> FALSE, poison |-> "0",
           populate_policy |-> "COW_INIT"]
NULL == [type |-> "NULL"]

Init == attr = NoAttr /\ pool = NULL /\ request = 0 /\ created = FALSE

-----------------------------------------------------------------------------
Set(fields) ==
    /\ ~created
    /\ attr' = [f \in DOMAIN attr |-> IF f \in DOMAIN fields THEN fields[f] ELSE attr[f]]
    /\ UNCHANGED <<pool, request, created>>

rseq_mempool_attr_set_init == Set([init_set |-> TRUE, populate_policy |-> "COW_INIT"])
rseq_mempool_attr_set_robust == Set([robust_set |-> TRUE])
rseq_mempool_attr_set_percpu(s, n) == Set([type |-> "PERCPU", stride |-> s, max_nr_cpus |-> n])
rseq_mempool_attr_set_global(s) == Set([type |-> "GLOBAL", stride |-> s, max_nr_cpus |-> 0])
rseq_mempool_attr_set_max_nr_ranges(n) == Set([max_nr_ranges |-> n])
rseq_mempool_attr_set_poison == Set([poison_set |-> TRUE, poison |-> "user"])
\* The setter takes any value; the creation refuses those it does not know.
rseq_mempool_attr_set_populate_policy(p) == Set([populate_policy |-> p])

-----------------------------------------------------------------------------
Order(len) == rseq_get_count_order_ulong(IF len < PointerLen THEN PointerLen ELSE len)

\* 1UL << order.  A shift by the width of the type is undefined: processors
\* shift by nothing, or everything out.
ShiftOne(order) == IF order < BITS_PER_LONG THEN {2^order} ELSE {1, 0}

\* Mutant: the policy of a global pool is kept.
PolicyKept(a) == a.populate_policy

PopulatePolicy(a) == IF a.type = "GLOBAL" /\ a.populate_policy = "COW_INIT"
                       THEN "COW_ZERO" ELSE a.populate_policy

\* The values max_nr_cpus may have; none if the call fails.
NrCpus(a) ==
    IF a.type = "GLOBAL" THEN {1}
    ELSE IF a.max_nr_cpus = 0 THEN PossibleCpus \ {0}
    ELSE {a.max_nr_cpus} \cap Nat

StrideOf(a) == IF a.stride = 0 THEN RSEQ_MEMPOOL_STRIDE ELSE a.stride

PoisonOf(a) == IF a.poison_set \/ ~a.robust_set THEN a.poison
               ELSE IF PopulatePolicy(a) = "COW_INIT" THEN "0x55" ELSE "0"

Valid(a, item_len) ==
    /\ a.populate_policy \in Policy
    /\ item_len <= StrideOf(a) /\ StrideOf(a) >= PageLen /\ is_pow2(StrideOf(a))

Pool(a, order, item_len, n) ==
    [type |-> a.type, item_len |-> item_len, item_order |-> order, stride |-> StrideOf(a),
     max_nr_cpus |-> n, max_nr_ranges |-> a.max_nr_ranges, robust_set |-> a.robust_set,
     poison_set |-> a.poison_set \/ a.robust_set, poison |-> PoisonOf(a),
     init_set |-> a.init_set, populate_policy |-> PopulatePolicy(a)]

\* With attributes or with NULL, for a pool that can be mapped.
rseq_mempool_create(len, a) ==
    /\ ~created
    /\ created' = TRUE
    /\ request' = len
    /\ \E item_len \in ShiftOne(Order(len)) :
          \/ /\ Valid(a, item_len)
             /\ \E n \in NrCpus(a) : pool' = Pool(a, Order(len), item_len, n)
          \/ /\ ~Valid(a, item_len) \/ NrCpus(a) = {}
                \/ (a.type = "PERCPU" /\ a.max_nr_cpus = 0 /\ 0 \in PossibleCpus)
             /\ pool' = NULL
    /\ UNCHANGED attr

\* rseq_mempool_get_max_nr_cpus().
rseq_mempool_get_max_nr_cpus == IF pool.type = "PERCPU" THEN pool.max_nr_cpus ELSE -1

\* The words create_alloc_bitmap() allocates.
BitmapWords ==
    ((pool.stride \div 2^pool.item_order) + BITS_PER_LONG - 1) \div BITS_PER_LONG

Next ==
    \/ rseq_mempool_attr_set_init \/ rseq_mempool_attr_set_robust
    \/ rseq_mempool_attr_set_poison
    \/ \E n \in {0, 1} : rseq_mempool_attr_set_max_nr_ranges(n)
    \/ \E s \in Strides : \/ rseq_mempool_attr_set_global(s)
                          \/ \E n \in Counts : rseq_mempool_attr_set_percpu(s, n)
    \/ \E p \in Policy \cup {"unknown"} : rseq_mempool_attr_set_populate_policy(p)
    \/ \E len \in Lens, a \in {attr, NoAttr} : rseq_mempool_create(len, a)

Spec == Init /\ [][Next]_vars

-----------------------------------------------------------------------------
\* The items of a pool hold what was asked for and a link of the free list, are
\* a power of two long and fill the stride.
ItemFits ==
    pool # NULL => /\ pool.item_len >= request /\ pool.item_len >= PointerLen
                   /\ pool.item_len = 2^pool.item_order
                   /\ pool.item_len <= pool.stride /\ pool.stride % pool.item_len = 0
                   /\ pool.stride % PageLen = 0

\* The assertion in rseq_mempool_range_create(): a pool that maps initial values
\* is a per-CPU pool, whatever setters were called in whatever order.
CowInitIsPerCpu == pool # NULL => (pool.populate_policy = "COW_INIT" => pool.type = "PERCPU")

\* A pool has CPUs, and its query reports them.
HasCpus ==
    pool # NULL => /\ pool.max_nr_cpus >= 1
                   /\ rseq_mempool_get_max_nr_cpus = IF pool.type = "GLOBAL" THEN -1
                                                     ELSE pool.max_nr_cpus

\* The bitmap has a bit for every item of a range.
BitmapCovers ==
    pool # NULL => \A offset \in {k * pool.item_len : k \in 0 .. pool.stride \div pool.item_len - 1} :
                       (offset \div 2^pool.item_order) \div BITS_PER_LONG < BitmapWords

=============================================================================
