--------------------------- MODULE MCRseqProgress ---------------------------
(***************************************************************************)
(* What must happen eventually: registration before the constructor has    *)
(* run (RseqRegistration), and instances of pools and sets of pools, of    *)
(* the retry loops around the helpers and of the loops in the assembly     *)
(* macros.  A behaviour takes one of them.                                 *)
(***************************************************************************)
EXTENDS RseqRegistration, Sequences, FiniteSets

VARIABLES
    part,
    \* several modules have, besides RseqRegistration:
    at, nr, lock, kind, cpu, item,
    \* RseqMempool
    attr, range_list, nr_ranges, next_unused, free_list_head, alloc_bitmap, init, percpu, cowed,
    links, node, owned, freed, alarm, destroyed,
    \* RseqMempoolSet
    entries, used, mine, gone, length, order, pool, got, could, skipped, set,
    \* RseqClient
    test, v, next, array, count, idx, exp, val, reps, hits,
    \* RseqMacros
    arch, macro, reg0, mem0, reg, mem, phase, taken, accesses

mempool == <<attr, range_list, nr_ranges, next_unused, free_list_head, alloc_bitmap, init, percpu,
             cowed, links, node, owned, freed, alarm, destroyed>>
mempool_set == <<entries, used, mine, gone, length, order, pool, got, could, skipped, set>>
client == <<test, v, next, array, count, idx, exp, val, reps, hits>>
macros == <<arch, macro, reg0, mem0, reg, mem, phase, taken, accesses>>
MCvars == <<part, at, nr, lock, kind, cpu, item, mempool, mempool_set, client, macros, vars>>

-----------------------------------------------------------------------------
\* Pools with one item per range that may fail to map.
PolicyAttrs ==
    {[robust |-> r, cow_init |-> ci, poison_set |-> r,
      poison |-> IF ci THEN <<0, 1>> ELSE <<0, 0>>] : r \in BOOLEAN, ci \in BOOLEAN}
Growth == INSTANCE RseqMempool WITH
    Thread <- {1, 2}, NCpu <- 1, ItemsPerRange <- 1, MaxNrRanges <- 2, Attrs <- PolicyAttrs,
    Kinds <- {"malloc", "free"}, MapFails <- TRUE, DoubleFree <- FALSE, MaxCalls <- 2,
    pc <- at, calls <- nr

\* A set with pools of two size classes.
Pools == {"small", "other", "large"}
Set == INSTANCE RseqMempoolSet WITH
    Thread <- {1, 2}, Pool <- Pools, ItemOrder <- [p \in Pools |-> IF p = "large" THEN 4 ELSE 3],
    Capacity <- [p \in Pools |-> 1], Creator <- [p \in Pools |-> IF p = "other" THEN 2 ELSE 1],
    POOL_SET_MIN_ENTRY <- 2, POOL_SET_NR_ENTRIES <- 5,
    Lens <- {0, 9, 17}, Kinds <- {"malloc"}, MaxCalls <- 2,
    pc <- at, calls <- nr, len <- length

\* Two threads on two CPUs, and a preemption that hits a loop.
Client == INSTANCE RseqClient WITH
    Thread <- {1, 2}, Cpu <- {0, 1}, Tests <- {"spinlock", "inc", "list", "buffer", "memcpy"},
    Items <- 1, Reps <- 1, MaxHits <- 1,
    pc <- at

\* Copies of no, one and three bytes.
Macros == INSTANCE RseqMacros WITH
    Values <- {1}, Cpus <- {1}, Lens <- {0, 1, 3}, Sources <- {0, 1}, pc <- at

-----------------------------------------------------------------------------
\* The variables a behaviour does not use have one value.
Unused(u) == u = "unused"

NoMempool ==
    /\ Unused(attr) /\ Unused(range_list) /\ Unused(nr_ranges) /\ Unused(next_unused)
    /\ Unused(free_list_head) /\ Unused(alloc_bitmap) /\ Unused(init) /\ Unused(percpu)
    /\ Unused(cowed) /\ Unused(links) /\ Unused(node) /\ Unused(owned) /\ Unused(freed)
    /\ Unused(alarm) /\ Unused(destroyed)
NoMempoolSet ==
    /\ Unused(entries) /\ Unused(used) /\ Unused(mine) /\ Unused(gone) /\ Unused(length)
    /\ Unused(order) /\ Unused(pool) /\ Unused(got) /\ Unused(could) /\ Unused(skipped)
    /\ Unused(set)
NoClient ==
    /\ Unused(test) /\ Unused(v) /\ Unused(next) /\ Unused(array) /\ Unused(count) /\ Unused(idx)
    /\ Unused(exp) /\ Unused(val) /\ Unused(reps) /\ Unused(hits)
NoMacros ==
    /\ Unused(arch) /\ Unused(macro) /\ Unused(reg0) /\ Unused(mem0) /\ Unused(reg) /\ Unused(mem)
    /\ Unused(phase) /\ Unused(taken) /\ Unused(accesses)
\* The state RseqRegistration is left in.
AtRest == Init /\ auxv = 0 /\ libc = 0 /\ ~enosys

MCInit ==
    \/ /\ part = "early" /\ Init /\ Unused(at) /\ Unused(nr) /\ Unused(lock) /\ Unused(kind)
       /\ Unused(cpu) /\ Unused(item) /\ NoMempool /\ NoMempoolSet /\ NoClient /\ NoMacros
    \/ /\ part = "growth" /\ Growth!Init /\ AtRest /\ NoMempoolSet /\ NoClient /\ NoMacros
    \/ /\ part = "set" /\ Set!Init /\ AtRest /\ Unused(cpu) /\ Unused(item) /\ NoMempool /\ NoClient
       /\ NoMacros
    \/ /\ part = "client" /\ Client!Init /\ AtRest /\ Unused(nr) /\ Unused(lock) /\ Unused(kind)
       /\ NoMempool /\ NoMempoolSet /\ NoMacros
    \/ /\ part = "macros" /\ Macros!Init /\ AtRest /\ Unused(nr) /\ Unused(lock) /\ Unused(kind)
       /\ Unused(cpu) /\ Unused(item) /\ NoMempool /\ NoMempoolSet /\ NoClient

MCNext ==
    \/ /\ part = "early" /\ Next
       /\ UNCHANGED <<part, at, nr, lock, kind, cpu, item, mempool, mempool_set, client, macros>>
    \/ /\ part = "growth" /\ Growth!Next
       /\ UNCHANGED <<part, mempool_set, client, macros, vars>>
    \/ /\ part = "set" /\ Set!Next
       /\ UNCHANGED <<part, cpu, item, mempool, client, macros, vars>>
    \/ /\ part = "client" /\ Client!Next
       /\ UNCHANGED <<part, nr, lock, kind, mempool, mempool_set, macros, vars>>
    \/ /\ part = "macros" /\ Macros!Next
       /\ UNCHANGED <<part, nr, lock, kind, cpu, item, mempool, mempool_set, client, vars>>

Own == CASE part = "early" -> vars
         [] part = "growth" -> Growth!vars
         [] part = "set" -> Set!vars
         [] part = "client" -> Client!vars
         [] part = "macros" -> Macros!vars

\* A thread goes on in its call.
CallStep(t) ==
    /\ UNCHANGED part
    /\ \/ part = "early" /\ Step(t)
       \/ part = "growth" /\ Growth!Step(t)
       \/ part = "set" /\ Set!Step(t) /\ Set!Observe
       \/ part = "macros" /\ Macros!Next

\* The scheduling of RseqClient.
ClientStep(t) == UNCHANGED part /\ part = "client" /\ Client!Step(t)
Schedule(t) == UNCHANGED part /\ part = "client" /\ Client!Schedule(t)
GivesWay(t) == UNCHANGED part /\ part = "client" /\ Client!GivesWay(t)

\* The operating system runs every thread that is not blocked; a thread that runs
\* gives its CPU to one that waits, and how often a preemption hits a retry loop
\* is bounded.
Fairness ==
    \A t \in {1, 2} :
        WF_Own(CallStep(t)) /\ SF_Own(ClientStep(t)) /\ SF_Own(Schedule(t)) /\ SF_Own(GivesWay(t))

MCSpec == MCInit /\ [][MCNext]_MCvars /\ Fairness

-----------------------------------------------------------------------------
\* Everything that is begun ends: a registration or unregistration, whichever of
\* the threads finds the initialization done under init_lock; a malloc or free (or
\* the process aborts), whichever way it fails; an allocation from a set, whose
\* search for a larger pool ends, and an add to one; a retry loop that is not hit
\* for ever, the wait for the lock of a preempted holder included; and the copy of
\* a macro, one of no bytes included.
CallsReturn ==
    <>[](/\ part = "early" => aborted \/ \A t \in Thread : pc[t] = "idle"
         /\ part = "growth" => ~Growth!Running \/ \A t \in {1, 2} : at[t] = "idle"
         /\ part = "set" => \A t \in {1, 2} : at[t] = "idle"
         /\ part = "client" => \A t \in {1, 2} : at[t] = "done"
         /\ part = "macros" => phase = "done")

=============================================================================
