--------------------------- MODULE MCRseqSupport ---------------------------
(***************************************************************************)
(* Instances, of which a behaviour takes one, of the modules the helpers   *)
(* and the pools rest on: the assembly macros (RseqMacros), the            *)
(* descriptors (RseqDescriptor), the memory barriers (RseqWeak), the lists *)
(* (RseqList), the number of CPUs (RseqSmp), the bit arithmetic            *)
(* (RseqUtils), and the restart of other CPUs (RseqMembarrier).            *)
(***************************************************************************)
EXTENDS RseqMembarrier, TLC

CONSTANTS CompareTwice, e1, e2, e3, h1, h2

VARIABLES
    part,
    \* several modules have:
    at, regs, arch, mem,
    \* RseqList
    next, prev, in, stale, freed, iter, dir, pos, p, first, seen,
    \* RseqSmp
    possible, file, possible_cpus_array_len_cache, total_bytes_read, ret, calls,
    \* RseqUtils
    x,
    \* RseqWeak
    litmus, prog, done, on,
    \* RseqDescriptor
    build, offset, len, field, ip, clean, loaded, killed,
    \* RseqMacros
    macro, reg0, mem0, phase, taken, accesses

list == <<next, prev, in, stale, freed, iter, dir, pos, p, first, seen>>
smp == <<possible, file, possible_cpus_array_len_cache, total_bytes_read, ret, calls>>
weak == <<litmus, prog, done, on>>
descriptor == <<build, offset, len, field, ip, clean, loaded, killed>>
macros == <<macro, reg0, mem0, phase, taken, accesses>>
MCvars == <<part, at, regs, arch, mem, x, list, smp, weak, descriptor, macros, vars>>

-----------------------------------------------------------------------------
Elem == {e1, e2, e3}
Heads == {h1, h2}
Lists == INSTANCE RseqList WITH NULL <- "null"

\* Every set of CPUs with ids of one and two digits.
AnyMask == INSTANCE RseqSmp WITH
    Thread <- {1}, Masks <- SUBSET (0 .. 10) \ {{}}, RSEQ_CPUMASK_SIZE <- 40, IntMax <- 127,
    Chunks <- {}, Sysconf <- {-1, 1, 20}, Failures <- FALSE, MaxCalls <- 1, pc <- at

\* Two threads that read a few of the masks in pieces.  The last mask does not
\* fit the buffer.
CpuCount == INSTANCE RseqSmp WITH
    Thread <- {1, 2},
    Masks <- {{0}, 0 .. 3, {0, 2, 3, 10}, {9, 11, 12}, {0, 2, 4, 6, 8, 10}},
    RSEQ_CPUMASK_SIZE <- 12, IntMax <- 127,
    Chunks <- {1, 3}, Sysconf <- {-1, 1, 20}, Failures <- TRUE, MaxCalls <- 2, pc <- at

Utils == INSTANCE RseqUtils WITH BITS_PER_LONG <- 8
Alignment == {2^k : k \in 0 .. 7}

Weak == INSTANCE RseqWeak WITH
    Litmus <- {"store_store", "memcpy_store", "ctrl_dep", "wmb_rmb", "mb", "lock"},
    reg <- regs, cpu <- on

Descriptor == INSTANCE RseqDescriptor WITH
    Thread <- {1, 2}, Offsets <- {0, 1, 2, 4, 8, 16, 24, 28, 30, 31}, BodyLens <- {1, 3}

Macros == INSTANCE RseqMacros WITH
    Values <- {0, 1, 5, 15}, Cpus <- {0, 1, 3}, Lens <- {0, 1, 3}, Sources <- {0, 1},
    pc <- at, reg <- regs

ASSUME SupportAssumption ==
    AnyMask!SmpAssumption /\ CpuCount!SmpAssumption /\ Utils!UtilsAssumption

\* The elements are interchangeable, and so are the heads.
Symmetry == Permutations(Elem) \cup Permutations(Heads)

-----------------------------------------------------------------------------
\* The variables a behaviour does not use have one value.
Unused(v) == v = "unused"

NoList ==
    /\ Unused(next) /\ Unused(prev) /\ Unused(in) /\ Unused(stale) /\ Unused(freed)
    /\ Unused(iter) /\ Unused(dir) /\ Unused(pos) /\ Unused(p) /\ Unused(first) /\ Unused(seen)
NoSmp ==
    /\ Unused(possible) /\ Unused(file) /\ Unused(possible_cpus_array_len_cache)
    /\ Unused(total_bytes_read) /\ Unused(ret) /\ Unused(calls)
NoWeak ==
    /\ Unused(litmus) /\ Unused(prog) /\ Unused(done) /\ Unused(on)
NoDescriptor ==
    /\ Unused(build) /\ Unused(offset) /\ Unused(len) /\ Unused(field) /\ Unused(ip)
    /\ Unused(clean) /\ Unused(loaded) /\ Unused(killed)
NoMacros ==
    /\ Unused(macro) /\ Unused(reg0) /\ Unused(mem0) /\ Unused(phase) /\ Unused(taken)
    /\ Unused(accesses)
\* The state RseqMembarrier is left in.
AtRest == Init /\ ~mm_cid

MCInit ==
    \/ /\ part = "membarrier" /\ Init /\ Unused(at) /\ Unused(regs) /\ Unused(arch)
       /\ Unused(mem) /\ Unused(x) /\ NoList /\ NoSmp /\ NoWeak /\ NoDescriptor /\ NoMacros
    \/ /\ part = "list" /\ Lists!Init /\ AtRest /\ Unused(at) /\ Unused(regs) /\ Unused(arch)
       /\ Unused(mem) /\ Unused(x) /\ NoSmp /\ NoWeak /\ NoDescriptor /\ NoMacros
    \/ /\ part = "masks" /\ AnyMask!Init /\ AtRest /\ Unused(regs) /\ Unused(arch)
       /\ Unused(mem) /\ Unused(x) /\ NoList /\ NoWeak /\ NoDescriptor /\ NoMacros
    \/ /\ part = "cpus" /\ CpuCount!Init /\ AtRest /\ Unused(regs) /\ Unused(arch)
       /\ Unused(mem) /\ Unused(x) /\ NoList /\ NoWeak /\ NoDescriptor /\ NoMacros
    \/ /\ part = "weak" /\ Weak!Init /\ AtRest /\ Unused(at) /\ Unused(x) /\ NoList /\ NoSmp
       /\ NoDescriptor /\ NoMacros
    \/ /\ part = "descriptor" /\ Descriptor!Init /\ AtRest /\ Unused(at) /\ Unused(regs)
       /\ Unused(arch) /\ Unused(mem) /\ Unused(x) /\ NoList /\ NoSmp /\ NoWeak /\ NoMacros
    \/ /\ part = "macros" /\ Macros!Init /\ AtRest /\ Unused(x) /\ NoList /\ NoSmp /\ NoWeak
       /\ NoDescriptor
    \/ /\ part = "utils" /\ x \in Utils!ULong /\ AtRest /\ Unused(at) /\ Unused(regs)
       /\ Unused(arch) /\ Unused(mem) /\ NoList /\ NoSmp /\ NoWeak /\ NoDescriptor /\ NoMacros

MCNext ==
    \/ /\ part = "membarrier" /\ Next
       /\ UNCHANGED <<part, at, regs, arch, mem, x, list, smp, weak, descriptor, macros>>
    \/ /\ part = "list" /\ Lists!Next
       /\ UNCHANGED <<part, at, regs, arch, mem, x, smp, weak, descriptor, macros, vars>>
    \/ /\ part = "masks" /\ AnyMask!Next
       /\ UNCHANGED <<part, regs, arch, mem, x, list, weak, descriptor, macros, vars>>
    \/ /\ part = "cpus" /\ CpuCount!Next
       /\ UNCHANGED <<part, regs, arch, mem, x, list, weak, descriptor, macros, vars>>
    \/ /\ part = "weak" /\ Weak!Next
       /\ UNCHANGED <<part, at, x, list, smp, descriptor, macros, vars>>
    \/ /\ part = "descriptor" /\ Descriptor!Next
       /\ UNCHANGED <<part, at, regs, arch, mem, x, list, smp, weak, macros, vars>>
    \/ /\ part = "macros" /\ Macros!Next
       /\ UNCHANGED <<part, x, list, smp, weak, descriptor, vars>>
    \/ part = "utils" /\ UNCHANGED MCvars

MCSpec == MCInit /\ [][MCNext]_MCvars

-----------------------------------------------------------------------------
\* The lists are sequences: for every order of the operations of list.h each does to
\* the pointers what it promises for the sequences, the pointers agree both ways,
\* and a loop that removes, frees or moves elements visits each element the list
\* had, in order, once, and does not look at freed memory.
ImplementsSequences ==
    /\ part = "list" => Lists!Seqs!Init
    /\ [](part = "list" => Lists!LinkedBothWays /\ Lists!VisitsEach)
    /\ [][part = "list" => [Lists!Seqs!Next]_(Lists!ListMap)]_MCvars


\* The arithmetic of rseq-utils.h on every word: rseq_get_count_order_ulong()
\* returns the smallest order with x <= 1 << order, also where that is a bit more
\* than a word has; is_pow2() holds of the powers of two and of zero;
\* offset_align() is the distance to the first aligned address at or above,
\* perhaps the end of the address space, and rseq_align() that address, zero for
\* the end.
ArithmeticExact ==
    part = "utils" =>
        /\ x > 0 => LET n == Utils!rseq_get_count_order_ulong(x)
                    IN  n \in 0 .. 8 /\ x <= 2^n /\ (n > 0 => x > 2^(n - 1))
        /\ Utils!is_pow2(x) <=> x \in {0} \cup Alignment
        /\ \A a \in Alignment :
              LET d == Utils!offset_align(x, a)
                  v == Utils!rseq_align(x, a)
              IN  /\ d \in 0 .. a - 1 /\ (x + d) % a = 0
                  /\ v % a = 0 /\ (v \in x .. x + a - 1 \/ (v = 0 /\ x + a > 256))

\* Who sees the final store of a helper with release semantic, of
\* rseq_smp_store_release() or one behind rseq_smp_wmb(), and reads on after an
\* acquire or a read barrier, sees what was stored before it; of two threads that
\* store and read what the other stores behind rseq_smp_mb(), one sees the other's
\* store; and no update under the per-CPU lock is lost, although one thread may
\* hold the lock on another CPU by then.
BarriersOrder == part = "weak" => Weak!Published /\ Weak!StoresSeen /\ Weak!LockProtects

\* Every descriptor of a library, and the copy arm and mips keep near the code, is
\* aligned and says what the labels say, with the signature before the handler; the
\* kernel finds in rseq_cs nothing or a descriptor of a loaded library; and a thread
\* that is interrupted goes on at the abort handler if it was in the section and
\* where it was if not, whatever rseq_cs still holds.
DescriptorsHonoured ==
    /\ [](part = "descriptor" => Descriptor!TablesDecode /\ Descriptor!NotKilled)
    /\ [][part = "descriptor" =>
             \A t \in {1, 2} :
                 /\ field[t] # Descriptor!Cleared /\ field'[t] = Descriptor!Cleared
                 /\ clean'[t] = clean[t]
                 => ip'[t] = IF Descriptor!InSection(ip[t]) THEN Descriptor!abort_ip
                                                            ELSE ip[t]]_MCvars


=============================================================================
