----------------------------- MODULE RseqUtils -----------------------------
(***************************************************************************)
(* The bit arithmetic of rseq-utils.h, on words of BITS_PER_LONG bits.     *)
(***************************************************************************)
EXTENDS Integers, Bitwise

CONSTANT BITS_PER_LONG      \* a power of two

UtilsAssumption == BITS_PER_LONG \in {2^k : k \in 1 .. 5}

ULongs == 2^BITS_PER_LONG
ULong == 0 .. ULongs - 1
Wrap(x) == x % ULongs
Complement(x) == ULongs - 1 - x

RECURSIVE Narrow(_, _, _)
\* The stages of rseq_fls_ulong(): each tests the upper s bits and shifts them
\* out if they are zero.
Narrow(x, r, s) ==
    IF s = 0 THEN r
    ELSE IF x & (ULongs - 2^(BITS_PER_LONG - s)) = 0
           THEN Narrow(Wrap(x * 2^s), r - s, s \div 2)
           ELSE Narrow(x, r, s \div 2)

rseq_fls_ulong(x) == IF x = 0 THEN 0 ELSE Narrow(x, BITS_PER_LONG, BITS_PER_LONG \div 2)

\* Mutant: x is not decremented.
CountOrderAbove(x) == IF x = 0 THEN -1 ELSE rseq_fls_ulong(x)

rseq_get_count_order_ulong(x) == IF x = 0 THEN -1 ELSE rseq_fls_ulong(x - 1)

is_pow2(x) == x & Wrap(x - 1) = 0

offset_align(p, alignment) == Wrap(alignment - p) & (alignment - 1)

rseq_align(v, align) == Wrap(v + align - 1) & Complement(align - 1)

=============================================================================
