--------------------------- MODULE MCRseqMempool ---------------------------
(***************************************************************************)
(* Instances of RseqMempool for TLC.                                       *)
(***************************************************************************)
EXTENDS RseqMempool, TLC

CONSTANTS t1, t2

\* Every combination rseq_mempool_create() leaves in pool->attr: with and
\* without robust, COW_INIT and COW_ZERO, poison as by default.
PolicyAttrs ==
    {[robust |-> r, cow_init |-> ci, poison_set |-> r, poison |-> IF ci THEN Poison ELSE Zero] :
        r \in BOOLEAN, ci \in BOOLEAN}

\* The other poison settings: poison without robust, and the other value.
PoisonAttrs ==
    {[robust |-> r, cow_init |-> ci, poison_set |-> TRUE, poison |-> IF r = ci THEN Zero ELSE Poison] :
        r \in BOOLEAN, ci \in BOOLEAN}

AllAttrs == PolicyAttrs \cup PoisonAttrs

AllKinds == Kind

Symmetry == Permutations(Thread)

=============================================================================
