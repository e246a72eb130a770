--------------------------- MODULE RseqRefinement ---------------------------
(***************************************************************************)
(* The machine implements the pseudo-code: a helper that runs is pending,  *)
(* and everything else is as it is.                                        *)
(***************************************************************************)
EXTENDS RseqMachine

PseudoMayCall(k, f, a, m, m1) ==
    \E c \in Cpu : [arg |-> a, mem |-> m1] \in Prep(f, c, k, m)

Pseudo == INSTANCE RseqPseudocode WITH
    st <- [k \in Ctx |-> IF st[k] = "run" THEN "pending" ELSE st[k]],
    MayCall <- PseudoMayCall

\* Every helper of every architecture does what pseudocode.h says, atomically:
\* at its final store the values it compared and loaded are still in memory
\* and its store attempts are complete, however often it and the other
\* contexts were interrupted, migrated or aborted on the way.
ImplementsPseudocode == Pseudo!Spec

=============================================================================
