--------------------------- MODULE MCRseqContexts ---------------------------
(***************************************************************************)
(* Instances of RseqMachine for TLC, of which a behaviour takes one: two   *)
(* threads that run the same helper, helpers that index by concurrency id, *)
(* and threads that register and unregister between their calls.           *)
(***************************************************************************)
EXTENDS RseqRefinement, MCRseqArgs

VARIABLE part

MmCid == INSTANCE RseqRefinement WITH Mode <- "mm_cid", Code <- CbneStoreHelpers

Registers == INSTANCE RseqRefinement WITH
    Code <- AddStoreHelpers,
    Registered0 <- {t1}, RegisteredCalls <- FALSE, MaxSyscalls <- 3

MCvars == <<part, vars>>

MCInit ==
    \/ part = "threads" /\ Init
    \/ part = "mm_cid" /\ MmCid!Init
    \/ part = "registers" /\ Registers!Init

MCNext ==
    \/ part = "threads" /\ Next /\ UNCHANGED part
    \/ part = "mm_cid" /\ MmCid!Next /\ UNCHANGED part
    \/ part = "registers" /\ Registers!Next /\ UNCHANGED part

MCSpec == MCInit /\ [][MCNext]_MCvars

-----------------------------------------------------------------------------
\* With both kinds of index, past its index comparison a critical section has its
\* descriptor published and runs where it compared; every exit leaves gcc the
\* inputs it passed; and a section that was preempted is at its abort handler when
\* it executes again.
SectionsProtected ==
    /\ [](/\ part = "threads" => Protected /\ InputsPreserved
          /\ part = "mm_cid" => MmCid!Protected)
    /\ [][part # "registers" =>
             \A k \in Ctx : InCs(k) /\ ~Active(k) /\ Active(k)' => st'[k] = "abort"]_vars

\* The helpers do what pseudocode.h says, atomically, with both kinds of index.
HelpersImplement ==
    /\ part # "registers" => Pseudo!Init
    /\ [][part # "registers" => [Pseudo!Next]_(Pseudo!vars)]_vars

=============================================================================
