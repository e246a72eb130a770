----------------------------- MODULE MCRseqOps -----------------------------
(***************************************************************************)
(* Instances of RseqMachine and of the refinement of the pseudo-code for   *)
(* TLC.                                                                    *)
(***************************************************************************)
EXTENDS RseqRefinement, MCRseqArgs

=============================================================================
