---------------------------- MODULE MCRseqClient ----------------------------
(* Instances of RseqClient: the threads of a test are alike.               *)
EXTENDS RseqClient, TLC

CONSTANTS t1, t2, t3

Three_threads == {t1, t2, t3}
Symmetry == Permutations(Thread)

=============================================================================
