-------------------------- MODULE MCKernelVariants --------------------------
(***************************************************************************)
(* Blocks of two elements, registers of two: head dimensions of one chunk  *)
(* of four blocks and of two chunks.                                       *)
(***************************************************************************)
EXTENDS KernelVariants

MCHeadDims == {8, 16}
MCScores == {0, 3, 5}
MCMInit == -100

\* exp(-2) * 448 is cut to a multiple of 256, say, and exp(-5) * 448 to 0.
MCTruncatedKept == {-3, 0}
=============================================================================
