--------------------------- MODULE MCOnlineSoftmax ---------------------------
(***************************************************************************)
(* Scores on both sides of the underflow: with ExpMin = 2, of the scores   *)
(* 0, 1, 2, 4, 5 some pairs are within it, some beyond it, and some chains *)
(* of rescalings are each within it and together beyond it.                *)
(***************************************************************************)
EXTENDS OnlineSoftmax

MCScores == {0, 1, 2, 4, 5}
MCMInit == -100
=============================================================================
