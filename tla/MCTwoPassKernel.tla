--------------------------- MODULE MCTwoPassKernel ---------------------------
(***************************************************************************)
(* Differences of scores within FP8, below FP8 but within expf, and below  *)
(* both: 2, 3 and 5 with Fp8Min = 2 and ExpMin = 4.                        *)
(***************************************************************************)
EXTENDS TwoPassKernel

MCScores == {0, 3, 5}
MCMInit == -100
=============================================================================
