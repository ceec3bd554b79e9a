--------------------------- MODULE FunctionalUnit ---------------------------
(***************************************************************************)
(* The four lanes of the functional unit.  An instruction stream uses one  *)
(* of them (the lanes share neither registers nor ports), chosen at the    *)
(* start; the others keep their reset state.  The conversion lanes are     *)
(* here clock by clock; of vfexp.v, whose pipeline VFExpLane models, the   *)
(* function is, one operand per step.                                      *)
(***************************************************************************)
EXTENDS Integers

CONSTANTS First, Last       \* the BF16 patterns that are quantised

ASSUME RangeAssumption == First \in 0 .. 65535 /\ Last \in First .. 65535

VARIABLES
  vs1,                \* the instruction: the VS1 field of its encoding
  q_valid, q_s1, q_out, q_operand, q_source,
  d_valid, d_out, d_operand, d_source,
  n_valid, n_s1, n_s2, n_out, n_operand, n_source,
  x, out

q_vars == <<q_valid, q_s1, q_out, q_operand, q_source>>
d_vars == <<d_valid, d_out, d_operand, d_source>>
n_vars == <<n_valid, n_s1, n_s2, n_out, n_operand, n_source>>
e_vars == <<x, out>>
vars == <<vs1, q_vars, d_vars, n_vars, e_vars>>

Bf16Fp8 == INSTANCE VFConvBf16Fp8Lane WITH
  stage_valid <- q_valid, s1 <- q_s1, s2_out <- q_out,
  operand <- q_operand, source <- q_source

Fp8Bf16 == INSTANCE VFConvFp8Bf16Lane WITH
  stage_valid <- d_valid, s1_out <- d_out,
  operand <- d_operand, source <- d_source

Nvfp4Bf16 == INSTANCE VFConvNvfp4Bf16Lane WITH
  stage_valid <- n_valid, s1 <- n_s1, s2 <- n_s2, s3_out <- n_out,
  operand <- n_operand, source <- n_source

\* Every BF16 operand of either sign.
Exp == INSTANCE VFExpSweep WITH First <- 0, Last <- 32767

Init ==
  /\ vs1 \in {6, 7, 8, 9}
  /\ Bf16Fp8!Init /\ Fp8Bf16!Init /\ Nvfp4Bf16!Init
  /\ Exp!Init /\ (vs1 # 6 => x = 0)

\* vfexp.v, vfconv.fp8.bf16.v, vfconv.bf16.fp8.v and vfconv.nvfp4.bf16.v
Exponential == vs1 = 6 /\ Exp!Step /\ UNCHANGED <<vs1, q_vars, d_vars, n_vars>>
Widen       == vs1 = 7 /\ Fp8Bf16!Next /\ UNCHANGED <<vs1, q_vars, n_vars, e_vars>>
Narrow      == vs1 = 8 /\ Bf16Fp8!Next /\ UNCHANGED <<vs1, d_vars, n_vars, e_vars>>
Dequantise  == vs1 = 9 /\ Nvfp4Bf16!Next /\ UNCHANGED <<vs1, q_vars, d_vars, e_vars>>

Next == Exponential \/ Widen \/ Narrow \/ Dequantise

Spec == Init /\ [][Next]_vars

-----------------------------------------------------------------------------
\* vfconv.bf16.fp8.v rounds every operand to the nearest E4M3 value, ties to
\* even, and saturates.
NearestTiesToEven == Bf16Fp8!NearestTiesToEven

\* vfconv.bf16.fp8.v returns what the C function bf16_to_e4m3 returns.
MirrorsC == Bf16Fp8!MirrorsC

\* vfconv.fp8.bf16.v gives exactly the value of the C decode table.
ExactValue == Fp8Bf16!ExactValue

\* vfconv.nvfp4.bf16.v gives exactly the product of the two C decode tables.
ExactProduct == Nvfp4Bf16!ExactProduct

\* The clamps and the rounding of vfconv.nvfp4.bf16.v are never active.
NoClampNoRounding == Nvfp4Bf16!NoClampNoRounding

\* vfexp.v: the reconstruction gets only polynomial values and exponents that
\* it can pack.
ReconstructInRange == Exp!ReconstructInRange

\* vfexp.v: NaN, infinities, zeros, subnormals and operands out of range give
\* the special results although Mux1H mixes those of several flags.
SpecialResults == Exp!SpecialResults

\* vfexp.v: near zero the result is 1 + x + x^2/2 up to 2^-16.
SlopeAtZero == Exp!SlopeAtZero

\* vfexp.v: exp(2x) = exp(x)^2 within three times the accuracy target.
Doubling == Exp!Doubling

\* vfexp.v: the results are monotone, across the joints between the computed
\* and the special results too.
Monotone == Exp!Monotone
=============================================================================
