------------------------ MODULE VFConvNvfp4Bf16Lane ------------------------
(***************************************************************************)
(* One lane of vfconv.nvfp4.bf16.v: three valid bits, the decoded operands *)
(* in s1, the product in s2 and the packed result in s3_out.               *)
(*                                                                         *)
(* The producer walks through the 4096 pairs of element and scale (pair p  *)
(* is element p % 16 under scale p \div 16), holds a pair until it is      *)
(* accepted and starts again.  source is a history variable: source[i] is  *)
(* the pair accepted i clocks ago, NoOperand if none was.                  *)
(***************************************************************************)
EXTENDS BenchCommon, ConvArith

VARIABLES stage_valid, s1, s2, s3_out, operand, source

vars == <<stage_valid, s1, s2, s3_out, operand, source>>

LAT == 3
Stages == 1 .. LAT
NoOperand == -1

Elt(p)   == p % 16
Scale(p) == p \div 16

Init ==
  /\ stage_valid = [i \in Stages |-> FALSE]
  /\ s1 = [elt_bf16 |-> 0, scale_bf16 |-> 0, elt_is_zero |-> FALSE,
           sc_is_zero |-> FALSE, sc_is_nan |-> FALSE]
  /\ s2 = [mant_product |-> 0, exp_sum |-> 0, sign |-> 0,
           override_valid |-> FALSE, override_res |-> 0]
  /\ s3_out = 0
  /\ operand = 0
  /\ source = [i \in Stages |-> NoOperand]

\* One clock edge with in.valid = v, out.ready = r.
Clock(v, r) ==
  LET fire == v /\ r
  IN  /\ stage_valid' = [i \in Stages |-> IF i = 1 THEN fire ELSE stage_valid[i - 1]]
      /\ s1' = DecodeNvfp4(Elt(operand), Scale(operand))
      /\ s2' = Multiply(s1)
      /\ s3_out' = PackBf16(s2)
      /\ operand' = IF fire THEN (operand + 1) % 4096 ELSE operand
      /\ source' = [i \in Stages |-> IF i = 1 THEN IF fire THEN operand ELSE NoOperand
                                              ELSE source[i - 1]]

Next == \E v, r \in BOOLEAN : Clock(v, r)

Spec == Init /\ [][Next]_vars

out_valid == stage_valid[LAT]
out_bits  == s3_out

-----------------------------------------------------------------------------
\* "Bit-exact vs the BF16 round of the product across all 256 x 16 input
\* combinations": the result of a pair is the BF16 pattern of exactly the
\* product that the software path forms from its two decode tables, with the
\* sign of the product also on a zero.  A NaN scale gives a NaN of that sign
\* (the C table decodes it to 0).
ExactProduct ==
  out_valid =>
    LET p == source[LAT]
        v == nvfp4_decode_table(Elt(p) % 8) * e4m3_decode(Scale(p) % 128)
        mag == IF NAN_E4M3(Scale(p)) THEN BF16_QNAN
               ELSE IF v = 0 THEN 0 ELSE Bf16Pattern(v, 10)
    IN  /\ out_bits \div 32768 = (Elt(p) \div 8 + Scale(p) \div 128) % 2
        /\ out_bits % 32768 = mag

\* "For our NVFP4 dequant domain neither path fires in practice": no live
\* product overflows or underflows the BF16 exponent, and the ten-bit
\* accumulator that it is judged by never wraps.  (Nor does the rounding
\* ever discard a bit: six significant bits fit the mantissa.)
NoClampNoRounding ==
  stage_valid[2] /\ ~s2.override_valid =>
    LET a == (E2M1_TO_BF16(Elt(source[2])) \div 128) % 256
        b == (ScaleBf16(Scale(source[2])) \div 128) % 256
    IN  /\ s2.exp_sum = a + b - 127
        /\ ExpAdjusted(s2) \in 1 .. 254
        /\ NormValue(s2) % 256 = 0
=============================================================================
