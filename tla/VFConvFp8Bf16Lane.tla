------------------------- MODULE VFConvFp8Bf16Lane -------------------------
(***************************************************************************)
(* One lane of vfconv.fp8.bf16.v: one valid bit and the output register.   *)
(* The producer walks through the 256 E4M3 bytes, holds each until it is   *)
(* accepted and starts again.  source is the operand accepted in the last  *)
(* clock, NoOperand if none was.                                           *)
(***************************************************************************)
EXTENDS BenchCommon, ConvArith

VARIABLES stage_valid, s1_out, operand, source

vars == <<stage_valid, s1_out, operand, source>>

NoOperand == -1

Init ==
  /\ stage_valid = FALSE
  /\ s1_out = 0
  /\ operand = 0
  /\ source = NoOperand

Clock(v, r) ==
  LET fire == v /\ r
  IN  /\ stage_valid' = fire
      /\ s1_out' = Dequantize(operand)
      /\ operand' = IF fire THEN (operand + 1) % 256 ELSE operand
      /\ source' = IF fire THEN operand ELSE NoOperand

Next == \E v, r \in BOOLEAN : Clock(v, r)

Spec == Init /\ [][Next]_vars

out_valid == stage_valid
out_bits  == s1_out

-----------------------------------------------------------------------------
\* "Mathematically exact": a valid result is the BF16 pattern of exactly the
\* value that e4m3_init_table gives the byte, signed zero included; only the
\* NaN code, which the C table decodes to 0, becomes a NaN.
ExactValue ==
  out_valid =>
    LET v == e4m3_decode(source % 128)
    IN  /\ out_bits \div 32768 = source \div 128
        /\ out_bits % 32768 = IF NAN_E4M3(source) THEN 32704
                              ELSE IF v = 0 THEN 0 ELSE Bf16Pattern(v, 9)
=============================================================================
