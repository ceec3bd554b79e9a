------------------------- MODULE VFConvBf16Fp8Lane -------------------------
(***************************************************************************)
(* One lane of vfconv.bf16.fp8.v: two valid bits, the decoded operand in   *)
(* the s1 registers and the packed byte in s2_out.                         *)
(*                                                                         *)
(* The producer walks through the BF16 patterns First .. Last and starts   *)
(* again: it holds an operand until the lane accepts it, and its port      *)
(* shows the operand also while in.valid is low.  source is a history      *)
(* variable: source[i] is the operand accepted i clocks ago, NoOperand if  *)
(* none was.                                                               *)
(***************************************************************************)
EXTENDS BenchCommon, ConvArith

CONSTANTS First, Last       \* the producer's patterns, within 0 .. 65535

VARIABLES
  stage_valid,
  s1,                 \* the registers s1_sign, s1_bmant, s1_target, ...
  s2_out,
  operand,            \* io.in.bits
  source

vars == <<stage_valid, s1, s2_out, operand, source>>

LAT == 2
Stages == 1 .. LAT
NoOperand == -1

Init ==
  /\ stage_valid = [i \in Stages |-> FALSE]
  /\ s1 = [sign |-> 0, bmant |-> 0, target |-> 0,
           is_zero_in |-> FALSE, is_inf |-> FALSE, is_nan |-> FALSE]
  /\ s2_out = 0
  /\ operand = First
  /\ source = [i \in Stages |-> NoOperand]

\* One clock edge with in.valid = v, out.ready = r.
Clock(v, r) ==
  LET fire == v /\ r
  IN  /\ stage_valid' = [i \in Stages |-> IF i = 1 THEN fire ELSE stage_valid[i - 1]]
      /\ s1' = Decode(operand)
      /\ s2_out' = Quantize(s1)
      /\ operand' = IF ~fire THEN operand
                    ELSE IF operand = Last THEN First ELSE operand + 1
      /\ source' = [i \in Stages |-> IF i = 1 THEN IF fire THEN operand ELSE NoOperand
                                              ELSE source[i - 1]]

Next == \E v, r \in BOOLEAN : Clock(v, r)

Spec == Init /\ [][Next]_vars

out_valid == stage_valid[LAT]
out_bits  == s2_out

-----------------------------------------------------------------------------
\* The BF16 pattern half way between the E4M3 values of code c and c + 1.
Midpoint(c) == Bf16Pattern(e4m3_decode(c) + e4m3_decode(c + 1), 10)

\* "Bit-exact vs the FP32-and-round-to-E4M3-FN golden across all 65536 BF16
\* inputs": the byte of every operand that is not a NaN is the nearest of the
\* 127 finite E4M3 values of its sign, the even code on a tie, the largest
\* when the operand is beyond it, and never the NaN code.
NearestTiesToEven ==
  LET x   == source[LAT]
      c   == out_bits % 128
      mag == x % 32768
      even == c % 2 = 0
  IN  out_valid /\ mag <= 32640 =>
        /\ c <= 126
        /\ out_bits \div 128 = x \div 32768
        /\ c > 0   => mag > Midpoint(c - 1) \/ (mag = Midpoint(c - 1) /\ even)
        /\ c < 126 => mag < Midpoint(c) \/ (mag = Midpoint(c) /\ even)

\* The software kernels quantise with bf16_to_e4m3, the native one with this
\* lane: the byte that leaves the lane two clocks after an operand entered is
\* the one that the C function returns for it, NaN included.
MirrorsC ==
  /\ out_valid <=> source[LAT] # NoOperand
  /\ out_valid => out_bits = bf16_to_e4m3(source[LAT])
=============================================================================
