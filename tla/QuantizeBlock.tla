--------------------------- MODULE QuantizeBlock ---------------------------
(***************************************************************************)
(* quantize_nvfp4_block, step by step, and what the kernels decode from    *)
(* the bytes it stores.  Every block of BLOCK elements from Values is      *)
(* quantised.  An element is an integer in units of 2^-10 / GRAIN: with    *)
(* GRAIN a power of two large enough every FP32 value is one of them.      *)
(*                                                                         *)
(* Bound: BLOCK elements to a block instead of 16.  Two elements (one      *)
(* packed byte) are the smallest block in which an element differs from    *)
(* the maximum and in which the order of the nibbles matters.              *)
(***************************************************************************)
EXTENDS BenchCommon

CONSTANTS
  BLOCK,
  GRAIN,              \* how many parts a unit of 2^-10 is divided into
  Values

ASSUME BlockAssumption == BLOCK \in Nat \ {0} /\ BLOCK % 2 = 0
ASSUME GrainAssumption == GRAIN \in Nat \ {0}
ASSUME ValuesAssumption == Values \subseteq -(4000 * GRAIN) .. 4000 * GRAIN

VARIABLES
  in_fp32,            \* the block to quantise
  pc,                 \* "max", "pack" or "done"
  i,                  \* the loop counter: an element, then a packed byte
  amax,
  out_scale,
  out_packed

block_vars == <<in_fp32, pc, i, amax, out_scale, out_packed>>

Elements == 1 .. BLOCK
Bytes    == 1 .. BLOCK \div 2

Magnitude(v) == IF v < 0 THEN -v ELSE v

BlockInit ==
  /\ in_fp32 \in [Elements -> Values]
  /\ pc = "max"
  /\ i = 1
  /\ amax = 0
  /\ out_scale = 0
  /\ out_packed = [b \in Bytes |-> 0]

\* Actions marked as faulty stand for a slip in the one after them.

\* faulty: the sign is not removed
MaxStepSigned ==
  /\ pc = "max" /\ i <= BLOCK
  /\ amax' = IF in_fp32[i] > amax THEN in_fp32[i] ELSE amax
  /\ i' = i + 1
  /\ UNCHANGED <<in_fp32, pc, out_scale, out_packed>>

MaxStep ==
  /\ pc = "max" /\ i <= BLOCK
  /\ amax' = IF Magnitude(in_fp32[i]) > amax THEN Magnitude(in_fp32[i]) ELSE amax
  /\ i' = i + 1
  /\ UNCHANGED <<in_fp32, pc, out_scale, out_packed>>

ChooseScale ==
  /\ pc = "max" /\ i > BLOCK
  /\ out_scale' = scale_byte(amax, GRAIN)
  /\ pc' = "pack"
  /\ i' = 1
  /\ UNCHANGED <<in_fp32, amax, out_packed>>

\* faulty: the nibbles are exchanged
PackedSwapped(n0, n1) == n0 * 16 + n1

\* The even element goes to the low nibble.
Packed(n0, n1) == n1 * 16 + n0

\* Two elements to a byte.
PackStep ==
  /\ pc = "pack" /\ i <= BLOCK \div 2
  /\ LET n0 == fp32_to_nvfp4(in_fp32[2 * i - 1], scale_decoded(out_scale) * GRAIN)
         n1 == fp32_to_nvfp4(in_fp32[2 * i], scale_decoded(out_scale) * GRAIN)
     IN  out_packed' = [out_packed EXCEPT ![i] = Packed(n0, n1)]
  /\ i' = i + 1
  /\ UNCHANGED <<in_fp32, pc, amax, out_scale>>

Return ==
  /\ pc = "pack" /\ i > BLOCK \div 2
  /\ pc' = "done"
  /\ UNCHANGED <<in_fp32, i, amax, out_scale, out_packed>>

BlockNext == MaxStep \/ ChooseScale \/ PackStep \/ Return

BlockSpec == BlockInit /\ [][BlockNext]_block_vars

-----------------------------------------------------------------------------
\* Element e as dequant_row decodes it from the stored bytes, in the unit of
\* the elements.
Nibble(e) ==
  LET byte == out_packed[(e + 1) \div 2]
  IN  IF e % 2 = 1 THEN byte % 16 ELSE byte \div 16
dequant_row(e) == nvfp4_decode_table(Nibble(e)) * (e4m3_decode(out_scale) * GRAIN)

\* What a kernel decodes differs from the element by at most one scale (half
\* of the widest step, 4 to 6), or by at most (6 + 3/32) * 2^-10 where the scale
\* itself is a rounded subnormal.  Half a subnormal unit times six are 6 * 2^-10;
\* the rest is the rounding to BF16 that comes first and may lift a quotient
\* onto the tie: amax = (30 + 6/64) * 2^-10 is decoded to 24 * 2^-10.  So a block
\* whose scale rounds to byte 0, and decodes to zeros although its elements
\* were divided by 1/64, held nothing larger.
BlockError ==
  pc = "done" => \A e \in Elements :
    LET err == Magnitude(in_fp32[e] - dequant_row(e))
    IN  err <= 2 * (e4m3_decode(out_scale) * GRAIN) \/ 32 * err <= 195 * GRAIN

\* Decoding keeps the order of the elements of a block, across the sign and
\* across every threshold of the rounding.
OrderKept ==
  pc = "done" => \A e, f \in Elements :
    in_fp32[e] <= in_fp32[f] => dequant_row(e) <= dequant_row(f)

\* "scale = amax / 6 (so the largest mapped to NVFP4 +6)": an element of
\* largest magnitude has the largest code.
LargestMapsToSix ==
  pc = "done" /\ amax > 0 => \E e \in Elements :
    Magnitude(in_fp32[e]) = amax /\ Nibble(e) % 8 = 7
=============================================================================
