----------------------------- MODULE ConvArith -----------------------------
(***************************************************************************)
(* The combinational logic between the registers of the three conversion   *)
(* lanes, on bit patterns: BF16 in 0 .. 65535, E4M3 in 0 .. 255, NVFP4 in  *)
(* 0 .. 15.                                                                *)
(*                                                                         *)
(* A definition marked as faulty stands for a slip in the one after it;    *)
(* each breaks a property of one of the lanes.                             *)
(***************************************************************************)
EXTENDS Integers

\* ----- vfconv.bf16.fp8.v
\* s1: decode, classify, signed target exponent (ten bits: it never wraps)
Decode(bf16) ==
  LET bexp  == (bf16 \div 128) % 256
      bmant == bf16 % 128
  IN  [sign       |-> bf16 \div 32768,
       bmant      |-> bmant,
       target     |-> bexp - 120,
       is_zero_in |-> bexp = 0,
       is_inf     |-> bexp = 255 /\ bmant = 0,
       is_nan     |-> bexp = 255 /\ bmant # 0]

\* The output regimes.
IsOverflow(d) == d.target > 15
IsNormalO(d)  == d.target > 0 /\ d.target <= 15
\* faulty: what rounds up to the smallest subnormal is flushed
IsSubnOFlushed(d) == d.target > -3 /\ d.target <= 0
IsSubnO(d)    == d.target > -4 /\ d.target <= 0

\* faulty: ties go away from zero
RoundHalfUp(d) ==
  LET full  == 128 + d.bmant
      shift == IF IsNormalO(d) THEN 4 ELSE 5 - d.target
      em_full == ((full \div 2 ^ shift) % 8) + ((full \div 2 ^ (shift - 1)) % 2)
  IN  [em_out |-> em_full % 8, cascade |-> em_full \div 8]

\* Round to nearest even at the last kept bit: the 3-bit mantissa in 0 .. 7
\* and whether it cascaded.  In the subnormal regime the implicit one of the
\* operand takes part.
Round(d) ==
  LET full  == 128 + d.bmant
      shift == IF IsNormalO(d) THEN 4 ELSE 5 - d.target
      em_pre == IF IsNormalO(d) \/ IsSubnO(d) THEN (full \div 2 ^ shift) % 8 ELSE 0
      guard  == (IsNormalO(d) \/ IsSubnO(d)) /\ (full \div 2 ^ (shift - 1)) % 2 = 1
      sticky == (IsNormalO(d) \/ IsSubnO(d)) /\ full % 2 ^ (shift - 1) # 0
      em_full == em_pre + (IF guard /\ (sticky \/ em_pre % 2 = 1) THEN 1 ELSE 0)
  IN  [em_out |-> em_full % 8, cascade |-> em_full \div 8]

Byte(d, exp, mant) == 128 * d.sign + 8 * exp + mant

NormalPacked(d) ==
  LET r   == Round(d)
      exp == d.target + r.cascade
  IN  IF exp > 15 \/ (exp = 15 /\ r.em_out = 7) THEN Byte(d, 15, 6)
                                                ELSE Byte(d, exp, r.em_out)
SubnPacked(d) == Byte(d, Round(d).cascade, Round(d).em_out)

\* s2: dispatch, NaN before overflow, Inf and overflow before zero.
Quantize(d) ==
  CASE d.is_nan -> Byte(d, 15, 7)
    [] ~d.is_nan /\ (d.is_inf \/ IsOverflow(d)) -> Byte(d, 15, 6)
    [] d.is_zero_in -> Byte(d, 0, 0)
    [] ~d.is_zero_in /\ IsSubnO(d)   -> SubnPacked(d)
    [] ~d.is_zero_in /\ IsNormalO(d) -> NormalPacked(d)
    [] OTHER -> Byte(d, 0, 0)

-----------------------------------------------------------------------------
\* ----- vfconv.fp8.bf16.v
ExpField(fp8)  == (fp8 \div 8) % 16
MantField(fp8) == fp8 % 8

\* The subnormal mantissa, normalised by a priority encoder.
\* faulty: the priorities of the encoder are the other way round
SubnMsbPosLow(m) == IF m % 2 = 1 THEN 0 ELSE IF m % 4 = 2 THEN 1 ELSE 2
SubnMsbPos(m) == IF m >= 4 THEN 2 ELSE IF m >= 2 THEN 1 ELSE 0
SubnMant(m) == (m * 2 ^ (7 - SubnMsbPos(m))) % 128

Dequantize(fp8) ==
  LET sign == (fp8 \div 128) * 32768
      e == ExpField(fp8)
      m == MantField(fp8)
  IN  CASE e = 15 /\ m = 7 -> sign + 32704                       \* QNaN
        [] e = 0 /\ m = 0  -> sign
        [] e = 0 /\ m # 0  -> sign + (118 + SubnMsbPos(m)) * 128 + SubnMant(m)
        [] e \in 1 .. 15 /\ ~(e = 15 /\ m = 7) -> sign + (e + 120) * 128 + m * 16

-----------------------------------------------------------------------------
\* ----- vfconv.nvfp4.bf16.v
BF16_QNAN == 32704           \* 0x7FC0

E2M1_TO_BF16(elt) ==
  LET mag == <<0, 16128, 16256, 16320, 16384, 16448, 16512, 16576>>[(elt % 8) + 1]
  IN  (elt \div 8) * 32768 + mag

\* The scale decoder has the structure of vfconv.fp8.bf16.v but is a copy of
\* its own.
ScaleMsbPos(m) == IF m >= 4 THEN 2 ELSE IF m >= 2 THEN 1 ELSE 0
ScaleBf16(scale) ==
  LET sign == (scale \div 128) * 32768
      e    == (scale \div 8) % 16
      m    == scale % 8
      pos  == ScaleMsbPos(m)
  IN  IF e = 15 /\ m = 7 THEN sign + BF16_QNAN
      ELSE IF e # 0 THEN sign + (e + 120) * 128 + m * 16
      ELSE IF m = 0 THEN sign
      ELSE sign + (118 + pos) * 128 + ((m * 2 ^ (7 - pos)) % 128)

\* s1: both decoders and the override flags
DecodeNvfp4(elt, scale) ==
  [elt_bf16    |-> E2M1_TO_BF16(elt),
   scale_bf16  |-> ScaleBf16(scale),
   elt_is_zero |-> elt % 8 = 0,
   sc_is_zero  |-> scale % 128 = 0,
   sc_is_nan   |-> scale % 128 = 127]

\* faulty: eight bits, as many as the exponents have
SInt10Narrow(n) == ((n + 128) % 256) - 128

\* A value in the ten-bit signed exponent accumulator.
SInt10(n) == ((n + 512) % 1024) - 512

ExpOfBf16(v) == (v \div 128) % 256

MantOfBf16(v) == 128 + (v % 128)

\* s2: product of the mantissas with their hidden ones, exponent sum, sign,
\* and the override of zero and NaN operands
Multiply(d) ==
  LET a == d.elt_bf16
      b == d.scale_bf16
      sign == (a \div 32768 + b \div 32768) % 2
  IN  [mant_product   |-> MantOfBf16(a) * MantOfBf16(b),
       exp_sum        |-> SInt10(ExpOfBf16(a) + ExpOfBf16(b) - 127),
       sign           |-> sign,
       override_valid |-> d.elt_is_zero \/ d.sc_is_zero \/ d.sc_is_nan,
       override_res   |-> sign * 32768 + (IF d.sc_is_nan THEN BF16_QNAN ELSE 0)]

\* s3: normalise to a leading one at bit 15, round the eight low bits to
\* nearest even, clamp the exponent, override, pack
NormValue(p) ==
  IF p.mant_product >= 32768 THEN p.mant_product ELSE (2 * p.mant_product) % 65536
RoundUp(p) ==
  LET n == NormValue(p)
  IN  (n \div 128) % 2 = 1 /\ (n % 128 # 0 \/ (n \div 256) % 2 = 1)
MantissaRounded(p) ==
  ((NormValue(p) \div 256) % 128) + (IF RoundUp(p) THEN 1 ELSE 0)
\* faulty: the shift of the normalisation does not reach the exponent
ExpAdjustedUnshifted(p) == SInt10(p.exp_sum + MantissaRounded(p) \div 128)
ExpAdjusted(p) ==
  SInt10(p.exp_sum + (IF p.mant_product >= 32768 THEN 1 ELSE 0)
                   + MantissaRounded(p) \div 128)
PackBf16(p) ==
  LET sign == p.sign * 32768
  IN  IF p.override_valid THEN p.override_res
      ELSE IF ExpAdjusted(p) > 254 THEN sign + 32640
      ELSE IF ExpAdjusted(p) < 1 THEN sign
      ELSE sign + ExpAdjusted(p) * 128 + (MantissaRounded(p) % 128)
=============================================================================
