----------------------------- MODULE VFExpSweep -----------------------------
(***************************************************************************)
(* The function that VFExpLane computes, over every BF16 operand: an       *)
(* upward walk through the magnitudes of one sign, one operand per step.   *)
(* The properties are stated on the result for the operand x, against      *)
(* facts about exp that need no reference implementation: its slope at     *)
(* zero, exp(2x) = exp(x)^2 and its monotonicity.                          *)
(***************************************************************************)
EXTENDS ExpArith

CONSTANTS
  First, Last         \* magnitudes of the walk, within 0 .. 32767

VARIABLES
  x,                  \* the BF16 operand
  out                 \* the FP32 result of the lane for it

vars == <<x, out>>

Init ==
  /\ x \in {First, 32768 + First}
  /\ out = ExpOf(x)

Step ==
  /\ x % 32768 < Last
  /\ x' = x + 1
  /\ out' = ExpOf(x + 1)

Spec == Init /\ [][Step]_vars

-----------------------------------------------------------------------------
\* value(out) = Mant(out) * 2^(Expo(out) - 150)
Expo(o) == o \div 8388608
Mant(o) == 8388608 + (o % 8388608)

\* The polynomial and the exponent that the reconstruction receives.
YQOf(b) == YQ(ToQ8_23(b))
PolyY(b) == PolyOf(RQ(YQOf(b)))

\* |x| < 2^-31: the operands whose shift amount does not fit five bits.
TinyExp == 95
Tiny(b) == XExp(b) \in 1 .. TinyExp

Computed(b) == ~Overridden(b) /\ ~Tiny(b)

\* The reconstruction is never out of its range: the leading one of the
\* polynomial is at bit 29 or 30, the only two cases it knows, and the
\* exponent needs neither clamp (a biased exponent 0 would be read as a
\* subnormal although the mantissa has a hidden one).
ReconstructInRange ==
  ~Overridden(x) =>
    /\ PolyY(x) >= 536870912
    /\ ExpFinal(PolyY(x), NInt(YQOf(x))) \in 1 .. 254

\* The special cases: NaN stays NaN, exp(+Inf) and every operand above 88
\* give +Inf, exp(-Inf) and every operand below -87 give +0, and +-0 and the
\* subnormals give 1, although several flags are raised at once and Mux1H
\* mixes their results.
SpecialResults ==
  LET mag == x % 32768      \* 88 is 0x42B0, 87 is 0x42AE, Inf is 0x7F80
  IN  /\ mag > 32640 => out = FP32_QNAN
      /\ XSign(x) = 0 /\ mag > 17072 /\ mag <= 32640 => out = FP32_PLUS_INF
      /\ XSign(x) = 1 /\ mag > 17070 /\ mag <= 32640 => out = FP32_PLUS_ZERO
      /\ XExp(x) = 0 => out = FP32_PLUS_ONE

\* For 2^-12 <= |x| < 2^-6 the result is 1 + x + x^2/2 up to 2^-16: in units
\* of 2^-24, where 1 is 2^24 and x is u.
\* (ToQ8_23 * 2 is u exactly for these operands.)
SlopeAtZero ==
  XExp(x) \in 115 .. 120 =>
    LET u     == 2 * ToQ8_23(x)
        u2    == ((u \div 32) * (u \div 32)) \div 32768    \* u^2 / 2^25
        value == IF Expo(out) = 127 THEN 2 * Mant(out) ELSE Mant(out)
    IN  /\ Expo(out) \in {126, 127}
        /\ value - (16777216 + u + u2) \in -256 .. 256

\* Squares are compared in units of 2^-28: the accuracy target of the lane,
\* 2^-16, of the largest square, 4.
Target == 4 * 4096

\* exp(2x) = exp(x)^2 within three times the accuracy target of the lane,
\* across every boundary of the range reduction.
Doubling ==
  Computed(x) /\ Computed(x + 128) /\ XExp(x) < 254 =>
    LET o2     == ExpOf(x + 128)
        square == MulRound30(Mant(out) * 64, Mant(out) * 64)
        d      == Expo(o2) - 2 * Expo(out) + 127
        twice  == Mant(o2) * 2 ^ (5 + d)
        diff   == square - twice
    IN  /\ d \in -1 .. 2
        /\ diff \in -(3 * Target) .. 3 * Target

\* exp is monotone: the results never decrease while a positive operand
\* grows, never increase while a negative one grows in magnitude, and the
\* special cases join the computed ones without a step the wrong way.
Monotone ==
  [][(Computed(x) \/ XMag(x) > OVERFLOW_THRESH_MAG \/ XExp(x) = 0)
       /\ ~Tiny(x') /\ XMag(x') <= FP32_PLUS_INF
     => IF XSign(x) = 0 THEN out <= out' ELSE out >= out']_vars

\* The header of the lane: "max rel err vs scalar expf() < 2^-16 over the
\* representable BF16 range, excluding special-case inputs".  For |x| < 2^-17
\* exp(x) is 1 to within 2^-16, so the result has to be 1 to within 2^-15.
TinyOperandsGiveOne ==
  XExp(x) \in 1 .. 109 => out \in FP32_PLUS_ONE - 512 .. FP32_PLUS_ONE + 256
=============================================================================
