------------------------------ MODULE ExpArith ------------------------------
(***************************************************************************)
(* The combinational logic between the registers of VFExpLane and          *)
(* PolyExpQ2_30, as exact integer arithmetic.                              *)
(*                                                                         *)
(* An operand is a 16-bit BF16 pattern; s1 only appends 16 zero bits, so   *)
(* the FP32 fields of s1_x_f32 are those of the operand.  A result is a    *)
(* 32-bit FP32 pattern; every result of this lane has sign bit 0.          *)
(*                                                                         *)
(* Every operand runs through the data path, also one whose result the     *)
(* special-case override replaces: there s2_x_q and s3_y_q keep the low 32 *)
(* bits of what they are given and N_int the low nine, as the registers    *)
(* do.  An operation is written so that no intermediate value leaves the   *)
(* 32-bit integers of TLC.                                                 *)
(*                                                                         *)
(* A definition marked as faulty stands for a slip in the one after it;    *)
(* each breaks a property of VFExpLane or VFExpSweep.                      *)
(***************************************************************************)
EXTENDS Integers, FiniteSetsExt

\* The low w bits of v, read as a signed number.
SInt(v, w) == LET low == v % 2 ^ w IN IF low < 2 ^ (w - 1) THEN low ELSE low - 2 ^ w

\* The low 32 bits of a + b, read as a signed number.
Add32(a, b) ==
  LET low == (a % 65536) + (b % 65536)
  IN  65536 * SInt(a \div 65536 + b \div 65536 + low \div 65536, 16) + (low % 65536)

\* ----- special FP32 patterns and thresholds
FP32_PLUS_ZERO == 0
FP32_PLUS_ONE  == 1065353216     \* 0x3F800000
FP32_PLUS_INF  == 2139095040     \* 0x7F800000
FP32_QNAN      == 2143289344     \* 0x7FC00000
\* faulty: 89.0f
OVERFLOW_THRESH_MAG_high == 1118961664
OVERFLOW_THRESH_MAG == 1118830592    \* 88.0f = 0x42B00000
\* faulty: the threshold of the overflow
UNDERFLOW_THRESH_MAG_copied == 1118830592
UNDERFLOW_THRESH_MAG == 1118699520   \* |-87.0f| = 0x42AE0000

LOG2E_Q1_30 == 1549082004        \* 0x5C551D94
LN2_Q2_30   == 744261118         \* 0x2C5C85FE

\* ----- the fields of s1_x_f32
XSign(x) == x \div 32768
XExp(x)  == (x \div 128) % 256
XMan(x)  == (x % 128) * 65536          \* x_mantissa_23
XMag(x)  == (x % 32768) * 65536        \* x_mag

\* The six special-case flags, each with the result it selects.
SpecialHits(x) ==
  LET is_nan == XExp(x) = 255 /\ XMan(x) # 0
      is_inf == XExp(x) = 255 /\ XMan(x) = 0
      neg    == XSign(x) = 1
  IN  {h \in { <<"nan", FP32_QNAN>>, <<"pos_inf", FP32_PLUS_INF>>,
               <<"neg_inf", FP32_PLUS_ZERO>>, <<"zero_or_sub", FP32_PLUS_ONE>>,
               <<"overflows", FP32_PLUS_INF>>, <<"underflows", FP32_PLUS_ZERO>> } :
         CASE h[1] = "nan"         -> is_nan
           [] h[1] = "pos_inf"     -> is_inf /\ ~neg
           [] h[1] = "neg_inf"     -> is_inf /\ neg
           [] h[1] = "zero_or_sub" -> XExp(x) = 0
           [] h[1] = "overflows"   -> ~neg /\ XMag(x) > OVERFLOW_THRESH_MAG
           [] h[1] = "underflows"  -> neg /\ XMag(x) > UNDERFLOW_THRESH_MAG}

\* Mux1H ORs every selected result.  Several flags may be up at once; the
\* bit patterns are nested (zero in one in Inf in NaN), so their OR is the
\* largest of them.
Special(x) ==
  LET hits == SpecialHits(x)
  IN  [override_valid  |-> hits # {},
       override_result |-> Max({h[2] : h \in hits} \cup {0})]

Overridden(x) == SpecialHits(x) # {}

\* s2: FP32 -> Q8.23.  The shift amount keeps only five bits, the shifted
\* mantissa 32; its lower 16 bits are 0 before a shift to the left.
ToQ8_23(x) ==
  LET mantissa_8 == 128 + (x % 128)
      shift      == XExp(x) - 127
      left       == shift > 0
      abs_shift  == (IF left THEN shift ELSE -shift) % 32
      sign       == IF XSign(x) = 1 THEN -1 ELSE 1
  IN  IF left THEN IF abs_shift >= 16 THEN 0
                   ELSE 65536 * SInt(sign * (mantissa_8 * 2 ^ abs_shift), 16)
              ELSE IF abs_shift > 24 THEN 0
                   ELSE sign * ((mantissa_8 * 65536) \div 2 ^ abs_shift)

\* (a * b + 2^29) >> 30 with an arithmetic shift, for b >= 0: the product is
\* formed from 15-bit limbs, so that no intermediate value leaves 32 bits.
MulRound30(a, b) ==
  LET ah == a \div 32768    al == a % 32768
      bh == b \div 32768    bl == b % 32768
      low  == (al * bl + 536870912) \div 32768
      mid1 == ah * bl
      mid2 == al * bh
  IN  ah * bh + mid1 \div 32768 + mid2 \div 32768
        + ((mid1 % 32768) + (mid2 % 32768) + low) \div 32768

\* s3: y_q (Q8.23) = x_q * log2(e), rounded, of which s3_y_q keeps 32 bits.
\* x_q itself is taken out of the product.
YQ(x_q) == Add32(x_q, MulRound30(x_q, LOG2E_Q1_30 - 1073741824))

\* s4: N_int = round(y_q), which y_q_for_round and the shift hold in ten bits
\* and s4_N_int in nine
\* faulty: rounds down
NIntWideFloor(y_q) == y_q \div 8388608
NIntWide(y_q) == (y_q \div 4194304 + 1) \div 2
NInt(y_q) == SInt(NIntWide(y_q), 9)
\* f_q (Q1.23) = y_q - N_int, from the ten bits, and r_q (Q2.30) = f_q * ln 2
RQ(y_q) ==
  LET f_q == (y_q \div 8388608 - NIntWide(y_q)) * 8388608 + (y_q % 8388608)
  IN  MulRound30(f_q * 128, LN2_Q2_30)

\* ----- PolyExpQ2_30: the coefficients and one Horner step in Q2.30
C0 == 1073741824
C1 == 1073741824
\* faulty: 1/3! for 1/2!
C2_wrong == 178956971
C2 == 536870912
C3 == 178956971
C4 == 44739243
C5 == 8947849
Horner(t, r, c) == MulRound30(r, t) + c

\* faulty: the leading one is always at bit 30
ExpFinalBit30(y, n) == 127 + n

\* s10: Q2.30 -> FP32.  The leading one is at bit 30 or at bit 29.
ExpFinal(y, n) == (IF y >= 1073741824 THEN 127 ELSE 126) + n
Reconstruct(y, n) ==
  LET mantissa == IF y >= 1073741824 THEN (y % 1073741824) \div 128
                                     ELSE (y % 536870912) \div 64
  IN  IF ExpFinal(y, n) > 254 THEN FP32_PLUS_INF
      ELSE IF ExpFinal(y, n) < 0 THEN FP32_PLUS_ZERO
      ELSE (ExpFinal(y, n) % 256) * 8388608 + mantissa
LaneOutput(special, y, n) ==
  IF special.override_valid THEN special.override_result ELSE Reconstruct(y, n)

\* ----- the whole lane as one function of the operand
PolyOf(r) ==
  Horner(Horner(Horner(Horner(Horner(C5, r, C4), r, C3), r, C2), r, C1), r, C0)
ExpOf(x) ==
  LET y_q == YQ(ToQ8_23(x))
  IN  LaneOutput(Special(x), PolyOf(RQ(y_q)), NInt(y_q))
=============================================================================
