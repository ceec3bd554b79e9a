---------------------------- MODULE BenchCommon ----------------------------
(***************************************************************************)
(* The conversions of bench_fa_common.h, on bit patterns and exact values. *)
(*                                                                         *)
(* A BF16 pattern is a number in 0 .. 65535, an E4M3 byte one in 0 .. 255, *)
(* an NVFP4 code one in 0 .. 15.  A decoded value is an integer in a fixed *)
(* unit: 2^-9 for E4M3 (its smallest subnormal), 2^-1 for NVFP4.           *)
(***************************************************************************)
EXTENDS Integers, FiniteSets

\* ----- decode tables
NAN_E4M3(code) == code % 128 = 127

\* e4m3_decode[code] in units of 2^-9; the NaN code decodes to 0.
e4m3_decode(code) ==
  LET exp  == (code \div 8) % 16
      man  == code % 8
      v    == IF NAN_E4M3(code) THEN 0
              ELSE IF exp = 0 THEN man
              ELSE (8 + man) * 2 ^ (exp - 1)
  IN  IF code >= 128 THEN -v ELSE v

\* nvfp4_decode_table[code] in halves
nvfp4_decode_table(code) ==
  LET v == <<0, 1, 2, 3, 4, 6, 8, 12>>[(code % 8) + 1]
  IN  IF code >= 8 THEN -v ELSE v

\* ----- BF16 -> E4M3, round to nearest even with saturation
bf16_to_e4m3(bits) ==
  LET sign   == (bits \div 32768) * 128
      bexp   == (bits \div 128) % 256
      bmant  == bits % 128
      target == bexp - 120
      full   == 128 + bmant
      \* position of the mantissa bit that is kept last
      shift  == IF target >= 1 THEN 4 ELSE 5 - target
      em_pre == (full \div 2 ^ shift) % 8
      guard  == (full \div 2 ^ (shift - 1)) % 2
      sticky == full % 2 ^ (shift - 1) # 0
      em_full == em_pre + (IF guard = 1 /\ (sticky \/ em_pre % 2 = 1) THEN 1 ELSE 0)
      cascade == em_full \div 8
      em_out  == em_full % 8
      e_final == IF target >= 1 THEN target + cascade ELSE cascade
  IN  CASE bexp = 255   -> sign + (IF bmant # 0 THEN 127 ELSE 126)
        [] bexp = 0     -> sign
        [] bexp # 255 /\ target >= 16 -> sign + 126
        [] bexp # 0 /\ target <= -4   -> sign
        [] target \in -3 .. 15 ->
             IF target >= 1 /\ (e_final > 15 \/ (e_final = 15 /\ em_out = 7))
               THEN sign + 126
               ELSE sign + 8 * e_final + em_out

-----------------------------------------------------------------------------
\* The BF16 pattern of the positive value n * 2^-unit, for an n of at most
\* eight significant bits: the conversion is exact.
Log2Floor(n) == CHOOSE k \in 0 .. 30 : 2 ^ k <= n /\ n \div 2 ^ k < 2
Bf16Pattern(n, unit) ==
  LET k == Log2Floor(n)
      mant == IF k >= 7 THEN n \div 2 ^ (k - 7) ELSE n * 2 ^ (7 - k)
  IN  (127 + k - unit) * 128 + (mant % 128)

-----------------------------------------------------------------------------
\* ----- quantize_nvfp4_block, on elements in units of 2^-10 / grain

\* The BF16 pattern nearest to n / d * 2^-unit, ties to even.  The code divides
\* in FP32 before it rounds to BF16.  With d a multiple of 6 that makes no
\* difference: where a quotient by six would be a tie, the dividend is an FP32
\* value, so every other one is farther from it than the division rounds.
QuotientBf16(n, d, unit) ==
  LET k  == CHOOSE i \in -16 .. 12 :
              IF i >= 0 THEN d * 2 ^ i <= n /\ n < d * 2 ^ (i + 1)
                        ELSE n < d /\ d <= n * 2 ^ (-i) /\ n * 2 ^ (-i) < 2 * d
      num == n * 2 ^ (7 + (IF k < 0 THEN -k ELSE 0))
      den == d * 2 ^ (IF k > 0 THEN k ELSE 0)
      twice == 2 * (num % den)
      up == twice > den \/ (twice = den /\ (num \div den) % 2 = 1)
  IN  (127 + k - unit) * 128 + ((num \div den) % 128) + (IF up THEN 1 ELSE 0)

\* The largest magnitude that is taken for 0: 1e-7f is 14073749 * 2^-47.
ZeroGuard(grain) == ((14073749 * grain) \div 1048576) \div 131072

\* The scale byte: amax / 6, or 1/64 for a block of zeros.
scale_byte(amax, grain) ==
  bf16_to_e4m3(IF amax > ZeroGuard(grain) THEN QuotientBf16(amax, 6 * grain, 10)
                                          ELSE Bf16Pattern(1, 6))

\* The scale that the elements are divided by, in units of 2^-9: what the
\* byte decodes to, or 1/64 when that is not positive.
scale_decoded(byte) == IF e4m3_decode(byte) > 0 THEN e4m3_decode(byte) ELSE 8

\* The code of x / scale: one step up at each of these quarters.  (A quarter
\* of a scale is an FP32 value, so an FP32 element below it stays below it
\* through the rounding of the division.)
Thresholds == {1, 3, 5, 7, 10, 14, 20}
fp32_to_nvfp4(x, scale) ==
  LET a == IF x < 0 THEN -x ELSE x
  IN  (IF x < 0 THEN 8 ELSE 0) + Cardinality({q \in Thresholds : 2 * a >= q * scale})
=============================================================================
