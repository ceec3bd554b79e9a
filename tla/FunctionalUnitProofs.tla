------------------------ MODULE FunctionalUnitProofs ------------------------
(***************************************************************************)
(* Proofs about the four lanes of the functional unit, for every range of  *)
(* patterns that the producer of the quantising lane walks through and for *)
(* every stream of accepted, stalled and idle clocks.  The inductive       *)
(* invariant of a lane says that beside a valid bit each of its registers  *)
(* holds its function of the operand of that stage; what the functions     *)
(* are worth is ArithmeticProofs.  At the end, on the same arithmetic, the *)
(* quantiser of blocks that fills the operands of these lanes.             *)
(***************************************************************************)
EXTENDS FunctionalUnit, QuantizeBlock, ArithmeticProofs, TLAPS

-----------------------------------------------------------------------------
\* The lanes use the arithmetic of ArithmeticProofs.

LEMMA SameDecode == ASSUME NEW b PROVE Bf16Fp8!Decode(b) = Decode(b)
  BY DEF Bf16Fp8!Decode, Decode

LEMMA SameQuantize == ASSUME NEW d PROVE Bf16Fp8!Quantize(d) = Quantize(d)
  BY DEF Bf16Fp8!Quantize, Quantize, Bf16Fp8!Byte, Byte, Bf16Fp8!IsOverflow, IsOverflow,
         Bf16Fp8!IsSubnO, IsSubnO, Bf16Fp8!IsNormalO, IsNormalO, Bf16Fp8!SubnPacked, SubnPacked,
         Bf16Fp8!NormalPacked, NormalPacked, Bf16Fp8!Round, Round

LEMMA SameC == ASSUME NEW b PROVE Bf16Fp8!bf16_to_e4m3(b) = bf16_to_e4m3(b)
  BY DEF Bf16Fp8!bf16_to_e4m3, bf16_to_e4m3

\* What the lane makes of a pattern is what the C function makes of it.
LEMMA LaneIsC ==
  ASSUME NEW b \in Nat, b < 65536
  PROVE  Quantize(Decode(b)) = bf16_to_e4m3(b)
<1>1. PICK s \in Int, e \in Int, m \in Nat :
        /\ s = b \div 32768 /\ e = (b \div 128) % 256 /\ m = b % 128
        /\ 0 <= e /\ e <= 255
  OBVIOUS
<1>2. Quantize(Decode(b)) = s * 128 + CodeOf(e, m)
  BY <1>1, DecodedIs, LaneQuantizes
<1>3. bf16_to_e4m3(b) = s * 128 + CodeOf(e, m)
  BY <1>1, CFormIs, CQuantizes
<1>4. QED
  BY <1>2, <1>3

-----------------------------------------------------------------------------
\* vfconv.bf16.fp8.v

Pattern(b) == b \in Int /\ First <= b /\ b <= Last

LEMMA PatternsAre16Bits ==
  /\ First \in Nat /\ Last \in Nat /\ First <= Last
  /\ \A b : Pattern(b) => b \in Nat /\ b < 65536 /\ b # -1
<1>1. First \in Nat /\ First <= 65535
  BY RangeAssumption, SMT
<1>2. Last \in Nat /\ First <= Last /\ Last < 65536
  BY <1>1, RangeAssumption, SMT
<1>3. QED
  BY <1>1, <1>2 DEF Pattern

NarrowInv ==
  /\ q_valid \in [1 .. 2 -> BOOLEAN]
  /\ Pattern(q_operand)
  /\ \A j \in 1 .. 2 : IF q_valid[j] THEN Pattern(q_source[j]) ELSE q_source[j] = -1
  /\ q_valid[1] => q_s1 = Decode(q_source[1])
  /\ q_valid[2] => q_out = bf16_to_e4m3(q_source[2])

LEMMA NarrowInit == Bf16Fp8!Init => NarrowInv
  BY PatternsAre16Bits DEF Bf16Fp8!Init, NarrowInv, Bf16Fp8!Stages, Bf16Fp8!LAT,
     Bf16Fp8!NoOperand, Pattern

LEMMA NarrowClock ==
  ASSUME NarrowInv, NEW v \in BOOLEAN, NEW r \in BOOLEAN, Bf16Fp8!Clock(v, r)
  PROVE  NarrowInv'
<1>1. PICK fire \in BOOLEAN : fire = (v /\ r)
  OBVIOUS
<1>2. /\ q_valid' = [j \in 1 .. 2 |-> IF j = 1 THEN fire ELSE q_valid[j - 1]]
      /\ q_source' = [j \in 1 .. 2 |-> IF j = 1 THEN IF fire THEN q_operand ELSE -1
                                              ELSE q_source[j - 1]]
      /\ q_s1' = Decode(q_operand) /\ q_out' = Quantize(q_s1)
      /\ q_operand' = IF ~fire THEN q_operand
                      ELSE IF q_operand = Last THEN First ELSE q_operand + 1
  BY <1>1, SameDecode, SameQuantize
     DEF Bf16Fp8!Clock, Bf16Fp8!Stages, Bf16Fp8!LAT, Bf16Fp8!NoOperand
<1>3. /\ q_valid'[1] = fire /\ q_source'[1] = (IF fire THEN q_operand ELSE -1)
      /\ q_valid'[2] = q_valid[1] /\ q_source'[2] = q_source[1]
      /\ q_valid' \in [1 .. 2 -> BOOLEAN]
  BY <1>2 DEF NarrowInv
<1>4. Pattern(q_operand')
  BY <1>2, PatternsAre16Bits DEF NarrowInv, Pattern
<1>5. \A j \in 1 .. 2 : IF q_valid'[j] THEN Pattern(q_source'[j]) ELSE q_source'[j] = -1
  BY <1>3 DEF NarrowInv, Pattern
<1>6. q_valid'[1] => q_s1' = Decode(q_source'[1])
  BY <1>2, <1>3
<1>7. q_valid'[2] => q_out' = bf16_to_e4m3(q_source'[2])
  <2> SUFFICES ASSUME q_valid[1] PROVE q_out' = bf16_to_e4m3(q_source[1])
    BY <1>3
  <2>1. Pattern(q_source[1]) /\ q_s1 = Decode(q_source[1])
    BY DEF NarrowInv
  <2>2. QED
    BY <1>2, <2>1, PatternsAre16Bits, LaneIsC
<1>8. QED
  BY <1>3, <1>4, <1>5, <1>6, <1>7 DEF NarrowInv, Pattern

LEMMA NarrowStep == NarrowInv /\ [Next]_vars => NarrowInv'
<1> SUFFICES ASSUME NarrowInv, [Next]_vars PROVE NarrowInv'
  OBVIOUS
<1>1. CASE Narrow
  BY <1>1, NarrowClock DEF Narrow, Bf16Fp8!Next
<1>2. ASSUME UNCHANGED q_vars PROVE NarrowInv'
  BY <1>2 DEF q_vars, NarrowInv, Pattern
<1>3. QED
  BY <1>1, <1>2 DEF Next, Exponential, Widen, Dequantise, vars

LEMMA NarrowAlways == Spec => []NarrowInv
<1>1. Init => NarrowInv
  BY NarrowInit DEF Init
<1>2. QED
  BY <1>1, NarrowStep, PTL DEF Spec

\* The byte that vfconv.bf16.fp8.v shows two clocks after an operand entered
\* is the one that the C function bf16_to_e4m3 returns for it, and it shows
\* one exactly then, for every stream of patterns, NaNs included.
THEOREM LaneMirrorsC == Spec => []MirrorsC
<1>1. NarrowInv => MirrorsC
  <2> SUFFICES ASSUME NarrowInv PROVE MirrorsC
    OBVIOUS
  <2>1. q_valid[2] <=> q_source[2] # -1
    BY PatternsAre16Bits DEF NarrowInv
  <2>2. q_valid[2] => q_out = bf16_to_e4m3(q_source[2])
    BY DEF NarrowInv
  <2>3. QED
    BY <2>1, <2>2, SameC DEF MirrorsC, Bf16Fp8!MirrorsC, Bf16Fp8!out_valid, Bf16Fp8!out_bits,
       Bf16Fp8!LAT, Bf16Fp8!NoOperand
<1>2. QED
  BY <1>1, NarrowAlways, PTL

\* The lane measures with the arithmetic of ArithmeticProofs.
LEMMA SameMidpoint == ASSUME NEW c PROVE Bf16Fp8!Midpoint(c) = Halfway(c)
<1>1. ASSUME NEW a PROVE Bf16Fp8!e4m3_decode(a) = e4m3_decode(a)
  BY DEF Bf16Fp8!e4m3_decode, e4m3_decode, Bf16Fp8!NAN_E4M3, NAN_E4M3
<1>2. ASSUME NEW n PROVE Bf16Fp8!Bf16Pattern(n, 10) = Bf16Pattern(n, 10)
  BY DEF Bf16Fp8!Bf16Pattern, Bf16Pattern, Bf16Fp8!Log2Floor, Log2Floor
<1>3. QED
  BY <1>1, <1>2 DEF Bf16Fp8!Midpoint, Halfway

\* The fields of a pattern: sign, exponent, mantissa.
LEMMA Fields ==
  ASSUME NEW b \in Nat, b < 65536
  PROVE  \E s \in Int, e \in Int, m \in Nat :
           /\ s = b \div 32768 /\ e = (b \div 128) % 256 /\ m = b % 128
           /\ 0 <= s /\ s <= 1 /\ 0 <= e /\ e <= 255 /\ m <= 127
           /\ b % 32768 = e * 128 + m
  OBVIOUS

\* The byte of every operand that is not a NaN is the nearest of the 127
\* finite E4M3 values of its sign, ties to even, saturated: for every stream
\* of patterns that enters vfconv.bf16.fp8.v.
THEOREM LaneRoundsToNearest == Spec => []NearestTiesToEven
<1>1. ASSUME NEW b \in Nat, b < 65536, b % 32768 <= 32640
      PROVE  /\ Near(b % 32768, bf16_to_e4m3(b) % 128)
             /\ bf16_to_e4m3(b) \div 128 = b \div 32768
  <2>1. PICK s \in Int, e \in Int, m \in Nat :
          /\ s = b \div 32768 /\ e = (b \div 128) % 256 /\ m = b % 128
          /\ 0 <= s /\ s <= 1 /\ 0 <= e /\ e <= 255 /\ m <= 127
          /\ b % 32768 = e * 128 + m
    BY <1>1, Fields
  <2>2. Near(e * 128 + m, CodeOf(e, m))
    <3>1. e < 255 \/ m = 0
      BY <1>1, <2>1
    <3>2. QED
      BY <2>1, <3>1, CodeIsNearest
  <2>3. PICK c \in Int : c = CodeOf(e, m) /\ 0 <= c /\ c <= 126
    BY <2>2 DEF Near
  <2>4. bf16_to_e4m3(b) = s * 128 + c
    <3>1. bf16_to_e4m3(b) = CByFields(s, e, m)
      BY <2>1, CFormIs
    <3>2. QED
      BY <2>1, <2>3, <3>1, CQuantizes
  <2>5. (s * 128 + c) % 128 = c /\ (s * 128 + c) \div 128 = s
    BY <2>1, <2>3
  <2>6. QED
    BY <2>1, <2>2, <2>3, <2>4, <2>5
<1>2. NarrowInv => NearestTiesToEven
  <2> SUFFICES ASSUME NarrowInv, q_valid[2], q_source[2] % 32768 <= 32640
               PROVE  /\ Near(q_source[2] % 32768, q_out % 128)
                      /\ q_out \div 128 = q_source[2] \div 32768
    BY SameMidpoint, SMT
       DEF NearestTiesToEven, Bf16Fp8!NearestTiesToEven, Bf16Fp8!out_valid, Bf16Fp8!out_bits,
           Bf16Fp8!LAT, Near
  <2>1. Pattern(q_source[2]) /\ q_out = bf16_to_e4m3(q_source[2])
    BY DEF NarrowInv
  <2>2. QED
    BY <1>1, <2>1, PatternsAre16Bits
<1>3. QED
  BY <1>2, NarrowAlways, PTL

-----------------------------------------------------------------------------
\* vfconv.fp8.bf16.v

LEMMA SameWiden ==
  ASSUME NEW b
  PROVE  /\ Fp8Bf16!Dequantize(b) = Dequantize(b)
         /\ Fp8Bf16!e4m3_decode(b) = e4m3_decode(b)
         /\ Fp8Bf16!NAN_E4M3(b) = NAN_E4M3(b)
         /\ Fp8Bf16!Bf16Pattern(b, 9) = Bf16Pattern(b, 9)
<1>1. Fp8Bf16!Dequantize(b) = Dequantize(b)
  BY DEF Fp8Bf16!Dequantize, Dequantize, Fp8Bf16!ExpField, ExpField, Fp8Bf16!MantField, MantField,
     Fp8Bf16!SubnMsbPos, SubnMsbPos, Fp8Bf16!SubnMant, SubnMant
<1>2. Fp8Bf16!NAN_E4M3(b) = NAN_E4M3(b)
  BY DEF Fp8Bf16!NAN_E4M3, NAN_E4M3
<1>3. Fp8Bf16!e4m3_decode(b) = e4m3_decode(b)
  BY <1>2 DEF Fp8Bf16!e4m3_decode, e4m3_decode, Fp8Bf16!NAN_E4M3, NAN_E4M3
<1>4. Fp8Bf16!Bf16Pattern(b, 9) = Bf16Pattern(b, 9)
  BY DEF Fp8Bf16!Bf16Pattern, Bf16Pattern, Fp8Bf16!Log2Floor, Log2Floor
<1>5. QED
  BY <1>1, <1>2, <1>3, <1>4

WidenInv ==
  /\ d_operand \in Nat /\ d_operand < 256
  /\ d_valid => /\ d_source \in Nat /\ d_source < 256
                /\ d_out = Dequantize(d_source)

LEMMA WidenInit == Fp8Bf16!Init => WidenInv
  BY DEF Fp8Bf16!Init, WidenInv

LEMMA WidenClock ==
  ASSUME WidenInv, NEW v \in BOOLEAN, NEW r \in BOOLEAN, Fp8Bf16!Clock(v, r)
  PROVE  WidenInv'
<1>1. d_operand' \in Nat /\ d_operand' < 256
  <2>1. d_operand' = d_operand \/ d_operand' = (d_operand + 1) % 256
    BY DEF Fp8Bf16!Clock
  <2>2. QED
    BY <2>1 DEF WidenInv
<1>2. d_valid' => d_source' = d_operand
  BY DEF Fp8Bf16!Clock
<1>3. d_out' = Dequantize(d_operand)
  BY SameWiden DEF Fp8Bf16!Clock
<1>4. QED
  BY <1>1, <1>2, <1>3 DEF WidenInv

LEMMA WidenStep == WidenInv /\ [Next]_vars => WidenInv'
<1> SUFFICES ASSUME WidenInv, [Next]_vars PROVE WidenInv'
  OBVIOUS
<1>1. CASE Widen
  BY <1>1, WidenClock DEF Widen, Fp8Bf16!Next
<1>2. ASSUME UNCHANGED d_vars PROVE WidenInv'
  BY <1>2 DEF d_vars, WidenInv
<1>3. QED
  BY <1>1, <1>2 DEF Next, Exponential, Narrow, Dequantise, vars

\* A result of vfconv.fp8.bf16.v is the BF16 pattern of exactly the value that
\* the C decode table gives the byte, subnormals and signed zeros included,
\* for every stream of bytes.
THEOREM LaneWidensExactly == Spec => []ExactValue
<1>1. Init => WidenInv
  BY WidenInit DEF Init
<1>2. WidenInv => ExactValue
  <2> SUFFICES ASSUME WidenInv, d_valid
               PROVE  /\ d_out \div 32768 = d_source \div 128
                      /\ d_out % 32768 = ValueOf(d_source)
    BY SameWiden, SMT
       DEF ExactValue, Fp8Bf16!ExactValue, Fp8Bf16!out_valid, Fp8Bf16!out_bits, ValueOf
  <2>1. PICK c \in Nat : c = d_source /\ c < 256 /\ d_out = Dequantize(c)
    BY DEF WidenInv
  <2>2. PICK e \in 0 .. 15, m \in 0 .. 7 :
          e = (c \div 8) % 16 /\ m = c % 8 /\ (c \div 128 = 0 \/ c \div 128 = 1)
    BY <2>1, ByteFields
  <2>3. PICK v \in Nat : v = MagOf(e, m) /\ v < 32768
    BY MagIs15Bits
  <2>4. d_out = (c \div 128) * 32768 + v /\ v = ValueOf(c)
    BY <2>1, <2>2, <2>3, Decoders, MagIsValue
  <2>5. PICK s \in 0 .. 1 : s = c \div 128
    BY <2>2
  <2>6. (s * 32768 + v) \div 32768 = s /\ (s * 32768 + v) % 32768 = v
    BY <2>3
  <2>7. QED
    BY <2>1, <2>4, <2>5, <2>6
<1>3. QED
  BY <1>1, <1>2, WidenStep, PTL DEF Spec

-----------------------------------------------------------------------------
\* vfconv.nvfp4.bf16.v

LEMMA SameScale == ASSUME NEW c PROVE Nvfp4Bf16!ScaleBf16(c) = ScaleBf16(c)
  BY DEF Nvfp4Bf16!ScaleBf16, ScaleBf16, Nvfp4Bf16!ScaleMsbPos, ScaleMsbPos,
     Nvfp4Bf16!BF16_QNAN, BF16_QNAN

LEMMA SameElt == ASSUME NEW c PROVE Nvfp4Bf16!E2M1_TO_BF16(c) = E2M1_TO_BF16(c)
  BY DEF Nvfp4Bf16!E2M1_TO_BF16, E2M1_TO_BF16

LEMMA SamePair ==
  ASSUME NEW elt, NEW c
  PROVE  Nvfp4Bf16!DecodeNvfp4(elt, c) = DecodeNvfp4(elt, c)
  BY SameScale, SameElt DEF Nvfp4Bf16!DecodeNvfp4, DecodeNvfp4

LEMMA SameMultiply == ASSUME NEW d PROVE Nvfp4Bf16!Multiply(d) = Multiply(d)
  BY DEF Nvfp4Bf16!Multiply, Multiply, Nvfp4Bf16!SInt10, SInt10, Nvfp4Bf16!ExpOfBf16, ExpOfBf16,
     Nvfp4Bf16!MantOfBf16, MantOfBf16, Nvfp4Bf16!BF16_QNAN, BF16_QNAN

LEMMA SamePack ==
  ASSUME NEW p
  PROVE  /\ Nvfp4Bf16!NormValue(p) = NormValue(p)
         /\ Nvfp4Bf16!ExpAdjusted(p) = ExpAdjusted(p)
         /\ Nvfp4Bf16!PackBf16(p) = PackBf16(p)
<1>1. Nvfp4Bf16!NormValue(p) = NormValue(p)
  BY DEF Nvfp4Bf16!NormValue, NormValue
<1>2. Nvfp4Bf16!MantissaRounded(p) = MantissaRounded(p)
  BY DEF Nvfp4Bf16!MantissaRounded, MantissaRounded, Nvfp4Bf16!RoundUp, RoundUp,
     Nvfp4Bf16!NormValue, NormValue
<1>3. Nvfp4Bf16!ExpAdjusted(p) = ExpAdjusted(p)
  BY <1>2 DEF Nvfp4Bf16!ExpAdjusted, ExpAdjusted, Nvfp4Bf16!SInt10, SInt10
<1>4. Nvfp4Bf16!PackBf16(p) = PackBf16(p)
  BY <1>2, <1>3 DEF Nvfp4Bf16!PackBf16, PackBf16
<1>5. QED
  BY <1>1, <1>3, <1>4

LEMMA SameValue ==
  ASSUME NEW elt, NEW c
  PROVE  /\ Nvfp4Bf16!nvfp4_decode_table(elt) = nvfp4_decode_table(elt)
         /\ Nvfp4Bf16!e4m3_decode(c) = e4m3_decode(c)
         /\ Nvfp4Bf16!NAN_E4M3(c) = NAN_E4M3(c)
         /\ Nvfp4Bf16!Bf16Pattern(c, 10) = Bf16Pattern(c, 10)
<1>1. Nvfp4Bf16!nvfp4_decode_table(elt) = nvfp4_decode_table(elt)
  BY DEF Nvfp4Bf16!nvfp4_decode_table, nvfp4_decode_table
<1>2. Nvfp4Bf16!NAN_E4M3(c) = NAN_E4M3(c)
  BY DEF Nvfp4Bf16!NAN_E4M3, NAN_E4M3
<1>3. Nvfp4Bf16!e4m3_decode(c) = e4m3_decode(c)
  BY DEF Nvfp4Bf16!e4m3_decode, e4m3_decode, Nvfp4Bf16!NAN_E4M3, NAN_E4M3
<1>4. Nvfp4Bf16!Bf16Pattern(c, 10) = Bf16Pattern(c, 10)
  BY DEF Nvfp4Bf16!Bf16Pattern, Bf16Pattern, Nvfp4Bf16!Log2Floor, Log2Floor
<1>5. QED
  BY <1>1, <1>2, <1>3, <1>4

\* Pair number n: its element and its scale.
PairOf(n) == n \in Nat /\ n < 4096
Decoded4(n) == DecodeNvfp4(n % 16, n \div 16)

LEMMA PairOfCodes ==
  ASSUME NEW n, PairOf(n)
  PROVE  Pair(n % 16, n \div 16)
  BY DEF PairOf, Pair

DequantInv ==
  /\ n_valid \in [1 .. 3 -> BOOLEAN]
  /\ PairOf(n_operand)
  /\ \A j \in 1 .. 3 : n_valid[j] => PairOf(n_source[j])
  /\ n_valid[1] => n_s1 = Decoded4(n_source[1])
  /\ n_valid[2] => n_s2 = Multiply(Decoded4(n_source[2]))
  /\ n_valid[3] => n_out = PackBf16(Multiply(Decoded4(n_source[3])))

LEMMA DequantInit == Nvfp4Bf16!Init => DequantInv
  BY DEF Nvfp4Bf16!Init, DequantInv, Nvfp4Bf16!Stages, Nvfp4Bf16!LAT, PairOf

LEMMA DequantClock ==
  ASSUME DequantInv, NEW v \in BOOLEAN, NEW r \in BOOLEAN, Nvfp4Bf16!Clock(v, r)
  PROVE  DequantInv'
<1>1. PICK fire \in BOOLEAN : fire = (v /\ r)
  OBVIOUS
<1>2. /\ n_valid' = [j \in 1 .. 3 |-> IF j = 1 THEN fire ELSE n_valid[j - 1]]
      /\ n_source' = [j \in 1 .. 3 |-> IF j = 1 THEN IF fire THEN n_operand ELSE -1
                                              ELSE n_source[j - 1]]
      /\ n_operand' = IF fire THEN (n_operand + 1) % 4096 ELSE n_operand
  BY <1>1 DEF Nvfp4Bf16!Clock, Nvfp4Bf16!Stages, Nvfp4Bf16!LAT, Nvfp4Bf16!NoOperand
<1>3. n_s1' = Decoded4(n_operand)
  <2>1. n_s1' = Nvfp4Bf16!DecodeNvfp4(n_operand % 16, n_operand \div 16)
    BY DEF Nvfp4Bf16!Clock, Nvfp4Bf16!Elt, Nvfp4Bf16!Scale
  <2>2. QED
    BY <2>1, SamePair DEF Decoded4
<1>4. n_s2' = Multiply(n_s1) /\ n_out' = PackBf16(n_s2)
  BY SameMultiply, SamePack DEF Nvfp4Bf16!Clock
<1>5. /\ n_valid'[1] = fire /\ n_source'[1] = (IF fire THEN n_operand ELSE -1)
      /\ n_valid'[2] = n_valid[1] /\ n_source'[2] = n_source[1]
      /\ n_valid'[3] = n_valid[2] /\ n_source'[3] = n_source[2]
      /\ n_valid' \in [1 .. 3 -> BOOLEAN]
  BY <1>2 DEF DequantInv
<1>6. PairOf(n_operand')
  BY <1>2 DEF DequantInv, PairOf
<1>7. \A j \in 1 .. 3 : n_valid'[j] => PairOf(n_source'[j])
  BY <1>5 DEF DequantInv
<1>8. /\ n_valid'[1] => n_s1' = Decoded4(n_source'[1])
      /\ n_valid'[2] => n_s2' = Multiply(Decoded4(n_source'[2]))
      /\ n_valid'[3] => n_out' = PackBf16(Multiply(Decoded4(n_source'[3])))
  BY <1>3, <1>4, <1>5 DEF DequantInv
<1>9. QED
  BY <1>5, <1>6, <1>7, <1>8 DEF DequantInv, PairOf, Decoded4

LEMMA DequantStep == DequantInv /\ [Next]_vars => DequantInv'
<1> SUFFICES ASSUME DequantInv, [Next]_vars PROVE DequantInv'
  OBVIOUS
<1>1. CASE Dequantise
  BY <1>1, DequantClock DEF Dequantise, Nvfp4Bf16!Next
<1>2. ASSUME UNCHANGED n_vars PROVE DequantInv'
  BY <1>2 DEF n_vars, DequantInv, PairOf, Decoded4
<1>3. QED
  BY <1>1, <1>2 DEF Next, Exponential, Widen, Narrow, vars

LEMMA DequantAlways == Spec => []DequantInv
<1>1. Init => DequantInv
  BY DequantInit DEF Init
<1>2. QED
  BY <1>1, DequantStep, PTL DEF Spec

\* A result of vfconv.nvfp4.bf16.v is the BF16 pattern of exactly the product
\* of the two C decode tables, with the sign of the product also on a zero,
\* and a NaN of that sign under a NaN scale: for every stream of pairs.
THEOREM LaneMultipliesExactly == Spec => []ExactProduct
<1>1. DequantInv => ExactProduct
  <2> SUFFICES ASSUME DequantInv, n_valid[3],
                      NEW elt, elt = n_source[3] % 16, NEW c, c = n_source[3] \div 16
               PROVE  n_out \div 32768 = SignOf(elt, c) /\ n_out % 32768 = PairMag(elt, c)
    BY SameValue, SMT
       DEF ExactProduct, Nvfp4Bf16!ExactProduct, Nvfp4Bf16!out_valid, Nvfp4Bf16!out_bits,
           Nvfp4Bf16!LAT, Nvfp4Bf16!Elt, Nvfp4Bf16!Scale, SignOf, PairMag, PairValue,
           Nvfp4Bf16!BF16_QNAN, BF16_QNAN
  <2>1. Pair(elt, c)
    BY PairOfCodes DEF DequantInv
  <2>2. n_out = PackBf16(Multiply(DecodeNvfp4(elt, c)))
    BY DEF DequantInv, Decoded4
  <2>3. PICK h \in 0 .. 1 : h = SignOf(elt, c)
    BY <2>1, PairSign
  <2>4. PICK v \in Nat : v = PairMag(elt, c) /\ v < 32768
    BY <2>1, PairPacked
  <2>5. n_out = h * 32768 + v
    BY <2>1, <2>2, <2>3, <2>4, PairPacked
  <2>6. (h * 32768 + v) \div 32768 = h /\ (h * 32768 + v) % 32768 = v
    BY <2>4
  <2>7. QED
    BY <2>3, <2>4, <2>5, <2>6
<1>2. QED
  BY <1>1, DequantAlways, PTL

\* Neither clamp of vfconv.nvfp4.bf16.v ever fires on a live product, its
\* ten-bit exponent accumulator never wraps and its rounding never discards
\* a bit, for every stream of pairs.
THEOREM ClampsNeverFire == Spec => []NoClampNoRounding
<1>1. DequantInv => NoClampNoRounding
  <2> SUFFICES ASSUME DequantInv, n_valid[2], ~n_s2.override_valid,
                      NEW elt, elt = n_source[2] % 16, NEW c, c = n_source[2] \div 16
               PROVE  /\ n_s2.exp_sum = ((E2M1_TO_BF16(elt) \div 128) % 256)
                                          + ((ScaleBf16(c) \div 128) % 256) - 127
                      /\ ExpAdjusted(n_s2) \in 1 .. 254
                      /\ NormValue(n_s2) % 256 = 0
    BY SameScale, SameElt, SamePack, SMT
       DEF NoClampNoRounding, Nvfp4Bf16!NoClampNoRounding, Nvfp4Bf16!Elt, Nvfp4Bf16!Scale
  <2>1. Pair(elt, c)
    BY PairOfCodes DEF DequantInv
  <2>2. n_s2 = Multiply(DecodeNvfp4(elt, c))
    BY DEF DequantInv, Decoded4
  <2>3. Live(elt, c)
    BY <2>1, <2>2, OverriddenProduct DEF Live
  <2>4. LiveProduct(n_s2, elt, c)
    BY <2>2, <2>3, LivePacks
  <2>5. PICK exp \in 1 .. 254, mant \in Nat : Packs(n_s2, exp, mant)
    BY <2>4, Zenon DEF LiveProduct, PacksExactly
  <2>6. QED
    BY <2>4, <2>5 DEF LiveProduct, Packs
<1>2. QED
  BY <1>1, DequantAlways, PTL

-----------------------------------------------------------------------------
\* vfexp.v, as a function of the operand

LEMMA SameProduct == ASSUME NEW a, NEW b PROVE Exp!MulRound30(a, b) = MulRound30(a, b)
  BY DEF Exp!MulRound30, MulRound30

LEMMA SameFields ==
  ASSUME NEW b
  PROVE  /\ Exp!XSign(b) = XSign(b) /\ Exp!XExp(b) = XExp(b)
         /\ Exp!XMan(b) = XMan(b) /\ Exp!XMag(b) = XMag(b)
  BY DEF Exp!XSign, XSign, Exp!XExp, XExp, Exp!XMan, XMan, Exp!XMag, XMag

LEMMA SameResults ==
  /\ Exp!FP32_PLUS_ZERO = FP32_PLUS_ZERO /\ Exp!FP32_PLUS_ONE = FP32_PLUS_ONE
  /\ Exp!FP32_PLUS_INF = FP32_PLUS_INF /\ Exp!FP32_QNAN = FP32_QNAN
  BY DEF Exp!FP32_PLUS_ZERO, FP32_PLUS_ZERO, Exp!FP32_PLUS_ONE, FP32_PLUS_ONE,
     Exp!FP32_PLUS_INF, FP32_PLUS_INF, Exp!FP32_QNAN, FP32_QNAN

\* The raised cases as a function of all that they depend on.
Hits(sign, exp, man, mag, zero, one, inf, qnan, high, low) ==
  {h \in { <<"nan", qnan>>, <<"pos_inf", inf>>, <<"neg_inf", zero>>,
            <<"zero_or_sub", one>>, <<"overflows", inf>>, <<"underflows", zero>> } :
     CASE h[1] = "nan"         -> exp = 255 /\ man # 0
       [] h[1] = "pos_inf"     -> (exp = 255 /\ man = 0) /\ ~(sign = 1)
       [] h[1] = "neg_inf"     -> (exp = 255 /\ man = 0) /\ sign = 1
       [] h[1] = "zero_or_sub" -> exp = 0
       [] h[1] = "overflows"   -> ~(sign = 1) /\ mag > high
       [] h[1] = "underflows"  -> sign = 1 /\ mag > low}

LEMMA SameHits == ASSUME NEW b PROVE Exp!SpecialHits(b) = SpecialHits(b)
<1>1. /\ Exp!OVERFLOW_THRESH_MAG = OVERFLOW_THRESH_MAG
      /\ Exp!UNDERFLOW_THRESH_MAG = UNDERFLOW_THRESH_MAG
  BY SMT DEF Exp!OVERFLOW_THRESH_MAG, OVERFLOW_THRESH_MAG, Exp!UNDERFLOW_THRESH_MAG,
         UNDERFLOW_THRESH_MAG
<1>2. SpecialHits(b) = Hits(XSign(b), XExp(b), XMan(b), XMag(b), FP32_PLUS_ZERO, FP32_PLUS_ONE,
        FP32_PLUS_INF, FP32_QNAN, OVERFLOW_THRESH_MAG, UNDERFLOW_THRESH_MAG)
  BY Zenon DEF SpecialHits, Hits
<1>3. Exp!SpecialHits(b) = Hits(Exp!XSign(b), Exp!XExp(b), Exp!XMan(b), Exp!XMag(b),
        Exp!FP32_PLUS_ZERO, Exp!FP32_PLUS_ONE, Exp!FP32_PLUS_INF, Exp!FP32_QNAN,
        Exp!OVERFLOW_THRESH_MAG, Exp!UNDERFLOW_THRESH_MAG)
  BY Zenon DEF Exp!SpecialHits, Hits
<1>4. QED
  BY <1>1, <1>2, <1>3, SameFields, SameResults

LEMMA SameRegisters ==
  /\ \A v, w : Exp!SInt(v, w) = SInt(v, w)
  /\ \A a, b : Exp!Add32(a, b) = Add32(a, b)
  /\ \A y : Exp!NIntWide(y) = NIntWide(y)
<1>1. \A v, w : Exp!SInt(v, w) = SInt(v, w)
  BY DEF Exp!SInt, SInt
<1>2. \A a, b : Exp!Add32(a, b) = Add32(a, b)
  BY <1>1 DEF Exp!Add32, Add32
<1>3. \A y : Exp!NIntWide(y) = NIntWide(y)
  BY DEF Exp!NIntWide, NIntWide
<1>4. QED
  BY <1>1, <1>2, <1>3

LEMMA SameExp ==
  ASSUME NEW b
  PROVE  /\ Exp!Overridden(b) = Overridden(b)
         /\ Exp!ToQ8_23(b) = ToQ8_23(b)
         /\ Exp!YQOf(b) = YQ(ToQ8_23(b))
         /\ Exp!PolyY(b) = PolyOf(RQ(YQ(ToQ8_23(b))))
         /\ \A n : Exp!NInt(n) = NInt(n)
         /\ \A y, n : Exp!ExpFinal(y, n) = ExpFinal(y, n)
         /\ Exp!ExpOf(b) = ExpOf(b)
<1>1. Exp!Overridden(b) = Overridden(b)
  BY SameHits DEF Exp!Overridden, Overridden
<1>2. Exp!ToQ8_23(b) = ToQ8_23(b)
  BY SameFields, SameRegisters DEF Exp!ToQ8_23, ToQ8_23
<1>3. \A q : Exp!YQ(q) = YQ(q)
  BY SameProduct, SameRegisters DEF Exp!YQ, YQ, Exp!LOG2E_Q1_30, LOG2E_Q1_30
<1>4. \A n : Exp!NInt(n) = NInt(n)
  BY SameRegisters DEF Exp!NInt, NInt
<1>5. \A q : Exp!RQ(q) = RQ(q)
  BY SameRegisters, SameProduct DEF Exp!RQ, RQ, Exp!LN2_Q2_30, LN2_Q2_30
<1>6. \A t, r, c : Exp!Horner(t, r, c) = Horner(t, r, c)
  BY SameProduct DEF Exp!Horner, Horner
<1>7. \A r : Exp!PolyOf(r) = PolyOf(r)
  BY <1>6 DEF Exp!PolyOf, PolyOf, Exp!C0, C0, Exp!C1, C1, Exp!C2, C2, Exp!C3, C3,
     Exp!C4, C4, Exp!C5, C5
<1>8. \A y, n : Exp!ExpFinal(y, n) = ExpFinal(y, n)
  BY DEF Exp!ExpFinal, ExpFinal
<1>9. \A y, n : Exp!Reconstruct(y, n) = Reconstruct(y, n)
  BY <1>8, SameResults DEF Exp!Reconstruct, Reconstruct
<1>10. Exp!Special(b) = Special(b)
  BY SameHits DEF Exp!Special, Special, Exp!Max, Max
<1>11. \A s, y, n : Exp!LaneOutput(s, y, n) = LaneOutput(s, y, n)
  BY <1>9 DEF Exp!LaneOutput, LaneOutput
<1>12. Exp!ExpOf(b) = ExpOf(b)
  BY <1>2, <1>3, <1>4, <1>5, <1>7, <1>10, <1>11 DEF Exp!ExpOf, ExpOf
<1>13. QED
  BY <1>1, <1>2, <1>3, <1>4, <1>5, <1>7, <1>8, <1>12 DEF Exp!YQOf, Exp!PolyY

SweepInv == x \in Nat /\ x < 65536 /\ out = ExpOf(x)

LEMMA SweepAlways == Spec => []SweepInv
<1>1. Init => SweepInv
  BY SameExp DEF Init, Exp!Init, SweepInv
<1>2. SweepInv /\ [Next]_vars => SweepInv'
  <2> SUFFICES ASSUME SweepInv, [Next]_vars PROVE SweepInv'
    OBVIOUS
  <2>1. CASE Exponential
    <3>1. x % 32768 < 32767 /\ x' = x + 1 /\ out' = ExpOf(x + 1)
      BY <2>1, SameExp DEF Exponential, Exp!Step
    <3>2. x + 1 \in Nat /\ x + 1 < 65536
      BY <3>1 DEF SweepInv
    <3>3. QED
      BY <3>1, <3>2 DEF SweepInv
  <2>2. ASSUME UNCHANGED e_vars PROVE SweepInv'
    BY <2>2 DEF e_vars, SweepInv
  <2>3. QED
    BY <2>1, <2>2 DEF Next, Widen, Narrow, Dequantise, vars
<1>3. QED
  BY <1>1, <1>2, PTL DEF Spec

\* NaN, infinities, zeros, subnormals and operands out of range: vfexp.v gives
\* each of them its special result although Mux1H mixes the results of every
\* flag that is up, for every operand of the sweep.
THEOREM SpecialOperands == Spec => []SpecialResults
<1>1. SweepInv => SpecialResults
  <2> SUFFICES ASSUME SweepInv PROVE SpecialResults
    OBVIOUS
  <2>1. x \in Nat /\ x < 65536 /\ out = ExpOf(x)
    BY DEF SweepInv
  <2>2. QED
    BY <2>1, SpecialValues, SameFields, SameResults DEF SpecialResults, Exp!SpecialResults
<1>2. QED
  BY <1>1, SweepAlways, PTL

\* The reconstruction of vfexp.v gets only polynomial values whose leading one
\* is at bit 29 or 30 and exponents that need neither clamp, for every operand
\* of the sweep.
THEOREM ReconstructsOperands == Spec => []ReconstructInRange
<1>1. SweepInv => ReconstructInRange
  <2> SUFFICES ASSUME SweepInv, ~Overridden(x)
               PROVE  /\ PolyOf(RQ(YQ(ToQ8_23(x)))) >= 536870912
                      /\ ExpFinal(PolyOf(RQ(YQ(ToQ8_23(x)))), NInt(YQ(ToQ8_23(x)))) \in 1 .. 254
    BY SameExp, SMT DEF ReconstructInRange, Exp!ReconstructInRange
  <2>1. x \in Nat
    BY DEF SweepInv
  <2>2. QED
    BY <2>1, ReconstructsInRange
<1>2. QED
  BY <1>1, SweepAlways, PTL

\* The results of vfexp.v are monotone over the operands of either sign,
\* across the points where the exponent of two of the reconstruction steps and
\* where computed results meet special ones, for every step of the sweep but
\* those from or to an operand whose shift amount does not fit five bits.
THEOREM ResultsMonotone == Spec => Monotone
<1> DEFINE From == Exp!Computed(x) \/ Exp!XMag(x) > Exp!OVERFLOW_THRESH_MAG \/ Exp!XExp(x) = 0
           To   == ~Exp!Tiny(x) /\ Exp!XMag(x) <= Exp!FP32_PLUS_INF
<1>1. ASSUME SweepInv, Exponential, From, To'
      PROVE  IF Exp!XSign(x) = 0 THEN out <= out' ELSE out >= out'
  <2>1. x \in Nat /\ x < 65536 /\ out = ExpOf(x)
    BY <1>1 DEF SweepInv
  <2>2. x % 32768 < 32767 /\ x' = x + 1 /\ out' = ExpOf(x + 1)
    BY <1>1, SameExp DEF Exponential, Exp!Step
  <2>3. Follower(x)
    <3>1. CASE Exp!Computed(x)
      <4>1. ~Overridden(x) /\ ~(XExp(x) \in 1 .. 95)
        BY <3>1, SameExp, SameFields DEF Exp!Computed, Exp!Tiny, Exp!TinyExp
      <4>2. XExp(x) \in 1 .. 133
        BY <2>1, <4>1, OperandInRange
      <4>3. 96 <= XExp(x)
        BY <4>1, <4>2
      <4>4. QED
        BY <4>1, <4>3 DEF Follower
    <3>2. CASE Exp!XMag(x) > Exp!OVERFLOW_THRESH_MAG
      <4>1. x % 32768 > 17072
        BY <2>1, <3>2, SMT DEF Exp!XMag, Exp!OVERFLOW_THRESH_MAG
      <4>2. QED
        BY <4>1 DEF Follower
    <3>3. CASE Exp!XExp(x) = 0
      BY <3>3, SameFields DEF Follower
    <3>4. QED
      BY <1>1, <3>1, <3>2, <3>3
  <2>4. ~(XExp(x + 1) \in 1 .. 95)
    BY <1>1, <2>2, SameFields DEF Exp!Tiny, Exp!TinyExp
  <2>5. x % 32768 < 32640
    <3>1. ((x + 1) % 32768) * 65536 <= 2139095040
      BY <1>1, <2>2, SMT DEF Exp!XMag, Exp!FP32_PLUS_INF
    <3>2. QED
      BY <2>1, <2>2, <3>1, SMT
  <2>6. Ordered(x)
    BY <2>1, <2>3, <2>4, <2>5, ExpOrdered
  <2>7. QED
    BY <2>1, <2>2, <2>6, SameFields DEF Ordered
<1>2. [Next]_vars => Exponential \/ UNCHANGED Exp!vars
  BY DEF Next, Widen, Narrow, Dequantise, vars, e_vars, Exp!vars
<1>3. SweepInv /\ [Next]_vars =>
        [/\ Exp!Computed(x) \/ Exp!XMag(x) > Exp!OVERFLOW_THRESH_MAG \/ Exp!XExp(x) = 0
         /\ ~Exp!Tiny(x') /\ Exp!XMag(x') <= Exp!FP32_PLUS_INF
         => IF Exp!XSign(x) = 0 THEN out <= out' ELSE out >= out']_(Exp!vars)
  BY <1>1, <1>2
<1>4. QED
  BY <1>3, SweepAlways, PTL DEF Spec, Monotone, Exp!Monotone

\* Between 2^-12 and 2^-6 in magnitude the result of vfexp.v is 1 + x + x^2/2,
\* for every operand of the sweep: sixteen times closer, in fact, than the
\* property asks.
THEOREM SlopeIsOne == Spec => []SlopeAtZero
<1>1. SweepInv => SlopeAtZero
  <2> SUFFICES ASSUME SweepInv, XExp(x) \in 115 .. 120
               PROVE  LET u     == 2 * ToQ8_23(x)
                          u2    == ((u \div 32) * (u \div 32)) \div 32768
                          value == IF Exp!Expo(out) = 127 THEN 2 * Exp!Mant(out) ELSE Exp!Mant(out)
                      IN  /\ Exp!Expo(out) \in {126, 127}
                          /\ value - (16777216 + u + u2) \in -256 .. 256
    BY SameFields, SameExp, SMT DEF SlopeAtZero, Exp!SlopeAtZero
  <2>1. x \in Nat /\ x < 65536 /\ out = ExpOf(x)
    BY DEF SweepInv
  <2>2. /\ Exp!Expo(out) = ExpoOf(out)
        /\ (IF Exp!Expo(out) = 127 THEN 2 * Exp!Mant(out) ELSE Exp!Mant(out)) = NearValue(out)
    BY DEF Exp!Expo, Exp!Mant, ExpoOf, MantOf, NearValue
  <2>3. PICK u : u = 2 * ToQ8_23(x)
    OBVIOUS
  <2>4. ExpoOf(out) \in {126, 127} /\ NearValue(out) - (16777216 + u + HalfSquare(u)) \in -16 .. 16
    BY <2>1, <2>3, SlopeNearZero, SMT
  <2>5. NearValue(out) - (16777216 + u + HalfSquare(u)) \in -256 .. 256
    BY <2>4, SMT
  <2>6. QED
    BY <2>2, <2>3, <2>4, <2>5, SMT DEF HalfSquare
<1>2. QED
  BY <1>1, SweepAlways, PTL

\* Where vfexp.v computes the results for an operand and for twice the operand
\* the second is the square of the first, to within three times the target of
\* the lane: for every such pair of operands, across every boundary of the
\* range reduction.
THEOREM SquareIsDouble == Spec => []Doubling
<1>1. SweepInv => Doubling
  <2> SUFFICES ASSUME SweepInv, Exp!Computed(x), Exp!Computed(x + 128)
               PROVE  LET o2     == Exp!ExpOf(x + 128)
                          square == Exp!MulRound30(Exp!Mant(out) * 64, Exp!Mant(out) * 64)
                          d      == Exp!Expo(o2) - 2 * Exp!Expo(out) + 127
                          twice  == Exp!Mant(o2) * 2 ^ (5 + d)
                          diff   == square - twice
                      IN  /\ d \in -1 .. 2
                          /\ diff \in -(3 * Exp!Target) .. 3 * Exp!Target
    BY DEF Doubling, Exp!Doubling
  <2>1. x \in Nat /\ x + 128 \in Nat /\ out = ExpOf(x)
    BY DEF SweepInv
  <2>2. ~Overridden(x) /\ ~Overridden(x + 128) /\ ~(XExp(x) \in 1 .. 95)
    BY SameExp, SameFields DEF Exp!Computed, Exp!Tiny, Exp!TinyExp
  <2>3. 96 <= XExp(x)
    BY <2>1, <2>2, OperandInRange, SMT
  <2>4. PICK o2 : ExpOf(x + 128) = o2 /\ Exp!ExpOf(x + 128) = o2
    BY SameExp
  <2>5. ResultsDouble(out, o2)
    BY <2>1, <2>2, <2>3, <2>4, ExpDoubles
  <2>6. \A o : Exp!Expo(o) = ExpoOf(o) /\ Exp!Mant(o) = MantOf(o)
    BY DEF Exp!Expo, Exp!Mant, ExpoOf, MantOf
  <2>7. PICK d, e : d = Gap(out, o2)
               /\ e = MulRound30(MantOf(out) * 64, MantOf(out) * 64) - MantOf(o2) * 2 ^ (5 + d)
    OBVIOUS
  <2>8. d \in -1 .. 2 /\ Agrees(e)
    BY <2>5, <2>7 DEF ResultsDouble
  <2>9. e \in -(3 * Exp!Target) .. 3 * Exp!Target
    <3>1. 3 * Exp!Target \in Int /\ 3 * Exp!Target = 49152
      BY SMT DEF Exp!Target
    <3>2. e \in Int /\ -(3 * Exp!Target) <= e /\ e <= 3 * Exp!Target
      BY <2>8, <3>1, SMT DEF Agrees
    <3>3. QED
      BY <3>1, <3>2, IsWithin DEF Within
  <2>10. d = Exp!Expo(o2) - 2 * Exp!Expo(out) + 127
    BY <2>6, <2>7 DEF Gap
  <2>11. e = Exp!MulRound30(Exp!Mant(out) * 64, Exp!Mant(out) * 64) - Exp!Mant(o2) * 2 ^ (5 + d)
    BY <2>6, <2>7, SameProduct
  <2>12. QED
    BY <2>4, <2>8, <2>9, <2>10, <2>11
<1>2. QED
  BY <1>1, SweepAlways, PTL

-----------------------------------------------------------------------------
\* The block quantiser of bench_fa_common.h, for blocks of any even length and
\* any elements in range.

\* The largest magnitude of the elements seen, the scale chosen from it, and
\* the bytes stored so far.
Seen(e)   == pc # "max" \/ e < i
Stored(b) == pc = "done" \/ (pc = "pack" /\ b < i)
ByteOf(b) == CodeFor(in_fp32[2 * b], out_scale, GRAIN) * 16 + CodeFor(in_fp32[2 * b - 1], out_scale, GRAIN)

BlockTypes ==
  /\ in_fp32 \in [Elements -> Values]
  /\ pc \in {"max", "pack", "done"}
  /\ i \in Nat \ {0}
  /\ InRange(amax, GRAIN)
  /\ DOMAIN out_packed = Bytes
MaxCovers  == \A e \in Elements : Seen(e) => Size(in_fp32[e]) <= amax
ScaleFits  == pc # "max" => out_scale = scale_byte(amax, GRAIN)
BytesHold  == \A b \in Bytes : Stored(b) => out_packed[b] = ByteOf(b)
BlockInv   == BlockTypes /\ MaxCovers /\ ScaleFits /\ BytesHold

LEMMA SizeOfElement ==
  ASSUME NEW v \in Values
  PROVE  v \in Int /\ InRange(Size(v), GRAIN) /\ Magnitude(v) = Size(v)
<1>1. v \in Int /\ -(4000 * GRAIN) <= v /\ v <= 4000 * GRAIN
  BY ValuesAssumption, GrainAssumption
<1>2. Magnitude(v) = Size(v)
  BY DEF Magnitude, Size
<1>3. QED
  BY <1>1, <1>2, GrainAssumption DEF Size, InRange

LEMMA BlockStep == ASSUME BlockInv, [BlockNext]_block_vars PROVE BlockInv'
<1>1. CASE MaxStep
  <2> USE <1>1
  <2>1. i \in Elements
    BY BlockAssumption DEF MaxStep, BlockInv, BlockTypes, Elements
  <2>2. PICK v \in Values : in_fp32[i] = v
    BY <2>1 DEF BlockInv, BlockTypes
  <2>3. v \in Int /\ InRange(Size(v), GRAIN) /\ Magnitude(v) = Size(v)
    BY SizeOfElement
  <2>4. Size(v) \in Int
    BY <2>3 DEF Size
  <2>5. amax' = IF Size(v) > amax THEN Size(v) ELSE amax
    BY <2>2, <2>3 DEF MaxStep
  <2>6. amax' \in Int /\ amax <= amax' /\ Size(v) <= amax'
    BY <2>4, <2>5 DEF BlockInv, BlockTypes, InRange
  <2>7. InRange(amax', GRAIN)
    BY <2>3, <2>5 DEF BlockInv, BlockTypes
  <2>8. BlockTypes'
    BY <2>6, <2>7 DEF MaxStep, BlockInv, BlockTypes, Elements, Bytes
  <2>9. MaxCovers'
    <3> SUFFICES ASSUME NEW e \in Elements, e < i + 1 PROVE Size(in_fp32[e]) <= amax'
      BY DEF MaxCovers, Seen, MaxStep, Elements
    <3>1. CASE e = i
      BY <3>1, <2>2, <2>6
    <3>2. CASE e < i
      <4>1. Size(in_fp32[e]) <= amax
        BY <3>2 DEF BlockInv, MaxCovers, Seen
      <4>2. in_fp32[e] \in Values
        BY DEF BlockInv, BlockTypes
      <4>3. Size(in_fp32[e]) \in Int
        BY <4>2, SizeOfElement DEF InRange
      <4>4. QED
        BY <4>1, <4>3, <2>6 DEF BlockInv, BlockTypes, InRange
    <3>3. QED
      BY <3>1, <3>2 DEF BlockInv, BlockTypes, Elements
  <2>10. ScaleFits' /\ BytesHold'
    BY DEF ScaleFits, BytesHold, Stored, MaxStep
  <2>11. QED
    BY <2>8, <2>9, <2>10 DEF BlockInv
<1>2. CASE ChooseScale
  <2> USE <1>2
  <2>1. BlockTypes'
    BY DEF ChooseScale, BlockInv, BlockTypes, Elements, Bytes
  <2>2. MaxCovers'
    BY BlockAssumption DEF ChooseScale, BlockInv, BlockTypes, MaxCovers, Seen, Elements
  <2>3. ScaleFits'
    BY DEF ChooseScale, ScaleFits
  <2>4. BytesHold'
    BY DEF ChooseScale, BytesHold, Stored, Bytes
  <2>5. QED
    BY <2>1, <2>2, <2>3, <2>4 DEF BlockInv
<1>3. CASE PackStep
  <2> USE <1>3
  <2>1. out_packed' = [out_packed EXCEPT ![i] = ByteOf(i)]
    BY DEF PackStep, ByteOf, Packed, CodeFor
  <2>2. BlockTypes'
    BY <2>1 DEF PackStep, BlockInv, BlockTypes, Elements, Bytes
  <2>3. MaxCovers' /\ ScaleFits'
    BY DEF PackStep, BlockInv, MaxCovers, Seen, ScaleFits, Elements
  <2>4. BytesHold'
    <3> SUFFICES ASSUME NEW b \in Bytes, b < i + 1 PROVE out_packed'[b] = ByteOf(b)
      BY DEF BytesHold, Stored, ByteOf, PackStep, Bytes
    <3>1. CASE b = i
      BY <3>1, <2>1 DEF BlockInv, BlockTypes
    <3>2. CASE b < i
      <4>1. out_packed[b] = ByteOf(b)
        BY <3>2 DEF BlockInv, BytesHold, Stored, PackStep
      <4>2. b # i
        BY <3>2 DEF BlockInv, BlockTypes, Bytes
      <4>3. QED
        BY <2>1, <4>1, <4>2 DEF BlockInv, BlockTypes
    <3>3. QED
      BY <3>1, <3>2 DEF BlockInv, BlockTypes, Bytes
  <2>5. QED
    BY <2>2, <2>3, <2>4 DEF BlockInv
<1>4. CASE Return
  <2> USE <1>4
  <2>1. BlockTypes' /\ MaxCovers' /\ ScaleFits'
    BY DEF Return, BlockInv, BlockTypes, MaxCovers, Seen, ScaleFits, Elements, Bytes
  <2>2. BytesHold'
    <3> SUFFICES ASSUME NEW b \in Bytes PROVE out_packed[b] = ByteOf(b)
      BY DEF BytesHold, ByteOf, Return, Bytes
    <3>1. b \in Int /\ b <= BLOCK \div 2 /\ BLOCK \div 2 \in Int
      BY BlockAssumption DEF Bytes
    <3>2. b < i
      BY <3>1 DEF Return, BlockInv, BlockTypes
    <3>3. QED
      BY <3>2 DEF BlockInv, BytesHold, Stored, Return
  <2>3. QED
    BY <2>1, <2>2 DEF BlockInv
<1>5. CASE UNCHANGED block_vars
  BY <1>5 DEF block_vars, BlockInv, BlockTypes, MaxCovers, Seen, ScaleFits, BytesHold, Stored, ByteOf,
     Elements, Bytes
<1>6. QED
  BY <1>1, <1>2, <1>3, <1>4, <1>5 DEF BlockNext

LEMMA BlockAlways == BlockSpec => []BlockInv
<1>1. BlockInit => BlockInv
  <2> SUFFICES ASSUME BlockInit PROVE BlockInv
    OBVIOUS
  <2>1. BlockTypes
    BY GrainAssumption DEF BlockInit, BlockTypes, InRange
  <2>2. MaxCovers
    BY BlockAssumption DEF BlockInit, MaxCovers, Seen, Elements
  <2>3. ScaleFits /\ BytesHold
    BY DEF BlockInit, ScaleFits, BytesHold, Stored
  <2>4. QED
    BY <2>1, <2>2, <2>3 DEF BlockInv
<1>2. BlockInv /\ [BlockNext]_block_vars => BlockInv'
  BY BlockStep
<1>3. QED
  BY <1>1, <1>2, PTL DEF BlockSpec

\* What is decoded from the stored bytes.
LEMMA ElementStored ==
  ASSUME BlockInv, pc = "done", NEW e \in Elements
  PROVE  dequant_row(e) = ElementOf(in_fp32[e], out_scale, GRAIN)
<1>1. PICK b \in Bytes : b = (e + 1) \div 2 /\ (e = 2 * b \/ e = 2 * b - 1)
  <2>1. e \in Int /\ 1 <= e /\ e <= BLOCK /\ BLOCK \in Int /\ BLOCK % 2 = 0
    BY BlockAssumption DEF Elements
  <2>2. (e + 1) \div 2 \in 1 .. BLOCK \div 2
    BY <2>1
  <2>3. e = 2 * ((e + 1) \div 2) \/ e = 2 * ((e + 1) \div 2) - 1
    BY <2>1
  <2>4. QED
    BY <2>2, <2>3 DEF Bytes
<1>2. b \in Int /\ 2 * b \in Elements /\ 2 * b - 1 \in Elements
  BY BlockAssumption DEF Bytes, Elements
<1>3. ScaleFor(out_scale, amax, GRAIN)
  BY GrainAssumption, ScaleIsFor DEF BlockInv, BlockTypes, ScaleFits
<1>4. ASSUME NEW f \in Elements PROVE CodeFor(in_fp32[f], out_scale, GRAIN) \in 0 .. 15
  <2>1. PICK v \in Values : in_fp32[f] = v
    BY DEF BlockInv, BlockTypes
  <2>2. v \in Int
    BY SizeOfElement
  <2>3. Size(v) <= amax
    BY <2>1 DEF BlockInv, MaxCovers, Seen
  <2>4. QED
    BY <1>3, <2>1, <2>2, <2>3, GrainAssumption, ElementDecodes DEF BlockInv, BlockTypes, InRange
<1>5. PICK hi \in 0 .. 15, lo \in 0 .. 15 :
        CodeFor(in_fp32[2 * b], out_scale, GRAIN) = hi /\ CodeFor(in_fp32[2 * b - 1], out_scale, GRAIN) = lo
  BY <1>2, <1>4
<1>6. out_packed[b] = hi * 16 + lo
  BY <1>5 DEF BlockInv, BytesHold, Stored, ByteOf
<1>7. (hi * 16 + lo) % 16 = lo /\ (hi * 16 + lo) \div 16 = hi
  OBVIOUS
<1>8. Nibble(e) = IF e % 2 = 1 THEN lo ELSE hi
  BY <1>1, <1>6, <1>7 DEF Nibble
<1>9. Nibble(e) = CodeFor(in_fp32[e], out_scale, GRAIN)
  <2>1. CASE e = 2 * b
    <3>1. e % 2 # 1
      BY <1>2, <2>1
    <3>2. QED
      BY <1>5, <1>8, <2>1, <3>1
  <2>2. CASE e = 2 * b - 1
    <3>1. e % 2 = 1
      BY <1>2, <2>2
    <3>2. QED
      BY <1>5, <1>8, <2>2, <3>1
  <2>3. QED
    BY <1>1, <2>1, <2>2
<1>10. QED
  BY <1>9 DEF dequant_row, ElementOf

\* What a kernel decodes of a block is each element to within one scale, or to
\* within 6 + 3/32 units of 2^-10 where the scale is a rounded subnormal, for a
\* block of any even length and for elements on every grid, however fine.
THEOREM BlockErrorBounded == BlockSpec => []BlockError
<1>1. BlockInv => BlockError
  <2> SUFFICES ASSUME BlockInv, pc = "done", NEW e \in Elements
               PROVE  LET err == Magnitude(in_fp32[e] - dequant_row(e))
                      IN  err <= 2 * (e4m3_decode(out_scale) * GRAIN) \/ 32 * err <= 195 * GRAIN
    BY DEF BlockError
  <2>1. ScaleFor(out_scale, amax, GRAIN)
    BY GrainAssumption, ScaleIsFor DEF BlockInv, BlockTypes, ScaleFits
  <2>2. PICK v \in Values : in_fp32[e] = v
    BY DEF BlockInv, BlockTypes
  <2>3. v \in Int /\ Size(v) <= amax /\ amax \in Int
    BY <2>2, SizeOfElement DEF BlockInv, BlockTypes, InRange, MaxCovers, Seen
  <2>4. \/ Size(v - ElementOf(v, out_scale, GRAIN)) <= 2 * (e4m3_decode(out_scale) * GRAIN)
        \/ 32 * Size(v - ElementOf(v, out_scale, GRAIN)) <= 195 * GRAIN
    BY <2>1, <2>3, GrainAssumption, ElementDecodes
  <2>5. dequant_row(e) = ElementOf(v, out_scale, GRAIN)
    BY <2>2, ElementStored
  <2>6. QED
    BY <2>2, <2>4, <2>5 DEF Magnitude, Size
<1>2. QED
  BY <1>1, BlockAlways, PTL

\* And decoding keeps the order of the elements of a block.
THEOREM OrderIsKept == BlockSpec => []OrderKept
<1>1. BlockInv => OrderKept
  <2> SUFFICES ASSUME BlockInv, pc = "done", NEW e \in Elements, NEW f \in Elements,
                      in_fp32[e] <= in_fp32[f]
               PROVE  dequant_row(e) <= dequant_row(f)
    BY DEF OrderKept
  <2>1. ScaleFor(out_scale, amax, GRAIN)
    BY GrainAssumption, ScaleIsFor DEF BlockInv, BlockTypes, ScaleFits
  <2>2. PICK v \in Values, w \in Values : in_fp32[e] = v /\ in_fp32[f] = w
    BY DEF BlockInv, BlockTypes
  <2>3. v \in Int /\ w \in Int
    BY SizeOfElement
  <2>4. ElementOf(v, out_scale, GRAIN) <= ElementOf(w, out_scale, GRAIN)
    BY <2>1, <2>2, <2>3, GrainAssumption, ElementsOrdered
  <2>5. QED
    BY <2>2, <2>4, ElementStored
<1>2. QED
  BY <1>1, BlockAlways, PTL
=============================================================================
