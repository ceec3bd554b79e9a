-------------------------- MODULE ArithmeticProofs --------------------------
(***************************************************************************)
(* Facts about the arithmetic of the lanes and of the conversions of the   *)
(* benches (ExpArith, ConvArith, BenchCommon), for every operand.          *)
(*                                                                         *)
(* A power of two is named Pow where its value matters, so that an         *)
(* equation for the exponent can be used under it; a range with large ends *)
(* is named Within for the same reason.                                    *)
(***************************************************************************)
EXTENDS ExpArith, ConvArith, BenchCommon, FiniteSetTheorems, TLAPS

Pow(k) == 2 ^ k

LEMMA Powers ==
  /\ Pow(0) = 1 /\ Pow(1) = 2 /\ Pow(2) = 4 /\ Pow(3) = 8
  /\ Pow(4) = 16 /\ Pow(5) = 32 /\ Pow(6) = 64 /\ Pow(7) = 128
  /\ Pow(8) = 256 /\ Pow(9) = 512 /\ Pow(10) = 1024 /\ Pow(11) = 2048
  /\ Pow(12) = 4096 /\ Pow(13) = 8192 /\ Pow(14) = 16384 /\ Pow(15) = 32768
  /\ Pow(16) = 65536 /\ Pow(17) = 131072 /\ Pow(18) = 262144 /\ Pow(19) = 524288
  /\ Pow(20) = 1048576 /\ Pow(21) = 2097152 /\ Pow(22) = 4194304 /\ Pow(23) = 8388608
  /\ Pow(24) = 16777216 /\ Pow(25) = 33554432 /\ Pow(26) = 67108864 /\ Pow(27) = 134217728
  /\ Pow(28) = 268435456 /\ Pow(29) = 536870912 /\ Pow(30) = 1073741824
  BY DEF Pow

LEMMA PowPositive ==
  ASSUME NEW k \in 0 .. 30
  PROVE  Pow(k) \in Nat \ {0}
<1>1. \/ k = 0 \/ k = 1 \/ k = 2 \/ k = 3 \/ k = 4 \/ k = 5 \/ k = 6 \/ k = 7
      \/ k = 8 \/ k = 9 \/ k = 10 \/ k = 11 \/ k = 12 \/ k = 13 \/ k = 14 \/ k = 15
      \/ k = 16 \/ k = 17 \/ k = 18 \/ k = 19 \/ k = 20 \/ k = 21 \/ k = 22 \/ k = 23
      \/ k = 24 \/ k = 25 \/ k = 26 \/ k = 27 \/ k = 28 \/ k = 29 \/ k = 30
  OBVIOUS
<1>2. QED
  BY <1>1, Powers

LEMMA PowDouble ==
  ASSUME NEW k \in 0 .. 29
  PROVE  Pow(k + 1) = 2 * Pow(k)
<1>1. \/ k = 0 \/ k = 1 \/ k = 2 \/ k = 3 \/ k = 4 \/ k = 5 \/ k = 6 \/ k = 7
      \/ k = 8 \/ k = 9 \/ k = 10 \/ k = 11 \/ k = 12 \/ k = 13 \/ k = 14 \/ k = 15
      \/ k = 16 \/ k = 17 \/ k = 18 \/ k = 19 \/ k = 20 \/ k = 21 \/ k = 22 \/ k = 23
      \/ k = 24 \/ k = 25 \/ k = 26 \/ k = 27 \/ k = 28 \/ k = 29
  OBVIOUS
<1>2. QED
  BY <1>1, Powers

\* The product formed from 15-bit limbs is the rounded product.
LEMMA LimbSum ==
  ASSUME NEW hh \in Int, NEW m1 \in Int, NEW m2 \in Int, NEW ll \in Int
  PROVE  hh + m1 \div 32768 + m2 \div 32768
           + ((m1 % 32768) + (m2 % 32768) + (ll + 536870912) \div 32768) \div 32768
         = (hh * 1073741824 + (m1 + m2) * 32768 + ll + 536870912) \div 1073741824
  OBVIOUS

LEMMA LimbProduct ==
  ASSUME NEW ah \in Int, NEW al \in Int, NEW bh \in Int, NEW bl \in Int
  PROVE  (ah * 32768 + al) * (bh * 32768 + bl)
           = (ah * bh) * 1073741824 + (ah * bl + al * bh) * 32768 + al * bl
  OBVIOUS

LEMMA RoundedProduct ==
  ASSUME NEW a \in Int, NEW b \in Int
  PROVE  MulRound30(a, b) = (a * b + 536870912) \div 1073741824
<1>1. PICK ah \in Int, al \in Int, bh \in Int, bl \in Int :
        /\ ah = a \div 32768 /\ al = a % 32768
        /\ bh = b \div 32768 /\ bl = b % 32768
  OBVIOUS
<1>2. a = ah * 32768 + al /\ b = bh * 32768 + bl
  BY <1>1
<1>3. PICK hh \in Int, m1 \in Int, m2 \in Int, ll \in Int :
        hh = ah * bh /\ m1 = ah * bl /\ m2 = al * bh /\ ll = al * bl
  OBVIOUS
<1>4. a * b = hh * 1073741824 + (m1 + m2) * 32768 + ll
  BY <1>2, <1>3, LimbProduct
<1>5. MulRound30(a, b) = hh + m1 \div 32768 + m2 \div 32768
        + ((m1 % 32768) + (m2 % 32768) + (ll + 536870912) \div 32768) \div 32768
  BY <1>1, <1>3 DEF MulRound30
<1>6. QED
  BY <1>4, <1>5, LimbSum

\* The table of the special cases and its selection, one case at a time.
Cases ==
  { <<"nan", FP32_QNAN>>, <<"pos_inf", FP32_PLUS_INF>>,
    <<"neg_inf", FP32_PLUS_ZERO>>, <<"zero_or_sub", FP32_PLUS_ONE>>,
    <<"overflows", FP32_PLUS_INF>>, <<"underflows", FP32_PLUS_ZERO>> }
Selected(x, h) ==
  CASE h[1] = "nan"         -> XExp(x) = 255 /\ XMan(x) # 0
    [] h[1] = "pos_inf"     -> (XExp(x) = 255 /\ XMan(x) = 0) /\ ~(XSign(x) = 1)
    [] h[1] = "neg_inf"     -> (XExp(x) = 255 /\ XMan(x) = 0) /\ XSign(x) = 1
    [] h[1] = "zero_or_sub" -> XExp(x) = 0
    [] h[1] = "overflows"   -> ~(XSign(x) = 1) /\ XMag(x) > OVERFLOW_THRESH_MAG
    [] h[1] = "underflows"  -> XSign(x) = 1 /\ XMag(x) > UNDERFLOW_THRESH_MAG

LEMMA HitsSelected ==
  ASSUME NEW x
  PROVE  SpecialHits(x) = {h \in Cases : Selected(x, h)}
  BY Zenon DEF SpecialHits, Cases, Selected

\* Three of the flags, each of which overrides the result.
LEMMA Caught ==
  ASSUME NEW x \in Nat,
         \/ XExp(x) = 0
         \/ XSign(x) # 1 /\ XMag(x) > OVERFLOW_THRESH_MAG
         \/ XSign(x) = 1 /\ XMag(x) > UNDERFLOW_THRESH_MAG
  PROVE  Overridden(x)
<1>1. ASSUME NEW h \in Cases, Selected(x, h) PROVE Overridden(x)
  BY <1>1, HitsSelected, Zenon DEF Overridden
<1>2. CASE XExp(x) = 0
  <2>1. PICK h : h = <<"zero_or_sub", FP32_PLUS_ONE>>
    OBVIOUS
  <2>2. h \in Cases /\ Selected(x, h)
    BY <1>2, <2>1, SMT DEF Cases, Selected
  <2>3. QED
    BY <1>1, <2>2
<1>3. CASE XSign(x) # 1 /\ XMag(x) > OVERFLOW_THRESH_MAG
  <2>1. PICK h : h = <<"overflows", FP32_PLUS_INF>>
    OBVIOUS
  <2>2. h \in Cases /\ Selected(x, h)
    BY <1>3, <2>1, SMT DEF Cases, Selected
  <2>3. QED
    BY <1>1, <2>2
<1>4. CASE XSign(x) = 1 /\ XMag(x) > UNDERFLOW_THRESH_MAG
  <2>1. PICK h : h = <<"underflows", FP32_PLUS_ZERO>>
    OBVIOUS
  <2>2. h \in Cases /\ Selected(x, h)
    BY <1>4, <2>1, SMT DEF Cases, Selected
  <2>3. QED
    BY <1>1, <2>2
<1>5. QED
  BY <1>2, <1>3, <1>4

\* An operand that no special case catches is between -87 and 88.
LEMMA OperandInRange ==
  ASSUME NEW x \in Nat, ~Overridden(x)
  PROVE  /\ XExp(x) \in 1 .. 133
         /\ XMan(x) \in Nat /\ XMan(x) < 8388608
         /\ XExp(x) = 133 => XMan(x) <= 3145728
<1>1. /\ XExp(x) \in 0 .. 255
      /\ XMan(x) \in Nat /\ XMan(x) < 8388608
      /\ XMag(x) = XExp(x) * 8388608 + XMan(x)
  BY SMT DEF XExp, XMan, XMag
<1>2. /\ XExp(x) # 0
      /\ XSign(x) # 1 => ~(XMag(x) > OVERFLOW_THRESH_MAG)
      /\ XSign(x) = 1 => ~(XMag(x) > UNDERFLOW_THRESH_MAG)
  BY Caught
<1>3. XMag(x) <= 1118830592
  BY <1>1, <1>2, SMT DEF OVERFLOW_THRESH_MAG, UNDERFLOW_THRESH_MAG
<1>4. QED
  BY <1>1, <1>2, <1>3, SMT

\* A bound that is a number of its own.
Within(v, n) == v \in -n .. n

LEMMA IsWithin ==
  ASSUME NEW v \in Int, NEW n \in Int, -n <= v, v <= n
  PROVE  Within(v, n)
  BY DEF Within

LEMMA WithinMeans ==
  ASSUME NEW v, NEW n \in Int, Within(v, n)
  PROVE  v \in Int /\ -n <= v /\ v <= n
  BY DEF Within

\* What the registers keep of a number: a number that fits them is kept whole.
LEMMA LowBits9 ==
  ASSUME NEW v \in Int
  PROVE  /\ SInt(v, 9) \in Int /\ -256 <= SInt(v, 9) /\ SInt(v, 9) <= 255
         /\ -256 <= v /\ v <= 255 => SInt(v, 9) = v
<1>1. 2 ^ 9 = 512 /\ 2 ^ (9 - 1) = 256
  BY SMT
<1>2. SInt(v, 9) = IF v % 512 < 256 THEN v % 512 ELSE (v % 512) - 512
  BY <1>1 DEF SInt
<1>3. QED
  BY <1>2, SMT

LEMMA LowBits16 ==
  ASSUME NEW v \in Int
  PROVE  /\ SInt(v, 16) \in Int /\ -32768 <= SInt(v, 16) /\ SInt(v, 16) <= 32767
         /\ -32768 <= v /\ v <= 32767 => SInt(v, 16) = v
<1>1. 2 ^ 16 = 65536 /\ 2 ^ (16 - 1) = 32768
  BY SMT
<1>2. SInt(v, 16) = IF v % 65536 < 32768 THEN v % 65536 ELSE (v % 65536) - 65536
  BY <1>1 DEF SInt
<1>3. QED
  BY <1>2, SMT

LEMMA Sums ==
  ASSUME NEW a \in Int, NEW b \in Int
  PROVE  /\ Add32(a, b) \in Int
         /\ -2147483648 <= a + b /\ a + b <= 2147483647 => Add32(a, b) = a + b
<1>1. PICK low \in Int : low = (a % 65536) + (b % 65536)
  OBVIOUS
<1>2. PICK h \in Int : h = a \div 65536 + b \div 65536 + low \div 65536
  BY <1>1, SMT
<1>3. PICK k \in Int : k = SInt(h, 16) /\ (-32768 <= h /\ h <= 32767 => k = h)
  BY LowBits16, SMT
<1>4. Add32(a, b) = 65536 * k + (low % 65536)
  BY <1>1, <1>2, <1>3 DEF Add32
<1>5. a + b = 65536 * h + (low % 65536) /\ 0 <= low % 65536 /\ low % 65536 < 65536
  BY <1>1, <1>2, SMT
<1>6. QED
  BY <1>3, <1>4, <1>5, SMT

\* s2: the fixed-point operand of an operand that no special case catches has
\* the magnitude of the shifted mantissa: none of its bits leaves the register.
ShiftedMantissa(e, m) ==
  IF e > 127 THEN m * Pow(e - 127)
  ELSE IF (127 - e) % 32 > 24 THEN 0 ELSE m \div Pow((127 - e) % 32)

LEMMA OperandIs ==
  ASSUME NEW x \in Nat, ~Overridden(x)
  PROVE  LET a == ShiftedMantissa(XExp(x), 8388608 + XMan(x))
         IN  a \in Int /\ ToQ8_23(x) = IF XSign(x) = 1 THEN -a ELSE a
<1>1. PICK e \in 1 .. 133 : XExp(x) = e
  BY OperandInRange
<1>2. PICK m \in Int : m = 128 + (x % 128) /\ 128 <= m /\ m < 256
  BY SMT
<1>3. 8388608 + XMan(x) = m * 65536
  BY <1>2, SMT DEF XMan
<1>4. PICK g \in Int : g = (IF XSign(x) = 1 THEN -1 ELSE 1) /\ (g = 1 \/ g = -1)
  BY SMT
<1>5. CASE e > 127
  <2>1. PICK s \in 1 .. 6 : s = e - 127 /\ (e - 127) % 32 = s /\ ~(s >= 16)
    BY <1>5, SMT
  <2>2. PICK p \in Int : p = Pow(s) /\ 1 <= p /\ p <= 64
    <3>1. s = 1 \/ s = 2 \/ s = 3 \/ s = 4 \/ s = 5 \/ s = 6
      OBVIOUS
    <3>2. QED
      BY <3>1, Powers
  <2>3. PICK t \in Int : t = m * p /\ 0 <= t /\ t <= 32767
    <3>1. p = 2 \/ p = 4 \/ p = 8 \/ p = 16 \/ p = 32 \/ p = 64
      <4>1. s = 1 \/ s = 2 \/ s = 3 \/ s = 4 \/ s = 5 \/ s = 6
        OBVIOUS
      <4>2. QED
        BY <2>2, <4>1, Powers
    <3>2. QED
      BY <1>2, <3>1, SMT
  <2>4. SInt(g * t, 16) = g * t
    <3>1. g * t \in Int /\ -32768 <= g * t /\ g * t <= 32767
      BY <1>4, <2>3, SMT
    <3>2. QED
      BY <3>1, LowBits16, SMT
  <2>5. ToQ8_23(x) = 65536 * SInt(g * (m * 2 ^ s), 16)
    <3>1. e - 127 > 0
      BY <1>5
    <3>2. QED
      BY <1>1, <1>2, <1>4, <2>1, <3>1 DEF ToQ8_23
  <2>6. ToQ8_23(x) = 65536 * (g * t)
    BY <2>2, <2>3, <2>4, <2>5 DEF Pow
  <2>7. ShiftedMantissa(e, m * 65536) = (m * 65536) * p
    BY <1>5, <2>1, <2>2 DEF ShiftedMantissa
  <2>8. (m * 65536) * p = 65536 * t
    BY <2>2, <2>3, SMT
  <2>9. QED
    BY <1>1, <1>3, <1>4, <2>3, <2>6, <2>7, <2>8, SMT
<1>6. CASE ~(e > 127)
  <2>1. PICK s \in 0 .. 31 : s = (127 - e) % 32 /\ (-(e - 127)) % 32 = s
    BY <1>6, SMT
  <2>2. ~(e - 127 > 0)
    BY <1>6
  <2>3. CASE s > 24
    <3>1. ToQ8_23(x) = 0
      BY <1>1, <2>1, <2>2, <2>3 DEF ToQ8_23
    <3>2. ShiftedMantissa(e, m * 65536) = 0
      BY <1>6, <2>1, <2>3 DEF ShiftedMantissa
    <3>3. QED
      BY <1>1, <1>3, <3>1, <3>2, SMT
  <2>4. CASE ~(s > 24)
    <3>1. PICK p \in Nat \ {0} : p = Pow(s)
      <4>1. s \in 0 .. 30
        BY <2>4
      <4>2. QED
        BY <4>1, PowPositive
    <3>2. PICK a \in Int : a = (m * 65536) \div p
      BY <1>2, <3>1, SMT
    <3>3. ToQ8_23(x) = g * ((m * 65536) \div 2 ^ s)
      BY <1>1, <1>2, <1>4, <2>1, <2>2, <2>4 DEF ToQ8_23
    <3>4. ToQ8_23(x) = g * a
      BY <3>1, <3>2, <3>3 DEF Pow
    <3>5. ShiftedMantissa(e, m * 65536) = a
      BY <1>6, <2>1, <2>4, <3>1, <3>2 DEF ShiftedMantissa
    <3>6. QED
      BY <1>1, <1>3, <1>4, <3>2, <3>4, <3>5, SMT
  <2>5. QED
    BY <2>3, <2>4
<1>7. QED
  BY <1>5, <1>6

\* It is at most 88.
LEMMA OperandBounded ==
  ASSUME NEW x \in Nat, ~Overridden(x)
  PROVE  Within(ToQ8_23(x), 738197504)
<1>1. PICK e \in 1 .. 133, m \in Int :
        /\ e = XExp(x) /\ m = 8388608 + XMan(x)
        /\ 8388608 <= m /\ m < 16777216
        /\ e = 133 => m <= 11534336
  BY OperandInRange, SMT
<1>2. PICK q \in Int : q = ShiftedMantissa(e, m) /\ (ToQ8_23(x) = q \/ ToQ8_23(x) = -q)
  BY <1>1, OperandIs
<1>3. 0 <= q /\ q <= 738197504
  <2>1. CASE e > 127
    <3>1. PICK s \in 1 .. 6 : s = e - 127
      BY <2>1
    <3>2. q = m * Pow(s)
      BY <1>2, <2>1, <3>1 DEF ShiftedMantissa
    <3>3. s = 1 \/ s = 2 \/ s = 3 \/ s = 4 \/ s = 5 \/ s = 6
      BY <3>1
    <3>4. s = 6 => m <= 11534336
      BY <1>1, <3>1, SMT
    <3>5. QED
      BY <1>1, <3>2, <3>3, <3>4, Powers, SMT
  <2>2. CASE ~(e > 127) /\ (127 - e) % 32 > 24
    BY <1>2, <2>2, SMT DEF ShiftedMantissa
  <2>3. CASE ~(e > 127) /\ ~((127 - e) % 32 > 24)
    <3>1. PICK s \in 0 .. 30 : s = (127 - e) % 32
      BY <2>3
    <3>2. PICK p \in Nat \ {0} : p = Pow(s)
      BY <3>1, PowPositive
    <3>3. q = m \div p
      BY <1>2, <2>3, <3>1, <3>2 DEF ShiftedMantissa
    <3>4. m \div p \in Int /\ 0 <= m \div p /\ m \div p <= m
      BY <1>1, <3>2, SMT
    <3>5. QED
      BY <1>1, <3>3, <3>4, SMT
  <2>4. QED
    BY <2>1, <2>2, <2>3
<1>4. QED
  BY <1>2, <1>3, IsWithin, SMT

\* Whatever the operand, s2 holds an integer.
LEMMA OperandTyped ==
  ASSUME NEW x \in Nat
  PROVE  ToQ8_23(x) \in Int
<1>1. PICK g \in Int : g = (IF XSign(x) = 1 THEN -1 ELSE 1)
  BY SMT
<1>2. PICK m \in Nat : m = 128 + (x % 128)
  BY SMT
<1>3. PICK s \in 0 .. 31 : s = (IF XExp(x) - 127 > 0 THEN XExp(x) - 127 ELSE -(XExp(x) - 127)) % 32
  BY SMT DEF XExp
<1>4. ToQ8_23(x) = IF XExp(x) - 127 > 0 THEN IF s >= 16 THEN 0
                                             ELSE 65536 * SInt(g * (m * 2 ^ s), 16)
                   ELSE IF s > 24 THEN 0 ELSE g * ((m * 65536) \div 2 ^ s)
  BY <1>1, <1>2, <1>3 DEF ToQ8_23
<1>5. ASSUME s <= 30 PROVE Pow(s) \in Nat \ {0}
  BY <1>5, PowPositive, SMT
<1>6. ASSUME s < 16 PROVE 65536 * SInt(g * (m * 2 ^ s), 16) \in Int
  <2>1. PICK p \in Int : p = 2 ^ s
    BY <1>5, <1>6, SMT DEF Pow
  <2>2. g * (m * p) \in Int
    BY SMT
  <2>3. SInt(g * (m * p), 16) \in Int
    BY <2>2, LowBits16
  <2>4. QED
    BY <2>1, <2>3, SMT
<1>7. ASSUME s <= 24 PROVE g * ((m * 65536) \div 2 ^ s) \in Int
  <2>1. PICK p \in Nat \ {0} : p = 2 ^ s
    BY <1>5, <1>7, SMT DEF Pow
  <2>2. (m * 65536) \div p \in Int
    BY SMT
  <2>3. QED
    BY <2>1, <2>2, SMT
<1>8. QED
  BY <1>4, <1>6, <1>7, SMT

\* s3: y_q is the rounded product where it fits the register, which it does
\* for an operand of at most 88 in magnitude: it is less than 127.
Ranged(y) == y \in Int /\ Within(y, 1065001000)

LEMMA QuotientTyped ==
  ASSUME NEW q \in Int
  PROVE  YQ(q) \in Int
<1>1. MulRound30(q, 475340180) = (q * 475340180 + 536870912) \div 1073741824
  BY RoundedProduct, SMT
<1>2. MulRound30(q, 475340180) \in Int
  BY <1>1, SMT
<1>3. YQ(q) = Add32(q, MulRound30(q, 475340180))
  BY SMT DEF YQ, LOG2E_Q1_30
<1>4. QED
  BY <1>2, <1>3, Sums

LEMMA QuotientIsProduct ==
  ASSUME NEW q \in Int, Within(q, 738197504)
  PROVE  /\ YQ(q) = (q * 1549082004 + 536870912) \div 1073741824
         /\ Ranged(YQ(q))
<1>1. -738197504 <= q /\ q <= 738197504
  BY WithinMeans, SMT
<1>2. MulRound30(q, 475340180) = (q * 475340180 + 536870912) \div 1073741824
  BY RoundedProduct, SMT
<1>3. PICK y \in Int : y = (q * 1549082004 + 536870912) \div 1073741824
  BY SMT
<1>4. PICK c \in Int : c = MulRound30(q, 475340180) /\ q + c = y
  BY <1>2, <1>3, SMT
<1>5. -1065001000 <= y /\ y <= 1065001000
  BY <1>1, <1>3, SMT
<1>6. YQ(q) = Add32(q, c)
  BY <1>4, SMT DEF YQ, LOG2E_Q1_30
<1>7. YQ(q) = y
  <2>1. Add32(q, c) = q + c
    <3>1. -2147483648 <= q + c /\ q + c <= 2147483647
      BY <1>4, <1>5, SMT
    <3>2. QED
      BY <1>4, <3>1, Sums, SMT
  <2>2. QED
    BY <1>4, <1>6, <2>1
<1>8. QED
  BY <1>3, <1>5, <1>7, IsWithin, SMT DEF Ranged

LEMMA QuotientBounded ==
  ASSUME NEW q, Within(q, 738197504)
  PROVE  Within(YQ(q), 1065001000)
<1>1. q \in Int
  BY WithinMeans, SMT
<1>2. QED
  BY <1>1, QuotientIsProduct DEF Ranged

\* s4: there N_int is the nearest integer, and fits nine bits.
LEMMA NearestInteger ==
  ASSUME NEW y \in Int
  PROVE  /\ NIntWide(y) = (y + 4194304) \div 8388608 /\ NIntWide(y) \in Int
         /\ NInt(y) \in -256 .. 255
         /\ Ranged(y) => NInt(y) = NIntWide(y) /\ NInt(y) \in -127 .. 127
<1>1. PICK n \in Int : n = NIntWide(y) /\ n = (y + 4194304) \div 8388608
  BY SMT DEF NIntWide
<1>2. NInt(y) = SInt(n, 9)
  BY <1>1 DEF NInt
<1>3. Ranged(y) => -127 <= n /\ n <= 127
  <2>1. ASSUME Ranged(y) PROVE -1065001000 <= y /\ y <= 1065001000
    BY <2>1, WithinMeans, SMT DEF Ranged
  <2>2. QED
    BY <1>1, <2>1, SMT
<1>4. SInt(n, 9) \in -256 .. 255 /\ (-256 <= n /\ n <= 255 => SInt(n, 9) = n)
  BY LowBits9, SMT
<1>5. QED
  BY <1>1, <1>2, <1>3, <1>4, SMT

LEMMA NIntIs ==
  ASSUME NEW y, Ranged(y)
  PROVE  NInt(y) \in Int /\ NInt(y) = (y + 4194304) \div 8388608 /\ NInt(y) = NIntWide(y)
<1>1. y \in Int
  BY DEF Ranged
<1>2. QED
  BY <1>1, NearestInteger, SMT

LEMMA ExponentBounded ==
  ASSUME NEW y, Within(y, 1065001000)
  PROVE  NInt(y) \in -127 .. 127
<1>1. y \in Int
  BY WithinMeans, SMT
<1>2. QED
  BY <1>1, NearestInteger DEF Ranged

\* What is left of y_q beside N_int_wide, times ln 2.
LEMMA RestOfWide ==
  ASSUME NEW y \in Int
  PROVE  \E d \in Int : /\ d = 128 * (y - 8388608 * NIntWide(y))
                        /\ RQ(y) = (d * 744261118 + 536870912) \div 1073741824
<1>1. PICK n \in Int : n = NIntWide(y)
  BY NearestInteger
<1>2. PICK d \in Int : d = ((y \div 8388608 - n) * 8388608 + (y % 8388608)) * 128
  BY SMT
<1>3. RQ(y) = MulRound30(d, 744261118)
  BY <1>1, <1>2 DEF RQ, LN2_Q2_30
<1>4. MulRound30(d, 744261118) = (d * 744261118 + 536870912) \div 1073741824
  BY RoundedProduct, SMT
<1>5. d = 128 * (y - 8388608 * n)
  BY <1>2, SMT
<1>6. QED
  BY <1>1, <1>3, <1>4, <1>5

\* Whatever y_q is, that is at most half of ln 2.
LEMMA RestBounded ==
  ASSUME NEW y \in Int
  PROVE  Within(RQ(y), LN2_Q2_30 \div 2)
<1>1. PICK d \in Int : /\ d = 128 * (y - 8388608 * NIntWide(y))
                       /\ RQ(y) = (d * 744261118 + 536870912) \div 1073741824
  BY RestOfWide
<1>2. PICK n \in Int : n = NIntWide(y) /\ n = (y + 4194304) \div 8388608
  BY NearestInteger
<1>3. -536870912 <= d /\ d <= 536870912
  BY <1>1, <1>2, SMT
<1>4. RQ(y) \in Int /\ -372130559 <= RQ(y) /\ RQ(y) <= 372130559
  BY <1>1, <1>3, SMT
<1>5. LN2_Q2_30 \div 2 = 372130559
  BY SMT DEF LN2_Q2_30
<1>6. QED
  BY <1>4, <1>5, IsWithin, SMT

-----------------------------------------------------------------------------
\* ----- BF16 -> E4M3, in the lane and in C

\* The kept bits of a mantissa of eight, rounded to nearest even.
Kept(full, shift)   == (full \div Pow(shift)) % 8
RoundedKept(full, shift) ==
  Kept(full, shift) + (IF /\ (full \div Pow(shift - 1)) % 2 = 1
                          /\ full % Pow(shift - 1) # 0 \/ Kept(full, shift) % 2 = 1
                       THEN 1 ELSE 0)

\* The magnitude of the byte of target exponent t and mantissa m: the kept
\* bits may cascade into the exponent.
ShiftFor(t)   == IF t >= 1 THEN 4 ELSE 5 - t
Rounded(t, m) == RoundedKept(128 + m, ShiftFor(t))
Cascade(t, m) == Rounded(t, m) \div 8
MantOut(t, m) == Rounded(t, m) % 8

Finite(t, c, o) ==
  LET exp == IF t >= 1 THEN t + c ELSE c
  IN  IF t >= 1 /\ (exp > 15 \/ (exp = 15 /\ o = 7)) THEN 126 ELSE 8 * exp + o
CodeOf(e, m) ==
  IF e = 255 THEN IF m # 0 THEN 127 ELSE 126
  ELSE IF e >= 136 THEN 126
  ELSE IF e <= 116 THEN 0
  ELSE Finite(e - 120, Cascade(e - 120, m), MantOut(e - 120, m))

LEMMA ShiftRange ==
  ASSUME NEW t \in -3 .. 15
  PROVE  ShiftFor(t) \in 4 .. 8 /\ (t >= 1 => ShiftFor(t) = 4)
  BY DEF ShiftFor

LEMMA KeptRange ==
  ASSUME NEW t \in -3 .. 15, NEW full \in Nat
  PROVE  RoundedKept(full, ShiftFor(t)) \in 0 .. 8
<1>1. PICK p \in Nat \ {0}, g \in Nat \ {0} :
        p = Pow(ShiftFor(t)) /\ g = Pow(ShiftFor(t) - 1)
  <2>1. ShiftFor(t) \in 0 .. 30 /\ ShiftFor(t) - 1 \in 0 .. 30
    BY ShiftRange
  <2>2. QED
    BY <2>1, PowPositive
<1>2. (full \div p) % 8 \in 0 .. 7
  OBVIOUS
<1>3. QED
  BY <1>1, <1>2 DEF RoundedKept, Kept

LEMMA FiniteRange ==
  ASSUME NEW t \in -3 .. 15, NEW m \in Nat
  PROVE  Cascade(t, m) \in Int /\ MantOut(t, m) \in Int
  BY KeptRange DEF Cascade, MantOut, Rounded

\* The C function with its rounded mantissa, then its two powers, as parameters.
CArms(sign, e, m, c, o) ==
  LET e_final == IF e - 120 >= 1 THEN e - 120 + c ELSE c
  IN  CASE e = 255   -> sign + (IF m # 0 THEN 127 ELSE 126)
        [] e = 0     -> sign
        [] e # 255 /\ e - 120 >= 16 -> sign + 126
        [] e # 0 /\ e - 120 <= -4   -> sign
        [] e - 120 \in -3 .. 15 ->
             IF e - 120 >= 1 /\ (e_final > 15 \/ (e_final = 15 /\ o = 7))
               THEN sign + 126
               ELSE sign + 8 * e_final + o
CForm(sign, e, m, p, g) ==
  LET em_full == (((128 + m) \div p) % 8)
                   + (IF ((128 + m) \div g) % 2 = 1
                           /\ ((128 + m) % g # 0 \/ (((128 + m) \div p) % 8) % 2 = 1)
                        THEN 1 ELSE 0)
  IN  CArms(sign, e, m, em_full \div 8, em_full % 8)
CByFields(s, e, m) ==
  CForm(s * 128, e, m, Pow(ShiftFor(e - 120)), Pow(ShiftFor(e - 120) - 1))

LEMMA CFormIs ==
  ASSUME NEW x
  PROVE  bf16_to_e4m3(x) = CByFields(x \div 32768, (x \div 128) % 256, x % 128)
  BY DEF bf16_to_e4m3, CByFields, CForm, CArms, Pow, ShiftFor

LEMMA ArmsFinite ==
  ASSUME NEW sign \in Int, NEW e \in Int, NEW m \in Int, NEW c \in Int, NEW o \in Int,
         117 <= e, e <= 135
  PROVE  CArms(sign, e, m, c, o) = sign + Finite(e - 120, c, o)
<1>1. /\ ~(e = 255) /\ ~(e = 0) /\ ~(e # 255 /\ e - 120 >= 16)
      /\ ~(e # 0 /\ e - 120 <= -4) /\ e - 120 \in -3 .. 15
  OBVIOUS
<1>2. QED
  BY <1>1, SMT DEF CArms, Finite

LEMMA ArmsElse ==
  ASSUME NEW sign \in Int, NEW e \in Int, NEW m \in Int, NEW c, NEW o,
         0 <= e, e <= 255, ~(117 <= e /\ e <= 135)
  PROVE  CArms(sign, e, m, c, o) = sign + CodeOf(e, m)
  BY SMT DEF CArms, CodeOf

\* bf16_to_e4m3 is this code under the sign of the operand.
LEMMA CQuantizes ==
  ASSUME NEW s \in Int, NEW e \in Int, NEW m \in Nat, 0 <= e, e <= 255
  PROVE  CByFields(s, e, m) = s * 128 + CodeOf(e, m)
<1>1. PICK sign \in Int : sign = s * 128
  OBVIOUS
<1>2. CByFields(s, e, m) = CArms(sign, e, m, Cascade(e - 120, m), MantOut(e - 120, m))
  BY <1>1 DEF CByFields, CForm, Cascade, MantOut, Rounded, RoundedKept, Kept
<1>3. CASE 117 <= e /\ e <= 135
  <2>1. e - 120 \in -3 .. 15
    BY <1>3
  <2>2. Cascade(e - 120, m) \in Int /\ MantOut(e - 120, m) \in Int
    BY <2>1, FiniteRange
  <2>3. CodeOf(e, m) = Finite(e - 120, Cascade(e - 120, m), MantOut(e - 120, m))
    BY <1>3 DEF CodeOf
  <2>4. QED
    BY <1>1, <1>2, <1>3, <2>2, <2>3, ArmsFinite
<1>4. CASE ~(117 <= e /\ e <= 135)
  BY <1>1, <1>2, <1>4, ArmsElse
<1>5. QED
  BY <1>3, <1>4

\* What the lane decodes from sign s, exponent e and mantissa m.
Decoded(s, e, m) ==
  [sign |-> s, bmant |-> m, target |-> e - 120, is_zero_in |-> e = 0,
   is_inf |-> e = 255 /\ m = 0, is_nan |-> e = 255 /\ m # 0]

LEMMA DecodedIs ==
  ASSUME NEW x
  PROVE  Decode(x) = Decoded(x \div 32768, (x \div 128) % 256, x % 128)
  BY DEF Decode, Decoded

\* Its rounding with the two powers, and whether it is live, as parameters.
RForm(full, p, g, live) ==
  LET em_pre  == IF live THEN (full \div p) % 8 ELSE 0
      guard   == live /\ (full \div g) % 2 = 1
      sticky  == live /\ full % g # 0
      em_full == em_pre + (IF guard /\ (sticky \/ em_pre % 2 = 1) THEN 1 ELSE 0)
  IN  [em_out |-> em_full % 8, cascade |-> em_full \div 8]

LaneShift(d) == IF IsNormalO(d) THEN 4 ELSE 5 - d.target

LEMMA RFormIs ==
  ASSUME NEW d
  PROVE  Round(d) = RForm(128 + d.bmant, Pow(LaneShift(d)), Pow(LaneShift(d) - 1),
                          IsNormalO(d) \/ IsSubnO(d))
  BY DEF Round, RForm, Pow, LaneShift

LEMMA RoundIs ==
  ASSUME NEW s \in Int, NEW e \in Int, NEW m \in Nat, 117 <= e, e <= 135
  PROVE  /\ Round(Decoded(s, e, m)).em_out = MantOut(e - 120, m)
         /\ Round(Decoded(s, e, m)).cascade = Cascade(e - 120, m)
<1>1. PICK d : d = Decoded(s, e, m)
  OBVIOUS
<1>2. d.bmant = m /\ d.target = e - 120
  BY <1>1 DEF Decoded
<1>3. LaneShift(d) = ShiftFor(e - 120) /\ (IsNormalO(d) \/ IsSubnO(d))
  BY <1>2 DEF LaneShift, ShiftFor, IsNormalO, IsSubnO
<1>4. PICK p, g : p = Pow(ShiftFor(e - 120)) /\ g = Pow(ShiftFor(e - 120) - 1)
  OBVIOUS
<1>5. Round(d) = RForm(128 + m, p, g, TRUE)
  BY <1>2, <1>3, <1>4, RFormIs
<1>6. Rounded(e - 120, m)
        = (((128 + m) \div p) % 8)
            + (IF ((128 + m) \div g) % 2 = 1
                    /\ ((128 + m) % g # 0 \/ (((128 + m) \div p) % 8) % 2 = 1)
                 THEN 1 ELSE 0)
  BY <1>4 DEF Rounded, RoundedKept, Kept
<1>7. RForm(128 + m, p, g, TRUE)
        = [em_out |-> MantOut(e - 120, m), cascade |-> Cascade(e - 120, m)]
  BY <1>6 DEF RForm, MantOut, Cascade
<1>8. Round(d).em_out = MantOut(e - 120, m) /\ Round(d).cascade = Cascade(e - 120, m)
  <2>1. PICK a, b : a = MantOut(e - 120, m) /\ b = Cascade(e - 120, m)
    OBVIOUS
  <2>2. Round(d) = [em_out |-> a, cascade |-> b]
    BY <1>5, <1>7, <2>1
  <2>3. QED
    BY <2>1, <2>2
<1>9. QED
  BY <1>1, <1>8

\* The lane quantises to the same code.
LEMMA LaneQuantizes ==
  ASSUME NEW s \in Int, NEW e \in Int, NEW m \in Nat, 0 <= e, e <= 255
  PROVE  Quantize(Decoded(s, e, m)) = s * 128 + CodeOf(e, m)
<1>1. PICK d : d = Decoded(s, e, m)
  OBVIOUS
<1>2. /\ d.sign = s /\ d.target = e - 120 /\ (d.is_zero_in <=> e = 0)
      /\ (d.is_inf <=> e = 255 /\ m = 0) /\ (d.is_nan <=> e = 255 /\ m # 0)
  BY <1>1 DEF Decoded
<1>3. CASE 117 <= e /\ e <= 135
  <2>1. PICK c \in Int, o \in Int : c = Cascade(e - 120, m) /\ o = MantOut(e - 120, m)
    <3>1. e - 120 \in -3 .. 15
      BY <1>3
    <3>2. QED
      BY <3>1, FiniteRange
  <2>2. Round(d).em_out = o /\ Round(d).cascade = c
    BY <1>1, <1>3, <2>1, RoundIs
  <2>3. CodeOf(e, m) = Finite(e - 120, c, o)
    BY <1>3, <2>1 DEF CodeOf
  <2>4. ~d.is_nan /\ ~d.is_inf /\ ~IsOverflow(d) /\ ~d.is_zero_in
    BY <1>2, <1>3 DEF IsOverflow
  <2>5. CASE e <= 120
    <3>1. IsSubnO(d) /\ ~IsNormalO(d)
      BY <1>2, <1>3, <2>5 DEF IsSubnO, IsNormalO
    <3>2. Quantize(d) = SubnPacked(d)
      BY <2>4, <3>1 DEF Quantize
    <3>3. SubnPacked(d) = 128 * s + 8 * c + o
      BY <1>2, <2>2 DEF SubnPacked, Byte
    <3>4. Finite(e - 120, c, o) = 8 * c + o
      BY <2>5 DEF Finite
    <3>5. QED
      BY <1>1, <2>3, <3>2, <3>3, <3>4
  <2>6. CASE ~(e <= 120)
    <3>1. IsNormalO(d) /\ ~IsSubnO(d)
      BY <1>2, <1>3, <2>6 DEF IsNormalO, IsSubnO
    <3>2. Quantize(d) = NormalPacked(d)
      BY <2>4, <3>1 DEF Quantize
    <3>3. NormalPacked(d) = IF e - 120 + c > 15 \/ (e - 120 + c = 15 /\ o = 7)
                              THEN 128 * s + 8 * 15 + 6 ELSE 128 * s + 8 * (e - 120 + c) + o
      BY <1>2, <2>2 DEF NormalPacked, Byte
    <3>4. Finite(e - 120, c, o) = IF e - 120 + c > 15 \/ (e - 120 + c = 15 /\ o = 7)
                                    THEN 126 ELSE 8 * (e - 120 + c) + o
      BY <2>6 DEF Finite
    <3>5. QED
      BY <1>1, <2>3, <3>2, <3>3, <3>4
  <2>7. QED
    BY <2>5, <2>6
<1>4. CASE ~(117 <= e /\ e <= 135)
  <2>1. CASE e >= 136
    <3>1. IsOverflow(d) /\ ~IsSubnO(d) /\ ~IsNormalO(d) /\ ~d.is_zero_in
      BY <1>2, <2>1 DEF IsOverflow, IsSubnO, IsNormalO
    <3>2. Quantize(d) = IF e = 255 /\ m # 0 THEN Byte(d, 15, 7) ELSE Byte(d, 15, 6)
      BY <1>2, <3>1, SMT DEF Quantize
    <3>3. CodeOf(e, m) = IF e = 255 /\ m # 0 THEN 127 ELSE 126
      BY <2>1 DEF CodeOf
    <3>4. Byte(d, 15, 7) = s * 128 + 127 /\ Byte(d, 15, 6) = s * 128 + 126
      BY <1>2 DEF Byte
    <3>5. QED
      BY <1>1, <3>2, <3>3, <3>4
  <2>2. CASE e <= 116
    <3>1. ~IsOverflow(d) /\ ~IsSubnO(d) /\ ~IsNormalO(d) /\ e # 255
      BY <1>2, <2>2 DEF IsOverflow, IsSubnO, IsNormalO
    <3>2. Quantize(d) = Byte(d, 0, 0)
      BY <1>2, <3>1, Zenon DEF Quantize
    <3>3. CodeOf(e, m) = 0
      BY <2>2 DEF CodeOf
    <3>4. Byte(d, 0, 0) = s * 128
      BY <1>2 DEF Byte
    <3>5. QED
      BY <1>1, <3>2, <3>3, <3>4
  <2>3. QED
    BY <1>4, <2>1, <2>2
<1>5. QED
  BY <1>3, <1>4

-----------------------------------------------------------------------------
\* ----- BF16 patterns of exact values

LEMMA PowAtLeast ==
  ASSUME NEW j \in 0 .. 30, NEW k \in 0 .. 30, j < k
  PROVE  2 * Pow(j) <= Pow(k)
<1>1. \/ j = 0 \/ j = 1 \/ j = 2 \/ j = 3 \/ j = 4 \/ j = 5 \/ j = 6 \/ j = 7
      \/ j = 8 \/ j = 9 \/ j = 10 \/ j = 11 \/ j = 12 \/ j = 13 \/ j = 14 \/ j = 15
      \/ j = 16 \/ j = 17 \/ j = 18 \/ j = 19 \/ j = 20 \/ j = 21 \/ j = 22 \/ j = 23
      \/ j = 24 \/ j = 25 \/ j = 26 \/ j = 27 \/ j = 28 \/ j = 29 \/ j = 30
  OBVIOUS
<1>2. \/ k = 0 \/ k = 1 \/ k = 2 \/ k = 3 \/ k = 4 \/ k = 5 \/ k = 6 \/ k = 7
      \/ k = 8 \/ k = 9 \/ k = 10 \/ k = 11 \/ k = 12 \/ k = 13 \/ k = 14 \/ k = 15
      \/ k = 16 \/ k = 17 \/ k = 18 \/ k = 19 \/ k = 20 \/ k = 21 \/ k = 22 \/ k = 23
      \/ k = 24 \/ k = 25 \/ k = 26 \/ k = 27 \/ k = 28 \/ k = 29 \/ k = 30
  OBVIOUS
<1>3. QED
  BY <1>1, <1>2, Powers

AddsTo(a) == \A b \in 0 .. 20 : Pow(a + b) = Pow(a) * Pow(b)

LEMMA AddsStep ==
  ASSUME NEW a \in 0 .. 8, AddsTo(a)
  PROVE  AddsTo(a + 1)
<1> SUFFICES ASSUME NEW b \in 0 .. 20 PROVE Pow((a + 1) + b) = Pow(a + 1) * Pow(b)
  BY DEF AddsTo
<1>1. PICK p \in Nat, q \in Nat : p = Pow(a) /\ q = Pow(b)
  <2>1. a \in 0 .. 30 /\ b \in 0 .. 30
    OBVIOUS
  <2>2. QED
    BY <2>1, PowPositive
<1>2. Pow(a + b) = p * q
  BY <1>1 DEF AddsTo
<1>3. Pow((a + 1) + b) = 2 * Pow(a + b) /\ Pow(a + 1) = 2 * p
  <2>1. a + b \in 0 .. 29 /\ a \in 0 .. 29 /\ (a + 1) + b = (a + b) + 1
    OBVIOUS
  <2>2. QED
    BY <2>1, <1>1, PowDouble
<1>4. 2 * (p * q) = (2 * p) * q
  OBVIOUS
<1>5. QED
  BY <1>1, <1>2, <1>3, <1>4

LEMMA PowAdd ==
  ASSUME NEW a \in 0 .. 7, NEW b \in 0 .. 20
  PROVE  Pow(a + b) = Pow(a) * Pow(b)
<1>1. AddsTo(0)
  <2> SUFFICES ASSUME NEW c \in 0 .. 20 PROVE Pow(0 + c) = Pow(0) * Pow(c)
    BY DEF AddsTo
  <2>1. Pow(c) \in Nat /\ Pow(0) = 1 /\ 0 + c = c
    BY PowPositive, Powers
  <2>2. QED
    BY <2>1
<1>2. AddsTo(1)
  BY <1>1, AddsStep
<1>3. AddsTo(2)
  BY <1>2, AddsStep
<1>4. AddsTo(3)
  BY <1>3, AddsStep
<1>5. AddsTo(4)
  BY <1>4, AddsStep
<1>6. AddsTo(5)
  BY <1>5, AddsStep
<1>7. AddsTo(6)
  BY <1>6, AddsStep
<1>8. AddsTo(7)
  BY <1>7, AddsStep
<1>9. a = 0 \/ a = 1 \/ a = 2 \/ a = 3 \/ a = 4 \/ a = 5 \/ a = 6 \/ a = 7
  OBVIOUS
<1>10. AddsTo(a)
  BY <1>1, <1>2, <1>3, <1>4, <1>5, <1>6, <1>7, <1>8, <1>9
<1>11. QED
  BY <1>10 DEF AddsTo

LEMMA Log2Is ==
  ASSUME NEW n \in Nat, NEW k \in 0 .. 30, Pow(k) <= n, n < 2 * Pow(k)
  PROVE  Log2Floor(n) = k
<1> DEFINE P(i) == Pow(i) <= n /\ n \div Pow(i) < 2
<1>1. Log2Floor(n) = CHOOSE i \in 0 .. 30 : P(i)
  BY DEF Log2Floor, Pow
<1>2. ASSUME NEW i \in 0 .. 30 PROVE P(i) <=> Pow(i) <= n /\ n < 2 * Pow(i)
  <2>1. PICK p \in Nat \ {0} : p = Pow(i)
    BY PowPositive
  <2>2. n \div p < 2 <=> n < 2 * p
    OBVIOUS
  <2>3. QED
    BY <2>1, <2>2
<1>3. P(k)
  BY <1>2
<1>4. ASSUME NEW i \in 0 .. 30, P(i) PROVE i = k
  <2>1. Pow(i) \in Nat /\ Pow(k) \in Nat /\ Pow(i) <= n /\ n < 2 * Pow(i)
    BY <1>2, <1>4, PowPositive
  <2>2. ~(i < k)
    BY <2>1, PowAtLeast
  <2>3. ~(k < i)
    BY <2>1, PowAtLeast
  <2>4. QED
    BY <2>2, <2>3
<1> HIDE DEF P
<1>5. QED
  BY <1>1, <1>3, <1>4, Zenon

\* A significand w of j + 1 bits, shifted left by s: seven bits of it after
\* the leading one are the mantissa.
LEMMA PatternOf ==
  ASSUME NEW w \in Nat, NEW j \in 0 .. 7, NEW s \in 0 .. 20, NEW unit \in Int,
         Pow(j) <= w, w < 2 * Pow(j)
  PROVE  Bf16Pattern(w * Pow(s), unit) = (126 + j + s - unit) * 128 + w * Pow(7 - j)
<1>1. j \in 0 .. 30 /\ s \in 0 .. 30 /\ 7 - j \in 0 .. 7 /\ 7 - j \in 0 .. 30
  OBVIOUS
<1>2. PICK pj \in Nat, ps \in Nat, p7 \in Nat :
        pj = Pow(j) /\ ps = Pow(s) /\ p7 = Pow(7 - j) /\ ps > 0
  BY <1>1, PowPositive
<1>3. pj * p7 = 128
  <2>1. Pow((7 - j) + j) = Pow(7 - j) * Pow(j)
    BY <1>1, PowAdd
  <2>2. (7 - j) + j = 7 /\ Pow(7) = 128
    BY Powers
  <2>3. QED
    BY <1>2, <2>1, <2>2
<1>4. PICK k \in 0 .. 30 : k = j + s
  OBVIOUS
<1>5. Pow(k) = pj * ps
  BY <1>2, <1>4, PowAdd
<1>6. Log2Floor(w * Pow(s)) = k
  <2>1. pj * ps <= w * ps /\ w * ps < 2 * (pj * ps) /\ w * ps \in Nat
    BY <1>2
  <2>2. QED
    BY <1>2, <1>5, <2>1, Log2Is
<1>7. 128 <= w * p7 /\ w * p7 < 256 /\ w * p7 \in Nat
  BY <1>2, <1>3
<1>8. PICK mant : mant = IF k >= 7 THEN (w * ps) \div Pow(k - 7) ELSE (w * ps) * Pow(7 - k)
  OBVIOUS
<1>9. mant = w * p7
  <2>1. CASE k >= 7
    <3>1. k - 7 \in 0 .. 20 /\ k - 7 \in 0 .. 30 /\ (7 - j) + (k - 7) = s
      BY <1>4, <2>1
    <3>2. PICK q \in Nat : q = Pow(k - 7) /\ q > 0
      BY <3>1, PowPositive
    <3>3. ps = p7 * q
      BY <1>1, <1>2, <3>1, <3>2, PowAdd
    <3>4. PICK z \in Nat : z = w * p7
      OBVIOUS
    <3>5. w * ps = z * q
      BY <1>2, <3>2, <3>3, <3>4
    <3>6. (z * q) \div q = z
      BY <3>2
    <3>7. QED
      BY <1>8, <2>1, <3>2, <3>4, <3>5, <3>6
  <2>2. CASE ~(k >= 7)
    <3>1. 7 - k \in 0 .. 7 /\ s \in 0 .. 20 /\ (7 - k) + s = 7 - j
      BY <1>4, <2>2
    <3>2. Pow(7 - k) \in Nat
      BY <3>1, PowPositive
    <3>3. PICK q \in Nat : q = Pow(7 - k)
      BY <3>2
    <3>4. p7 = q * ps
      BY <1>2, <3>1, <3>3, PowAdd
    <3>5. (w * ps) * q = w * (q * ps)
      BY <1>2, <3>3
    <3>6. QED
      BY <1>8, <2>2, <3>3, <3>4, <3>5
  <2>3. QED
    BY <2>1, <2>2
<1>10. Bf16Pattern(w * Pow(s), unit) = (127 + k - unit) * 128 + (mant % 128)
  BY <1>2, <1>6, <1>8 DEF Bf16Pattern, Pow
<1>11. PICK z \in Nat : z = w * p7 /\ 128 <= z /\ z < 256
  BY <1>7
<1>12. z % 128 = z - 128
  BY <1>11
<1>13. (127 + k - unit) * 128 + (z - 128) = (126 + j + s - unit) * 128 + z
  BY <1>4, <1>11
<1>14. QED
  BY <1>2, <1>9, <1>10, <1>11, <1>12, <1>13

-----------------------------------------------------------------------------
\* ----- E4M3 values and the patterns half way between them

LEMMA DecodedSmall ==
  ASSUME NEW c \in 0 .. 7
  PROVE  e4m3_decode(c) = c
<1>1. (c \div 8) % 16 = 0 /\ c % 8 = c /\ c % 128 = c /\ c < 128
  OBVIOUS
<1>2. QED
  BY <1>1 DEF e4m3_decode, NAN_E4M3

LEMMA DecodedNormal ==
  ASSUME NEW e \in 1 .. 15, NEW m \in 0 .. 7, e < 15 \/ m < 7
  PROVE  e4m3_decode(8 * e + m) = (8 + m) * Pow(e - 1)
<1>1. PICK c \in Nat : c = 8 * e + m
  OBVIOUS
<1>2. (c \div 8) % 16 = e /\ c % 8 = m /\ c % 128 # 127 /\ c < 128 /\ e # 0
  BY <1>1
<1>3. QED
  BY <1>1, <1>2 DEF e4m3_decode, NAN_E4M3, Pow

\* The pattern half way between the values of code c and code c + 1.
Halfway(c) == Bf16Pattern(e4m3_decode(c) + e4m3_decode(c + 1), 10)

LEMMA HalfwayNormal ==
  ASSUME NEW c \in Int, 8 <= c, c <= 125
  PROVE  Halfway(c) = 15368 + 16 * c
<1>1. PICK e \in 1 .. 15, m \in 0 .. 7 : c = 8 * e + m
  <2>1. c \div 8 \in 1 .. 15 /\ c % 8 \in 0 .. 7 /\ c = 8 * (c \div 8) + (c % 8)
    OBVIOUS
  <2>2. QED
    BY <2>1
<1>2. e < 15 \/ m < 6
  BY <1>1
<1>3. PICK p \in Nat : p = Pow(e - 1)
  <2>1. e - 1 \in 0 .. 30
    OBVIOUS
  <2>2. QED
    BY <2>1, PowPositive
<1>4. e4m3_decode(c) = (8 + m) * p
  BY <1>1, <1>2, <1>3, DecodedNormal
<1>5. e4m3_decode(c + 1) = (9 + m) * p
  <2>1. CASE m < 7
    <3>1. m + 1 \in 0 .. 7 /\ (e < 15 \/ m + 1 < 7) /\ c + 1 = 8 * e + (m + 1)
          /\ 8 + (m + 1) = 9 + m
      BY <1>1, <1>2, <2>1
    <3>2. QED
      BY <3>1, <1>3, DecodedNormal
  <2>2. CASE m = 7
    <3>1. e + 1 \in 1 .. 15 /\ 0 \in 0 .. 7 /\ c + 1 = 8 * (e + 1) + 0 /\ 0 < 7
      BY <1>1, <1>2, <2>2
    <3>2. e4m3_decode(c + 1) = (8 + 0) * Pow((e + 1) - 1)
      BY <3>1, DecodedNormal
    <3>3. Pow((e + 1) - 1) = 2 * p
      <4>1. e - 1 \in 0 .. 29 /\ (e + 1) - 1 = (e - 1) + 1
        OBVIOUS
      <4>2. QED
        BY <4>1, <1>3, PowDouble
    <3>4. QED
      BY <2>2, <3>2, <3>3
  <2>3. QED
    BY <2>1, <2>2
<1>6. PICK w \in Nat : w = 17 + 2 * m
  OBVIOUS
<1>7. e4m3_decode(c) + e4m3_decode(c + 1) = w * p
  BY <1>3, <1>4, <1>5, <1>6
<1>8. Bf16Pattern(w * Pow(e - 1), 10) = (126 + 4 + (e - 1) - 10) * 128 + w * Pow(7 - 4)
  <2>1. 4 \in 0 .. 7 /\ e - 1 \in 0 .. 20 /\ 10 \in Int /\ Pow(4) = 16
    BY Powers
  <2>2. Pow(4) <= w /\ w < 2 * Pow(4)
    BY <1>6, <2>1
  <2>3. QED
    BY <2>1, <2>2, PatternOf
<1>9. Pow(7 - 4) = 8
  BY Powers
<1>10. QED
  BY <1>1, <1>3, <1>6, <1>7, <1>8, <1>9 DEF Halfway

LEMMA SmallPattern ==
  ASSUME NEW w \in 1 .. 15, NEW j \in 0 .. 3, Pow(j) <= w, w < 2 * Pow(j)
  PROVE  Bf16Pattern(w, 10) = (116 + j) * 128 + w * Pow(7 - j)
<1>1. w \in Nat /\ j \in 0 .. 7 /\ 0 \in 0 .. 20 /\ 10 \in Int
  OBVIOUS
<1>2. Bf16Pattern(w * Pow(0), 10) = (126 + j + 0 - 10) * 128 + w * Pow(7 - j)
  BY <1>1, PatternOf
<1>3. w * Pow(0) = w /\ 126 + j + 0 - 10 = 116 + j
  BY Powers
<1>4. QED
  BY <1>2, <1>3

LEMMA HalfwaySmall ==
  /\ Halfway(0) = 14976 /\ Halfway(1) = 15168 /\ Halfway(2) = 15264 /\ Halfway(3) = 15328
  /\ Halfway(4) = 15376 /\ Halfway(5) = 15408 /\ Halfway(6) = 15440 /\ Halfway(7) = 15472
<1>1. ASSUME NEW c \in 0 .. 7 PROVE Halfway(c) = Bf16Pattern(2 * c + 1, 10)
  <2>1. e4m3_decode(c) = c
    BY DecodedSmall
  <2>2. e4m3_decode(c + 1) = c + 1
    <3>1. CASE c < 7
      <4>1. c + 1 \in 0 .. 7
        BY <3>1
      <4>2. QED
        BY <4>1, DecodedSmall
    <3>2. CASE c = 7
      <4>1. e4m3_decode(8 * 1 + 0) = (8 + 0) * Pow(1 - 1)
        BY DecodedNormal
      <4>2. Pow(1 - 1) = 1 /\ 8 * 1 + 0 = c + 1 /\ 8 + 0 = 8
        BY <3>2, Powers
      <4>3. QED
        BY <3>2, <4>1, <4>2
    <3>3. QED
      BY <3>1, <3>2
  <2>3. c + (c + 1) = 2 * c + 1
    OBVIOUS
  <2>4. QED
    BY <2>1, <2>2, <2>3 DEF Halfway
<1>2. ASSUME NEW c \in 0 .. 7, NEW j \in 0 .. 3, Pow(j) <= 2 * c + 1, 2 * c + 1 < 2 * Pow(j),
             NEW p, Pow(7 - j) = p
      PROVE  Halfway(c) = (116 + j) * 128 + (2 * c + 1) * p
  <2>1. PICK w \in 1 .. 15 : w = 2 * c + 1
    OBVIOUS
  <2>2. Bf16Pattern(w, 10) = (116 + j) * 128 + w * p
    BY <1>2, <2>1, SmallPattern
  <2>3. QED
    BY <1>1, <2>1, <2>2
<1>3. /\ 7 - 0 = 7 /\ 7 - 1 = 6 /\ 7 - 2 = 5 /\ 7 - 3 = 4
      /\ Pow(7) = 128 /\ Pow(6) = 64 /\ Pow(5) = 32 /\ Pow(4) = 16
      /\ Pow(0) = 1 /\ Pow(1) = 2 /\ Pow(2) = 4 /\ Pow(3) = 8
  BY Powers
<1>4. Halfway(0) = 14976
  <2>1. Halfway(0) = (116 + 0) * 128 + (2 * 0 + 1) * 128
    BY <1>2, <1>3
  <2>2. QED
    BY <2>1
<1>5. Halfway(1) = 15168
  <2>1. Halfway(1) = (116 + 1) * 128 + (2 * 1 + 1) * 64
    BY <1>2, <1>3
  <2>2. QED
    BY <2>1
<1>6. Halfway(2) = 15264
  <2>1. Halfway(2) = (116 + 2) * 128 + (2 * 2 + 1) * 32
    BY <1>2, <1>3
  <2>2. QED
    BY <2>1
<1>7. Halfway(3) = 15328
  <2>1. Halfway(3) = (116 + 2) * 128 + (2 * 3 + 1) * 32
    BY <1>2, <1>3
  <2>2. QED
    BY <2>1
<1>8. Halfway(4) = 15376
  <2>1. Halfway(4) = (116 + 3) * 128 + (2 * 4 + 1) * 16
    BY <1>2, <1>3
  <2>2. QED
    BY <2>1
<1>9. Halfway(5) = 15408
  <2>1. Halfway(5) = (116 + 3) * 128 + (2 * 5 + 1) * 16
    BY <1>2, <1>3
  <2>2. QED
    BY <2>1
<1>10. Halfway(6) = 15440
  <2>1. Halfway(6) = (116 + 3) * 128 + (2 * 6 + 1) * 16
    BY <1>2, <1>3
  <2>2. QED
    BY <2>1
<1>11. Halfway(7) = 15472
  <2>1. Halfway(7) = (116 + 3) * 128 + (2 * 7 + 1) * 16
    BY <1>2, <1>3
  <2>2. QED
    BY <2>1
<1>12. QED
  BY <1>4, <1>5, <1>6, <1>7, <1>8, <1>9, <1>10, <1>11

-----------------------------------------------------------------------------
\* ----- rounding to the nearest code, ties to even

LEMMA Quotient ==
  ASSUME NEW b \in Nat \ {0}, NEW q \in Nat, NEW r \in Nat, r < b
  PROVE  (b * q + r) \div b = q /\ (b * q + r) % b = r
  OBVIOUS

\* What is kept of 8 j + k units of 2h and a rest of l: the hidden one is cut.
Splits(full, s, h, j, k, l) ==
  /\ h \in Nat \ {0} /\ s \in 1 .. 30 /\ h = Pow(s - 1)
  /\ j \in 0 .. 1 /\ k \in 0 .. 7 /\ l \in Nat /\ l < 2 * h
  /\ full \in Nat /\ full = 2 * h * (8 * j + k) + l
HalfToEven(k, l, h) == k + (IF l > h \/ (l = h /\ k % 2 = 1) THEN 1 ELSE 0)

LEMMA KeptIs ==
  ASSUME NEW full, NEW s, NEW h, NEW j, NEW k, NEW l, Splits(full, s, h, j, k, l)
  PROVE  RoundedKept(full, s) = HalfToEven(k, l, h)
<1> h \in Nat \ {0} /\ s \in 1 .. 30 /\ h = Pow(s - 1) /\ j \in 0 .. 1 /\ k \in 0 .. 7
    /\ l \in Nat /\ l < 2 * h /\ full \in Nat
  BY DEF Splits
<1>1. full = 2 * h * (8 * j + k) + l
  BY DEF Splits
<1>2. Pow(s) = 2 * h
  <2>1. s - 1 \in 0 .. 29 /\ (s - 1) + 1 = s
    OBVIOUS
  <2>2. QED
    BY <2>1, PowDouble
<1>3. Kept(full, s) = k
  <2>1. PICK b \in Nat \ {0} : b = 2 * h
    OBVIOUS
  <2>2. PICK n \in Nat : n = 8 * j + k
    OBVIOUS
  <2>3. full = b * n + l /\ l < b
    BY <1>1, <2>1, <2>2
  <2>4. full \div b = n
    BY <2>3, Quotient
  <2>5. n % 8 = k
    BY <2>2
  <2>6. QED
    BY <1>2, <2>1, <2>4, <2>5 DEF Kept
<1>4. CASE l < h
  <2>1. PICK q \in Nat : q = 2 * (8 * j + k)
    OBVIOUS
  <2>2. full = h * q + l
    BY <1>1, <2>1
  <2>3. full \div h = q
    BY <1>4, <2>2, Quotient
  <2>4. q % 2 = 0
    BY <2>1
  <2>5. RoundedKept(full, s) = k
    BY <1>3, <2>3, <2>4 DEF RoundedKept
  <2>6. l # h /\ ~(l > h)
    BY <1>4
  <2>7. HalfToEven(k, l, h) = k
    BY <2>6 DEF HalfToEven
  <2>8. QED
    BY <1>1, <2>5, <2>7
<1>5. CASE ~(l < h)
  <2>1. PICK q \in Nat : q = 2 * (8 * j + k) + 1
    OBVIOUS
  <2>2. PICK r \in Nat : r = l - h /\ r < h
    BY <1>5
  <2>3. full = h * q + r
    BY <1>1, <2>1, <2>2
  <2>4. full \div h = q /\ full % h = r
    BY <2>2, <2>3, Quotient
  <2>5. q % 2 = 1
    BY <2>1
  <2>6. r # 0 <=> l > h
    BY <1>5, <2>2
  <2>7. RoundedKept(full, s) = k + (IF r # 0 \/ k % 2 = 1 THEN 1 ELSE 0)
    BY <1>3, <2>4, <2>5 DEF RoundedKept
  <2>8. (l > h \/ (l = h /\ k % 2 = 1)) <=> (r # 0 \/ k % 2 = 1)
    BY <1>5, <2>6
  <2>9. QED
    BY <2>7, <2>8 DEF HalfToEven
<1>6. QED
  BY <1>4, <1>5

\* Code c is the nearest to the pattern mag, the even one on a tie.
Near(mag, c) ==
  /\ c \in Int /\ 0 <= c /\ c <= 126
  /\ c > 0   => mag > Halfway(c - 1) \/ (mag = Halfway(c - 1) /\ c % 2 = 0)
  /\ c < 126 => mag < Halfway(c) \/ (mag = Halfway(c) /\ c % 2 = 0)

\* The unit that the rounding adds to n, whose parity is p.
RoundsUp(u, p, l, h) ==
  \/ u = 1 /\ (l > h \/ (l = h /\ p = 1))
  \/ u = 0 /\ (l < h \/ (l = h /\ p = 0))

LEMMA UnitOf ==
  ASSUME NEW full, NEW s, NEW h, NEW j, NEW k, NEW l, Splits(full, s, h, j, k, l)
  PROVE  \E u \in 0 .. 1, p \in 0 .. 1, i \in 0 .. 3 :
           /\ k = 2 * i + p /\ RoundsUp(u, p, l, h)
           /\ RoundedKept(full, s) = k + u
<1> h \in Nat \ {0} /\ k \in 0 .. 7 /\ l \in Nat
  BY DEF Splits
<1>1. PICK i \in 0 .. 3 : i = k \div 2
  OBVIOUS
<1>2. PICK p \in 0 .. 1 : p = k % 2
  OBVIOUS
<1>3. k = 2 * i + p
  BY <1>1, <1>2
<1>4. PICK u \in 0 .. 1 : u = IF l > h \/ (l = h /\ p = 1) THEN 1 ELSE 0
  OBVIOUS
<1>5. RoundsUp(u, p, l, h)
  BY <1>4 DEF RoundsUp
<1>6. RoundedKept(full, s) = k + u
  <2>1. RoundedKept(full, s) = HalfToEven(k, l, h)
    BY KeptIs
  <2>2. HalfToEven(k, l, h) = k + u
    BY <1>2, <1>4 DEF HalfToEven
  <2>3. QED
    BY <2>1, <2>2
<1>7. QED
  BY <1>3, <1>5, <1>6

LEMMA NormalNearest ==
  ASSUME NEW e \in Int, NEW m \in Nat, 121 <= e, e <= 135, m <= 127
  PROVE  Near(e * 128 + m, CodeOf(e, m))
<1>1. PICK k \in 0 .. 7 : k = m \div 16
  OBVIOUS
<1>2. PICK l \in Nat : m = 16 * k + l /\ l < 16
  <2>1. m % 16 \in Nat /\ m % 16 < 16 /\ m = 16 * (m \div 16) + (m % 16)
    OBVIOUS
  <2>2. QED
    BY <1>1, <2>1
<1>3. PICK u \in 0 .. 1, p \in 0 .. 1, i \in 0 .. 3 :
        k = 2 * i + p /\ RoundsUp(u, p, l, 8) /\ RoundedKept(128 + m, 4) = k + u
  <2>1. PICK h \in Nat \ {0}, s \in 1 .. 30, j \in 0 .. 1, full \in Nat :
          h = 8 /\ s = 4 /\ j = 1 /\ full = 128 + m
    OBVIOUS
  <2>2. Splits(full, s, h, j, k, l)
    BY <1>2, <2>1, Powers DEF Splits
  <2>3. QED
    BY <2>1, <2>2, UnitOf
<1>4. PICK t \in 1 .. 15 : t = e - 120
  OBVIOUS
<1>5. Rounded(t, m) = k + u
  BY <1>3, <1>4 DEF Rounded, ShiftFor
<1>6. PICK c \in Int : c = IF 8 * t + k + u > 126 THEN 126 ELSE 8 * t + k + u
  OBVIOUS
<1>7. CodeOf(e, m) = c
  <2>1. PICK a \in Int : a = Cascade(t, m)
    BY <1>5 DEF Cascade
  <2>2. PICK b \in Int : b = MantOut(t, m)
    BY <1>5 DEF MantOut
  <2>3. k + u = 8 * a + b /\ 0 <= b /\ b <= 7
    BY <1>5, <2>1, <2>2 DEF Cascade, MantOut
  <2>4. CodeOf(e, m) = Finite(t, a, b)
    BY <1>4, <2>1, <2>2 DEF CodeOf
  <2>5. QED
    BY <1>6, <2>3, <2>4 DEF Finite
<1>8. 8 <= c /\ c <= 126
  BY <1>6
<1>9. PICK mag \in Int : mag = e * 128 + m
  OBVIOUS
<1>10. mag = 15360 + 16 * (8 * t + k) + l
  BY <1>2, <1>4, <1>9
<1>11. c < 126 => c = 8 * t + k + u /\ c % 2 = (p + u) % 2
  BY <1>3, <1>6
<1>12. c < 126 => mag < Halfway(c) \/ (mag = Halfway(c) /\ c % 2 = 0)
  <2> SUFFICES ASSUME c < 126
               PROVE  mag < Halfway(c) \/ (mag = Halfway(c) /\ c % 2 = 0)
    OBVIOUS
  <2>1. PICK b \in Int : b = Halfway(c) /\ b = 15368 + 16 * c
    <3>1. c <= 125
      OBVIOUS
    <3>2. QED
      BY <1>8, <3>1, HalfwayNormal
  <2>2. u = 0 => mag < b \/ (mag = b /\ p = 0)
    <3>1. u = 0 => l < 8 \/ (l = 8 /\ p = 0)
      BY <1>3 DEF RoundsUp
    <3>2. QED
      BY <1>10, <1>11, <2>1, <3>1
  <2>3. u = 1 => mag < b
    BY <1>2, <1>10, <1>11, <2>1
  <2>4. u = 0 /\ p = 0 => c % 2 = 0
    BY <1>11
  <2>5. QED
    BY <2>1, <2>2, <2>3, <2>4
<1>13. mag > Halfway(c - 1) \/ (mag = Halfway(c - 1) /\ c % 2 = 0)
  <2>1. CASE c = 8
    <3>1. mag >= 15488 /\ c - 1 = 7
      BY <1>10, <2>1
    <3>2. QED
      BY <1>9, <2>1, <3>1, HalfwaySmall
  <2>2. CASE c > 8
    <3>1. PICK b \in Int : b = Halfway(c - 1) /\ b = 15352 + 16 * c
      <4>1. PICK a \in Int : a = c - 1 /\ 8 <= a /\ a <= 125
        BY <1>8, <2>2
      <4>2. Halfway(a) = 15368 + 16 * a
        BY <4>1, HalfwayNormal
      <4>3. QED
        BY <4>1, <4>2
    <3>2. CASE 8 * t + k + u > 126
      <4>1. c = 126 /\ mag >= 17376
        BY <1>6, <1>10, <3>2
      <4>2. QED
        BY <3>1, <4>1
    <3>3. CASE ~(8 * t + k + u > 126)
      <4>1. c = 8 * t + k + u
        BY <1>6, <3>3
      <4>2. u = 0 => mag > b
        BY <1>10, <3>1, <4>1
      <4>3. u = 1 => mag > b \/ (mag = b /\ p = 1)
        <5>1. u = 1 => l > 8 \/ (l = 8 /\ p = 1)
          BY <1>3 DEF RoundsUp
        <5>2. QED
          BY <1>10, <3>1, <4>1, <5>1
      <4>4. u = 1 /\ p = 1 => c % 2 = 0
        <5>1. u = 1 /\ p = 1 => c = 2 * (4 * t + i + 1)
          BY <1>3, <4>1
        <5>2. QED
          BY <5>1
      <4>5. QED
        BY <3>1, <4>2, <4>3, <4>4
    <3>4. QED
      BY <3>2, <3>3
  <2>3. QED
    BY <1>8, <2>1, <2>2
<1>14. QED
  BY <1>7, <1>8, <1>9, <1>12, <1>13 DEF Near

\* The pattern mag, which is l - h above Halfway(k), lies between the halfway
\* points before and after it.
Between(mag, k, l, h) ==
  /\ mag \in Int /\ k \in 0 .. 7 /\ l \in Int /\ h \in Int
  /\ Halfway(k) \in Int /\ Halfway(k + 1) \in Int /\ (k > 0 => Halfway(k - 1) \in Int)
  /\ k > 0 => mag > Halfway(k - 1)
  /\ mag - Halfway(k) = l - h
  /\ mag < Halfway(k + 1)

\* The code c is k, or k + 1 when the rest l of 2h rounds up.
Picks(c, k, l, h) ==
  \E u \in 0 .. 1, p \in 0 .. 1, i \in 0 .. 3 :
    k = 2 * i + p /\ RoundsUp(u, p, l, h) /\ c = k + u

LEMMA NearOf ==
  ASSUME NEW mag, NEW n, NEW k, NEW l, NEW h, Between(mag, k, l, h), Picks(n, k, l, h)
  PROVE  Near(mag, n)
<1> mag \in Int /\ k \in 0 .. 7 /\ l \in Int /\ h \in Int
  BY DEF Between
<1>1. PICK u \in 0 .. 1, p \in 0 .. 1, i \in 0 .. 3 :
        k = 2 * i + p /\ RoundsUp(u, p, l, h) /\ n = k + u
  BY DEF Picks
<1>2. PICK b \in Int, d \in Int : Halfway(k) = b /\ Halfway(k + 1) = d
  BY DEF Between
<1>3. mag - b = l - h /\ mag < d
  BY <1>2 DEF Between
<1>4. k > 0 => Halfway(k - 1) \in Int /\ mag > Halfway(k - 1)
  BY DEF Between
<1>5. CASE u = 0
  <2>1. PICK c \in Int : c = k /\ c = n
    BY <1>1, <1>5
  <2>2. l < h \/ (l = h /\ p = 0)
    BY <1>1, <1>5 DEF RoundsUp
  <2>3. mag < b \/ (mag = b /\ c % 2 = 0)
    BY <1>1, <1>3, <2>1, <2>2
  <2>4. c > 0 => mag > Halfway(c - 1)
    BY <1>4, <2>1
  <2>5. QED
    BY <1>2, <2>1, <2>3, <2>4 DEF Near
<1>6. CASE u = 1
  <2>1. PICK c \in Int : c = k + 1 /\ c = n
    BY <1>1, <1>6
  <2>2. l > h \/ (l = h /\ p = 1)
    BY <1>1, <1>6 DEF RoundsUp
  <2>3. mag > b \/ (mag = b /\ c % 2 = 0)
    BY <1>1, <1>3, <2>1, <2>2
  <2>4. Halfway(c) = d /\ Halfway(c - 1) = b
    <3>1. c - 1 = k
      BY <2>1
    <3>2. QED
      BY <1>2, <2>1, <3>1
  <2>5. QED
    BY <1>3, <2>1, <2>3, <2>4 DEF Near
<1>7. QED
  BY <1>5, <1>6

\* In the subnormal regime the exponent e shifts the mantissa m: k units of 2h
\* are kept, a rest of l is cut.
SubSplit(e, m, h, k, l) ==
  /\ e \in Int /\ 117 <= e /\ e <= 120 /\ m \in Nat /\ m <= 127
  /\ h \in Nat /\ k \in 0 .. 7 /\ l \in Nat
  /\ h = Pow(124 - e) /\ l < 2 * h /\ 128 + m = 2 * h * k + l

LEMMA SubnormalCode ==
  ASSUME NEW e, NEW m, NEW h, NEW k, NEW l, SubSplit(e, m, h, k, l)
  PROVE  Picks(CodeOf(e, m), k, l, h)
<1>1. PICK t \in Int : t = e - 120 /\ -3 <= t /\ t <= 0 /\ e \in Int
  BY DEF SubSplit
<1>2. PICK s \in 1 .. 30, j \in 0 .. 1, full \in Nat :
        s = 5 - t /\ j = 0 /\ full = 128 + m
  BY <1>1 DEF SubSplit
<1>3. Splits(full, s, h, j, k, l)
  <2>1. s - 1 = 124 - e /\ s - 1 \in 0 .. 30
    BY <1>1, <1>2
  <2>2. h # 0
    BY <2>1, PowPositive DEF SubSplit
  <2>3. k \in 0 .. 7 => 8 * j + k = k
    BY <1>2
  <2>4. QED
    BY <1>2, <2>1, <2>2, <2>3 DEF Splits, SubSplit
<1>4. PICK u \in 0 .. 1, p \in 0 .. 1, i \in 0 .. 3 :
        k = 2 * i + p /\ RoundsUp(u, p, l, h) /\ RoundedKept(full, s) = k + u
  BY <1>3, UnitOf
<1>5. Rounded(t, m) = k + u
  BY <1>1, <1>2, <1>4 DEF Rounded, ShiftFor
<1>6. PICK r \in Int : r = k + u
  BY <1>4
<1>7. Cascade(t, m) = r \div 8 /\ MantOut(t, m) = r % 8 /\ r = 8 * (r \div 8) + (r % 8)
  BY <1>5, <1>6 DEF Cascade, MantOut
<1>8. CodeOf(e, m) = Finite(t, Cascade(t, m), MantOut(t, m))
  <2>1. e # 255 /\ ~(e >= 136) /\ ~(e <= 116)
    BY DEF SubSplit
  <2>2. QED
    BY <1>1, <2>1 DEF CodeOf
<1>9. CodeOf(e, m) = r
  BY <1>1, <1>6, <1>7, <1>8 DEF Finite
<1>10. QED
  BY <1>4, <1>6, <1>9 DEF Picks

LEMMA SubnormalNearest ==
  ASSUME NEW e \in Int, NEW m \in Nat, 117 <= e, e <= 120, m <= 127
  PROVE  Near(e * 128 + m, CodeOf(e, m))
<1>1. PICK mag \in Int : mag = e * 128 + m
  OBVIOUS
<1>2. Halfway(8) = 15496
  <2>1. Halfway(8) = 15368 + 16 * 8
    BY HalfwayNormal
  <2>2. QED
    BY <2>1
<1>3. ASSUME NEW h, NEW k, NEW l, SubSplit(e, m, h, k, l), Between(mag, k, l, h)
      PROVE  Near(mag, CodeOf(e, m))
  BY <1>3, SubnormalCode, NearOf
<1>4. CASE e = 120
  <2>1. PICK k \in 4 .. 7 : k = (128 + m) \div 32
    OBVIOUS
  <2>2. PICK l \in Nat : l = (128 + m) % 32
    OBVIOUS
  <2>3. 128 + m = 32 * k + l /\ l < 32
    BY <2>1, <2>2
  <2>4. SubSplit(e, m, 16, k, l)
    BY <1>4, <2>3, Powers DEF SubSplit
  <2>5. mag = 15232 + 32 * k + l
    BY <1>1, <1>4, <2>3
  <2>6. k = 4 \/ k = 5 \/ k = 6 \/ k = 7
    OBVIOUS
  <2>7. Between(mag, k, l, 16)
    <3>1. CASE k = 4
      BY <1>2, <2>3, <2>5, <3>1, HalfwaySmall DEF Between
    <3>2. CASE k = 5
      BY <1>2, <2>3, <2>5, <3>2, HalfwaySmall DEF Between
    <3>3. CASE k = 6
      BY <1>2, <2>3, <2>5, <3>3, HalfwaySmall DEF Between
    <3>4. CASE k = 7
      BY <1>2, <2>3, <2>5, <3>4, HalfwaySmall DEF Between
    <3>5. QED
      BY <2>6, <3>1, <3>2, <3>3, <3>4
  <2>8. QED
    BY <1>1, <1>3, <2>4, <2>7
<1>5. CASE e = 119
  <2>1. PICK k \in 2 .. 3 : k = (128 + m) \div 64
    OBVIOUS
  <2>2. PICK l \in Nat : l = (128 + m) % 64
    OBVIOUS
  <2>3. 128 + m = 64 * k + l /\ l < 64
    BY <2>1, <2>2
  <2>4. SubSplit(e, m, 32, k, l)
    BY <1>5, <2>3, Powers DEF SubSplit
  <2>5. mag = 15104 + 64 * k + l
    BY <1>1, <1>5, <2>3
  <2>6. k = 2 \/ k = 3
    OBVIOUS
  <2>7. Between(mag, k, l, 32)
    <3>1. CASE k = 2
      BY <2>3, <2>5, <3>1, HalfwaySmall DEF Between
    <3>2. CASE k = 3
      BY <2>3, <2>5, <3>2, HalfwaySmall DEF Between
    <3>3. QED
      BY <2>6, <3>1, <3>2
  <2>8. QED
    BY <1>1, <1>3, <2>4, <2>7
<1>6. CASE e = 118
  <2>1. SubSplit(e, m, 64, 1, m)
    BY <1>6, Powers DEF SubSplit
  <2>2. Between(mag, 1, m, 64)
    BY <1>1, <1>6, HalfwaySmall DEF Between
  <2>3. QED
    BY <1>1, <1>3, <2>1, <2>2
<1>7. CASE e = 117
  <2>1. PICK l \in Nat : l = 128 + m
    OBVIOUS
  <2>2. SubSplit(e, m, 128, 0, l)
    BY <1>7, <2>1, Powers DEF SubSplit
  <2>3. Between(mag, 0, l, 128)
    BY <1>1, <1>7, <2>1, HalfwaySmall DEF Between
  <2>4. QED
    BY <1>1, <1>3, <2>2, <2>3
<1>8. QED
  BY <1>4, <1>5, <1>6, <1>7

\* The code of every finite pattern is the nearest to it.
LEMMA CodeIsNearest ==
  ASSUME NEW e \in Int, NEW m \in Nat, 0 <= e, e <= 255, m <= 127, e < 255 \/ m = 0
  PROVE  Near(e * 128 + m, CodeOf(e, m))
<1>1. CASE e <= 116
  <2>1. CodeOf(e, m) = 0
    BY <1>1 DEF CodeOf
  <2>2. e * 128 + m < 14976
    BY <1>1
  <2>3. QED
    BY <2>1, <2>2, HalfwaySmall DEF Near
<1>2. CASE e >= 136
  <2>1. CodeOf(e, m) = 126
    BY <1>2 DEF CodeOf
  <2>2. PICK mag \in Int : mag = e * 128 + m /\ mag >= 17408
    BY <1>2
  <2>3. Halfway(125) = 15368 + 16 * 125 /\ 126 - 1 = 125
    BY HalfwayNormal
  <2>4. mag > Halfway(126 - 1)
    BY <2>2, <2>3
  <2>5. QED
    BY <2>1, <2>2, <2>4 DEF Near
<1>3. CASE 117 <= e /\ e <= 120
  BY <1>3, SubnormalNearest
<1>4. CASE 121 <= e /\ e <= 135
  BY <1>4, NormalNearest
<1>5. QED
  BY <1>1, <1>2, <1>3, <1>4

-----------------------------------------------------------------------------
\* ----- E4M3 -> BF16 is exact

\* The magnitude of the BF16 pattern that the two decoders build.
MagOf(e, m) ==
  IF e = 15 /\ m = 7 THEN 32704
  ELSE IF e # 0 THEN (e + 120) * 128 + m * 16
  ELSE IF m = 0 THEN 0
  ELSE (118 + SubnMsbPos(m)) * 128 + SubnMant(m)

\* The value w * 2^s, w of j + 1 bits, of a code; n is w in four bits.
Normalised(e, m, w, j, s, n) ==
  /\ w \in Nat /\ j \in 0 .. 3 /\ s \in 0 .. 14 /\ n \in 8 .. 15
  /\ Pow(j) <= w /\ w < 2 * Pow(j) /\ w * Pow(7 - j) = 16 * n
  /\ e4m3_decode(8 * e + m) = w * Pow(s)
  /\ MagOf(e, m) = (118 + j + s) * 128 + 16 * n - 128

LEMMA NormalCode ==
  ASSUME NEW e \in 1 .. 15, NEW m \in 0 .. 7, e < 15 \/ m < 7
  PROVE  Normalised(e, m, 8 + m, 3, e - 1, 8 + m)
<1>1. e4m3_decode(8 * e + m) = (8 + m) * Pow(e - 1)
  BY DecodedNormal
<1>2. Pow(3) = 8 /\ Pow(7 - 3) = 16
  BY Powers
<1>3. MagOf(e, m) = (118 + 3 + (e - 1)) * 128 + 16 * (8 + m) - 128
  BY DEF MagOf
<1>4. QED
  BY <1>1, <1>2, <1>3 DEF Normalised

LEMMA SubnormalCodeIs ==
  ASSUME NEW m \in 1 .. 7
  PROVE  \E w \in Nat, j \in 0 .. 3, s \in 0 .. 14, n \in 8 .. 15 : Normalised(0, m, w, j, s, n)
<1>1. e4m3_decode(8 * 0 + m) = m
  BY DecodedSmall
<1>2. Pow(0) = 1 /\ m * Pow(0) = m
  BY Powers
<1>3. ASSUME NEW j \in 0 .. 2, SubnMsbPos(m) = j, NEW p \in Nat, NEW q \in Nat, NEW n \in 8 .. 15,
             Pow(j) = p, Pow(7 - j) = q, p <= m, m < 2 * p, m * q = 16 * n
      PROVE  Normalised(0, m, m, j, 0, n)
  <2>1. SubnMant(m) = (16 * n) % 128
    BY <1>3 DEF SubnMant, Pow
  <2>2. (16 * n) % 128 = 16 * n - 128
    OBVIOUS
  <2>3. MagOf(0, m) = (118 + j) * 128 + (16 * n - 128)
    BY <1>3, <2>1, <2>2 DEF MagOf
  <2>4. QED
    BY <1>1, <1>2, <1>3, <2>3 DEF Normalised
<1>4. CASE m = 1
  <2>1. SubnMsbPos(m) = 0 /\ Pow(0) = 1 /\ Pow(7 - 0) = 128 /\ m * 128 = 16 * 8
    BY <1>4, Powers DEF SubnMsbPos
  <2>2. Normalised(0, m, m, 0, 0, 8)
    BY <1>3, <1>4, <2>1
  <2>3. QED
    BY <2>2
<1>5. CASE m = 2 \/ m = 3
  <2>1. PICK n \in 8 .. 15 : n = 4 * m
    BY <1>5
  <2>2. SubnMsbPos(m) = 1 /\ Pow(1) = 2 /\ Pow(7 - 1) = 64 /\ m * 64 = 16 * n
    BY <1>5, <2>1, Powers DEF SubnMsbPos
  <2>3. Normalised(0, m, m, 1, 0, n)
    BY <1>3, <1>5, <2>2
  <2>4. QED
    BY <2>3
<1>6. CASE m >= 4
  <2>1. PICK n \in 8 .. 15 : n = 2 * m
    BY <1>6
  <2>2. SubnMsbPos(m) = 2 /\ Pow(2) = 4 /\ Pow(7 - 2) = 32 /\ m * 32 = 16 * n
    BY <1>6, <2>1, Powers DEF SubnMsbPos
  <2>3. Normalised(0, m, m, 2, 0, n)
    BY <1>3, <1>6, <2>2
  <2>4. QED
    BY <2>3
<1>7. QED
  BY <1>4, <1>5, <1>6

LEMMA CodeNormalised ==
  ASSUME NEW e \in 0 .. 15, NEW m \in 0 .. 7, ~(e = 15 /\ m = 7), ~(e = 0 /\ m = 0)
  PROVE  \E w \in Nat, j \in 0 .. 3, s \in 0 .. 14, n \in 8 .. 15 : Normalised(e, m, w, j, s, n)
<1>1. CASE e = 0
  BY <1>1, SubnormalCodeIs
<1>2. CASE e # 0
  <2>1. Normalised(e, m, 8 + m, 3, e - 1, 8 + m)
    BY <1>2, NormalCode
  <2>2. 8 + m \in Nat /\ 3 \in 0 .. 3 /\ e - 1 \in 0 .. 14 /\ 8 + m \in 8 .. 15
    BY <1>2
  <2>3. QED
    BY <2>1, <2>2
<1>3. QED
  BY <1>1, <1>2

\* The pattern that is built is that of the decoded value, which is not 0.
LEMMA WidenedExactly ==
  ASSUME NEW e \in 0 .. 15, NEW m \in 0 .. 7, ~(e = 15 /\ m = 7), ~(e = 0 /\ m = 0)
  PROVE  /\ e4m3_decode(8 * e + m) # 0
         /\ Bf16Pattern(e4m3_decode(8 * e + m), 9) = MagOf(e, m)
<1>1. PICK w \in Nat, j \in 0 .. 3, s \in 0 .. 14, n \in 8 .. 15 : Normalised(e, m, w, j, s, n)
  BY CodeNormalised
<1>2. /\ Pow(j) <= w /\ w < 2 * Pow(j) /\ w * Pow(7 - j) = 16 * n
      /\ e4m3_decode(8 * e + m) = w * Pow(s)
      /\ MagOf(e, m) = (118 + j + s) * 128 + 16 * n - 128
  BY <1>1 DEF Normalised
<1>3. Bf16Pattern(w * Pow(s), 9) = (126 + j + s - 9) * 128 + w * Pow(7 - j)
  <2>1. j \in 0 .. 7 /\ s \in 0 .. 20 /\ 9 \in Int
    OBVIOUS
  <2>2. Pow(j) <= w /\ w < 2 * Pow(j)
    BY <1>2
  <2>3. QED
    BY <2>1, <2>2, PatternOf
<1>4. w * Pow(s) # 0
  <2>1. PICK p \in Nat \ {0}, q \in Nat \ {0} : p = Pow(s) /\ q = Pow(j)
    BY PowPositive
  <2>2. w > 0
    BY <1>2, <2>1
  <2>3. QED
    BY <2>1, <2>2
<1>5. QED
  BY <1>2, <1>3, <1>4

LEMMA MagIs15Bits ==
  ASSUME NEW e \in 0 .. 15, NEW m \in 0 .. 7
  PROVE  MagOf(e, m) \in Nat /\ MagOf(e, m) < 32768
<1>1. CASE e # 0 \/ m = 0
  BY <1>1, SMT DEF MagOf
<1>2. CASE e = 0 /\ m # 0
  <2>1. PICK w \in Nat, j \in 0 .. 3, s \in 0 .. 14, n \in 8 .. 15 : Normalised(0, m, w, j, s, n)
    BY <1>2, SubnormalCodeIs
  <2>2. MagOf(0, m) = (118 + j + s) * 128 + 16 * n - 128
    BY <2>1 DEF Normalised
  <2>3. QED
    BY <1>2, <2>2, SMT
<1>3. QED
  BY <1>1, <1>2

\* The exact value of byte c, as a pattern of fifteen bits.
ValueOf(c) ==
  IF NAN_E4M3(c) THEN 32704
  ELSE IF e4m3_decode(c % 128) = 0 THEN 0 ELSE Bf16Pattern(e4m3_decode(c % 128), 9)

LEMMA ByteFields ==
  ASSUME NEW c \in Nat, c < 256
  PROVE  \E e \in 0 .. 15, m \in 0 .. 7 :
           /\ e = (c \div 8) % 16 /\ m = c % 8
           /\ c % 128 = 8 * e + m /\ (c \div 128 = 0 \/ c \div 128 = 1)
<1>1. (c \div 8) % 16 \in 0 .. 15 /\ c % 8 \in 0 .. 7
  OBVIOUS
<1>2. c % 128 = 8 * ((c \div 8) % 16) + (c % 8) /\ (c \div 128 = 0 \/ c \div 128 = 1)
  OBVIOUS
<1>3. QED
  BY <1>1, <1>2

LEMMA MagIsValue ==
  ASSUME NEW c \in Nat, c < 256
  PROVE  MagOf((c \div 8) % 16, c % 8) = ValueOf(c)
<1>1. PICK e \in 0 .. 15, m \in 0 .. 7 :
        e = (c \div 8) % 16 /\ m = c % 8 /\ c % 128 = 8 * e + m
  BY ByteFields
<1>2. CASE e = 15 /\ m = 7
  <2>1. c % 128 = 127
    BY <1>1, <1>2
  <2>2. QED
    BY <1>1, <1>2, <2>1 DEF MagOf, ValueOf, NAN_E4M3
<1>3. CASE e = 0 /\ m = 0
  <2>1. c % 128 = 0 /\ e4m3_decode(0) = 0
    BY <1>1, <1>3, DecodedSmall
  <2>2. QED
    BY <1>1, <1>3, <2>1 DEF MagOf, ValueOf, NAN_E4M3
<1>4. CASE ~(e = 15 /\ m = 7) /\ ~(e = 0 /\ m = 0)
  <2>1. /\ e4m3_decode(8 * e + m) # 0
        /\ Bf16Pattern(e4m3_decode(8 * e + m), 9) = MagOf(e, m)
    BY <1>4, WidenedExactly
  <2>2. c % 128 # 127
    BY <1>1, <1>4
  <2>3. ValueOf(c) = Bf16Pattern(e4m3_decode(8 * e + m), 9)
    BY <1>1, <2>1, <2>2 DEF ValueOf, NAN_E4M3
  <2>4. QED
    BY <1>1, <2>1, <2>3
<1>5. QED
  BY <1>2, <1>3, <1>4

\* Either decoder: the sign above the magnitude.
LEMMA Decoders ==
  ASSUME NEW c \in Nat, c < 256
  PROVE  /\ Dequantize(c) = (c \div 128) * 32768 + MagOf((c \div 8) % 16, c % 8)
         /\ ScaleBf16(c) = (c \div 128) * 32768 + MagOf((c \div 8) % 16, c % 8)
<1>1. PICK e \in 0 .. 15, m \in 0 .. 7 : e = (c \div 8) % 16 /\ m = c % 8
  BY ByteFields
<1>2. PICK h \in Int : h = (c \div 128) * 32768
  OBVIOUS
<1>3. Dequantize(c) = h + MagOf(e, m)
  <2>1. PICK p \in Int : p = (118 + SubnMsbPos(m)) * 128
    BY DEF SubnMsbPos
  <2>2. PICK q \in Int : q = SubnMant(m)
    <3>1. PICK k \in 0 .. 30 : k = 7 - SubnMsbPos(m)
      BY DEF SubnMsbPos
    <3>2. SubnMant(m) = (m * Pow(k)) % 128 /\ Pow(k) \in Nat
      BY <3>1, PowPositive DEF SubnMant, Pow
    <3>3. QED
      BY <3>2
  <2>3. Dequantize(c) =
          CASE e = 15 /\ m = 7 -> h + 32704
            [] e = 0 /\ m = 0  -> h
            [] e = 0 /\ m # 0  -> h + p + q
            [] e \in 1 .. 15 /\ ~(e = 15 /\ m = 7) -> h + (e + 120) * 128 + m * 16
    BY <1>1, <1>2, <2>1, <2>2 DEF Dequantize, ExpField, MantField
  <2>4. MagOf(e, m) = IF e = 15 /\ m = 7 THEN 32704
                      ELSE IF e # 0 THEN (e + 120) * 128 + m * 16
                      ELSE IF m = 0 THEN 0 ELSE p + q
    BY <2>1, <2>2 DEF MagOf
  <2>5. QED
    BY <1>2, <2>1, <2>2, <2>3, <2>4
<1>4. ScaleBf16(c) = h + MagOf(e, m)
  <2>1. PICK j \in 0 .. 2 : j = ScaleMsbPos(m) /\ j = SubnMsbPos(m)
    BY DEF ScaleMsbPos, SubnMsbPos
  <2>2. PICK q \in Int : q = (m * 2 ^ (7 - j)) % 128
    <3>1. Pow(7 - j) \in Nat /\ Pow(7 - j) = 2 ^ (7 - j)
      <4>1. 7 - j \in 0 .. 30
        OBVIOUS
      <4>2. QED
        BY <4>1, PowPositive DEF Pow
    <3>2. QED
      BY <3>1
  <2>3. SubnMant(m) = q
    BY <2>1, <2>2 DEF SubnMant
  <2>4. ScaleBf16(c) = IF e = 15 /\ m = 7 THEN h + 32704
                       ELSE IF e # 0 THEN h + (e + 120) * 128 + m * 16
                       ELSE IF m = 0 THEN h ELSE h + (118 + j) * 128 + q
    BY <1>1, <1>2, <2>1, <2>2 DEF ScaleBf16, BF16_QNAN
  <2>5. MagOf(e, m) = IF e = 15 /\ m = 7 THEN 32704
                      ELSE IF e # 0 THEN (e + 120) * 128 + m * 16
                      ELSE IF m = 0 THEN 0 ELSE (118 + j) * 128 + q
    BY <2>1, <2>3 DEF MagOf
  <2>6. QED
    BY <1>2, <2>2, <2>4, <2>5
<1>5. QED
  BY <1>1, <1>2, <1>3, <1>4

-----------------------------------------------------------------------------
\* ----- the product of an NVFP4 element and its scale is exact

EltMag(t) == <<0, 16128, 16256, 16320, 16384, 16448, 16512, 16576>>[t + 1]

\* The element t is a * 2^g halves; its BF16 mantissa is 128 or 192.
EltMant(a) == IF a = 1 THEN 128 ELSE 192
EltExp(a, g) == IF a = 1 THEN 126 + g ELSE 127 + g
EltIs(t, a, g) ==
  /\ a \in {1, 3} /\ g \in 0 .. 3
  /\ nvfp4_decode_table(t) = a * Pow(g)
  /\ EltMag(t) = EltExp(a, g) * 128 + EltMant(a) - 128

LEMMA EltForm ==
  ASSUME NEW t \in 1 .. 7
  PROVE  \E a \in {1, 3}, g \in 0 .. 3 : EltIs(t, a, g)
<1>1. t % 8 = t /\ ~(t >= 8)
  OBVIOUS
<1>2. nvfp4_decode_table(t) = <<0, 1, 2, 3, 4, 6, 8, 12>>[t + 1]
  BY <1>1 DEF nvfp4_decode_table
<1>3. Pow(0) = 1 /\ Pow(1) = 2 /\ Pow(2) = 4 /\ Pow(3) = 8
  BY Powers
<1>4. CASE t = 1
  <2>1. nvfp4_decode_table(t) = 1 /\ EltMag(t) = 16128
    BY <1>2, <1>4 DEF EltMag
  <2>2. EltIs(t, 1, 0)
    BY <1>3, <2>1 DEF EltIs, EltExp, EltMant
  <2>3. QED
    BY <2>2
<1>5. CASE t = 2
  <2>1. nvfp4_decode_table(t) = 2 /\ EltMag(t) = 16256
    BY <1>2, <1>5 DEF EltMag
  <2>2. EltIs(t, 1, 1)
    BY <1>3, <2>1 DEF EltIs, EltExp, EltMant
  <2>3. QED
    BY <2>2
<1>6. CASE t = 3
  <2>1. nvfp4_decode_table(t) = 3 /\ EltMag(t) = 16320
    BY <1>2, <1>6 DEF EltMag
  <2>2. EltIs(t, 3, 0)
    BY <1>3, <2>1 DEF EltIs, EltExp, EltMant
  <2>3. QED
    BY <2>2
<1>7. CASE t = 4
  <2>1. nvfp4_decode_table(t) = 4 /\ EltMag(t) = 16384
    BY <1>2, <1>7 DEF EltMag
  <2>2. EltIs(t, 1, 2)
    BY <1>3, <2>1 DEF EltIs, EltExp, EltMant
  <2>3. QED
    BY <2>2
<1>8. CASE t = 5
  <2>1. nvfp4_decode_table(t) = 6 /\ EltMag(t) = 16448
    BY <1>2, <1>8 DEF EltMag
  <2>2. EltIs(t, 3, 1)
    BY <1>3, <2>1 DEF EltIs, EltExp, EltMant
  <2>3. QED
    BY <2>2
<1>9. CASE t = 6
  <2>1. nvfp4_decode_table(t) = 8 /\ EltMag(t) = 16512
    BY <1>2, <1>9 DEF EltMag
  <2>2. EltIs(t, 1, 3)
    BY <1>3, <2>1 DEF EltIs, EltExp, EltMant
  <2>3. QED
    BY <2>2
<1>10. CASE t = 7
  <2>1. nvfp4_decode_table(t) = 12 /\ EltMag(t) = 16576
    BY <1>2, <1>10 DEF EltMag
  <2>2. EltIs(t, 3, 2)
    BY <1>3, <2>1 DEF EltIs, EltExp, EltMant
  <2>3. QED
    BY <2>2
<1>11. QED
  BY <1>4, <1>5, <1>6, <1>7, <1>8, <1>9, <1>10

\* Normalised, with nothing rounded away: exponent, seven bits of mantissa.
Packs(p, exp, mant) ==
  /\ NormValue(p) % 256 = 0
  /\ MantissaRounded(p) = mant /\ 0 <= mant /\ mant < 128
  /\ ExpAdjusted(p) = exp

LEMMA SmallInSInt10 ==
  ASSUME NEW n \in Int, 0 <= n, n <= 300
  PROVE  SInt10(n) = n
  BY DEF SInt10

\* The normalised product is 256 k.
LEMMA PackNormal ==
  ASSUME NEW p, NEW k \in Int, 128 <= k, k < 256,
         NormValue(p) = 256 * k,
         NEW x \in Int, 0 <= x, x <= 299, p.exp_sum = x,
         NEW up \in 0 .. 1, up = IF p.mant_product >= 32768 THEN 1 ELSE 0
  PROVE  Packs(p, x + up, k - 128)
<1>1. NormValue(p) % 256 = 0 /\ NormValue(p) % 128 = 0
  <2>1. (256 * k) % 256 = 0 /\ (256 * k) % 128 = 0
    OBVIOUS
  <2>2. QED
    BY <2>1
<1>2. (NormValue(p) \div 128) % 2 = 0
  <2>1. (256 * k) \div 128 = 2 * k /\ (2 * k) % 2 = 0
    OBVIOUS
  <2>2. QED
    BY <2>1
<1>3. (NormValue(p) \div 256) % 128 = k - 128
  <2>1. (256 * k) \div 256 = k /\ k % 128 = k - 128
    OBVIOUS
  <2>2. QED
    BY <2>1
<1>4. ~RoundUp(p)
  BY <1>2 DEF RoundUp
<1>5. MantissaRounded(p) = k - 128
  BY <1>3, <1>4 DEF MantissaRounded
<1>6. (k - 128) \div 128 = 0
  OBVIOUS
<1>7. ExpAdjusted(p) = SInt10(x + up + 0)
  BY <1>5, <1>6 DEF ExpAdjusted
<1>8. SInt10(x + up) = x + up /\ x + up + 0 = x + up
  BY SmallInSInt10
<1>9. QED
  BY <1>1, <1>5, <1>7, <1>8 DEF Packs

\* Significand 3w, from the significand w of j + 1 bits: one bit or two more.
LEMMA TimesThree ==
  ASSUME NEW w \in Nat, NEW j \in 0 .. 3, NEW n \in 8 .. 15,
         Pow(j) <= w, w < 2 * Pow(j), w * Pow(7 - j) = 16 * n
  PROVE  /\ n <= 10 => /\ Pow(j + 1) <= 3 * w /\ 3 * w < 2 * Pow(j + 1)
                       /\ (3 * w) * Pow(7 - (j + 1)) = 24 * n
         /\ n > 10  => /\ Pow(j + 2) <= 3 * w /\ 3 * w < 2 * Pow(j + 2)
                       /\ (3 * w) * Pow(7 - (j + 2)) = 12 * n
<1>1. CASE j = 0
  <2>1. /\ 7 - j = 7 /\ j + 1 = 1 /\ j + 2 = 2 /\ 7 - (j + 1) = 6 /\ 7 - (j + 2) = 5
    BY <1>1
  <2>2. QED
    BY <1>1, <2>1, Powers
<1>2. CASE j = 1
  <2>1. /\ 7 - j = 6 /\ j + 1 = 2 /\ j + 2 = 3 /\ 7 - (j + 1) = 5 /\ 7 - (j + 2) = 4
    BY <1>2
  <2>2. QED
    BY <1>2, <2>1, Powers
<1>3. CASE j = 2
  <2>1. /\ 7 - j = 5 /\ j + 1 = 3 /\ j + 2 = 4 /\ 7 - (j + 1) = 4 /\ 7 - (j + 2) = 3
    BY <1>3
  <2>2. QED
    BY <1>3, <2>1, Powers
<1>4. CASE j = 3
  <2>1. /\ 7 - j = 4 /\ j + 1 = 4 /\ j + 2 = 5 /\ 7 - (j + 1) = 3 /\ 7 - (j + 2) = 2
    BY <1>4
  <2>2. QED
    BY <1>4, <2>1, Powers
<1>5. QED
  BY <1>1, <1>2, <1>3, <1>4

\* The product of an element a * 2^g and a scale w * 2^s.
Factors(e, m, a, g, w, j, s, n) ==
  /\ a \in {1, 3} /\ g \in 0 .. 3
  /\ Normalised(e, m, w, j, s, n)
IsProduct(p, a, g, j, s, n) ==
  /\ p.mant_product = EltMant(a) * (16 * n)
  /\ p.exp_sum = EltExp(a, g) + (118 + j + s) - 127

\* p packs into the pattern of the value v.
PacksExactly(p, v) ==
  \E exp \in 1 .. 254, mant \in Nat :
    /\ Packs(p, exp, mant)
    /\ Bf16Pattern(v, 10) = exp * 128 + mant

LEMMA ProductPacks ==
  ASSUME NEW e, NEW m, NEW a, NEW g, NEW w, NEW j, NEW s, NEW n, NEW p,
         Factors(e, m, a, g, w, j, s, n), IsProduct(p, a, g, j, s, n)
  PROVE  PacksExactly(p, (a * w) * Pow(g + s))
<1> /\ a \in {1, 3} /\ g \in 0 .. 3
    /\ w \in Nat /\ j \in 0 .. 3 /\ s \in 0 .. 14 /\ n \in 8 .. 15
  BY DEF Factors, Normalised
<1>1. Pow(j) <= w /\ w < 2 * Pow(j) /\ w * Pow(7 - j) = 16 * n
  BY DEF Factors, Normalised
<1>2. PICK b \in 0 .. 20 : b = g + s
  OBVIOUS
<1>3. PICK h \in Int : h = j + g + s /\ 0 <= h /\ h <= 20
  OBVIOUS
<1>4. CASE a = 1
  <2>1. p.mant_product = 2048 * n /\ p.exp_sum = 117 + h
    BY <1>3, <1>4 DEF IsProduct, EltMant, EltExp
  <2>2. PICK k \in Int : k = 16 * n /\ 128 <= k /\ k < 256
    OBVIOUS
  <2>3. NormValue(p) = 256 * k
    <3>1. (2 * (2048 * n)) % 65536 = 4096 * n
      OBVIOUS
    <3>2. ~(2048 * n >= 32768)
      OBVIOUS
    <3>3. QED
      BY <2>1, <2>2, <3>1, <3>2 DEF NormValue
  <2>4. Packs(p, 117 + h + 0, k - 128)
    <3>1. 0 = IF p.mant_product >= 32768 THEN 1 ELSE 0
      BY <2>1
    <3>2. 117 + h \in Int /\ 0 <= 117 + h /\ 117 + h <= 299
      BY <1>3
    <3>3. QED
      BY <2>1, <2>2, <2>3, <3>1, <3>2, PackNormal
  <2>5. Bf16Pattern(w * Pow(b), 10) = (126 + j + b - 10) * 128 + w * Pow(7 - j)
    <3>1. j \in 0 .. 7 /\ 10 \in Int /\ Pow(j) <= w /\ w < 2 * Pow(j)
      BY <1>1
    <3>2. QED
      BY <3>1, PatternOf
  <2>6. PICK x \in 1 .. 254 : x = 117 + h + 0
    BY <1>3
  <2>7. (126 + j + b - 10) * 128 + 16 * n = x * 128 + (k - 128)
    BY <1>2, <1>3, <2>2, <2>6
  <2>8. a * w = w
    BY <1>4
  <2>9. PICK mant \in Nat : mant = k - 128
    BY <2>2
  <2>10. Packs(p, x, mant)
    BY <2>4, <2>6, <2>9
  <2>11. Bf16Pattern((a * w) * Pow(g + s), 10) = x * 128 + mant
    BY <1>1, <1>2, <2>5, <2>7, <2>8, <2>9
  <2>12. QED
    BY <2>10, <2>11, Zenon DEF PacksExactly
<1>5. CASE a = 3 /\ n <= 10
  <2>1. p.mant_product = 3072 * n /\ p.exp_sum = 118 + h
    BY <1>3, <1>5 DEF IsProduct, EltMant, EltExp
  <2>2. PICK k \in Int : k = 24 * n /\ 128 <= k /\ k < 256
    BY <1>5
  <2>3. NormValue(p) = 256 * k
    <3>1. (2 * (3072 * n)) % 65536 = 6144 * n
      BY <1>5
    <3>2. ~(3072 * n >= 32768)
      BY <1>5
    <3>3. QED
      BY <2>1, <2>2, <3>1, <3>2 DEF NormValue
  <2>4. Packs(p, 118 + h + 0, k - 128)
    <3>1. 0 = IF p.mant_product >= 32768 THEN 1 ELSE 0
      BY <1>5, <2>1
    <3>2. 118 + h \in Int /\ 0 <= 118 + h /\ 118 + h <= 299
      BY <1>3
    <3>3. QED
      BY <2>1, <2>2, <2>3, <3>1, <3>2, PackNormal
  <2>5. PICK v \in Nat : v = 3 * w
    OBVIOUS
  <2>6. PICK i \in 0 .. 7 : i = j + 1
    OBVIOUS
  <2>7. Pow(i) <= v /\ v < 2 * Pow(i) /\ v * Pow(7 - i) = 24 * n
    BY <1>1, <1>5, <2>5, <2>6, TimesThree
  <2>8. Bf16Pattern(v * Pow(b), 10) = (126 + i + b - 10) * 128 + v * Pow(7 - i)
    <3>1. 10 \in Int /\ Pow(i) <= v /\ v < 2 * Pow(i)
      BY <2>7
    <3>2. QED
      BY <3>1, PatternOf, Zenon
  <2>9. PICK x \in 1 .. 254 : x = 118 + h + 0
    BY <1>3
  <2>10. (126 + i + b - 10) * 128 + 24 * n = x * 128 + (k - 128)
    BY <1>2, <1>3, <2>2, <2>6, <2>9
  <2>11. a * w = v
    BY <1>5, <2>5
  <2>12. PICK mant \in Nat : mant = k - 128
    BY <2>2
  <2>13. Packs(p, x, mant)
    BY <2>4, <2>9, <2>12
  <2>14. Bf16Pattern((a * w) * Pow(g + s), 10) = x * 128 + mant
    BY <1>2, <2>7, <2>8, <2>10, <2>11, <2>12
  <2>15. QED
    BY <2>13, <2>14, Zenon DEF PacksExactly
<1>6. CASE a = 3 /\ n > 10
  <2>1. p.mant_product = 3072 * n /\ p.exp_sum = 118 + h
    BY <1>3, <1>6 DEF IsProduct, EltMant, EltExp
  <2>2. PICK k \in Int : k = 12 * n /\ 128 <= k /\ k < 256
    BY <1>6
  <2>3. NormValue(p) = 256 * k
    <3>1. 3072 * n >= 32768
      BY <1>6
    <3>2. QED
      BY <2>1, <2>2, <3>1 DEF NormValue
  <2>4. Packs(p, 118 + h + 1, k - 128)
    <3>1. 1 = IF p.mant_product >= 32768 THEN 1 ELSE 0
      BY <1>6, <2>1
    <3>2. 118 + h \in Int /\ 0 <= 118 + h /\ 118 + h <= 299
      BY <1>3
    <3>3. QED
      BY <2>1, <2>2, <2>3, <3>1, <3>2, PackNormal
  <2>5. PICK v \in Nat : v = 3 * w
    OBVIOUS
  <2>6. PICK i \in 0 .. 7 : i = j + 2
    OBVIOUS
  <2>7. Pow(i) <= v /\ v < 2 * Pow(i) /\ v * Pow(7 - i) = 12 * n
    BY <1>1, <1>6, <2>5, <2>6, TimesThree
  <2>8. Bf16Pattern(v * Pow(b), 10) = (126 + i + b - 10) * 128 + v * Pow(7 - i)
    <3>1. 10 \in Int /\ Pow(i) <= v /\ v < 2 * Pow(i)
      BY <2>7
    <3>2. QED
      BY <3>1, PatternOf, Zenon
  <2>9. PICK x \in 1 .. 254 : x = 118 + h + 1
    BY <1>3
  <2>10. (126 + i + b - 10) * 128 + 12 * n = x * 128 + (k - 128)
    BY <1>2, <1>3, <2>2, <2>6, <2>9
  <2>11. a * w = v
    BY <1>6, <2>5
  <2>12. PICK mant \in Nat : mant = k - 128
    BY <2>2
  <2>13. Packs(p, x, mant)
    BY <2>4, <2>9, <2>12
  <2>14. Bf16Pattern((a * w) * Pow(g + s), 10) = x * 128 + mant
    BY <1>2, <2>7, <2>8, <2>10, <2>11, <2>12
  <2>15. QED
    BY <2>13, <2>14, Zenon DEF PacksExactly
<1>7. QED
  BY <1>4, <1>5, <1>6

Composed(v, h, x, y) ==
  /\ v \in Int /\ h \in 0 .. 1 /\ x \in Int /\ y \in Int
  /\ 0 <= x /\ x <= 255 /\ 0 <= y /\ y <= 127 /\ v = h * 32768 + x * 128 + y

LEMMA SignedFields ==
  ASSUME NEW v, NEW h, NEW x, NEW y, Composed(v, h, x, y)
  PROVE  (v \div 128) % 256 = x /\ v % 128 = y /\ v \div 32768 = h
<1>1. h = 0 \/ h = 1
  BY DEF Composed
<1>2. QED
  BY <1>1 DEF Composed

\* The fields of a byte.
ByteIs(c, h, e, m) ==
  /\ c \in Nat /\ c < 256 /\ h \in 0 .. 1 /\ e \in 0 .. 15 /\ m \in 0 .. 7
  /\ h = c \div 128 /\ e = (c \div 8) % 16 /\ m = c % 8 /\ c % 128 = 8 * e + m

LEMMA HasFields ==
  ASSUME NEW c \in Nat, c < 256
  PROVE  \E h, e, m : ByteIs(c, h, e, m)
<1>1. PICK e \in 0 .. 15, m \in 0 .. 7 :
        /\ e = (c \div 8) % 16 /\ m = c % 8 /\ c % 128 = 8 * e + m
        /\ (c \div 128 = 0 \/ c \div 128 = 1)
  BY ByteFields
<1>2. PICK h \in 0 .. 1 : h = c \div 128
  BY <1>1
<1>3. ByteIs(c, h, e, m)
  BY <1>1, <1>2 DEF ByteIs
<1>4. QED
  BY <1>3

LEMMA ScaleIs ==
  ASSUME NEW c, NEW h, NEW e, NEW m, ByteIs(c, h, e, m)
  PROVE  ScaleBf16(c) = h * 32768 + MagOf(e, m)
  BY Decoders DEF ByteIs

LEMMA OverriddenProduct ==
  ASSUME NEW elt, NEW c
  PROVE  Multiply(DecodeNvfp4(elt, c)).override_valid
           <=> elt % 8 = 0 \/ c % 128 = 0 \/ c % 128 = 127
<1>1. PICK d : d = DecodeNvfp4(elt, c)
  OBVIOUS
<1>2. /\ d.elt_is_zero <=> elt % 8 = 0
      /\ d.sc_is_zero <=> c % 128 = 0
      /\ d.sc_is_nan <=> c % 128 = 127
  BY <1>1, Zenon DEF DecodeNvfp4
<1>3. Multiply(d).override_valid = (d.elt_is_zero \/ d.sc_is_zero \/ d.sc_is_nan)
  BY SMT DEF Multiply
<1>4. QED
  BY <1>1, <1>2, <1>3, Zenon

\* The sign of the product, and its magnitude as a pattern.
SignOf(elt, c) == (elt \div 8 + c \div 128) % 2
PairValue(elt, c) == nvfp4_decode_table(elt % 8) * e4m3_decode(c % 128)
PairMag(elt, c) ==
  IF NAN_E4M3(c) THEN BF16_QNAN
  ELSE IF PairValue(elt, c) = 0 THEN 0 ELSE Bf16Pattern(PairValue(elt, c), 10)

\* An element code and a scale byte.
Pair(elt, c) == elt \in Nat /\ elt < 16 /\ c \in Nat /\ c < 256

LEMMA PairSign ==
  ASSUME NEW elt, NEW c, Pair(elt, c)
  PROVE  /\ Multiply(DecodeNvfp4(elt, c)).sign = SignOf(elt, c)
         /\ SignOf(elt, c) \in 0 .. 1
<1>1. elt \in Nat /\ elt < 16 /\ c \in Nat /\ c < 256
  BY DEF Pair
<1>2. PICK t \in 0 .. 7 : t = elt % 8
  BY <1>1
<1>3. PICK h \in 0 .. 1 : h = elt \div 8
  BY <1>1
<1>4. EltMag(t) \in Nat /\ EltMag(t) < 32768
  <2>1. t = 0 \/ t = 1 \/ t = 2 \/ t = 3 \/ t = 4 \/ t = 5 \/ t = 6 \/ t = 7
    OBVIOUS
  <2>2. QED
    BY <2>1 DEF EltMag
<1>5. E2M1_TO_BF16(elt) = h * 32768 + EltMag(t)
  BY <1>2, <1>3 DEF E2M1_TO_BF16, EltMag
<1>6. E2M1_TO_BF16(elt) \div 32768 = h
  BY <1>4, <1>5
<1>7. PICK k, e, m : ByteIs(c, k, e, m)
  BY <1>1, HasFields
<1>8. k \in 0 .. 1 /\ k = c \div 128
  BY <1>7 DEF ByteIs
<1>9. PICK v \in Nat : v = MagOf(e, m) /\ v < 32768
  BY <1>7, MagIs15Bits DEF ByteIs
<1>10. ScaleBf16(c) = k * 32768 + v
  BY <1>7, <1>9, ScaleIs
<1>11. ScaleBf16(c) \div 32768 = k
  BY <1>8, <1>9, <1>10
<1>12. Multiply(DecodeNvfp4(elt, c)).sign = (h + k) % 2
  BY <1>6, <1>11 DEF Multiply, DecodeNvfp4
<1>13. SignOf(elt, c) = (h + k) % 2
  BY <1>3, <1>8 DEF SignOf
<1>14. (h + k) % 2 \in 0 .. 1
  BY <1>8
<1>15. QED
  BY <1>12, <1>13, <1>14

\* A pair whose product is neither overridden by a zero nor by a NaN.
Live(elt, c) == Pair(elt, c) /\ elt % 8 # 0 /\ c % 128 # 0 /\ c % 128 # 127

\* What the product p of such a pair is.
LiveProduct(p, elt, c) ==
  /\ PacksExactly(p, PairValue(elt, c))
  /\ ~p.override_valid
  /\ p.exp_sum
       = ((E2M1_TO_BF16(elt) \div 128) % 256) + ((ScaleBf16(c) \div 128) % 256) - 127
  /\ PairValue(elt, c) # 0

LEMMA LivePacks ==
  ASSUME NEW elt, NEW c, Live(elt, c)
  PROVE  LiveProduct(Multiply(DecodeNvfp4(elt, c)), elt, c)
<1>1. elt \in Nat /\ elt < 16 /\ c \in Nat /\ c < 256 /\ elt % 8 # 0 /\ c % 128 # 0 /\ c % 128 # 127
  BY DEF Live, Pair
<1>2. PICK t \in 1 .. 7 : t = elt % 8
  BY <1>1
<1>3. PICK a \in {1, 3}, g \in 0 .. 3 : EltIs(t, a, g)
  BY EltForm
<1>4. PICK k, e, m : ByteIs(c, k, e, m)
  BY <1>1, HasFields
<1> e \in 0 .. 15 /\ m \in 0 .. 7
  BY <1>4 DEF ByteIs
<1>5. ~(e = 15 /\ m = 7) /\ ~(e = 0 /\ m = 0)
  BY <1>1, <1>4 DEF ByteIs
<1>6. PICK w \in Nat, j \in 0 .. 3, s \in 0 .. 14, n \in 8 .. 15 : Normalised(e, m, w, j, s, n)
  BY <1>5, CodeNormalised
<1> DEFINE p == Multiply(DecodeNvfp4(elt, c))
<1>7. PICK x \in Int, y \in Int :
        x = EltExp(a, g) /\ y = EltMant(a) /\ 0 <= x /\ x <= 255 /\ (y = 128 \/ y = 192)
  BY DEF EltExp, EltMant
<1>8. (E2M1_TO_BF16(elt) \div 128) % 256 = x /\ E2M1_TO_BF16(elt) % 128 = y - 128
  <2>1. PICK h \in 0 .. 1 : h = elt \div 8
    BY <1>1
  <2>2. EltMag(t) = x * 128 + y - 128
    BY <1>3, <1>7 DEF EltIs
  <2>3. E2M1_TO_BF16(elt) = h * 32768 + EltMag(t)
    BY <1>2, <2>1 DEF E2M1_TO_BF16, EltMag
  <2>4. Composed(E2M1_TO_BF16(elt), h, x, y - 128)
    BY <1>7, <2>2, <2>3 DEF Composed
  <2>5. QED
    BY <2>4, SignedFields
<1>9. PICK u \in Int : u = 118 + j + s /\ 0 <= u /\ u <= 255
  OBVIOUS
<1>10. (ScaleBf16(c) \div 128) % 256 = u /\ ScaleBf16(c) % 128 = 16 * n - 128
  <2>1. k \in 0 .. 1
    BY <1>4 DEF ByteIs
  <2>2. MagOf(e, m) = u * 128 + 16 * n - 128
    BY <1>6, <1>9 DEF Normalised
  <2>3. ScaleBf16(c) = k * 32768 + MagOf(e, m)
    BY <1>4, ScaleIs
  <2>4. Composed(ScaleBf16(c), k, u, 16 * n - 128)
    BY <1>9, <2>1, <2>2, <2>3 DEF Composed
  <2>5. QED
    BY <2>4, SignedFields
<1>11. p.exp_sum = x + u - 127
  <2>1. PICK z \in Int : z = x + u - 127 /\ 0 <= z /\ z <= 300
    BY <1>7, <1>9 DEF EltExp
  <2>2. p.exp_sum = SInt10(x + u - 127)
    BY <1>8, <1>10 DEF Multiply, DecodeNvfp4, ExpOfBf16
  <2>3. QED
    BY <2>1, <2>2, SmallInSInt10
<1>12. p.mant_product = y * (16 * n)
  <2>1. 128 + (y - 128) = y /\ 128 + (16 * n - 128) = 16 * n
    BY <1>7
  <2>2. MantOfBf16(E2M1_TO_BF16(elt)) = y /\ MantOfBf16(ScaleBf16(c)) = 16 * n
    BY <1>8, <1>10, <2>1 DEF MantOfBf16
  <2>3. QED
    BY <2>2 DEF Multiply, DecodeNvfp4
<1>13. ~p.override_valid
  BY <1>1, OverriddenProduct
<1>14. PairValue(elt, c) = (a * w) * Pow(g + s) /\ PairValue(elt, c) # 0
  <2>1. PICK b \in Nat \ {0}, d \in Nat \ {0} : b = Pow(g) /\ d = Pow(s)
    BY PowPositive
  <2>2. nvfp4_decode_table(t) = a * b
    BY <1>3, <2>1 DEF EltIs
  <2>3. e4m3_decode(8 * e + m) = w * d
    BY <1>6, <2>1 DEF Normalised
  <2>4. Pow(g + s) = b * d
    <3>1. g \in 0 .. 7 /\ s \in 0 .. 20
      OBVIOUS
    <3>2. Pow(g + s) = Pow(g) * Pow(s)
      BY <3>1, PowAdd
    <3>3. QED
      BY <2>1, <3>2
  <2>5. PairValue(elt, c) = (a * b) * (w * d)
    <3>1. c % 128 = 8 * e + m
      BY <1>4 DEF ByteIs
    <3>2. QED
      BY <1>2, <2>2, <2>3, <3>1 DEF PairValue
  <2>6. w # 0
    <3>1. PICK q \in Nat \ {0} : q = Pow(j)
      BY PowPositive
    <3>2. q <= w
      BY <1>6, <3>1 DEF Normalised
    <3>3. QED
      BY <3>1, <3>2
  <2>7. (a * b) * (w * d) = (a * w) * (b * d) /\ (a * w) * (b * d) # 0
    <3>1. PICK aw \in Nat \ {0}, bd \in Nat \ {0} : aw = a * w /\ bd = b * d
      BY <2>6
    <3>2. aw * bd # 0
      OBVIOUS
    <3>3. QED
      BY <3>1, <3>2
  <2>8. QED
    BY <2>4, <2>5, <2>7
<1>15. Factors(e, m, a, g, w, j, s, n)
  BY <1>6 DEF Factors
<1>16. IsProduct(p, a, g, j, s, n)
  BY <1>7, <1>9, <1>11, <1>12 DEF IsProduct
<1> HIDE DEF p
<1>17. PacksExactly(p, (a * w) * Pow(g + s))
  BY <1>15, <1>16, ProductPacks
<1>18. p.exp_sum = ((E2M1_TO_BF16(elt) \div 128) % 256) + ((ScaleBf16(c) \div 128) % 256) - 127
  BY <1>8, <1>10, <1>11
<1>19. LiveProduct(p, elt, c)
  BY <1>13, <1>14, <1>17, <1>18 DEF LiveProduct
<1>20. QED
  BY <1>19 DEF p

LEMMA OverrideResult ==
  ASSUME NEW elt, NEW c, Pair(elt, c)
  PROVE  Multiply(DecodeNvfp4(elt, c)).override_res
           = SignOf(elt, c) * 32768 + (IF c % 128 = 127 THEN BF16_QNAN ELSE 0)
<1>1. PICK d : d = DecodeNvfp4(elt, c)
  OBVIOUS
<1>2. d.sc_is_nan <=> c % 128 = 127
  BY <1>1, Zenon DEF DecodeNvfp4
<1>3. Multiply(d).override_res = Multiply(d).sign * 32768 + (IF d.sc_is_nan THEN BF16_QNAN ELSE 0)
  BY SMT DEF Multiply
<1>4. Multiply(d).sign = SignOf(elt, c)
  BY <1>1, PairSign
<1>5. QED
  BY <1>1, <1>2, <1>3, <1>4

\* A pair with a zero, but no NaN, is worth 0.
LEMMA DeadPair ==
  ASSUME NEW elt, NEW c, Pair(elt, c), ~Live(elt, c), c % 128 # 127
  PROVE  PairValue(elt, c) = 0
<1>1. elt \in Nat /\ elt < 16 /\ c \in Nat /\ c < 256
  BY DEF Pair
<1>2. CASE elt % 8 = 0
  <2>1. nvfp4_decode_table(0) = 0
    BY DEF nvfp4_decode_table
  <2>2. PICK v : v = e4m3_decode(c % 128)
    OBVIOUS
  <2>3. PICK k, e, m : ByteIs(c, k, e, m)
    BY <1>1, HasFields
  <2>4. v \in Int
    <3>1. e \in 0 .. 15 /\ m \in 0 .. 7 /\ c % 128 = 8 * e + m /\ (e < 15 \/ m < 7)
      BY <2>3 DEF ByteIs
    <3>2. CASE e = 0
      <4>1. c % 128 \in 0 .. 7
        BY <3>1, <3>2
      <4>2. QED
        BY <2>2, <4>1, DecodedSmall
    <3>3. CASE e # 0
      <4>1. e4m3_decode(8 * e + m) = (8 + m) * Pow(e - 1)
        BY <3>1, <3>3, DecodedNormal
      <4>2. e - 1 \in 0 .. 30
        BY <3>1, <3>3
      <4>3. PICK q \in Nat : q = Pow(e - 1)
        BY <4>2, PowPositive
      <4>4. QED
        BY <2>2, <3>1, <4>1, <4>3
    <3>4. QED
      BY <3>2, <3>3
  <2>5. PairValue(elt, c) = 0 * v
    BY <1>2, <2>1, <2>2 DEF PairValue
  <2>6. QED
    BY <2>4, <2>5
<1>3. CASE c % 128 = 0
  <2>1. e4m3_decode(c % 128) = 0
    BY <1>3, DecodedSmall
  <2>2. PICK t \in 0 .. 7 : t = elt % 8
    BY <1>1
  <2>3. PICK v \in Int : v = nvfp4_decode_table(t)
    <3>1. t = 0 \/ t \in 1 .. 7
      OBVIOUS
    <3>2. CASE t = 0
      BY <3>2 DEF nvfp4_decode_table
    <3>3. CASE t \in 1 .. 7
      <4>1. PICK a \in {1, 3}, g \in 0 .. 3 : EltIs(t, a, g)
        BY <3>3, EltForm
      <4>2. PICK q \in Nat : q = Pow(g)
        BY PowPositive
      <4>3. QED
        BY <4>1, <4>2 DEF EltIs
    <3>4. QED
      BY <3>1, <3>2, <3>3
  <2>4. PairValue(elt, c) = v * 0
    BY <2>1, <2>2, <2>3 DEF PairValue
  <2>5. QED
    BY <2>3, <2>4
<1>4. QED
  BY <1>2, <1>3 DEF Live

\* What the lane makes of a pair is the signed pattern of its exact product.
LEMMA PairPacked ==
  ASSUME NEW elt, NEW c, Pair(elt, c)
  PROVE  /\ PackBf16(Multiply(DecodeNvfp4(elt, c)))
              = SignOf(elt, c) * 32768 + PairMag(elt, c)
         /\ PairMag(elt, c) \in Nat /\ PairMag(elt, c) < 32768
<1>1. PICK h \in 0 .. 1 : h = SignOf(elt, c) /\ Multiply(DecodeNvfp4(elt, c)).sign = h
  BY PairSign
<1>2. PICK p : p = Multiply(DecodeNvfp4(elt, c))
  OBVIOUS
<1>3. CASE Live(elt, c)
  <2> LiveProduct(p, elt, c)
    BY <1>2, <1>3, LivePacks
  <2>1. PICK exp \in 1 .. 254, mant \in Nat :
          Packs(p, exp, mant) /\ Bf16Pattern(PairValue(elt, c), 10) = exp * 128 + mant
    BY Zenon DEF LiveProduct, PacksExactly
  <2>2. mant < 128 /\ mant % 128 = mant /\ MantissaRounded(p) = mant /\ ExpAdjusted(p) = exp
    BY <2>1 DEF Packs
  <2>3. PackBf16(p) = h * 32768 + exp * 128 + mant
    BY <1>1, <1>2, <2>1, <2>2 DEF PackBf16, LiveProduct
  <2>4. PairMag(elt, c) = exp * 128 + mant
    BY <1>3, <2>1 DEF PairMag, NAN_E4M3, Live, LiveProduct
  <2>5. QED
    BY <1>1, <1>2, <2>2, <2>3, <2>4
<1>4. CASE ~Live(elt, c)
  <2>1. p.override_valid
    BY <1>2, <1>4, OverriddenProduct DEF Live
  <2>2. PackBf16(p) = h * 32768 + (IF c % 128 = 127 THEN BF16_QNAN ELSE 0)
    <3>1. PackBf16(p) = p.override_res
      BY <2>1 DEF PackBf16
    <3>2. p.override_res = SignOf(elt, c) * 32768 + (IF c % 128 = 127 THEN BF16_QNAN ELSE 0)
      BY <1>2, OverrideResult
    <3>3. QED
      BY <1>1, <3>1, <3>2
  <2>3. PairMag(elt, c) = IF c % 128 = 127 THEN BF16_QNAN ELSE 0
    BY <1>4, DeadPair DEF PairMag, NAN_E4M3
  <2>4. QED
    BY <1>1, <1>2, <2>2, <2>3 DEF BF16_QNAN
<1>5. QED
  BY <1>3, <1>4

-----------------------------------------------------------------------------
\* ----- the special results of the exponential

\* The results, from the smallest to the largest.
LEMMA ResultsOrdered ==
  /\ FP32_PLUS_ZERO = 0 /\ FP32_PLUS_ONE = 1065353216
  /\ FP32_PLUS_INF = 2139095040 /\ FP32_QNAN = 2143289344
  BY SMT DEF FP32_PLUS_ZERO, FP32_PLUS_ONE, FP32_PLUS_INF, FP32_QNAN

LEMMA CasesAre ==
  ASSUME NEW h \in Cases
  PROVE  \/ h = <<"nan", FP32_QNAN>> \/ h = <<"pos_inf", FP32_PLUS_INF>>
         \/ h = <<"neg_inf", FP32_PLUS_ZERO>> \/ h = <<"zero_or_sub", FP32_PLUS_ONE>>
         \/ h = <<"overflows", FP32_PLUS_INF>> \/ h = <<"underflows", FP32_PLUS_ZERO>>
  BY Zenon DEF Cases

LEMMA CasesListed ==
  /\ <<"nan", FP32_QNAN>> \in Cases /\ <<"pos_inf", FP32_PLUS_INF>> \in Cases
  /\ <<"neg_inf", FP32_PLUS_ZERO>> \in Cases /\ <<"zero_or_sub", FP32_PLUS_ONE>> \in Cases
  /\ <<"overflows", FP32_PLUS_INF>> \in Cases /\ <<"underflows", FP32_PLUS_ZERO>> \in Cases
  BY Zenon DEF Cases

LEMMA SelectedIs ==
  ASSUME NEW x, NEW h
  PROVE  /\ h = <<"nan", FP32_QNAN>> =>
              h[2] = FP32_QNAN /\ (Selected(x, h) <=> XExp(x) = 255 /\ XMan(x) # 0)
         /\ h = <<"pos_inf", FP32_PLUS_INF>> =>
              h[2] = FP32_PLUS_INF
              /\ (Selected(x, h) <=> XExp(x) = 255 /\ XMan(x) = 0 /\ ~(XSign(x) = 1))
         /\ h = <<"neg_inf", FP32_PLUS_ZERO>> =>
              h[2] = FP32_PLUS_ZERO
              /\ (Selected(x, h) <=> XExp(x) = 255 /\ XMan(x) = 0 /\ XSign(x) = 1)
         /\ h = <<"zero_or_sub", FP32_PLUS_ONE>> =>
              h[2] = FP32_PLUS_ONE /\ (Selected(x, h) <=> XExp(x) = 0)
         /\ h = <<"overflows", FP32_PLUS_INF>> =>
              h[2] = FP32_PLUS_INF
              /\ (Selected(x, h) <=> ~(XSign(x) = 1) /\ XMag(x) > OVERFLOW_THRESH_MAG)
         /\ h = <<"underflows", FP32_PLUS_ZERO>> =>
              h[2] = FP32_PLUS_ZERO
              /\ (Selected(x, h) <=> XSign(x) = 1 /\ XMag(x) > UNDERFLOW_THRESH_MAG)
<1>1. h = <<"nan", FP32_QNAN>> =>
        h[2] = FP32_QNAN /\ (Selected(x, h) <=> XExp(x) = 255 /\ XMan(x) # 0)
  BY SMT DEF Selected
<1>2. h = <<"pos_inf", FP32_PLUS_INF>> =>
        h[2] = FP32_PLUS_INF
        /\ (Selected(x, h) <=> XExp(x) = 255 /\ XMan(x) = 0 /\ ~(XSign(x) = 1))
  BY SMT DEF Selected
<1>3. h = <<"neg_inf", FP32_PLUS_ZERO>> =>
        h[2] = FP32_PLUS_ZERO
        /\ (Selected(x, h) <=> XExp(x) = 255 /\ XMan(x) = 0 /\ XSign(x) = 1)
  BY SMT DEF Selected
<1>4. h = <<"zero_or_sub", FP32_PLUS_ONE>> =>
        h[2] = FP32_PLUS_ONE /\ (Selected(x, h) <=> XExp(x) = 0)
  BY SMT DEF Selected
<1>5. h = <<"overflows", FP32_PLUS_INF>> =>
        h[2] = FP32_PLUS_INF
        /\ (Selected(x, h) <=> ~(XSign(x) = 1) /\ XMag(x) > OVERFLOW_THRESH_MAG)
  BY SMT DEF Selected
<1>6. h = <<"underflows", FP32_PLUS_ZERO>> =>
        h[2] = FP32_PLUS_ZERO
        /\ (Selected(x, h) <=> XSign(x) = 1 /\ XMag(x) > UNDERFLOW_THRESH_MAG)
  BY SMT DEF Selected
<1>7. QED
  BY <1>1, <1>2, <1>3, <1>4, <1>5, <1>6

LEMMA LargestIs ==
  ASSUME NEW S, NEW v \in Int, v \in S, \A u \in S : u \in Int /\ u <= v
  PROVE  Max(S) = v
<1>1. \A u \in S : v >= u
  OBVIOUS
<1>2. \A u \in S : (\A t \in S : u >= t) => u = v
  OBVIOUS
<1>3. QED
  BY <1>1, <1>2, Zenon DEF Max

\* A raised case gives the result when no raised case has a larger one.
LEMMA SpecialIs ==
  ASSUME NEW x, NEW g \in Cases, Selected(x, g), g[2] \in Nat,
         \A h \in Cases : Selected(x, h) => h[2] \in Nat /\ h[2] <= g[2]
  PROVE  ExpOf(x) = g[2]
<1>1. PICK hits : hits = SpecialHits(x)
  OBVIOUS
<1>2. g \in hits /\ \A h \in hits : h \in Cases /\ Selected(x, h)
  BY <1>1, HitsSelected, Zenon
<1>3. PICK S : S = {h[2] : h \in hits} \cup {0}
  OBVIOUS
<1>4. Max(S) = g[2]
  <2>1. g[2] \in S
    BY <1>2, <1>3
  <2>2. \A u \in S : u \in Int /\ u <= g[2]
    BY <1>2, <1>3
  <2>3. QED
    BY <2>1, <2>2, LargestIs
<1>5. Special(x).override_result = g[2]
  BY <1>1, <1>3, <1>4 DEF Special
<1>6. Special(x).override_valid = (SpecialHits(x) # {})
  BY DEF Special
<1>7. Special(x).override_valid
  BY <1>1, <1>2, <1>6
<1>8. QED
  BY <1>5, <1>7 DEF ExpOf, LaneOutput

\* The fields of an operand.
LEMMA OperandFields ==
  ASSUME NEW x \in Nat, x < 65536
  PROVE  /\ XSign(x) \in 0 .. 1
         /\ XExp(x) \in Int /\ 0 <= XExp(x) /\ XExp(x) <= 255
         /\ XMan(x) \in Int /\ XMag(x) = (x % 32768) * 65536
         /\ XExp(x) = 255 /\ XMan(x) # 0 <=> x % 32768 > 32640
         /\ XExp(x) = 255 /\ XMan(x) = 0 <=> x % 32768 = 32640
         /\ XExp(x) = 0 <=> x % 32768 < 128
  BY SMT DEF XSign, XExp, XMan, XMag

LEMMA SpecialValues ==
  ASSUME NEW x \in Nat, x < 65536
  PROVE  /\ x % 32768 > 32640 => ExpOf(x) = FP32_QNAN
         /\ XSign(x) = 0 /\ x % 32768 > 17072 /\ x % 32768 <= 32640 => ExpOf(x) = FP32_PLUS_INF
         /\ XSign(x) = 1 /\ x % 32768 > 17070 /\ x % 32768 <= 32640 => ExpOf(x) = FP32_PLUS_ZERO
         /\ XExp(x) = 0 => ExpOf(x) = FP32_PLUS_ONE
<1>1. PICK mag \in Int : mag = x % 32768 /\ 0 <= mag
  OBVIOUS
<1>2. /\ XSign(x) = 0 \/ XSign(x) = 1
      /\ XExp(x) = 255 /\ XMan(x) # 0 <=> mag > 32640
      /\ XExp(x) = 255 /\ XMan(x) = 0 <=> mag = 32640
      /\ XExp(x) = 0 <=> mag < 128
      /\ XMag(x) > OVERFLOW_THRESH_MAG <=> mag > 17072
      /\ XMag(x) > UNDERFLOW_THRESH_MAG <=> mag > 17070
  BY <1>1, OperandFields, SMT DEF OVERFLOW_THRESH_MAG, UNDERFLOW_THRESH_MAG
<1>3. ASSUME NEW h \in Cases
      PROVE  h[2] \in Nat /\ h[2] <= FP32_QNAN
  BY CasesAre, SelectedIs, ResultsOrdered
<1>4. ASSUME mag > 32640 PROVE ExpOf(x) = FP32_QNAN
  <2> DEFINE g == <<"nan", FP32_QNAN>>
  <2>1. g \in Cases /\ g[2] = FP32_QNAN /\ Selected(x, g)
    BY <1>2, <1>4, CasesListed, SelectedIs
  <2>2. QED
    BY <1>3, <2>1, SpecialIs
<1>5. ASSUME XSign(x) = 0, mag > 17072, mag <= 32640 PROVE ExpOf(x) = FP32_PLUS_INF
  <2> DEFINE g == <<"overflows", FP32_PLUS_INF>>
  <2>1. g \in Cases /\ g[2] = FP32_PLUS_INF /\ Selected(x, g)
    BY <1>2, <1>5, CasesListed, SelectedIs
  <2>2. ASSUME NEW h \in Cases, Selected(x, h) PROVE h[2] \in Nat /\ h[2] <= FP32_PLUS_INF
    BY <1>2, <1>5, <2>2, CasesAre, SelectedIs, ResultsOrdered
  <2>3. QED
    BY <1>3, <2>1, <2>2, SpecialIs
<1>6. ASSUME XSign(x) = 1, mag > 17070, mag <= 32640 PROVE ExpOf(x) = FP32_PLUS_ZERO
  <2> DEFINE g == <<"underflows", FP32_PLUS_ZERO>>
  <2>1. g \in Cases /\ g[2] = FP32_PLUS_ZERO /\ Selected(x, g)
    BY <1>2, <1>6, CasesListed, SelectedIs
  <2>2. ASSUME NEW h \in Cases, Selected(x, h) PROVE h[2] \in Nat /\ h[2] <= FP32_PLUS_ZERO
    BY <1>2, <1>6, <2>2, CasesAre, SelectedIs, ResultsOrdered
  <2>3. QED
    BY <1>3, <2>1, <2>2, SpecialIs
<1>7. ASSUME XExp(x) = 0 PROVE ExpOf(x) = FP32_PLUS_ONE
  <2> DEFINE g == <<"zero_or_sub", FP32_PLUS_ONE>>
  <2>1. g \in Cases /\ g[2] = FP32_PLUS_ONE /\ Selected(x, g)
    BY <1>2, <1>7, CasesListed, SelectedIs
  <2>2. ASSUME NEW h \in Cases, Selected(x, h) PROVE h[2] \in Nat /\ h[2] <= FP32_PLUS_ONE
    BY <1>2, <1>7, <2>2, CasesAre, SelectedIs, ResultsOrdered
  <2>3. QED
    BY <1>3, <2>1, <2>2, SpecialIs
<1>8. QED
  BY <1>1, <1>4, <1>5, <1>6, <1>7

-----------------------------------------------------------------------------
\* ----- what the reconstruction of the exponential receives

LEMMA TimesMonotone ==
  ASSUME NEW a \in Int, NEW t \in Int, 0 <= a, 0 <= t
  PROVE  0 <= a * t
  OBVIOUS

\* One Horner step moves the coefficient by at most about 0.35 t.
Moves(r, t, c, high, d) ==
  /\ r \in Int /\ t \in Int /\ c \in Int /\ high \in Int /\ d \in Int
  /\ Within(r, 372130559) /\ 0 <= t /\ t <= high
  /\ 372130559 * high + 536870912 < (d + 1) * 1073741824

LEMMA HornerBounded ==
  ASSUME NEW r, NEW t, NEW c, NEW high, NEW d, Moves(r, t, c, high, d)
  PROVE  Horner(t, r, c) \in Int /\ c - d <= Horner(t, r, c) /\ Horner(t, r, c) <= c + d
<1> /\ r \in Int /\ t \in Int /\ c \in Int /\ high \in Int /\ d \in Int
    /\ 0 <= t /\ t <= high
  BY SMT DEF Moves
<1>1. -372130559 <= r /\ r <= 372130559
  BY WithinMeans, SMT DEF Moves
<1>2. PICK p \in Int : p = r * t
  OBVIOUS
<1>3. -(372130559 * t) <= p /\ p <= 372130559 * t
  <2>1. PICK a \in Int, b \in Int : a = 372130559 - r /\ b = 372130559 + r /\ 0 <= a /\ 0 <= b
    BY <1>1
  <2>2. 0 <= a * t /\ 0 <= b * t
    BY <2>1, TimesMonotone
  <2>3. a * t = 372130559 * t - p /\ b * t = 372130559 * t + p
    BY <1>2, <2>1
  <2>4. QED
    BY <2>2, <2>3
<1>4. Horner(t, r, c) = (p + 536870912) \div 1073741824 + c
  <2>1. MulRound30(r, t) = (r * t + 536870912) \div 1073741824
    BY RoundedProduct
  <2>2. QED
    BY <1>2, <2>1 DEF Horner
<1>5. PICK k \in Int : k = 372130559 * high /\ -k <= p /\ p <= k
  BY <1>3
<1>6. k + 536870912 < (d + 1) * 1073741824
  BY <1>5, SMT DEF Moves
<1>7. -d <= (p + 536870912) \div 1073741824 /\ (p + 536870912) \div 1073741824 <= d
  BY <1>5, <1>6
<1>8. QED
  BY <1>4, <1>7

\* A positive rest adds.
LEMMA HornerGrows ==
  ASSUME NEW r \in Int, NEW t \in Int, NEW c \in Int, 0 <= r, 0 <= t
  PROVE  Horner(t, r, c) >= c
<1>1. PICK p \in Int : p = r * t /\ 0 <= p
  BY TimesMonotone
<1>2. MulRound30(r, t) = (r * t + 536870912) \div 1073741824
  BY RoundedProduct
<1>3. QED
  BY <1>1, <1>2 DEF Horner

LEMMA Coefficients ==
  /\ C0 = 1073741824 /\ C1 = 1073741824 /\ C2 = 536870912
  /\ C3 = 178956971 /\ C4 = 44739243 /\ C5 = 8947849
  BY SMT DEF C0, C1, C2, C3, C4, C5

\* The values after the five steps.
Chain(r, t4, t3, t2, t1, y) ==
  /\ t4 \in Int /\ t4 = Horner(C5, r, C4) /\ 41638155 <= t4 /\ t4 <= 47840331
  /\ t3 \in Int /\ t3 = Horner(t4, r, C3) /\ 162376776 <= t3 /\ t3 <= 195537166
  /\ t2 \in Int /\ t2 = Horner(t3, r, C2) /\ 469102894 <= t2 /\ t2 <= 604638930
  /\ t1 \in Int /\ t1 = Horner(t2, r, C1) /\ 864189939 <= t1 /\ t1 <= 1283293709
  /\ y \in Int /\ y = Horner(t1, r, C0) /\ 628986116 <= y /\ y <= 1518497532
  /\ PolyOf(r) = y

LEMMA HornerChain ==
  ASSUME NEW r \in Int, Within(r, 372130559)
  PROVE  \E t4, t3, t2, t1, y : Chain(r, t4, t3, t2, t1, y)
<1>1. PICK t4 \in Int : t4 = Horner(C5, r, C4) /\ 41638155 <= t4 /\ t4 <= 47840331
  <2>1. PICK high \in Int : high = 8947849
    BY SMT
  <2>2. PICK d \in Int : d = 3101088
    BY SMT
  <2>3. PICK c \in Int : c = C4
    BY Coefficients, SMT
  <2>4. 372130559 * high + 536870912 < (d + 1) * 1073741824
    BY <2>1, <2>2, SMT
  <2>5. C5 \in Int /\ 0 <= C5 /\ C5 <= high
    BY <2>1, Coefficients, SMT
  <2>6. Horner(C5, r, c) \in Int /\ c - d <= Horner(C5, r, c) /\ Horner(C5, r, c) <= c + d
    <3>1. Moves(r, C5, c, high, d)
      BY <2>4, <2>5, SMT DEF Moves
    <3>2. QED
      BY <3>1, HornerBounded
  <2>7. c - d = 41638155 /\ c + d = 47840331
    BY <2>2, <2>3, Coefficients, SMT
  <2>8. QED
    BY <2>3, <2>6, <2>7, SMT
<1>2. PICK t3 \in Int : t3 = Horner(t4, r, C3) /\ 162376776 <= t3 /\ t3 <= 195537166
  <2>1. PICK high \in Int : high = 47840331
    BY SMT
  <2>2. PICK d \in Int : d = 16580195
    BY SMT
  <2>3. PICK c \in Int : c = C3
    BY Coefficients, SMT
  <2>4. 372130559 * high + 536870912 < (d + 1) * 1073741824
    BY <2>1, <2>2, SMT
  <2>5. t4 \in Int /\ 0 <= t4 /\ t4 <= high
    BY <1>1, <2>1, SMT
  <2>6. Horner(t4, r, c) \in Int /\ c - d <= Horner(t4, r, c) /\ Horner(t4, r, c) <= c + d
    <3>1. Moves(r, t4, c, high, d)
      BY <2>4, <2>5, SMT DEF Moves
    <3>2. QED
      BY <3>1, HornerBounded
  <2>7. c - d = 162376776 /\ c + d = 195537166
    BY <2>2, <2>3, Coefficients, SMT
  <2>8. QED
    BY <2>3, <2>6, <2>7, SMT
<1>3. PICK t2 \in Int : t2 = Horner(t3, r, C2) /\ 469102894 <= t2 /\ t2 <= 604638930
  <2>1. PICK high \in Int : high = 195537166
    BY SMT
  <2>2. PICK d \in Int : d = 67768018
    BY SMT
  <2>3. PICK c \in Int : c = C2
    BY Coefficients, SMT
  <2>4. 372130559 * high + 536870912 < (d + 1) * 1073741824
    BY <2>1, <2>2, SMT
  <2>5. t3 \in Int /\ 0 <= t3 /\ t3 <= high
    BY <1>2, <2>1, SMT
  <2>6. Horner(t3, r, c) \in Int /\ c - d <= Horner(t3, r, c) /\ Horner(t3, r, c) <= c + d
    <3>1. Moves(r, t3, c, high, d)
      BY <2>4, <2>5, SMT DEF Moves
    <3>2. QED
      BY <3>1, HornerBounded
  <2>7. c - d = 469102894 /\ c + d = 604638930
    BY <2>2, <2>3, Coefficients, SMT
  <2>8. QED
    BY <2>3, <2>6, <2>7, SMT
<1>4. PICK t1 \in Int : t1 = Horner(t2, r, C1) /\ 864189939 <= t1 /\ t1 <= 1283293709
  <2>1. PICK high \in Int : high = 604638930
    BY SMT
  <2>2. PICK d \in Int : d = 209551885
    BY SMT
  <2>3. PICK c \in Int : c = C1
    BY Coefficients, SMT
  <2>4. 372130559 * high + 536870912 < (d + 1) * 1073741824
    BY <2>1, <2>2, SMT
  <2>5. t2 \in Int /\ 0 <= t2 /\ t2 <= high
    BY <1>3, <2>1, SMT
  <2>6. Horner(t2, r, c) \in Int /\ c - d <= Horner(t2, r, c) /\ Horner(t2, r, c) <= c + d
    <3>1. Moves(r, t2, c, high, d)
      BY <2>4, <2>5, SMT DEF Moves
    <3>2. QED
      BY <3>1, HornerBounded
  <2>7. c - d = 864189939 /\ c + d = 1283293709
    BY <2>2, <2>3, Coefficients, SMT
  <2>8. QED
    BY <2>3, <2>6, <2>7, SMT
<1>5. PICK y \in Int : y = Horner(t1, r, C0) /\ 628986116 <= y /\ y <= 1518497532
  <2>1. PICK high \in Int : high = 1283293709
    BY SMT
  <2>2. PICK d \in Int : d = 444755708
    BY SMT
  <2>3. PICK c \in Int : c = C0
    BY Coefficients, SMT
  <2>4. 372130559 * high + 536870912 < (d + 1) * 1073741824
    BY <2>1, <2>2, SMT
  <2>5. t1 \in Int /\ 0 <= t1 /\ t1 <= high
    BY <1>4, <2>1, SMT
  <2>6. Horner(t1, r, c) \in Int /\ c - d <= Horner(t1, r, c) /\ Horner(t1, r, c) <= c + d
    <3>1. Moves(r, t1, c, high, d)
      BY <2>4, <2>5, SMT DEF Moves
    <3>2. QED
      BY <3>1, HornerBounded
  <2>7. c - d = 628986116 /\ c + d = 1518497532
    BY <2>2, <2>3, Coefficients, SMT
  <2>8. QED
    BY <2>3, <2>6, <2>7, SMT
<1>6. PolyOf(r) = y
  BY <1>1, <1>2, <1>3, <1>4, <1>5 DEF PolyOf
<1>7. Chain(r, t4, t3, t2, t1, y)
  BY <1>1, <1>2, <1>3, <1>4, <1>5, <1>6, SMT DEF Chain
<1>8. QED
  BY <1>7

\* The polynomial is at least 1/2, and at least 1 when the rest is positive.
LEMMA PolyBounded ==
  ASSUME NEW r \in Int, Within(r, 372130559)
  PROVE  /\ PolyOf(r) \in Int /\ 536870912 <= PolyOf(r) /\ PolyOf(r) < 2147483648
         /\ 0 <= r => 1073741824 <= PolyOf(r)
<1>1. PICK t4, t3, t2, t1, y : Chain(r, t4, t3, t2, t1, y)
  BY HornerChain
<1>2. /\ t1 \in Int /\ 864189939 <= t1 /\ PolyOf(r) = Horner(t1, r, C0)
      /\ PolyOf(r) \in Int /\ 628986116 <= PolyOf(r) /\ PolyOf(r) <= 1518497532
  BY <1>1, SMT DEF Chain
<1>3. 0 <= r => 1073741824 <= PolyOf(r)
  <2>1. C0 \in Int /\ C0 = 1073741824
    BY Coefficients
  <2>2. 0 <= r => Horner(t1, r, C0) >= C0
    BY <1>2, <2>1, HornerGrows, SMT
  <2>3. QED
    BY <1>2, <2>1, <2>2, SMT
<1>4. QED
  BY <1>2, <1>3, SMT

\* An operand above -87 that no special case catches.
LEMMA OperandAbove ==
  ASSUME NEW x \in Nat, ~Overridden(x)
  PROVE  ToQ8_23(x) \in Int /\ -729808896 <= ToQ8_23(x)
<1>1. PICK e \in 1 .. 133, m \in Int :
        e = XExp(x) /\ m = 8388608 + XMan(x) /\ 8388608 <= m /\ m < 16777216
  BY OperandInRange, SMT
<1>2. PICK s \in 0 .. 31 : s = IF e > 127 THEN e - 127 ELSE (127 - e) % 32
  BY SMT
<1>3. PICK a : a = ShiftedMantissa(e, m)
  OBVIOUS
<1>4. ToQ8_23(x) = IF XSign(x) = 1 THEN -a ELSE a
  BY <1>1, <1>3, OperandIs
<1>5. a \in Int /\ 0 <= a /\ (e < 133 => a <= 32 * m) /\ (e = 133 => a = 64 * m)
  <2>1. CASE e > 127
    <3>1. /\ s = 1 \/ s = 2 \/ s = 3 \/ s = 4 \/ s = 5 \/ s = 6
          /\ s = 6 <=> e = 133
      BY <1>2, <2>1, SMT
    <3>2. a = m * Pow(s)
      BY <1>2, <1>3, <2>1 DEF ShiftedMantissa
    <3>3. QED
      BY <1>1, <3>1, <3>2, Powers, SMT
  <2>2. CASE ~(e > 127) /\ s > 24
    BY <1>1, <1>2, <1>3, <2>2, SMT DEF ShiftedMantissa
  <2>3. CASE ~(e > 127) /\ ~(s > 24)
    <3>1. s \in 0 .. 30
      BY <2>3, SMT
    <3>2. PICK p \in Nat \ {0} : p = Pow(s)
      BY <3>1, PowPositive
    <3>3. a = m \div p
      BY <1>2, <1>3, <2>3, <3>2 DEF ShiftedMantissa
    <3>4. m \div p \in Int /\ 0 <= m \div p /\ m \div p <= m
      BY <1>1, <3>2, SMT
    <3>5. QED
      BY <1>1, <2>3, <3>3, <3>4, SMT
  <2>4. QED
    BY <2>1, <2>2, <2>3
<1>6. XSign(x) = 1 /\ e = 133 => m <= 11403264
  <2>1. XMag(x) = e * 8388608 + XMan(x)
    BY <1>1, SMT DEF XExp, XMan, XMag
  <2>2. ~(XSign(x) = 1 /\ XMag(x) > UNDERFLOW_THRESH_MAG)
    BY Caught, Zenon
  <2>3. XMan(x) \in Nat
    BY OperandInRange
  <2>4. QED
    BY <1>1, <2>1, <2>2, <2>3, SMT DEF UNDERFLOW_THRESH_MAG
<1>7. QED
  BY <1>1, <1>4, <1>5, <1>6, SMT

\* So the exponent of two is at least -126, and at -126 the rest is positive.
LEMMA LowestExponent ==
  ASSUME NEW q \in Int, -729808896 <= q, Within(q, 738197504)
  PROVE  /\ YQ(q) \in Int /\ -126 <= NInt(YQ(q))
         /\ NInt(YQ(q)) = -126 => 0 <= RQ(YQ(q))
<1>1. YQ(q) = (q * 1549082004 + 536870912) \div 1073741824 /\ Ranged(YQ(q))
  BY QuotientIsProduct
<1>2. PICK y \in Int : y = YQ(q) /\ -1056964608 <= y /\ Ranged(y)
  BY <1>1, SMT DEF Ranged
<1>3. -126 <= NInt(y)
  BY <1>2, NIntIs, SMT
<1>4. ASSUME NInt(y) = -126 PROVE 0 <= RQ(y)
  <2>1. PICK d \in Int : /\ d = 128 * (y - 8388608 * NIntWide(y))
                         /\ RQ(y) = (d * 744261118 + 536870912) \div 1073741824
    BY RestOfWide
  <2>2. NIntWide(y) = -126
    BY <1>2, <1>4, NIntIs
  <2>3. QED
    BY <1>2, <2>1, <2>2, SMT
<1>5. QED
  BY <1>2, <1>3, <1>4

\* The leading one of the polynomial is at bit 29 or 30 and the exponent needs
\* no clamp.
LEMMA FixedPointInRange ==
  ASSUME NEW q \in Int, -729808896 <= q, Within(q, 738197504)
  PROVE  /\ YQ(q) \in Int /\ NInt(YQ(q)) \in Int
         /\ RQ(YQ(q)) \in Int /\ Within(RQ(YQ(q)), 372130559)
         /\ PolyOf(RQ(YQ(q))) \in Int
         /\ 536870912 <= PolyOf(RQ(YQ(q))) /\ PolyOf(RQ(YQ(q))) < 2147483648
         /\ ExpFinal(PolyOf(RQ(YQ(q))), NInt(YQ(q))) \in 1 .. 254
<1>2. PICK z \in Int : z = YQ(q) /\ Within(z, 1065001000)
  <2>1. Within(YQ(q), 1065001000)
    BY QuotientBounded
  <2>2. YQ(q) \in Int
    BY LowestExponent
  <2>3. QED
    BY <2>1, <2>2
<1>3. PICK n \in Int : n = NInt(z) /\ -126 <= n /\ n <= 127
  <2>1. NInt(z) \in -127 .. 127
    BY <1>2, ExponentBounded
  <2>2. QED
    BY <1>2, <2>1, LowestExponent
<1>4. PICK r \in Int : r = RQ(z) /\ Within(r, 372130559)
  <2>1. Within(RQ(z), LN2_Q2_30 \div 2)
    BY RestBounded
  <2>2. LN2_Q2_30 \div 2 = 372130559
    BY SMT DEF LN2_Q2_30
  <2>3. Within(RQ(z), 372130559)
    BY <2>1, <2>2
  <2>4. RQ(z) \in Int
    BY <2>3, WithinMeans, SMT
  <2>5. QED
    BY <2>3, <2>4
<1>5. n = -126 => 0 <= r
  <2>1. NInt(YQ(q)) = -126 => 0 <= RQ(YQ(q))
    BY LowestExponent, SMT
  <2>2. QED
    BY <1>2, <1>3, <1>4, <2>1, SMT
<1>6. PICK y \in Int : y = PolyOf(r) /\ 536870912 <= y /\ y < 2147483648 /\ (0 <= r => 1073741824 <= y)
  BY <1>4, PolyBounded
<1>7. ExpFinal(y, n) \in 1 .. 254
  BY <1>3, <1>5, <1>6, SMT DEF ExpFinal
<1>8. QED
  BY <1>2, <1>3, <1>4, <1>6, <1>7, SMT

LEMMA ReconstructsInRange ==
  ASSUME NEW x \in Nat, ~Overridden(x)
  PROVE  LET y_q == YQ(ToQ8_23(x))
             y   == PolyOf(RQ(y_q))
         IN  y >= 536870912 /\ ExpFinal(y, NInt(y_q)) \in 1 .. 254
<1>1. PICK q \in Int : q = ToQ8_23(x) /\ -729808896 <= q
  BY OperandAbove, SMT
<1>2. Within(q, 738197504)
  BY <1>1, OperandBounded
<1>3. QED
  BY <1>1, <1>2, FixedPointInRange, SMT

-----------------------------------------------------------------------------
\* ----- the exponential is monotone
-----------------------------------------------------------------------------
\* ----- the exponential is monotone

\* Two values under one Horner step differ by at most b/64 of the difference
\* of the rests, and f more.
Close(u, v, d, b, f) ==
  /\ u \in Int /\ v \in Int /\ d \in Int /\ b \in Int /\ f \in Int
  /\ 64 * (v - u) <= b * d + 64 * f /\ 64 * (u - v) <= b * d + 64 * f

Rests(r, s, d) ==
  /\ r \in Int /\ s \in Int /\ d \in Int /\ d = s - r /\ 0 <= d
  /\ Within(r, 372130559)

\* How the bounds b and f of one step give those of the next.
Widens(high, b, f, b2, f2) ==
  /\ high \in Nat /\ b \in Nat /\ f \in Nat /\ b2 \in Nat /\ f2 \in Nat
  /\ 64 * high + 372130559 * b <= 1073741824 * b2
  /\ 1073741824 + 372130559 * f <= 1073741824 * f2

\* The difference of two products r * t and s * v.
LEMMA ProductsDiffer ==
  ASSUME NEW r \in Int, NEW s \in Int, NEW t \in Int, NEW v \in Int
  PROVE  s * v - r * t = (s - r) * v + r * (v - t)
  OBVIOUS

LEMMA TimesBounded ==
  ASSUME NEW a \in Int, NEW c \in Int, NEW m \in Int, NEW n \in Int,
         -n <= c, c <= n, -m <= a, a <= m, 0 <= m
  PROVE  -(m * n) <= a * c /\ a * c <= m * n
<1>1. 0 <= (m - a) * (n + c) /\ 0 <= (m + a) * (n - c)
  BY TimesMonotone
<1>2. 0 <= (m - a) * (n - c) /\ 0 <= (m + a) * (n + c)
  BY TimesMonotone
<1>3. PICK ac \in Int, mn \in Int, mc \in Int, an \in Int :
        ac = a * c /\ mn = m * n /\ mc = m * c /\ an = a * n
  OBVIOUS
<1>4. /\ (m - a) * (n + c) = mn + mc - an - ac
      /\ (m + a) * (n - c) = mn - mc + an - ac
      /\ (m - a) * (n - c) = mn - mc - an + ac
      /\ (m + a) * (n + c) = mn + mc + an + ac
  BY <1>3
<1>5. QED
  BY <1>1, <1>2, <1>3, <1>4

LEMMA TimesOrdered ==
  ASSUME NEW d \in Int, NEW high \in Int, NEW b \in Int, NEW c \in Int,
         NEW m \in Int, NEW n \in Int, 0 <= d, 64 * high + m * b <= n * c
  PROVE  64 * (d * high) + m * (b * d) <= n * (c * d)
<1>1. PICK g \in Int : g = n * c - (64 * high + m * b) /\ 0 <= g
  OBVIOUS
<1>2. 0 <= g * d
  BY <1>1, TimesMonotone
<1>3. g * d = n * (c * d) - (64 * (d * high) + m * (b * d))
  BY <1>1
<1>4. QED
  BY <1>2, <1>3

\* A Horner step rounds its product to within half a unit.
RoundsTo(h, p, c) ==
  /\ h \in Int
  /\ 1073741824 * (h - c) <= p + 536870912
  /\ p < 1073741824 * (h - c) + 536870912

LEMMA HornerRounds ==
  ASSUME NEW r \in Int, NEW t \in Int, NEW c \in Int
  PROVE  RoundsTo(Horner(t, r, c), r * t, c)
<1>1. PICK p \in Int : p = r * t
  OBVIOUS
<1>2. Horner(t, r, c) = (p + 536870912) \div 1073741824 + c
  BY <1>1, RoundedProduct, SMT DEF Horner
<1>3. RoundsTo((p + 536870912) \div 1073741824 + c, p, c)
  BY SMT DEF RoundsTo
<1>4. QED
  BY <1>1, <1>2, <1>3, SMT

LEMMA StepClose ==
  ASSUME NEW r, NEW s, NEW d, Rests(r, s, d), NEW t, NEW v, NEW c \in Int,
         NEW high, NEW b, NEW f, NEW b2, NEW f2,
         Close(t, v, d, b, f), Widens(high, b, f, b2, f2),
         0 <= v, v <= high
  PROVE  Close(Horner(t, r, c), Horner(v, s, c), d, b2, f2)
<1> /\ r \in Int /\ s \in Int /\ d \in Int /\ d = s - r /\ 0 <= d
    /\ t \in Int /\ v \in Int
    /\ high \in Int /\ 0 <= high /\ b \in Int /\ 0 <= b /\ f \in Int /\ 0 <= f
    /\ b2 \in Int /\ 0 <= b2 /\ f2 \in Int /\ 0 <= f2
  BY DEF Rests, Close, Widens
<1>1. PICK rt \in Int, sv \in Int, dv \in Int, ru \in Int, dh \in Int, bd \in Int, b2d \in Int :
        /\ rt = r * t /\ sv = s * v /\ dv = d * v /\ ru = r * (v - t)
        /\ dh = d * high /\ bd = b * d /\ b2d = b2 * d
  OBVIOUS
<1>2. sv - rt = dv + ru
  BY <1>1, ProductsDiffer
<1>3. 0 <= dv /\ dv <= dh
  <2>1. 0 <= d * v /\ 0 <= d * (high - v)
    BY TimesMonotone
  <2>2. d * (high - v) = dh - dv
    BY <1>1
  <2>3. QED
    BY <1>1, <2>1, <2>2
<1>4. 64 * ru <= 372130559 * (bd + 64 * f) /\ -(372130559 * (bd + 64 * f)) <= 64 * ru
  <2>1. -372130559 <= r /\ r <= 372130559
    BY WithinMeans, SMT DEF Rests
  <2>2. PICK w \in Int, k \in Int :
          w = 64 * (v - t) /\ k = bd + 64 * f /\ -k <= w /\ w <= k
    BY <1>1 DEF Close
  <2>3. PICK m \in Int : m = 372130559 /\ -m <= r /\ r <= m /\ 0 <= m
    BY <2>1
  <2>4. -(m * k) <= r * w /\ r * w <= m * k
    BY <2>2, <2>3, TimesBounded
  <2>5. r * w = 64 * ru
    BY <1>1, <2>2
  <2>6. QED
    BY <2>2, <2>3, <2>4, <2>5
<1>5. 64 * dh + 372130559 * bd <= 1073741824 * b2d
  <2>0. 64 * high + 372130559 * b <= 1073741824 * b2
    BY SMT DEF Widens
  <2>1. PICK m \in Int, n \in Int : m = 372130559 /\ n = 1073741824
    BY SMT
  <2>2. 64 * high + m * b <= n * b2
    BY <2>0, <2>1, SMT
  <2>3. 64 * (d * high) + m * (b * d) <= n * (b2 * d)
    BY <2>2, TimesOrdered
  <2>4. QED
    BY <1>1, <2>1, <2>3, SMT
<1>6. 1073741824 + 372130559 * f <= 1073741824 * f2
  BY SMT DEF Widens
<1>7. PICK h1, h2 : h1 = Horner(t, r, c) /\ h2 = Horner(v, s, c)
  OBVIOUS
<1>8. RoundsTo(h1, rt, c) /\ RoundsTo(h2, sv, c)
  BY <1>1, <1>7, HornerRounds
<1>9. /\ h1 \in Int /\ h2 \in Int
      /\ 64 * (h2 - h1) <= b2d + 64 * f2 /\ 64 * (h1 - h2) <= b2d + 64 * f2
  BY <1>2, <1>3, <1>4, <1>5, <1>6, <1>8, SMT DEF RoundsTo
<1>10. QED
  BY <1>1, <1>7, <1>9 DEF Close

LEMMA ConstantClose ==
  ASSUME NEW t \in Int, NEW d \in Int
  PROVE  Close(t, t, d, 0, 0)
  BY DEF Close

LEMMA WideningSteps ==
  /\ Widens(8947849, 0, 0, 1, 1) /\ Widens(47840331, 1, 1, 4, 2)
  /\ Widens(195537166, 4, 2, 14, 2) /\ Widens(604638930, 14, 2, 41, 2)
<1>1. Widens(8947849, 0, 0, 1, 1)
  BY SMT DEF Widens
<1>2. Widens(47840331, 1, 1, 4, 2)
  BY SMT DEF Widens
<1>3. Widens(195537166, 4, 2, 14, 2)
  BY SMT DEF Widens
<1>4. Widens(604638930, 14, 2, 41, 2)
  BY SMT DEF Widens
<1>5. QED
  BY <1>1, <1>2, <1>3, <1>4, SMT

\* Up to the last step: the factors of two rests.
LEMMA FactorsClose ==
  ASSUME NEW r, NEW s, NEW d, Rests(r, s, d), Within(s, 372130559),
         NEW t4, NEW t3, NEW t2, NEW t1, NEW y, Chain(r, t4, t3, t2, t1, y),
         NEW v4, NEW v3, NEW v2, NEW v1, NEW z, Chain(s, v4, v3, v2, v1, z)
  PROVE  Close(t1, v1, d, 41, 2)
<1>1. d \in Int
  BY DEF Rests
<1>2. /\ C5 \in Int /\ 0 <= C5 /\ C5 <= 8947849
      /\ C4 \in Int /\ C3 \in Int /\ C2 \in Int /\ C1 \in Int
  BY Coefficients, SMT
<1>3. Close(t4, v4, d, 1, 1)
  <2>1. Close(C5, C5, d, 0, 0)
    BY <1>1, <1>2, ConstantClose
  <2>2. t4 = Horner(C5, r, C4) /\ v4 = Horner(C5, s, C4)
    BY SMT DEF Chain
  <2>3. QED
    BY <1>2, <2>1, <2>2, WideningSteps, StepClose, SMT
<1>4. Close(t3, v3, d, 4, 2)
  <2>1. t3 = Horner(t4, r, C3) /\ v3 = Horner(v4, s, C3) /\ 0 <= v4 /\ v4 <= 47840331
    BY SMT DEF Chain
  <2>2. QED
    BY <1>2, <1>3, <2>1, WideningSteps, StepClose, SMT
<1>5. Close(t2, v2, d, 14, 2)
  <2>1. t2 = Horner(t3, r, C2) /\ v2 = Horner(v3, s, C2) /\ 0 <= v3 /\ v3 <= 195537166
    BY SMT DEF Chain
  <2>2. QED
    BY <1>2, <1>4, <2>1, WideningSteps, StepClose, SMT
<1>6. Close(t1, v1, d, 41, 2)
  <2>1. t1 = Horner(t2, r, C1) /\ v1 = Horner(v2, s, C1) /\ 0 <= v2 /\ v2 <= 604638930
    BY SMT DEF Chain
  <2>2. QED
    BY <1>2, <1>5, <2>1, WideningSteps, StepClose, SMT
<1>7. QED
  BY <1>6

\* The slope of the polynomial is more than 1/2, but for its rounding.
LEMMA PolyGrows ==
  ASSUME NEW r \in Int, NEW s \in Int, Within(r, 372130559), Within(s, 372130559), r <= s
  PROVE  s - r - 4 <= 2 * (PolyOf(s) - PolyOf(r))
<1>1. PICK d \in Int : d = s - r /\ 0 <= d
  OBVIOUS
<1>2. PICK t4, t3, t2, t1, y : Chain(r, t4, t3, t2, t1, y)
  BY HornerChain
<1>3. PICK v4, v3, v2, v1, z : Chain(s, v4, v3, v2, v1, z)
  BY HornerChain
<1>4. Close(t1, v1, d, 41, 2)
  <2>1. Rests(r, s, d)
    BY <1>1, SMT DEF Rests
  <2>2. QED
    BY <1>2, <1>3, <2>1, FactorsClose
<1>5. /\ t1 \in Int /\ v1 \in Int /\ 864189939 <= v1 /\ C0 \in Int
      /\ y = PolyOf(r) /\ z = PolyOf(s) /\ y = Horner(t1, r, C0) /\ z = Horner(v1, s, C0)
  BY <1>2, <1>3, Coefficients, SMT DEF Chain
<1>6. PICK rt \in Int, sv \in Int, dv \in Int, ru \in Int :
        rt = r * t1 /\ sv = s * v1 /\ dv = d * v1 /\ ru = r * (v1 - t1)
  BY <1>5
<1>7. sv - rt = dv + ru
  BY <1>1, <1>5, <1>6, ProductsDiffer
<1>8. RoundsTo(y, rt, C0) /\ RoundsTo(z, sv, C0)
  BY <1>5, <1>6, HornerRounds
<1>9. 864189939 * d <= dv
  <2>1. PICK low \in Int : low = 864189939 /\ low <= v1
    BY <1>5, SMT
  <2>2. 0 <= d * (v1 - low)
    BY <1>1, <1>5, <2>1, TimesMonotone
  <2>3. d * (v1 - low) = dv - low * d
    BY <1>5, <1>6, <2>1
  <2>4. QED
    BY <1>6, <2>1, <2>2, <2>3, SMT
<1>10. -(372130559 * (41 * d + 128)) <= 64 * ru
  <2>1. PICK w \in Int, k \in Int :
          w = 64 * (v1 - t1) /\ k = 41 * d + 128 /\ -k <= w /\ w <= k
    BY <1>1, <1>4, <1>5 DEF Close
  <2>2. PICK m \in Int : m = 372130559 /\ -m <= r /\ r <= m /\ 0 <= m
    BY WithinMeans, SMT
  <2>3. -(m * k) <= r * w
    BY <2>1, <2>2, TimesBounded
  <2>4. r * w = 64 * ru
    BY <1>5, <1>6, <2>1
  <2>5. QED
    BY <1>6, <2>1, <2>2, <2>3, <2>4, SMT
<1>11. d - 4 <= 2 * (z - y)
  <2>1. y \in Int /\ z \in Int /\ sv - rt < 1073741824 * (z - y) + 1073741824
    BY <1>5, <1>6, <1>8, SMT DEF RoundsTo
  <2>2. PICK e \in Int : e = z - y
    BY <2>1
  <2>3. 64 * (dv + ru) < 68719476736 * e + 68719476736
    BY <1>6, <1>7, <2>1, <2>2, SMT
  <2>4. 40050803177 * d - 47632711552 <= 64 * (dv + ru)
    BY <1>1, <1>6, <1>9, <1>10, SMT
  <2>5. 40050803177 * d - 47632711552 < 68719476736 * e + 68719476736
    BY <1>1, <1>6, <2>2, <2>3, <2>4, SMT
  <2>6. d - 4 <= 2 * e
    BY <1>1, <2>2, <2>5, SMT
  <2>7. QED
    BY <2>2, <2>6
<1>12. QED
  BY <1>1, <1>5, <1>11

\* The polynomial at both ends of its range.
LEMMA PolyAtHigh == PolyOf(372130559) = 1518497532
<1>1. PICK r \in Int : r = 372130559
  BY SMT
<1>2. Horner(C5, r, C4) = 47840331
  BY <1>1, RoundedProduct, Coefficients, SMT DEF Horner
<1>3. Horner(47840331, r, C3) = 195537166
  BY <1>1, RoundedProduct, Coefficients, SMT DEF Horner
<1>4. Horner(195537166, r, C2) = 604638930
  BY <1>1, RoundedProduct, Coefficients, SMT DEF Horner
<1>5. Horner(604638930, r, C1) = 1283293709
  BY <1>1, RoundedProduct, Coefficients, SMT DEF Horner
<1>6. Horner(1283293709, r, C0) = 1518497532
  BY <1>1, RoundedProduct, Coefficients, SMT DEF Horner
<1>7. QED
  BY <1>1, <1>2, <1>3, <1>4, <1>5, <1>6, SMT DEF PolyOf

LEMMA PolyAtLow == PolyOf(-372130559) = 759247663
<1>1. PICK r \in Int : r = -372130559
  BY SMT
<1>2. Horner(C5, r, C4) = 41638155
  BY <1>1, RoundedProduct, Coefficients, SMT DEF Horner
<1>3. Horner(41638155, r, C3) = 164526286
  BY <1>1, RoundedProduct, Coefficients, SMT DEF Horner
<1>4. Horner(164526286, r, C2) = 479850446
  BY <1>1, RoundedProduct, Coefficients, SMT DEF Horner
<1>5. Horner(479850446, r, C1) = 907438332
  BY <1>1, RoundedProduct, Coefficients, SMT DEF Horner
<1>6. Horner(907438332, r, C0) = 759247663
  BY <1>1, RoundedProduct, Coefficients, SMT DEF Horner
<1>7. QED
  BY <1>1, <1>2, <1>3, <1>4, <1>5, <1>6, SMT DEF PolyOf


-----------------------------------------------------------------------------

LEMMA QuotientGrows ==
  ASSUME NEW p \in Int, NEW q \in Int, p <= q, Within(p, 738197504), Within(q, 738197504)
  PROVE  /\ Ranged(YQ(p)) /\ Ranged(YQ(q)) /\ YQ(p) <= YQ(q)
         /\ p + 16384 <= q => YQ(p) + 23600 <= YQ(q)
<1>1. YQ(p) = (p * 1549082004 + 536870912) \div 1073741824 /\ Ranged(YQ(p))
  BY QuotientIsProduct
<1>2. YQ(q) = (q * 1549082004 + 536870912) \div 1073741824 /\ Ranged(YQ(q))
  BY QuotientIsProduct
<1>3. YQ(p) <= YQ(q) /\ (p + 16384 <= q => YQ(p) + 23600 <= YQ(q))
  BY <1>1, <1>2, SMT
<1>4. QED
  BY <1>1, <1>2, <1>3

LEMMA ExponentGrows ==
  ASSUME NEW y \in Int, NEW z \in Int, Ranged(y), Ranged(z), y <= z
  PROVE  NInt(y) \in Int /\ NInt(z) \in Int /\ NInt(y) <= NInt(z)
  BY NIntIs, SMT

LEMMA RestIs ==
  ASSUME NEW y \in Int, Ranged(y)
  PROVE  \E d \in Int : /\ d = 128 * (y - 8388608 * NInt(y))
                        /\ RQ(y) = (d * 744261118 + 536870912) \div 1073741824
  BY NIntIs, RestOfWide

\* From one fixed-point operand to a larger one the rest grows by at least
\* 80, or falls by at most ln 2 when the exponent grows.
LEMMA RestGrows ==
  ASSUME NEW y \in Int, NEW z \in Int, Ranged(y), Ranged(z)
  PROVE  /\ RQ(y) \in Int /\ RQ(z) \in Int
         /\ y < z /\ NInt(z) = NInt(y) => RQ(y) + 80 <= RQ(z)
         /\ y + 23600 <= z /\ NInt(z) = NInt(y) + 1 => RQ(y) - 742261118 <= RQ(z)
<1>1. PICK d \in Int : /\ d = 128 * (y - 8388608 * NInt(y))
                       /\ RQ(y) = (d * 744261118 + 536870912) \div 1073741824
  BY RestIs
<1>2. PICK e \in Int : /\ e = 128 * (z - 8388608 * NInt(z))
                       /\ RQ(z) = (e * 744261118 + 536870912) \div 1073741824
  BY RestIs
<1>3. PICK m \in Int, n \in Int : m = NInt(y) /\ n = NInt(z)
  BY NIntIs
<1>4. ASSUME y < z, n = m PROVE RQ(y) + 80 <= RQ(z)
  <2>1. d + 128 <= e
    BY <1>1, <1>2, <1>3, <1>4, SMT
  <2>2. QED
    BY <1>1, <1>2, <2>1, SMT
<1>5. ASSUME y + 23600 <= z, n = m + 1 PROVE RQ(y) - 742261118 <= RQ(z)
  <2>1. d + 3020800 - 1073741824 <= e
    BY <1>1, <1>2, <1>3, <1>5, SMT
  <2>2. QED
    BY <1>1, <1>2, <2>1, SMT
<1>6. QED
  BY <1>1, <1>2, <1>3, <1>4, <1>5, SMT

\* The result is the exponent and the fraction above one another.
Fraction(y) == IF y < 1073741824 THEN (y \div 64) - 8388608 ELSE y \div 128
Significand(y) == y \in Int /\ 536870912 <= y /\ y < 2147483648

LEMMA ResultIs ==
  ASSUME NEW y, Significand(y), NEW n \in Int, ExpFinal(y, n) \in 1 .. 254
  PROVE  Reconstruct(y, n) = (126 + n) * 8388608 + Fraction(y)
<1>1. CASE y < 1073741824
  <2>1. ExpFinal(y, n) = 126 + n /\ 1 <= 126 + n /\ 126 + n <= 254
    BY <1>1, SMT DEF ExpFinal, Significand
  <2>2. PICK e \in Int : e = 126 + n /\ e % 256 = e /\ ExpFinal(y, n) = e /\ 0 <= e /\ e <= 254
    BY <2>1, SMT
  <2>3. (y % 536870912) \div 64 = (y \div 64) - 8388608
    BY <1>1, SMT DEF Significand
  <2>4. y \in Int /\ ~(y >= 1073741824)
    BY <1>1, SMT DEF Significand
  <2>5. Reconstruct(y, n) = e * 8388608 + (y % 536870912) \div 64
    BY <2>2, <2>4, SMT DEF Reconstruct
  <2>6. QED
    BY <1>1, <2>2, <2>3, <2>5 DEF Fraction
<1>2. CASE ~(y < 1073741824)
  <2>1. y \in Int /\ y >= 1073741824
    BY <1>2, SMT DEF Significand
  <2>2. ExpFinal(y, n) = 127 + n /\ 1 <= 127 + n /\ 127 + n <= 254
    BY <2>1, SMT DEF ExpFinal
  <2>3. PICK e \in Int : e = 127 + n /\ e % 256 = e /\ ExpFinal(y, n) = e /\ 0 <= e /\ e <= 254
    BY <2>2, SMT
  <2>4. (y % 1073741824) \div 128 = (y \div 128) - 8388608
    BY <2>1, SMT DEF Significand
  <2>5. Reconstruct(y, n) = e * 8388608 + (y % 1073741824) \div 128
    BY <2>1, <2>3, SMT DEF Reconstruct
  <2>6. Fraction(y) = y \div 128 /\ y \div 128 \in Int
    BY <1>2, <2>1, SMT DEF Fraction
  <2>7. QED
    BY <2>3, <2>4, <2>5, <2>6, SMT
<1>3. QED
  BY <1>1, <1>2

LEMMA FractionsGrow ==
  ASSUME NEW y, NEW z, Significand(y), Significand(z)
  PROVE  /\ Fraction(y) \in Int /\ 0 <= Fraction(y) /\ Fraction(y) < 16777216
         /\ Fraction(z) \in Int /\ 0 <= Fraction(z)
         /\ y <= z => Fraction(y) <= Fraction(z)
         /\ y <= 2 * z => Fraction(y) <= 8388608 + Fraction(z)
  BY SMT DEF Fraction, Significand

\* What the reconstruction can pack, and when the second of two such results
\* is at least the first.
Packable(y, m) == Significand(y) /\ m \in Int /\ ExpFinal(y, m) \in 1 .. 254
Above(y, m, z, n) == (m = n /\ y <= z) \/ (n = m + 1 /\ y <= 2 * z) \/ m + 2 <= n

LEMMA ResultsGrow ==
  ASSUME NEW y, NEW z, NEW m, NEW n, Packable(y, m), Packable(z, n), Above(y, m, z, n)
  PROVE  Reconstruct(y, m) <= Reconstruct(z, n)
<1>1. PICK f \in Int, g \in Int :
        /\ f = Fraction(y) /\ g = Fraction(z) /\ 0 <= f /\ f < 16777216 /\ 0 <= g
        /\ y <= z => f <= g
        /\ y <= 2 * z => f <= 8388608 + g
  BY FractionsGrow, SMT DEF Packable
<1>2. Reconstruct(y, m) = (126 + m) * 8388608 + f
  BY <1>1, ResultIs, SMT DEF Packable
<1>3. Reconstruct(z, n) = (126 + n) * 8388608 + g
  BY <1>1, ResultIs, SMT DEF Packable
<1>4. QED
  BY <1>1, <1>2, <1>3, SMT DEF Packable, Above

\* Where the exponent of two steps up the polynomial at most halves: at the
\* border it is too small by its truncation error, which the step between
\* two operands outweighs.
LEMMA AcrossTheBorder ==
  ASSUME NEW r \in Int, NEW s \in Int, Within(r, 372130559), Within(s, 372130559),
         r - 742261118 <= s
  PROVE  PolyOf(r) <= 2 * PolyOf(s)
<1>1. PICK h \in Int, l \in Int : h = 372130559 /\ l = -372130559
  BY SMT
<1>2. r <= h /\ l <= s
  BY <1>1, WithinMeans, SMT
<1>3. Within(h, 372130559) /\ Within(l, 372130559)
  BY <1>1, IsWithin, SMT
<1>4. PICK a \in Int, b \in Int, pa \in Int, pb \in Int :
        a = PolyOf(r) /\ b = PolyOf(s) /\ pa = PolyOf(h) /\ pb = PolyOf(l)
  BY <1>3, PolyBounded
<1>5. h - r - 4 <= 2 * (pa - a)
  BY <1>2, <1>3, <1>4, PolyGrows
<1>6. s - l - 4 <= 2 * (b - pb)
  BY <1>2, <1>3, <1>4, PolyGrows
<1>7. pa <= 2 * pb + 3000
  BY <1>1, <1>4, PolyAtHigh, PolyAtLow, SMT
<1>8. a <= 2 * b
  BY <1>1, <1>2, <1>5, <1>6, <1>7, SMT
<1>9. QED
  BY <1>4, <1>8

\* The result for a fixed-point operand.
ResultOf(q) == Reconstruct(PolyOf(RQ(YQ(q))), NInt(YQ(q)))

\* From one operand to the next the fixed-point operand moves by 2^14 or more,
\* unless both are so small that their exponent of two is 0.
Apart(p, q) == p + 16384 <= q \/ (-2097152 <= p /\ q <= 2097152)

LEMMA SmallOperands ==
  ASSUME NEW q \in Int, -2097152 <= q, q <= 2097152
  PROVE  NInt(YQ(q)) = 0 /\ Ranged(YQ(q))
<1>1. YQ(q) = (q * 1549082004 + 536870912) \div 1073741824 /\ Ranged(YQ(q))
  <2>1. Within(q, 738197504)
    BY IsWithin, SMT
  <2>2. QED
    BY <2>1, QuotientIsProduct
<1>2. PICK y \in Int : y = YQ(q) /\ -4194304 <= y /\ y < 4194304 /\ Ranged(y)
  BY <1>1, SMT
<1>3. QED
  BY <1>2, NIntIs, SMT

\* A fixed-point operand within the range of the lane, and what the pipeline
\* makes of it.
FixedPoint(q) == q \in Int /\ -729808896 <= q /\ Within(q, 738197504)
Rest(r) == r \in Int /\ Within(r, 372130559)

LEMMA FixedPointPackable ==
  ASSUME NEW q, FixedPoint(q)
  PROVE  /\ YQ(q) \in Int /\ NInt(YQ(q)) \in Int /\ Rest(RQ(YQ(q)))
         /\ Packable(PolyOf(RQ(YQ(q))), NInt(YQ(q)))
  BY FixedPointInRange, SMT DEF FixedPoint, Rest, Packable, Significand

\* With one exponent of two the polynomial grows with the operand.
LEMMA SameExponent ==
  ASSUME NEW y \in Int, NEW z \in Int, Ranged(y), Ranged(z), y <= z, NInt(z) = NInt(y),
         Rest(RQ(y)), Rest(RQ(z))
  PROVE  PolyOf(RQ(y)) <= PolyOf(RQ(z))
<1>1. PICK r \in Int, s \in Int : r = RQ(y) /\ s = RQ(z) /\ (y < z => r + 80 <= s)
  BY RestGrows
<1>2. PICK u \in Int, v \in Int : u = PolyOf(r) /\ v = PolyOf(s)
  BY <1>1, PolyBounded DEF Rest
<1>3. CASE y = z
  BY <1>1, <1>2, <1>3
<1>4. CASE y < z
  <2>1. r + 80 <= s
    BY <1>1, <1>4
  <2>2. s - r - 4 <= 2 * (v - u)
    BY <1>1, <1>2, <2>1, PolyGrows, SMT DEF Rest
  <2>3. u <= v
    BY <2>1, <2>2, SMT
  <2>4. QED
    BY <1>1, <1>2, <2>3
<1>5. QED
  BY <1>3, <1>4

\* When the exponent steps up the polynomial does not fall below one half.
LEMMA NextExponent ==
  ASSUME NEW y \in Int, NEW z \in Int, Ranged(y), Ranged(z),
         y + 23600 <= z, NInt(z) = NInt(y) + 1, Rest(RQ(y)), Rest(RQ(z))
  PROVE  PolyOf(RQ(y)) <= 2 * PolyOf(RQ(z))
<1>1. RQ(y) - 742261118 <= RQ(z)
  BY RestGrows, SMT
<1>2. QED
  BY <1>1, AcrossTheBorder, SMT DEF Rest

LEMMA ResultsOfOperandsGrow ==
  ASSUME NEW p \in Int, NEW q \in Int, FixedPoint(p), FixedPoint(q), p <= q, Apart(p, q)
  PROVE  ResultOf(p) <= ResultOf(q)
<1>1. PICK y \in Int, z \in Int : /\ YQ(p) = y /\ YQ(q) = z /\ y <= z
                                  /\ Ranged(y) /\ Ranged(z)
                                  /\ p + 16384 <= q => y + 23600 <= z
  BY QuotientGrows, SMT DEF FixedPoint, Ranged
<1>2. PICK m \in Int, n \in Int : NInt(y) = m /\ NInt(z) = n /\ m <= n
  BY <1>1, ExponentGrows
<1>3. /\ Rest(RQ(y)) /\ Packable(PolyOf(RQ(y)), m)
      /\ Rest(RQ(z)) /\ Packable(PolyOf(RQ(z)), n)
  BY <1>1, <1>2, FixedPointPackable
<1>4. PICK u \in Int, v \in Int : PolyOf(RQ(y)) = u /\ PolyOf(RQ(z)) = v
  BY <1>3, SMT DEF Packable, Significand
<1>5. ResultOf(p) = Reconstruct(u, m) /\ ResultOf(q) = Reconstruct(v, n)
  BY <1>1, <1>2, <1>4, SMT DEF ResultOf
<1>6. Above(u, m, v, n)
  <2>1. CASE m = n
    BY <1>1, <1>2, <1>3, <1>4, <2>1, SameExponent DEF Above
  <2>2. CASE n = m + 1
    <3>1. ASSUME -2097152 <= p, q <= 2097152 PROVE FALSE
      <4>1. NInt(y) = 0
        BY <1>1, <3>1, SmallOperands, SMT DEF FixedPoint
      <4>2. NInt(z) = 0
        BY <1>1, <3>1, SmallOperands, SMT DEF FixedPoint
      <4>3. QED
        BY <1>2, <2>2, <4>1, <4>2
    <3>2. y + 23600 <= z
      BY <1>1, <3>1, SMT DEF Apart
    <3>3. u <= 2 * v
      BY <1>1, <1>2, <1>3, <1>4, <2>2, <3>2, NextExponent
    <3>4. QED
      BY <2>2, <3>3 DEF Above
  <2>3. CASE m + 2 <= n
    BY <2>3 DEF Above
  <2>4. QED
    BY <1>2, <2>1, <2>2, <2>3
<1>7. QED
  BY <1>3, <1>4, <1>5, <1>6, ResultsGrow

-----------------------------------------------------------------------------

\* Without a flag the result is the reconstruction.
LEMMA NothingSelected ==
  ASSUME NEW x, XExp(x) # 0, XExp(x) # 255,
         XSign(x) = 1 \/ ~(XMag(x) > OVERFLOW_THRESH_MAG),
         XSign(x) # 1 \/ ~(XMag(x) > UNDERFLOW_THRESH_MAG)
  PROVE  ~Overridden(x)
<1>1. ASSUME NEW h \in Cases PROVE ~Selected(x, h)
  BY CasesAre, SelectedIs
<1>2. QED
  BY <1>1, HitsSelected, Zenon DEF Overridden

LEMMA ComputedResult ==
  ASSUME NEW x, ~Overridden(x)
  PROVE  ExpOf(x) = ResultOf(ToQ8_23(x))
<1>1. Special(x).override_valid = (SpecialHits(x) # {})
  BY DEF Special
<1>2. ~Special(x).override_valid
  BY <1>1 DEF Overridden
<1>3. QED
  BY <1>2, Zenon DEF ExpOf, ResultOf, LaneOutput

\* A computed result is a finite number.
LEMMA ResultFinite ==
  ASSUME NEW q, FixedPoint(q)
  PROVE  ResultOf(q) \in Int /\ 0 <= ResultOf(q) /\ ResultOf(q) <= 2139095040
<1>6. /\ Packable(PolyOf(RQ(YQ(q))), NInt(YQ(q)))
      /\ NInt(YQ(q)) \in Int /\ PolyOf(RQ(YQ(q))) \in Int
  BY FixedPointPackable, SMT DEF Packable, Significand
<1>1. PICK m \in Int, y \in Int :
        NInt(YQ(q)) = m /\ PolyOf(RQ(YQ(q))) = y /\ Packable(y, m)
  BY <1>6, Zenon
<1>2. ResultOf(q) = (126 + m) * 8388608 + Fraction(y)
  BY <1>1, ResultIs, SMT DEF ResultOf, Packable
<1>3. CASE y < 1073741824
  <2>1. 126 + m <= 254 /\ 1 <= 126 + m
    BY <1>1, <1>3, SMT DEF Packable, ExpFinal
  <2>2. Fraction(y) \in Int /\ 0 <= Fraction(y) /\ Fraction(y) < 8388608
    BY <1>1, <1>3, SMT DEF Packable, Significand, Fraction
  <2>3. QED
    BY <1>2, <2>1, <2>2, SMT
<1>4. CASE ~(y < 1073741824)
  <2>1. 127 + m <= 254 /\ 1 <= 127 + m
    BY <1>1, <1>4, SMT DEF Packable, ExpFinal
  <2>2. Fraction(y) \in Int /\ 0 <= Fraction(y) /\ Fraction(y) < 16777216
    BY <1>1, <1>4, SMT DEF Packable, Significand, Fraction
  <2>3. QED
    BY <1>2, <2>1, <2>2, SMT
<1>5. QED
  BY <1>3, <1>4

\* The magnitude of the fixed-point operand of exponent e and mantissa m.
Fixed(e, m) ==
  IF e > 127 THEN ((128 + m) * 65536) * Pow(e - 127)
  ELSE IF 127 - e > 24 THEN 0 ELSE ((128 + m) * 65536) \div Pow(127 - e)

LEMMA FixedIs ==
  ASSUME NEW x \in Nat, ~Overridden(x), 96 <= XExp(x)
  PROVE  ToQ8_23(x) = IF XSign(x) = 1 THEN -Fixed(XExp(x), x % 128) ELSE Fixed(XExp(x), x % 128)
<1>1. PICK e \in 96 .. 133 : XExp(x) = e
  BY OperandInRange, SMT
<1>2. 8388608 + XMan(x) = (128 + (x % 128)) * 65536
  BY SMT DEF XMan
<1>3. ~(e > 127) => (127 - e) % 32 = 127 - e
  BY SMT
<1>4. ShiftedMantissa(e, (128 + (x % 128)) * 65536) = Fixed(e, x % 128)
  BY <1>3 DEF ShiftedMantissa, Fixed
<1>5. QED
  BY <1>1, <1>2, <1>4, OperandIs

\* From 1/4 on the fixed-point operand is exact, in units of its last place.
LEMMA FixedHigh ==
  ASSUME NEW e \in 125 .. 133, NEW m \in Int, 0 <= m, m < 128
  PROVE  Fixed(e, m) = (128 + m) * (16384 * Pow(e - 125))
<1>1. e = 125 \/ e = 126 \/ e = 127 \/ e = 128 \/ e = 129 \/ e = 130 \/ e = 131 \/ e = 132 \/ e = 133
  OBVIOUS
<1>2. QED
  BY <1>1, Powers, SMT DEF Fixed

LEMMA UnitDoubles ==
  ASSUME NEW e \in 125 .. 133
  PROVE  /\ Pow(e - 125) \in Int /\ 1 <= Pow(e - 125)
         /\ e < 133 => Pow((e + 1) - 125) = 2 * Pow(e - 125)
<1>1. e = 125 \/ e = 126 \/ e = 127 \/ e = 128 \/ e = 129 \/ e = 130 \/ e = 131 \/ e = 132 \/ e = 133
  OBVIOUS
<1>2. QED
  BY <1>1, Powers, SMT

\* Below 1/4 it is truncated, to nothing below 2^-24.
Mantissa24(w) == w \in Int /\ 0 <= w /\ w < 16777216
Eighth(q) == q \in Int /\ 0 <= q /\ q < 2097152

LEMMA Shifted ==
  ASSUME NEW k \in 3 .. 24, NEW w, Mantissa24(w)
  PROVE  /\ Eighth(w \div Pow(k))
         /\ \A v \in Int : w <= v => w \div Pow(k) <= v \div Pow(k)
<1>1. \/ k = 3 \/ k = 4 \/ k = 5 \/ k = 6 \/ k = 7 \/ k = 8 \/ k = 9 \/ k = 10 \/ k = 11
      \/ k = 12 \/ k = 13 \/ k = 14 \/ k = 15 \/ k = 16 \/ k = 17 \/ k = 18 \/ k = 19
      \/ k = 20 \/ k = 21 \/ k = 22 \/ k = 23 \/ k = 24
  OBVIOUS
<1>2. QED
  BY <1>1, Powers, SMT DEF Mantissa24, Eighth

LEMMA ShiftedNext ==
  ASSUME NEW k \in 4 .. 24, NEW w, Mantissa24(w)
  PROVE  w \div Pow(k) <= 8388608 \div Pow(k - 1)
<1>1. \/ k = 4 \/ k = 5 \/ k = 6 \/ k = 7 \/ k = 8 \/ k = 9 \/ k = 10 \/ k = 11
      \/ k = 12 \/ k = 13 \/ k = 14 \/ k = 15 \/ k = 16 \/ k = 17 \/ k = 18 \/ k = 19
      \/ k = 20 \/ k = 21 \/ k = 22 \/ k = 23 \/ k = 24
  OBVIOUS
<1>2. QED
  BY <1>1, Powers, SMT DEF Mantissa24

LEMMA FixedLow ==
  ASSUME NEW e \in 96 .. 124, NEW m \in Int, 0 <= m, m < 128
  PROVE  Fixed(e, m) = IF 127 - e > 24 THEN 0 ELSE ((128 + m) * 65536) \div Pow(127 - e)
  BY SMT DEF Fixed

\* The operand that follows (e, m).
Follows(e, m, f, n) == (f = e /\ n = m + 1) \/ (f = e + 1 /\ m = 127 /\ n = 0)

Field(e, m) == e \in 96 .. 133 /\ m \in Int /\ 0 <= m /\ m < 128
Moved(a, b) == a \in Int /\ b \in Int /\ 0 <= a /\ a <= b /\ (a + 16384 <= b \/ b <= 2097152)

LEMMA FixedMoves ==
  ASSUME NEW e, NEW f, NEW m, NEW n, Field(e, m), Field(f, n), Follows(e, m, f, n)
  PROVE  Moved(Fixed(e, m), Fixed(f, n))
<1> USE DEF Field
<1>1. CASE e >= 125
  <2>1. PICK u \in Int : Pow(e - 125) = u /\ 1 <= u /\ (e < 133 => Pow((e + 1) - 125) = 2 * u)
    BY <1>1, UnitDoubles
  <2>2. Fixed(e, m) = (128 + m) * (16384 * u)
    BY <1>1, <2>1, FixedHigh
  <2>3. CASE f = e /\ n = m + 1
    <3>1. Fixed(f, n) = (128 + (m + 1)) * (16384 * u)
      BY <1>1, <2>1, <2>3, FixedHigh
    <3>2. (128 + (m + 1)) * (16384 * u) = (128 + m) * (16384 * u) + 16384 * u
      OBVIOUS
    <3>3. 0 <= (128 + m) * (16384 * u) /\ (128 + m) * (16384 * u) \in Int
      BY <2>1, TimesMonotone, SMT
    <3>4. QED
      BY <2>1, <2>2, <3>1, <3>2, <3>3, SMT DEF Moved
  <2>4. CASE f = e + 1 /\ m = 127 /\ n = 0
    <3>1. Fixed(f, n) = (128 + 0) * (16384 * (2 * u))
      BY <1>1, <2>1, <2>4, FixedHigh, SMT
    <3>2. QED
      BY <2>1, <2>2, <2>4, <3>1, SMT DEF Moved
  <2>5. QED
    BY <2>3, <2>4 DEF Follows
<1>2. CASE e = 124 /\ f = 125
  <2>1. m = 127 /\ n = 0
    BY <1>2 DEF Follows
  <2>2. Fixed(124, 127) = 2088960
    BY Powers, SMT DEF Fixed
  <2>3. Fixed(125, 0) = 2097152
    BY Powers, SMT DEF Fixed
  <2>4. QED
    BY <1>2, <2>1, <2>2, <2>3, SMT DEF Moved
<1>3. CASE e <= 124 /\ f <= 124
  <2>1. PICK w \in Int, v \in Int :
          /\ (128 + m) * 65536 = w /\ (128 + n) * 65536 = v
          /\ Mantissa24(w) /\ Mantissa24(v)
          /\ f = e => w <= v
          /\ f = e + 1 => v = 8388608
    BY SMT DEF Follows, Mantissa24
  <2>2. Fixed(e, m) = IF 127 - e > 24 THEN 0 ELSE w \div Pow(127 - e)
    BY <1>3, <2>1, FixedLow
  <2>3. Fixed(f, n) = IF 127 - f > 24 THEN 0 ELSE v \div Pow(127 - f)
    BY <1>3, <2>1, FixedLow
  <2>4. Eighth(Fixed(f, n))
    <3>1. CASE 127 - f > 24
      BY <2>3, <3>1, SMT DEF Eighth
    <3>2. CASE ~(127 - f > 24)
      <4>1. PICK k \in 3 .. 24 : 127 - f = k
        BY <1>3, <3>2, SMT
      <4>2. Eighth(v \div Pow(k))
        BY <2>1, Shifted
      <4>3. Fixed(f, n) = v \div Pow(k)
        BY <2>3, <3>2, <4>1
      <4>4. QED
        BY <4>2, <4>3
    <3>3. QED
      BY <3>1, <3>2
  <2>5. Eighth(Fixed(e, m)) /\ Fixed(e, m) <= Fixed(f, n)
    <3>1. CASE 127 - e > 24
      BY <2>2, <2>4, <3>1, SMT DEF Eighth
    <3>2. CASE ~(127 - e > 24)
      <4>1. PICK k \in 3 .. 24 : 127 - e = k
        BY <1>3, <3>2, SMT
      <4>2. Fixed(e, m) = w \div Pow(k)
        BY <2>2, <3>2, <4>1
      <4>3. Eighth(w \div Pow(k))
        BY <2>1, Shifted
      <4>4. CASE f = e
        <5>1. w <= v => w \div Pow(k) <= v \div Pow(k)
          BY <2>1, Shifted
        <5>2. Fixed(f, n) = v \div Pow(k)
          BY <2>3, <3>2, <4>1, <4>4
        <5>3. QED
          BY <2>1, <4>2, <4>3, <4>4, <5>1, <5>2
      <4>5. CASE f = e + 1
        <5>1. k \in 4 .. 24 /\ 127 - f = k - 1 /\ ~(k - 1 > 24)
          BY <1>3, <4>1, <4>5, SMT
        <5>2. w \div Pow(k) <= 8388608 \div Pow(k - 1)
          BY <2>1, <5>1, ShiftedNext
        <5>3. Fixed(f, n) = 8388608 \div Pow(k - 1)
          BY <2>1, <2>3, <4>5, <5>1
        <5>4. QED
          BY <4>2, <4>3, <5>2, <5>3
      <4>6. QED
        BY <4>4, <4>5 DEF Follows
    <3>3. QED
      BY <3>1, <3>2
  <2>6. QED
    BY <2>4, <2>5, SMT DEF Eighth, Moved
<1>4. QED
  BY <1>1, <1>2, <1>3, SMT DEF Follows

\* The operand that follows x has the same sign.
LEMMA NextFields ==
  ASSUME NEW x \in Nat, x < 65536, x % 32768 < 32767
  PROVE  /\ x + 1 < 65536 /\ XSign(x + 1) = XSign(x) /\ (x + 1) % 32768 = (x % 32768) + 1
         /\ XExp(x) \in Int /\ x % 128 \in Int /\ 0 <= x % 128 /\ x % 128 < 128
         /\ (x + 1) % 128 \in Int /\ 0 <= (x + 1) % 128 /\ (x + 1) % 128 < 128
         /\ XExp(x + 1) \in Int /\ XExp(x) <= XExp(x + 1)
         /\ Follows(XExp(x), x % 128, XExp(x + 1), (x + 1) % 128)
<1>1. PICK s \in Int, e \in Int, m \in Int :
        x = s * 32768 + e * 128 + m /\ 0 <= m /\ m < 128 /\ 0 <= e /\ e < 256 /\ 0 <= s /\ s < 2
  <2>1. PICK d \in Int, m \in Int : x = d * 128 + m /\ 0 <= m /\ m < 128
    <3>1. x = (x \div 128) * 128 + (x % 128)
      BY SMT
    <3>2. QED
      BY <3>1
  <2>2. PICK s \in Int, e \in Int : d = s * 256 + e /\ 0 <= e /\ e < 256
    <3>1. d = (d \div 256) * 256 + (d % 256)
      BY SMT
    <3>2. QED
      BY <3>1
  <2>3. x = s * 32768 + e * 128 + m /\ 0 <= s /\ s < 2
    BY <2>1, <2>2, SMT
  <2>4. QED
    BY <2>1, <2>2, <2>3
<1>2. x \div 32768 = s /\ (x \div 128) % 256 = e /\ x % 128 = m /\ x % 32768 = e * 128 + m
  BY <1>1, SMT
<1>3. CASE m < 127
  <2>1. /\ (x + 1) \div 32768 = s /\ ((x + 1) \div 128) % 256 = e /\ (x + 1) % 128 = m + 1
        /\ (x + 1) % 32768 = e * 128 + m + 1
    BY <1>1, <1>3, SMT
  <2>2. QED
    BY <1>1, <1>2, <2>1, SMT DEF XSign, XExp, Follows
<1>4. CASE m = 127
  <2>1. e < 255
    BY <1>1, <1>2, <1>4, SMT
  <2>2. /\ (x + 1) \div 32768 = s /\ ((x + 1) \div 128) % 256 = e + 1 /\ (x + 1) % 128 = 0
        /\ (x + 1) % 32768 = e * 128 + 128
    BY <1>1, <1>4, <2>1, SMT
  <2>3. QED
    BY <1>1, <1>2, <1>4, <2>1, <2>2, SMT DEF XSign, XExp, Follows
<1>5. QED
  BY <1>1, <1>3, <1>4, SMT

LEMMA NotCaught ==
  ASSUME NEW x \in Nat, ~Overridden(x)
  PROVE  /\ ~(XSign(x) # 1 /\ XMag(x) > OVERFLOW_THRESH_MAG)
         /\ ~(XSign(x) = 1 /\ XMag(x) > UNDERFLOW_THRESH_MAG)
  BY Caught, Zenon

\* Of two operands in a row both results are computed: the fixed-point
\* operands are as far apart as the argument needs.
LEMMA NextOperand ==
  ASSUME NEW x \in Nat, x < 65536, x % 32768 < 32767,
         ~Overridden(x), ~Overridden(x + 1), 96 <= XExp(x)
  PROVE  /\ FixedPoint(ToQ8_23(x)) /\ FixedPoint(ToQ8_23(x + 1))
         /\ XSign(x) = 0 => /\ ToQ8_23(x) <= ToQ8_23(x + 1)
                            /\ Apart(ToQ8_23(x), ToQ8_23(x + 1))
         /\ XSign(x) = 1 => /\ ToQ8_23(x + 1) <= ToQ8_23(x)
                            /\ Apart(ToQ8_23(x + 1), ToQ8_23(x))
<1>1. FixedPoint(ToQ8_23(x)) /\ FixedPoint(ToQ8_23(x + 1))
  BY OperandAbove, OperandBounded DEF FixedPoint
<1>2. /\ Field(XExp(x), x % 128) /\ Field(XExp(x + 1), (x + 1) % 128)
      /\ Follows(XExp(x), x % 128, XExp(x + 1), (x + 1) % 128)
      /\ 96 <= XExp(x + 1)
  <2>1. x + 1 \in Nat
    OBVIOUS
  <2>2. XExp(x) \in 1 .. 133 /\ XExp(x + 1) \in 1 .. 133
    BY <2>1, OperandInRange
  <2>3. XExp(x) <= XExp(x + 1)
    BY NextFields
  <2>4. XExp(x) \in 96 .. 133 /\ XExp(x + 1) \in 96 .. 133
    BY <2>2, <2>3, SMT
  <2>5. /\ x % 128 \in Int /\ 0 <= x % 128 /\ x % 128 < 128
        /\ (x + 1) % 128 \in Int /\ 0 <= (x + 1) % 128 /\ (x + 1) % 128 < 128
        /\ Follows(XExp(x), x % 128, XExp(x + 1), (x + 1) % 128)
    BY NextFields
  <2>6. QED
    BY <2>4, <2>5, SMT DEF Field
<1>3. ToQ8_23(x) = IF XSign(x) = 1 THEN -Fixed(XExp(x), x % 128) ELSE Fixed(XExp(x), x % 128)
  BY <1>2, FixedIs
<1>4. ToQ8_23(x + 1) = IF XSign(x + 1) = 1 THEN -Fixed(XExp(x + 1), (x + 1) % 128)
                       ELSE Fixed(XExp(x + 1), (x + 1) % 128)
  <2>1. x + 1 \in Nat /\ 96 <= XExp(x + 1)
    BY <1>2
  <2>2. QED
    BY <1>2, <2>1, FixedIs
<1>5. PICK a \in Int, b \in Int :
        /\ Fixed(XExp(x), x % 128) = a /\ Fixed(XExp(x + 1), (x + 1) % 128) = b
        /\ Moved(a, b)
  BY <1>2, FixedMoves DEF Moved
<1>6. XSign(x + 1) = XSign(x)
  BY NextFields
<1>7. QED
  BY <1>1, <1>3, <1>4, <1>5, <1>6, SMT DEF Apart, Moved

\* An operand whose result is computed from enough bits, or one whose result
\* is a special one.
Follower(x) == XExp(x) = 0 \/ x % 32768 > 17072 \/ (~Overridden(x) /\ 96 <= XExp(x))
Ordered(x)  == IF XSign(x) = 0 THEN ExpOf(x) <= ExpOf(x + 1) ELSE ExpOf(x) >= ExpOf(x + 1)

LEMMA ComputedOrdered ==
  ASSUME NEW x \in Nat, x < 65536, x % 32768 < 32640, ~Overridden(x), 96 <= XExp(x)
  PROVE  Ordered(x)
<1>1. PICK s \in 0 .. 1, mag \in Int : XSign(x) = s /\ x % 32768 = mag /\ mag < 32640
  BY OperandFields, SMT
<1>2. x + 1 \in Nat /\ x + 1 < 65536 /\ XSign(x + 1) = s /\ (x + 1) % 32768 = mag + 1
  BY <1>1, NextFields, SMT
<1>3. (s = 0 => mag <= 17072) /\ (s = 1 => mag <= 17070)
  <2>1. XMag(x) = mag * 65536
    BY <1>1 DEF XMag
  <2>2. ~(XSign(x) # 1 /\ XMag(x) > OVERFLOW_THRESH_MAG)
    BY NotCaught
  <2>3. ~(XSign(x) = 1 /\ XMag(x) > UNDERFLOW_THRESH_MAG)
    BY NotCaught
  <2>4. QED
    BY <1>1, <2>1, <2>2, <2>3, SMT DEF OVERFLOW_THRESH_MAG, UNDERFLOW_THRESH_MAG
<1>4. PICK p : ToQ8_23(x) = p /\ FixedPoint(p)
  BY OperandAbove, OperandBounded DEF FixedPoint
<1>5. ExpOf(x) = ResultOf(p)
  BY <1>4, ComputedResult
<1>6. ResultOf(p) \in Int /\ 0 <= ResultOf(p) /\ ResultOf(p) <= FP32_PLUS_INF
  BY <1>4, ResultFinite, SMT DEF FP32_PLUS_INF
<1>7. CASE s = 0 /\ mag = 17072
  <2>1. ExpOf(x + 1) = FP32_PLUS_INF
    BY <1>2, <1>7, SpecialValues, SMT
  <2>2. QED
    BY <1>1, <1>5, <1>6, <1>7, <2>1 DEF Ordered
<1>8. CASE s = 1 /\ mag = 17070
  <2>1. ExpOf(x + 1) = FP32_PLUS_ZERO
    BY <1>2, <1>8, SpecialValues, SMT
  <2>2. QED
    BY <1>1, <1>5, <1>6, <1>8, <2>1, SMT DEF Ordered, FP32_PLUS_ZERO
<1>9. CASE (s = 0 /\ mag < 17072) \/ (s = 1 /\ mag < 17070)
  <2>1. ~Overridden(x + 1)
    <3>1. XMag(x + 1) = (mag + 1) * 65536
      BY <1>2 DEF XMag
    <3>2. /\ s = 1 \/ ~(XMag(x + 1) > OVERFLOW_THRESH_MAG)
          /\ s # 1 \/ ~(XMag(x + 1) > UNDERFLOW_THRESH_MAG)
      BY <1>1, <1>9, <3>1, SMT DEF OVERFLOW_THRESH_MAG, UNDERFLOW_THRESH_MAG
    <3>3. XExp(x + 1) # 0
      BY <1>1, NextFields, SMT
    <3>4. XExp(x + 1) # 255
      BY <1>1, <1>2, <1>9, OperandFields, SMT
    <3>5. QED
      BY <1>2, <3>2, <3>3, <3>4, NothingSelected
  <2>2. PICK q : ToQ8_23(x + 1) = q
    OBVIOUS
  <2>3. /\ FixedPoint(p) /\ FixedPoint(q)
        /\ s = 0 => p <= q /\ Apart(p, q)
        /\ s = 1 => q <= p /\ Apart(q, p)
    <3>1. x % 32768 < 32767
      BY <1>1
    <3>2. QED
      BY <1>1, <1>4, <2>1, <2>2, <3>1, NextOperand
  <2>4. ExpOf(x + 1) = ResultOf(q)
    BY <2>1, <2>2, ComputedResult
  <2>5. p \in Int /\ q \in Int
    BY <2>3 DEF FixedPoint
  <2>6. s = 0 => ResultOf(p) <= ResultOf(q)
    BY <2>3, <2>5, ResultsOfOperandsGrow
  <2>7. s = 1 => ResultOf(q) <= ResultOf(p)
    BY <2>3, <2>5, ResultsOfOperandsGrow
  <2>8. ResultOf(q) \in Int
    BY <2>3, ResultFinite
  <2>9. QED
    BY <1>1, <1>5, <1>6, <2>4, <2>6, <2>7, <2>8 DEF Ordered
<1>10. QED
  BY <1>1, <1>3, <1>7, <1>8, <1>9, SMT

\* exp is monotone over the operands of one sign.
LEMMA ExpOrdered ==
  ASSUME NEW x \in Nat, x < 65536, x % 32768 < 32640, Follower(x),
         ~(XExp(x + 1) \in 1 .. 95)
  PROVE  Ordered(x)
<1>1. PICK s \in 0 .. 1, mag \in Int : XSign(x) = s /\ x % 32768 = mag /\ mag < 32640
  BY OperandFields, SMT
<1>2. /\ x + 1 \in Nat /\ x + 1 < 65536 /\ XSign(x + 1) = s /\ (x + 1) % 32768 = mag + 1
      /\ XExp(x + 1) \in Int
  BY <1>1, NextFields, SMT
<1>3. CASE XExp(x) = 0
  <2>1. XExp(x + 1) = 0
    BY <1>2, <1>3, NextFields, SMT DEF Follows
  <2>2. ExpOf(x) = FP32_PLUS_ONE /\ ExpOf(x + 1) = FP32_PLUS_ONE
    BY <1>2, <1>3, <2>1, SpecialValues
  <2>3. QED
    BY <2>2, SMT DEF Ordered, FP32_PLUS_ONE
<1>4. CASE mag > 17072
  <2>1. CASE s = 0
    <3>1. ExpOf(x) = FP32_PLUS_INF
      BY <1>1, <1>4, <2>1, SpecialValues, SMT
    <3>2. ExpOf(x + 1) = FP32_PLUS_INF
      BY <1>1, <1>2, <1>4, <2>1, SpecialValues, SMT
    <3>3. QED
      BY <3>1, <3>2, <1>1, <2>1, SMT DEF Ordered, FP32_PLUS_INF
  <2>2. CASE s = 1
    <3>1. ExpOf(x) = FP32_PLUS_ZERO
      BY <1>1, <1>4, <2>2, SpecialValues, SMT
    <3>2. ExpOf(x + 1) = FP32_PLUS_ZERO
      BY <1>1, <1>2, <1>4, <2>2, SpecialValues, SMT
    <3>3. QED
      BY <3>1, <3>2, <1>1, <2>2, SMT DEF Ordered, FP32_PLUS_ZERO
  <2>3. QED
    BY <2>1, <2>2
<1>5. CASE ~Overridden(x) /\ 96 <= XExp(x)
  BY <1>5, ComputedOrdered
<1>6. QED
  BY <1>1, <1>3, <1>4, <1>5 DEF Follower

-----------------------------------------------------------------------------
\* ----- the exponential near zero

\* The fixed-point operand q stands for q * 2^-23, so the rest of a small one
\* is 128 q in units of 2^-30, to within the rounding of the two products.
Small(q) == q \in Int /\ -131072 <= q /\ q <= 131072

LEMMA SmallRest ==
  ASSUME NEW q, Small(q)
  PROVE  /\ NInt(YQ(q)) = 0
         /\ RQ(YQ(q)) \in Int /\ 128 * q - 46 <= RQ(YQ(q)) /\ RQ(YQ(q)) <= 128 * q + 46
<1>1. q \in Int /\ -131072 <= q /\ q <= 131072
  BY DEF Small
<1>2. YQ(q) = (q * 1549082004 + 536870912) \div 1073741824 /\ Ranged(YQ(q))
  <2>1. Within(q, 738197504)
    BY <1>1, IsWithin, SMT
  <2>2. QED
    BY <1>1, <2>1, QuotientIsProduct
<1>3. PICK y \in Int : /\ YQ(q) = y /\ Ranged(y)
                       /\ 1073741824 * y <= q * 1549082004 + 536870912
                       /\ q * 1549082004 - 536870912 <= 1073741824 * y
  BY <1>1, <1>2, SMT
<1>4. NInt(y) = 0
  BY <1>1, <1>3, SmallOperands, SMT
<1>5. PICK d \in Int : d = 128 * y /\ RQ(y) = (d * 744261118 + 536870912) \div 1073741824
  <2>1. PICK d \in Int : /\ d = 128 * (y - 8388608 * NInt(y))
                         /\ RQ(y) = (d * 744261118 + 536870912) \div 1073741824
    BY <1>3, RestIs
  <2>2. d = 128 * y
    BY <1>4, <2>1, SMT
  <2>3. QED
    BY <2>1, <2>2
<1>6. RQ(y) \in Int /\ 128 * q - 46 <= RQ(y) /\ RQ(y) <= 128 * q + 46
  BY <1>1, <1>3, <1>5, SMT
<1>7. QED
  BY <1>3, <1>4, <1>6

\* What the polynomial adds to 1 + r: z is r^2/2 to within 760 units.
Square(r, z) ==
  /\ z \in Int
  /\ 2147483648 * z <= r * r + 760 * 2147483648
  /\ r * r - 760 * 2147483648 <= 2147483648 * z

SmallerThan24(r) == r \in Int /\ -16777262 <= r /\ r <= 16777262

LEMMA LinearTerm ==
  ASSUME NEW r, SmallerThan24(r), NEW t3 \in Int, 162376776 <= t3, t3 <= 195537166
  PROVE  LET s == Horner(Horner(t3, r, C2), r, C1) - C1
         IN  s \in Int /\ -97000 <= 2 * s - r /\ 2 * s - r <= 97000
<1>1. r \in Int /\ -16777262 <= r /\ r <= 16777262
  BY DEF SmallerThan24
<1>2. PICK h2 \in Int, d2 \in Int : Horner(t3, r, C2) = h2 /\ d2 = h2 - 536870912
                                  /\ -3060000 <= d2 /\ d2 <= 3060000
  <2>1. PICK p \in Int, m \in Int, n \in Int :
          p = r * t3 /\ m = 16777262 /\ n = 195537166
    BY <1>1, SMT
  <2>2. -(m * n) <= p /\ p <= m * n
    <3>1. -n <= t3 /\ t3 <= n /\ -m <= r /\ r <= m /\ 0 <= m
      BY <1>1, <2>1, SMT
    <3>2. QED
      BY <1>1, <2>1, <3>1, TimesBounded
  <2>3. RoundsTo(Horner(t3, r, C2), p, C2)
    <3>1. C2 \in Int
      BY Coefficients
    <3>2. QED
      BY <1>1, <2>1, <3>1, HornerRounds
  <2>4. QED
    BY <2>1, <2>2, <2>3, Coefficients, SMT DEF RoundsTo
<1>3. PICK p \in Int, m \in Int, n \in Int :
        p = r * d2 /\ m = 16777262 /\ n = 3060000
  BY <1>1, SMT
<1>4. -(m * n) <= p /\ p <= m * n
  <2>1. -n <= d2 /\ d2 <= n /\ -m <= r /\ r <= m /\ 0 <= m
    BY <1>1, <1>2, <1>3, SMT
  <2>2. QED
    BY <1>1, <1>3, <2>1, TimesBounded
<1>5. r * h2 = 536870912 * r + p
  BY <1>1, <1>2, <1>3, SMT
<1>6. RoundsTo(Horner(h2, r, C1), 536870912 * r + p, C1)
  <2>1. C1 \in Int
    BY Coefficients
  <2>2. RoundsTo(Horner(h2, r, C1), r * h2, C1)
    BY <1>1, <2>1, HornerRounds
  <2>3. QED
    BY <1>5, <2>2
<1>7. PICK h \in Int, c \in Int : Horner(h2, r, C1) = h /\ C1 = c
  BY <1>6, Coefficients DEF RoundsTo
<1>8. h - c \in Int /\ -97000 <= 2 * (h - c) - r /\ 2 * (h - c) - r <= 97000
  BY <1>1, <1>3, <1>4, <1>6, <1>7, SMT DEF RoundsTo
<1>9. QED
  BY <1>2, <1>7, <1>8

LEMMA QuadraticTerm ==
  ASSUME NEW r, SmallerThan24(r), NEW s \in Int, -97000 <= 2 * s - r, 2 * s - r <= 97000
  PROVE  /\ Horner(s + C1, r, C0) \in Int
         /\ Square(r, Horner(s + C1, r, C0) - (1073741824 + r))
<1>1. r \in Int /\ -16777262 <= r /\ r <= 16777262
  BY DEF SmallerThan24
<1>0. PICK w \in Int, m \in Int, n \in Int : 2 * s - r = w /\ m = 16777262 /\ n = 97000
  BY <1>1, SMT
<1>2. PICK p \in Int, rr \in Int : r * w = p /\ r * r = rr
  BY <1>1
<1>3. -(m * n) <= p /\ p <= m * n
  <2>1. -n <= w /\ w <= n /\ -m <= r /\ r <= m /\ 0 <= m
    BY <1>0, <1>1, <1>2, SMT
  <2>2. QED
    BY <1>0, <1>1, <1>2, <2>1, TimesBounded
<1>4. 2 * (r * (s + 1073741824)) = 2147483648 * r + rr + p
  BY <1>0, <1>1, <1>2, SMT
<1>5. PICK t \in Int, c \in Int, k \in Int :
        s + C1 = t /\ t = s + 1073741824 /\ C0 = c /\ c = 1073741824 /\ r * t = k
  BY <1>1, Coefficients, SMT
<1>6. RoundsTo(Horner(t, r, c), k, c)
  <2>1. RoundsTo(Horner(t, r, c), r * t, c)
    BY <1>1, HornerRounds
  <2>2. QED
    BY <1>5, <2>1
<1>7. PICK h \in Int : Horner(t, r, c) = h
  BY <1>6 DEF RoundsTo
<1>8. 2 * k = 2147483648 * r + rr + p
  BY <1>4, <1>5
<1>9. Square(r, h - (1073741824 + r))
  BY <1>0, <1>1, <1>2, <1>3, <1>5, <1>6, <1>7, <1>8, SMT DEF Square, RoundsTo
<1>10. QED
  BY <1>5, <1>7, <1>9

\* The square of the rest and the square of the operand u (in units of 2^-24)
\* truncated to 2^-24.
HalfSquare(u) == ((u \div 32) * (u \div 32)) \div 32768

LEMMA SquareOfOperand ==
  ASSUME NEW q, Small(q), NEW r \in Int, 128 * q - 46 <= r, r <= 128 * q + 46,
         NEW z, Square(r, z)
  PROVE  /\ HalfSquare(2 * q) \in Int
         /\ -900 <= z - 64 * HalfSquare(2 * q) /\ z - 64 * HalfSquare(2 * q) <= 900
<1>1. q \in Int /\ -131072 <= q /\ q <= 131072
  BY DEF Small
<1>2. PICK a \in Int, c \in Int :
        /\ (2 * q) \div 32 = a /\ r = 2048 * a + c
        /\ -46 <= c /\ c <= 2030 /\ -8192 <= a /\ a <= 8192
  <2>1. PICK a \in Int : (2 * q) \div 32 = a /\ 32 * a <= 2 * q /\ 2 * q <= 32 * a + 31
    BY <1>1, SMT
  <2>2. r - 2048 * a \in Int /\ -46 <= r - 2048 * a /\ r - 2048 * a <= 2030
    BY <1>1, <2>1, SMT
  <2>3. r = 2048 * a + (r - 2048 * a) /\ -8192 <= a /\ a <= 8192
    BY <1>1, <2>1, SMT
  <2>4. QED
    BY <2>1, <2>2, <2>3
<1>3. PICK aa \in Int, ac \in Int, cc \in Int : a * a = aa /\ a * c = ac /\ c * c = cc
  BY <1>2
<1>4. r * r = 4194304 * aa + 4096 * ac + cc
  BY <1>2, <1>3, SMT
<1>5. -(8192 * 2030) <= ac /\ ac <= 8192 * 2030 /\ -(2030 * 2030) <= cc /\ cc <= 2030 * 2030
  <2>1. PICK m \in Int, n \in Int : m = 8192 /\ n = 2030
    BY SMT
  <2>2. -n <= c /\ c <= n /\ -m <= a /\ a <= m /\ 0 <= m /\ 0 <= n
    BY <1>2, <2>1, SMT
  <2>3. -(m * n) <= a * c /\ a * c <= m * n
    BY <2>2, TimesBounded
  <2>4. -(n * n) <= c * c /\ c * c <= n * n
    BY <2>2, TimesBounded
  <2>5. QED
    BY <1>3, <2>1, <2>3, <2>4, SMT
<1>6. PICK u2 \in Int : aa \div 32768 = u2 /\ 32768 * u2 <= aa /\ aa < 32768 * u2 + 32768
  BY <1>3, SMT
<1>7. HalfSquare(2 * q) = u2
  BY <1>2, <1>3, <1>6 DEF HalfSquare
<1>8. PICK rr \in Int : r * r = rr
  OBVIOUS
<1>9. -900 <= z - 64 * u2 /\ z - 64 * u2 <= 900
  BY <1>4, <1>5, <1>6, <1>8, SMT DEF Square
<1>10. QED
  BY <1>7, <1>9

\* The exponent field of a result, and its mantissa with the hidden one; and
\* the value of a result of exponent 126 or 127 in units of 2^-24.
ExpoOf(o)  == o \div 8388608
MantOf(o)  == 8388608 + (o % 8388608)
NearValue(o) == IF ExpoOf(o) = 127 THEN 2 * MantOf(o) ELSE MantOf(o)

LEMMA ResultNearOne ==
  ASSUME NEW y, Significand(y)
  PROVE  /\ ExpoOf(Reconstruct(y, 0)) \in {126, 127}
         /\ NearValue(Reconstruct(y, 0)) \in Int
         /\ y - 128 < 64 * NearValue(Reconstruct(y, 0)) /\ 64 * NearValue(Reconstruct(y, 0)) <= y
<1>1. y \in Int /\ 536870912 <= y /\ y < 2147483648
  BY SMT DEF Significand
<1>2. ExpFinal(y, 0) \in 1 .. 254
  BY SMT DEF ExpFinal
<1>3. Reconstruct(y, 0) = (126 + 0) * 8388608 + Fraction(y)
  BY <1>2, ResultIs
<1>4. CASE y < 1073741824
  <2>1. PICK f \in Int : Fraction(y) = f - 8388608 /\ y \div 64 = f /\ 8388608 <= f /\ f < 16777216
    BY <1>1, <1>4, SMT DEF Fraction
  <2>2. PICK o \in Int : Reconstruct(y, 0) = o /\ o = 125 * 8388608 + f
    BY <1>3, <2>1, SMT
  <2>3. ExpoOf(o) = 126 /\ MantOf(o) = f
    BY <2>1, <2>2, SMT DEF ExpoOf, MantOf
  <2>4. QED
    BY <1>1, <2>1, <2>2, <2>3, SMT DEF NearValue
<1>5. CASE ~(y < 1073741824)
  <2>1. PICK f \in Int : Fraction(y) = f /\ y \div 128 = f /\ 8388608 <= f /\ f < 16777216
    BY <1>1, <1>5, SMT DEF Fraction
  <2>2. PICK o \in Int : Reconstruct(y, 0) = o /\ o = 126 * 8388608 + f
    BY <1>3, <2>1, SMT
  <2>3. ExpoOf(o) = 127 /\ MantOf(o) = f
    BY <2>1, <2>2, SMT DEF ExpoOf, MantOf
  <2>4. QED
    BY <1>1, <2>1, <2>2, <2>3, SMT DEF NearValue
<1>6. QED
  BY <1>4, <1>5

\* Near zero the result is 1 + u + u^2/2 to within 2^-20.
LEMMA NearOne ==
  ASSUME NEW q, Small(q)
  PROVE  /\ ExpoOf(ResultOf(q)) \in {126, 127}
         /\ NearValue(ResultOf(q)) - (16777216 + 2 * q + HalfSquare(2 * q)) \in -16 .. 16
<1>1. q \in Int /\ -131072 <= q /\ q <= 131072
  BY DEF Small
<1>2. PICK r \in Int : RQ(YQ(q)) = r /\ 128 * q - 46 <= r /\ r <= 128 * q + 46
  BY SmallRest
<1>3. SmallerThan24(r) /\ Within(r, 372130559)
  <2>1. -16777262 <= r /\ r <= 16777262
    BY <1>1, <1>2, SMT
  <2>2. QED
    BY <2>1, IsWithin, SMT DEF SmallerThan24
<1>4. PICK t4, t3, t2, t1, y : Chain(r, t4, t3, t2, t1, y)
  BY <1>3, HornerChain
<1>5. /\ t3 \in Int /\ 162376776 <= t3 /\ t3 <= 195537166 /\ t2 = Horner(t3, r, C2)
      /\ t1 \in Int /\ t1 = Horner(t2, r, C1) /\ y = Horner(t1, r, C0) /\ PolyOf(r) = y
      /\ Significand(y)
  BY <1>4, SMT DEF Chain, Significand
<1>6. PICK s \in Int : t1 = s + C1 /\ -97000 <= 2 * s - r /\ 2 * s - r <= 97000
  <2>1. t1 - C1 \in Int /\ -97000 <= 2 * (t1 - C1) - r /\ 2 * (t1 - C1) - r <= 97000
    BY <1>3, <1>5, LinearTerm
  <2>2. t1 = (t1 - C1) + C1
    BY <1>5, Coefficients
  <2>3. QED
    BY <2>1, <2>2
<1>7. PICK z \in Int : z = y - (1073741824 + r) /\ Square(r, z)
  <2>1. y \in Int /\ Square(r, y - (1073741824 + r))
    BY <1>3, <1>5, <1>6, QuadraticTerm
  <2>2. QED
    BY <2>1 DEF Square
<1>8. PICK h \in Int : HalfSquare(2 * q) = h /\ -900 <= z - 64 * h /\ z - 64 * h <= 900
  BY <1>2, <1>7, SquareOfOperand
<1>9. ResultOf(q) = Reconstruct(y, 0)
  BY <1>2, <1>5, SmallRest DEF ResultOf
<1>10. PICK v \in Int : NearValue(ResultOf(q)) = v /\ y - 128 < 64 * v /\ 64 * v <= y
  BY <1>5, <1>9, ResultNearOne
<1>11. v - (16777216 + 2 * q + h) \in -16 .. 16
  BY <1>1, <1>2, <1>7, <1>8, <1>10, <1>5, SMT DEF Significand
<1>12. QED
  BY <1>5, <1>8, <1>9, <1>10, <1>11, ResultNearOne

LEMMA SmallFixed ==
  ASSUME NEW e \in 115 .. 120, NEW m \in Int, 0 <= m, m < 128
  PROVE  Fixed(e, m) \in Int /\ 0 <= Fixed(e, m) /\ Fixed(e, m) <= 131072
<1>1. PICK w \in Int : (128 + m) * 65536 = w /\ 0 <= w /\ w < 16777216
  BY SMT
<1>2. Fixed(e, m) = IF 127 - e > 24 THEN 0 ELSE w \div Pow(127 - e)
  BY <1>1, FixedLow
<1>3. e = 115 \/ e = 116 \/ e = 117 \/ e = 118 \/ e = 119 \/ e = 120
  OBVIOUS
<1>4. QED
  BY <1>1, <1>2, <1>3, Powers, SMT

\* The operands between 2^-12 and 2^-6 are small ones.
LEMMA SlopeNearZero ==
  ASSUME NEW x \in Nat, x < 65536, XExp(x) \in 115 .. 120
  PROVE  LET u == 2 * ToQ8_23(x)
         IN  /\ ExpoOf(ExpOf(x)) \in {126, 127}
             /\ NearValue(ExpOf(x)) - (16777216 + u + HalfSquare(u)) \in -16 .. 16
<1>1. PICK e \in 115 .. 120 : XExp(x) = e
  OBVIOUS
<1>2. ~Overridden(x)
  <2>1. XMan(x) \in Int /\ XMan(x) < 8388608 /\ XMag(x) = XExp(x) * 8388608 + XMan(x)
    BY SMT DEF XExp, XMan, XMag
  <2>2. ~(XMag(x) > OVERFLOW_THRESH_MAG) /\ ~(XMag(x) > UNDERFLOW_THRESH_MAG)
    BY <1>1, <2>1, SMT DEF OVERFLOW_THRESH_MAG, UNDERFLOW_THRESH_MAG
  <2>3. XExp(x) # 0 /\ XExp(x) # 255
    BY <1>1
  <2>4. QED
    BY <2>2, <2>3, NothingSelected
<1>3. PICK m \in Int : x % 128 = m /\ 0 <= m /\ m < 128
  BY SMT
<1>4. ToQ8_23(x) = IF XSign(x) = 1 THEN -Fixed(e, m) ELSE Fixed(e, m)
  BY <1>1, <1>2, <1>3, FixedIs
<1>5. Small(ToQ8_23(x))
  BY <1>3, <1>4, SmallFixed, SMT DEF Small
<1>6. ExpOf(x) = ResultOf(ToQ8_23(x))
  BY <1>2, ComputedResult
<1>7. QED
  BY <1>5, <1>6, NearOne

-----------------------------------------------------------------------------
\* ----- the exponential of twice the operand

\* The rests are within 0.35.
RestLimit == 375809638

\* n is 2^30 * v to within e units of v.
Off(v, n, e) ==
  /\ v \in Int /\ n \in Int /\ e \in Int
  /\ -(1073741824 * e) <= 1073741824 * v - n /\ 1073741824 * v - n <= 1073741824 * e
Rest30(v, n) == 1073741824 * v - n

\* What rounding, and an error of the coefficient, leave of a Horner step.
Carries(e, b, e2) ==
  /\ e \in Int /\ b \in Int /\ e2 \in Int /\ 0 <= e
  /\ 536870912 + RestLimit * e + b <= 1073741824 * e2
Units(v, b) ==
  v \in Int /\ b \in Int /\ -(1073741824 * b) <= v /\ v <= 1073741824 * b

\* A Horner step carries the error of its argument, plus its own rounding.
LEMMA StepOff ==
  ASSUME NEW r, NEW t, NEW c \in Int, NEW n, NEW m \in Int, NEW e, NEW b, NEW e2,
         Within(r, RestLimit), Off(t, n, e), Carries(e, b, e2), Units(r * n - 1073741824 * m, b)
  PROVE  Off(Horner(t, r, c), 1073741824 * c + m, e2)
<1>1. PICK k \in Int : RestLimit = k /\ 0 <= k
  BY SMT DEF RestLimit
<1>2. /\ r \in Int /\ t \in Int /\ n \in Int /\ e \in Int /\ 0 <= e /\ b \in Int /\ e2 \in Int
  BY <1>1, WithinMeans, SMT DEF Off, Carries
<1>3. -k <= r /\ r <= k /\ 0 <= k
  BY <1>1, WithinMeans
<1>4. PICK d \in Int : Rest30(t, n) = d
  <2>1. Rest30(t, n) \in Int
    BY <1>2, SMT DEF Rest30
  <2>2. QED
    BY <2>1
<1>5. PICK f \in Int : f = 1073741824 * e /\ -f <= d /\ d <= f
  BY <1>2, <1>4, SMT DEF Off, Rest30
<1>6. PICK p \in Int, rn \in Int, rd \in Int : p = r * t /\ rn = r * n /\ rd = r * d
  BY <1>2
<1>7. -(1073741824 * (k * e)) <= rd /\ rd <= 1073741824 * (k * e)
  <2>1. -(k * f) <= rd /\ rd <= k * f
    BY <1>2, <1>3, <1>6, <1>5, TimesBounded
  <2>2. k * f = 1073741824 * (k * e)
    BY <1>2, <1>5, SMT
  <2>3. QED
    BY <2>1, <2>2
<1>8. 1073741824 * p = rn + rd
  BY <1>2, <1>6, <1>4, SMT DEF Rest30
<1>9. RoundsTo(Horner(t, r, c), p, c)
  BY <1>2, <1>6, HornerRounds
<1>10. PICK h \in Int : Horner(t, r, c) = h
  BY <1>9 DEF RoundsTo
<1>11. -(1073741824 * b) <= rn - 1073741824 * m /\ rn - 1073741824 * m <= 1073741824 * b
  BY <1>2, <1>6, SMT DEF Units
<1>12. Off(h, 1073741824 * c + m, e2)
  <2>1. PICK z \in Int : Rest30(h, 1073741824 * c + m) = z
    <3>1. Rest30(h, 1073741824 * c + m) \in Int
      BY <1>10, SMT DEF Rest30
    <3>2. QED
      BY <3>1
  <2>2. PICK j \in Int : k * e = j
    BY <1>2
  <2>3. z <= 536870912 + j + b
    BY <1>2, <1>6, <1>7, <1>8, <1>9, <1>10, <1>11, <2>1, <2>2, SMT DEF RoundsTo, Rest30
  <2>4. -(536870912 + j + b) <= z
    BY <1>2, <1>6, <1>7, <1>8, <1>9, <1>10, <1>11, <2>1, <2>2, SMT DEF RoundsTo, Rest30
  <2>5. 536870912 + j + b <= 1073741824 * e2
    BY <1>1, <1>2, <2>2, SMT DEF Carries
  <2>6. QED
    BY <1>2, <1>10, <2>1, <2>3, <2>4, <2>5, SMT DEF Off, Rest30
<1>13. QED
  BY <1>10, <1>12

\* p is a / 2^30, to within one.
Scaled(a, p) ==
  /\ a \in Int /\ p \in Int
  /\ -1073741824 <= a - 1073741824 * p /\ a - 1073741824 * p <= 1073741824

\* The powers of w as fractions of 2^30.
PowersOf(w, w2, w3, w4, w5) ==
  /\ w \in Int /\ Scaled(w * w, w2) /\ Scaled(w * w2, w3)
  /\ Scaled(w * w3, w4) /\ Scaled(w * w4, w5)

\* Every w has rounded powers w^2 / 2^30, ..., w^5 / 2^120.
LEMMA HasPowers ==
  ASSUME NEW w \in Int
  PROVE  \E w2, w3, w4, w5 : PowersOf(w, w2, w3, w4, w5)
<1>1. ASSUME NEW a \in Int PROVE \E p \in Int : Scaled(a, p)
  <2>1. Scaled(a, a \div 1073741824) /\ a \div 1073741824 \in Int
    BY SMT DEF Scaled
  <2>2. QED
    BY <2>1
<1>2. PICK w2 \in Int : Scaled(w * w, w2)
  BY <1>1
<1>3. PICK w3 \in Int : Scaled(w * w2, w3)
  BY <1>1
<1>4. PICK w4 \in Int : Scaled(w * w3, w4)
  BY <1>1
<1>5. PICK w5 \in Int : Scaled(w * w4, w5)
  BY <1>1
<1>6. QED
  BY <1>2, <1>3, <1>4, <1>5 DEF PowersOf

\* Half of the largest rest, with the rounding, and its powers.
Half1 == 186066000
Half2 == 32243000
Half3 == 5587400
Half4 == 968300
Half5 == 167900
Sized(w, w2, w3, w4, w5) ==
  /\ Within(w, Half1) /\ Within(w2, Half2) /\ Within(w3, Half3)
  /\ Within(w4, Half4) /\ Within(w5, Half5)

LEMMA HalvesTyped ==
  Half1 \in Int /\ Half2 \in Int /\ Half3 \in Int /\ Half4 \in Int /\ Half5 \in Int
  BY SMT DEF Half1, Half2, Half3, Half4, Half5

Shrinks(n, n2) == 186066000 * n + 1073741824 < 1073741824 * (n2 + 1)

LEMMA ScaledWithin ==
  ASSUME NEW w, Within(w, Half1), NEW n \in Int, NEW a, Within(a, n),
         NEW n2 \in Int, Shrinks(n, n2), NEW p, Scaled(w * a, p)
  PROVE  Within(p, n2)
<1>1. /\ w \in Int /\ -Half1 <= w /\ w <= Half1 /\ 0 <= Half1 /\ Half1 \in Int
      /\ a \in Int /\ -n <= a /\ a <= n
  BY HalvesTyped, WithinMeans, SMT DEF Half1
<1>2. PICK wa \in Int : w * a = wa
  BY <1>1
<1>3. -(Half1 * n) <= wa /\ wa <= Half1 * n
  BY <1>1, <1>2, TimesBounded
<1>4. p \in Int /\ wa - 1073741824 * p <= 1073741824 /\ -1073741824 <= wa - 1073741824 * p
  BY <1>2, SMT DEF Scaled
<1>5. -n2 <= p /\ p <= n2
  BY <1>1, <1>3, <1>4, SMT DEF Shrinks, Half1
<1>6. QED
  BY <1>4, <1>5, IsWithin

\* The powers of w fall off as those of ln 2 / 4.
LEMMA PowersSized ==
  ASSUME NEW w, Within(w, Half1), NEW w2, NEW w3, NEW w4, NEW w5, PowersOf(w, w2, w3, w4, w5)
  PROVE  Sized(w, w2, w3, w4, w5)
<1>1. Scaled(w * w, w2) /\ Scaled(w * w2, w3) /\ Scaled(w * w3, w4) /\ Scaled(w * w4, w5)
  BY DEF PowersOf
<1>2. Shrinks(Half1, Half2) /\ Shrinks(Half2, Half3) /\ Shrinks(Half3, Half4) /\ Shrinks(Half4, Half5)
  BY SMT DEF Shrinks, Half1, Half2, Half3, Half4, Half5
<1>3. Within(w2, Half2)
  BY <1>1, <1>2, HalvesTyped, ScaledWithin
<1>4. Within(w3, Half3)
  BY <1>1, <1>2, <1>3, HalvesTyped, ScaledWithin
<1>5. Within(w4, Half4)
  BY <1>1, <1>2, <1>4, HalvesTyped, ScaledWithin
<1>6. Within(w5, Half5)
  BY <1>1, <1>2, <1>5, HalvesTyped, ScaledWithin
<1>7. QED
  BY <1>3, <1>4, <1>5, <1>6 DEF Sized

\* A polynomial in w whose coefficients are in units of 2^-30.
Coefs == [1 .. 6 -> Int]
Line(k, w, w2, w3, w4, w5) ==
  1073741824 * k[1] + k[2] * w + k[3] * w2 + k[4] * w3 + k[5] * w4 + k[6] * w5

\* With r = q + a * w, a Horner step with the coefficient c makes m of the
\* polynomial k, to within half a unit of each coefficient.
HalfUnit(v) == -536870912 <= v /\ v <= 536870912
Leads(q, a, c, k, m) ==
  /\ q \in Int /\ a \in Int /\ c \in Int /\ k \in Coefs /\ m \in Coefs
  /\ HalfUnit(q * k[1] - 1073741824 * (m[1] - c))
  /\ HalfUnit(q * k[2] + a * (1073741824 * k[1]) - 1073741824 * m[2])
  /\ \A i \in 3 .. 5 : HalfUnit(q * k[i] + a * (1073741824 * k[i - 1]) - 1073741824 * m[i])
  /\ k[6] = 0 /\ m[6] = a * k[5]
  /\ 0 <= k[1] /\ k[1] <= 1283293709 /\ \A i \in 2 .. 5 : 0 <= k[i]
  /\ 1 <= a /\ a * (k[2] + k[3] + k[4] + k[5]) <= 4617089843

\* The errors of the powers, under coefficients k.
LEMMA PowerErrors ==
  ASSUME NEW k2 \in Nat, NEW k3 \in Nat, NEW k4 \in Nat, NEW k5 \in Nat,
         NEW e2 \in Int, NEW e3 \in Int, NEW e4 \in Int, NEW e5 \in Int, NEW s \in Nat,
         -s <= e2, e2 <= s, -s <= e3, e3 <= s, -s <= e4, e4 <= s, -s <= e5, e5 <= s,
         NEW v \in Int, v = k2 * e2 + k3 * e3 + k4 * e4 + k5 * e5
  PROVE  -(s * (k2 + k3 + k4 + k5)) <= v /\ v <= s * (k2 + k3 + k4 + k5)
<1>1. PICK p2 \in Int, p3 \in Int, p4 \in Int, p5 \in Int :
        p2 = k2 * e2 /\ p3 = k3 * e3 /\ p4 = k4 * e4 /\ p5 = k5 * e5
  BY SMT
<1>2. PICK m2 \in Int, m3 \in Int, m4 \in Int, m5 \in Int :
        m2 = k2 * s /\ m3 = k3 * s /\ m4 = k4 * s /\ m5 = k5 * s
  BY SMT
<1>3. -m2 <= p2 /\ p2 <= m2
  BY <1>1, <1>2, TimesBounded
<1>4. -m3 <= p3 /\ p3 <= m3
  BY <1>1, <1>2, TimesBounded
<1>5. -m4 <= p4 /\ p4 <= m4
  BY <1>1, <1>2, TimesBounded
<1>6. -m5 <= p5 /\ p5 <= m5
  BY <1>1, <1>2, TimesBounded
<1>7. s * (k2 + k3 + k4 + k5) = m2 + m3 + m4 + m5
  BY <1>2, SMT
<1>8. v = p2 + p3 + p4 + p5
  BY <1>1
<1>9. QED
  BY <1>3, <1>4, <1>5, <1>6, <1>7, <1>8, SMT

HalfOf(n) == 536870912 * n
LEMMA HalfTerms ==
  ASSUME NEW g \in Int, HalfUnit(g), NEW n \in Int, 0 <= n, NEW w, Within(w, n)
  PROVE  -HalfOf(n) <= g * w /\ g * w <= HalfOf(n)
<1>1. w \in Int /\ -n <= w /\ w <= n
  BY WithinMeans
<1>2. PICK h \in Int : 536870912 = h
  BY SMT
<1>3. -h <= g /\ g <= h /\ 0 <= h
  BY <1>2, SMT DEF HalfUnit
<1>4. -(h * n) <= g * w /\ g * w <= h * n
  BY <1>1, <1>2, <1>3, TimesBounded
<1>5. QED
  BY <1>1, <1>2, <1>4, SMT DEF HalfOf

StepProductClose(r, n, l, c) ==
  /\ n \in Int /\ l \in Int
  /\ \E b \in Int : b <= 5368709120 /\ Units(r * n - 1073741824 * (l - 1073741824 * c), b)

\* The product of a Horner step on polynomials, to within the rounding of
\* their coefficients and of the powers.
LEMMA FormProduct ==
  ASSUME NEW w, NEW w2, NEW w3, NEW w4, NEW w5, PowersOf(w, w2, w3, w4, w5), Sized(w, w2, w3, w4, w5),
         NEW q, NEW a, NEW c, NEW k, NEW m, Leads(q, a, c, k, m)
  PROVE  StepProductClose(q + a * w, Line(k, w, w2, w3, w4, w5), Line(m, w, w2, w3, w4, w5), c)
<1>1. /\ q \in Int /\ a \in Int /\ c \in Int /\ k \in Coefs /\ m \in Coefs
      /\ w \in Int /\ w2 \in Int /\ w3 \in Int /\ w4 \in Int /\ w5 \in Int
  BY SMT DEF Leads, PowersOf, Scaled
<1>2. PICK k1 \in Int, k2 \in Int, k3 \in Int, k4 \in Int, k5 \in Int :
        k[1] = k1 /\ k[2] = k2 /\ k[3] = k3 /\ k[4] = k4 /\ k[5] = k5
  <2>1. k[1] \in Int /\ k[2] \in Int /\ k[3] \in Int /\ k[4] \in Int /\ k[5] \in Int
    BY <1>1, SMT DEF Coefs
  <2>2. QED
    BY <2>1
<1>3. PICK m1 \in Int, m2 \in Int, m3 \in Int, m4 \in Int, m5 \in Int :
        m[1] = m1 /\ m[2] = m2 /\ m[3] = m3 /\ m[4] = m4 /\ m[5] = m5
  <2>1. m[1] \in Int /\ m[2] \in Int /\ m[3] \in Int /\ m[4] \in Int /\ m[5] \in Int
    BY <1>1, SMT DEF Coefs
  <2>2. QED
    BY <2>1
<1>4. /\ k[6] = 0 /\ m[6] = a * k5 /\ 0 <= a /\ 0 <= k2 /\ 0 <= k3 /\ 0 <= k4 /\ 0 <= k5
      /\ a * (k2 + k3 + k4 + k5) <= 4617089843
  BY <1>2, SMT DEF Leads
<1>5. PICK g1 \in Int, g2 \in Int, g3 \in Int, g4 \in Int, g5 \in Int :
        /\ q * k1 - 1073741824 * (m1 - c) = g1
        /\ q * k2 + a * (1073741824 * k1) - 1073741824 * m2 = g2
        /\ q * k3 + a * (1073741824 * k2) - 1073741824 * m3 = g3
        /\ q * k4 + a * (1073741824 * k3) - 1073741824 * m4 = g4
        /\ q * k5 + a * (1073741824 * k4) - 1073741824 * m5 = g5
  BY <1>1, <1>2, <1>3, SMT
<1>6. HalfUnit(g1) /\ HalfUnit(g2) /\ HalfUnit(g3) /\ HalfUnit(g4) /\ HalfUnit(g5)
  <2>1. HalfUnit(q * k[1] - 1073741824 * (m[1] - c))
        /\ HalfUnit(q * k[2] + a * (1073741824 * k[1]) - 1073741824 * m[2])
    BY SMT DEF Leads
  <2>2. \A i \in 3 .. 5 : HalfUnit(q * k[i] + a * (1073741824 * k[i - 1]) - 1073741824 * m[i])
    BY SMT DEF Leads
  <2>3. 3 \in 3 .. 5 /\ 4 \in 3 .. 5 /\ 5 \in 3 .. 5 /\ 3 - 1 = 2 /\ 4 - 1 = 3 /\ 5 - 1 = 4
    BY SMT
  <2>4. QED
    BY <1>2, <1>3, <1>5, <2>1, <2>2, <2>3, SMT
<1>7. PICK l \in Int : Line(k, w, w2, w3, w4, w5) = l
                        /\ l = 1073741824 * k1 + k2 * w + k3 * w2 + k4 * w3 + k5 * w4
  BY <1>1, <1>2, <1>4, SMT DEF Line
<1>8. PICK n \in Int : /\ Line(m, w, w2, w3, w4, w5) = n
                        /\ n = 1073741824 * m1 + m2 * w + m3 * w2 + m4 * w3 + m5 * w4 + (a * k5) * w5
  BY <1>1, <1>3, <1>4, SMT DEF Line
<1>9. PICK e2 \in Int, e3 \in Int, e4 \in Int, e5 \in Int :
        /\ w * w - 1073741824 * w2 = e2 /\ w * w2 - 1073741824 * w3 = e3
        /\ w * w3 - 1073741824 * w4 = e4 /\ w * w4 - 1073741824 * w5 = e5
        /\ -1073741824 <= e2 /\ e2 <= 1073741824 /\ -1073741824 <= e3 /\ e3 <= 1073741824
        /\ -1073741824 <= e4 /\ e4 <= 1073741824 /\ -1073741824 <= e5 /\ e5 <= 1073741824
  BY <1>1, SMT DEF PowersOf, Scaled
<1>10. PICK v \in Int : v = k2 * e2 + k3 * e3 + k4 * e4 + k5 * e5
  BY <1>2, <1>9
<1>11. (q + a * w) * l
         = q * (1073741824 * k1) + (q * k2 + a * (1073741824 * k1)) * w + (q * k3) * w2 + (q * k4) * w3
           + (q * k5) * w4 + a * (k2 * (w * w) + k3 * (w * w2) + k4 * (w * w3) + k5 * (w * w4))
  BY <1>1, <1>2, <1>7, SMT
<1>12. (q + a * w) * l - 1073741824 * (n - 1073741824 * c)
         = 1073741824 * g1 + g2 * w + g3 * w2 + g4 * w3 + g5 * w4 + a * v
  <2>1. /\ k2 * (w * w) = k2 * (1073741824 * w2) + k2 * e2
        /\ k3 * (w * w2) = k3 * (1073741824 * w3) + k3 * e3
        /\ k4 * (w * w3) = k4 * (1073741824 * w4) + k4 * e4
        /\ k5 * (w * w4) = k5 * (1073741824 * w5) + k5 * e5
    <3>1. /\ w * w = 1073741824 * w2 + e2 /\ w * w2 = 1073741824 * w3 + e3
          /\ w * w3 = 1073741824 * w4 + e4 /\ w * w4 = 1073741824 * w5 + e5
      BY <1>1, <1>9, SMT
    <3>2. QED
      BY <1>1, <1>2, <1>9, <3>1, SMT
  <2>2. k2 * (w * w) + k3 * (w * w2) + k4 * (w * w3) + k5 * (w * w4)
          = 1073741824 * (k2 * w2 + k3 * w3 + k4 * w4 + k5 * w5) + v
    BY <1>1, <1>2, <1>9, <1>10, <2>1, SMT
  <2>3. PICK u \in Int : k2 * w2 + k3 * w3 + k4 * w4 + k5 * w5 = u
    BY <1>1, <1>2
  <2>4. (q + a * w) * l
          = q * (1073741824 * k1) + (q * k2 + a * (1073741824 * k1)) * w + (q * k3) * w2 + (q * k4) * w3
            + (q * k5) * w4 + a * (1073741824 * u) + a * v
    <3>1. k2 * (w * w) + k3 * (w * w2) + k4 * (w * w3) + k5 * (w * w4) = 1073741824 * u + v
      BY <2>2, <2>3
    <3>2. a * (1073741824 * u + v) = a * (1073741824 * u) + a * v
      BY <1>1, <1>10, <2>3, SMT
    <3>3. (q + a * w) * l
            = q * (1073741824 * k1) + (q * k2 + a * (1073741824 * k1)) * w + (q * k3) * w2 + (q * k4) * w3
              + (q * k5) * w4 + a * (1073741824 * u + v)
      BY <1>11, <3>1, SMT
    <3>4. PICK z \in Int : z = a * (1073741824 * u) /\ a * (1073741824 * u + v) = z + a * v
      BY <1>1, <2>3, <3>2
    <3>5. QED
      BY <1>1, <1>2, <1>10, <3>3, <3>4, SMT
  <2>5. /\ q * (1073741824 * k1) = 1073741824 * g1 + 1073741824 * (1073741824 * (m1 - c))
        /\ (q * k2 + a * (1073741824 * k1)) * w = g2 * w + (1073741824 * m2) * w
        /\ (q * k3) * w2 = g3 * w2 + (1073741824 * m3) * w2 - 1073741824 * (a * (k2 * w2))
        /\ (q * k4) * w3 = g4 * w3 + (1073741824 * m4) * w3 - 1073741824 * (a * (k3 * w3))
        /\ (q * k5) * w4 = g5 * w4 + (1073741824 * m5) * w4 - 1073741824 * (a * (k4 * w4))
    <3>1. /\ q * k1 = g1 + 1073741824 * (m1 - c)
          /\ q * k2 + a * (1073741824 * k1) = g2 + 1073741824 * m2
          /\ q * k3 = g3 + 1073741824 * m3 - a * (1073741824 * k2)
          /\ q * k4 = g4 + 1073741824 * m4 - a * (1073741824 * k3)
          /\ q * k5 = g5 + 1073741824 * m5 - a * (1073741824 * k4)
      BY <1>1, <1>2, <1>3, <1>5, SMT
    <3>2. q * (1073741824 * k1) = 1073741824 * (q * k1)
      BY <1>1, <1>2, SMT
    <3>3. (q * k2 + a * (1073741824 * k1)) * w = g2 * w + (1073741824 * m2) * w
      BY <1>1, <1>3, <1>5, <3>1, SMT
    <3>4. (q * k3) * w2 = g3 * w2 + (1073741824 * m3) * w2 - 1073741824 * (a * (k2 * w2))
      BY <1>1, <1>2, <1>3, <1>5, <3>1, SMT
    <3>5. (q * k4) * w3 = g4 * w3 + (1073741824 * m4) * w3 - 1073741824 * (a * (k3 * w3))
      BY <1>1, <1>2, <1>3, <1>5, <3>1, SMT
    <3>6. (q * k5) * w4 = g5 * w4 + (1073741824 * m5) * w4 - 1073741824 * (a * (k4 * w4))
      BY <1>1, <1>2, <1>3, <1>5, <3>1, SMT
    <3>7. QED
      BY <1>1, <1>2, <1>3, <1>5, <3>1, <3>2, <3>3, <3>4, <3>5, <3>6, SMT
  <2>6. a * (1073741824 * u) = 1073741824 * (a * (k2 * w2) + a * (k3 * w3) + a * (k4 * w4) + a * (k5 * w5))
    BY <1>1, <1>2, <2>3, SMT
  <2>7. 1073741824 * (n - 1073741824 * c)
          = 1073741824 * (1073741824 * (m1 - c)) + (1073741824 * m2) * w + (1073741824 * m3) * w2
            + (1073741824 * m4) * w3 + (1073741824 * m5) * w4 + 1073741824 * ((a * k5) * w5)
    BY <1>1, <1>2, <1>3, <1>8, SMT
  <2>8. PICK b2 \in Int, b3 \in Int, b4 \in Int, b5 \in Int :
          b2 = a * (k2 * w2) /\ b3 = a * (k3 * w3) /\ b4 = a * (k4 * w4) /\ b5 = a * (k5 * w5)
    BY <1>1, <1>2
  <2>9. (a * k5) * w5 = b5
    BY <1>1, <1>2, <2>8, SMT
  <2>10. PICK p1 \in Int, p2 \in Int, p3 \in Int, p4 \in Int, p5 \in Int :
           /\ q * (1073741824 * k1) = p1 /\ (q * k2 + a * (1073741824 * k1)) * w = p2
           /\ (q * k3) * w2 = p3 /\ (q * k4) * w3 = p4 /\ (q * k5) * w4 = p5
    BY <1>1, <1>2
  <2>11. PICK x2 \in Int, x3 \in Int, x4 \in Int, x5 \in Int, y2 \in Int, y3 \in Int, y4 \in Int, y5 \in Int :
           /\ g2 * w = x2 /\ g3 * w2 = x3 /\ g4 * w3 = x4 /\ g5 * w4 = x5
           /\ (1073741824 * m2) * w = y2 /\ (1073741824 * m3) * w2 = y3
           /\ (1073741824 * m4) * w3 = y4 /\ (1073741824 * m5) * w4 = y5
    BY <1>1, <1>3, <1>5
  <2>12. PICK au \in Int, av \in Int, y \in Int, nc \in Int, mc \in Int :
           /\ a * (1073741824 * u) = au /\ a * v = av /\ (q + a * w) * l = y
           /\ 1073741824 * (n - 1073741824 * c) = nc /\ 1073741824 * (1073741824 * (m1 - c)) = mc
    BY <1>1, <1>3, <1>7, <1>8, <1>10, <2>3
  <2>13. y = p1 + p2 + p3 + p4 + p5 + au + av
    BY <2>4, <2>10, <2>12
  <2>14. /\ p1 = 1073741824 * g1 + mc /\ p2 = x2 + y2 /\ p3 = x3 + y3 - 1073741824 * b2
         /\ p4 = x4 + y4 - 1073741824 * b3 /\ p5 = x5 + y5 - 1073741824 * b4
    BY <2>5, <2>8, <2>10, <2>11, <2>12
  <2>15. au = 1073741824 * (b2 + b3 + b4 + b5)
    BY <2>6, <2>8, <2>12
  <2>16. nc = mc + y2 + y3 + y4 + y5 + 1073741824 * b5
    BY <2>7, <2>9, <2>11, <2>12
  <2>17. y - nc = 1073741824 * g1 + x2 + x3 + x4 + x5 + av
    BY <1>5, <2>8, <2>10, <2>11, <2>12, <2>13, <2>14, <2>15, <2>16, SMT
  <2>18. QED
    BY <2>11, <2>12, <2>17
<1>13. PICK t2 \in Int, t3 \in Int, t4 \in Int, t5 \in Int :
         t2 = g2 * w /\ t3 = g3 * w2 /\ t4 = g4 * w3 /\ t5 = g5 * w4
  BY <1>1, <1>5
<1>14. /\ -HalfOf(Half1) <= t2 /\ t2 <= HalfOf(Half1)
       /\ -HalfOf(Half2) <= t3 /\ t3 <= HalfOf(Half2)
       /\ -HalfOf(Half3) <= t4 /\ t4 <= HalfOf(Half3)
       /\ -HalfOf(Half4) <= t5 /\ t5 <= HalfOf(Half4)
  <2>1. 0 <= Half1 /\ 0 <= Half2 /\ 0 <= Half3 /\ 0 <= Half4
    BY SMT DEF Half1, Half2, Half3, Half4
  <2>2. Within(w, Half1) /\ Within(w2, Half2) /\ Within(w3, Half3) /\ Within(w4, Half4)
    BY DEF Sized
  <2>3. QED
    BY <1>6, <1>13, <2>1, <2>2, HalvesTyped, HalfTerms, Zenon
<1>15. \E x \in Int : Units(a * v, x) /\ x <= 4617089843
  <2>1. PICK s \in Nat : 1073741824 = s
    BY SMT
  <2>2. PICK j \in Int : k2 + k3 + k4 + k5 = j
    BY <1>2
  <2>3. -(s * j) <= v /\ v <= s * j
    <3>1. k2 \in Nat /\ k3 \in Nat /\ k4 \in Nat /\ k5 \in Nat
      BY <1>2, <1>4
    <3>2. /\ -s <= e2 /\ e2 <= s /\ -s <= e3 /\ e3 <= s
          /\ -s <= e4 /\ e4 <= s /\ -s <= e5 /\ e5 <= s
      BY <1>9, <2>1, SMT
    <3>3. QED
      BY <1>9, <1>10, <2>1, <2>2, <3>1, <3>2, PowerErrors
  <2>4. -(a * (s * j)) <= a * v /\ a * v <= a * (s * j)
    BY <1>1, <1>4, <1>10, <2>1, <2>2, <2>3, TimesMonotone, SMT
  <2>5. a * (s * j) = s * (a * j) /\ a * j \in Int
    BY <1>1, <2>1, <2>2, SMT
  <2>6. a * j <= 4617089843
    BY <1>4, <2>2, SMT
  <2>7. PICK x \in Int, y \in Int : a * j = x /\ a * v = y
    BY <1>1, <1>10, <2>5
  <2>8. -(s * x) <= y /\ y <= s * x /\ x <= 4617089843
    BY <2>4, <2>5, <2>6, <2>7, SMT
  <2>9. -(1073741824 * x) <= y /\ y <= 1073741824 * x
    BY <2>1, <2>8, SMT
  <2>10. QED
    BY <2>7, <2>8, <2>9, SMT DEF Units
<1>16. PICK y \in Int, x \in Int : a * v = y /\ Units(y, x) /\ x <= 4617089843
  BY <1>1, <1>10, <1>15
<1>17. PICK z \in Int : (q + a * w) * l - 1073741824 * (n - 1073741824 * c) = z
  BY <1>1, <1>7, <1>8
<1>18. z = 1073741824 * g1 + t2 + t3 + t4 + t5 + y
  BY <1>12, <1>13, <1>16, <1>17
<1>19. PICK b \in Int : b = 650000000 + x
  BY <1>16
<1>20. b <= 5368709120 /\ Units(z, b)
  BY <1>5, <1>6, <1>14, <1>16, <1>18, <1>19, SMT DEF HalfUnit, HalfOf, Half1, Half2, Half3, Half4, Units
<1>21. StepProductClose(q + a * w, l, n, c)
  BY <1>7, <1>8, <1>17, <1>20, SMT DEF StepProductClose
<1>22. QED
  BY <1>7, <1>8, <1>21

FormOff == 1000

\* A rest that is v but for the rounding.
Around(r, v) == r \in Int /\ v \in Int /\ -300 <= r - v /\ r - v <= 300

\* Such a polynomial stays below 2, so an error of the rest counts at most double.
LEMMA LineBounded ==
  ASSUME NEW w, NEW w2, NEW w3, NEW w4, NEW w5, Sized(w, w2, w3, w4, w5),
         NEW q, NEW a, NEW c, NEW k, NEW m, Leads(q, a, c, k, m)
  PROVE  Units(Line(k, w, w2, w3, w4, w5), 2147483648)
<1>1. a \in Int /\ 1 <= a /\ k \in Coefs /\ k[6] = 0
  BY SMT DEF Leads
<1>2. PICK k1 \in Int, k2 \in Int, k3 \in Int, k4 \in Int, k5 \in Int :
        k[1] = k1 /\ k[2] = k2 /\ k[3] = k3 /\ k[4] = k4 /\ k[5] = k5
  <2>1. k[1] \in Int /\ k[2] \in Int /\ k[3] \in Int /\ k[4] \in Int /\ k[5] \in Int
    BY <1>1, SMT DEF Coefs
  <2>2. QED
    BY <2>1
<1>3. /\ 0 <= k1 /\ k1 <= 1283293709 /\ 0 <= k2 /\ 0 <= k3 /\ 0 <= k4 /\ 0 <= k5
      /\ a * (k2 + k3 + k4 + k5) <= 4617089843
  BY <1>2, SMT DEF Leads
<1>4. k2 + k3 + k4 + k5 <= 4617089843
  <2>1. PICK j \in Int : k2 + k3 + k4 + k5 = j
    BY <1>2
  <2>2. 0 <= (a - 1) * j
    <3>1. 0 <= a - 1 /\ a - 1 \in Int /\ 0 <= j
      BY <1>1, <1>2, <1>3, <2>1, SMT
    <3>2. QED
      BY <2>1, <3>1, TimesMonotone
  <2>3. a * j = (a - 1) * j + j
    BY <1>1, <2>1, SMT
  <2>4. QED
    BY <1>1, <1>3, <2>1, <2>2, <2>3, SMT
<1>5. /\ w \in Int /\ w2 \in Int /\ w3 \in Int /\ w4 \in Int /\ w5 \in Int
      /\ -Half1 <= w /\ w <= Half1 /\ -Half1 <= w2 /\ w2 <= Half1
      /\ -Half1 <= w3 /\ w3 <= Half1 /\ -Half1 <= w4 /\ w4 <= Half1
  <2>1. /\ w \in Int /\ w2 \in Int /\ w3 \in Int /\ w4 \in Int /\ w5 \in Int
        /\ -Half1 <= w /\ w <= Half1 /\ -Half2 <= w2 /\ w2 <= Half2 /\ -Half3 <= w3 /\ w3 <= Half3
        /\ -Half4 <= w4 /\ w4 <= Half4 /\ -Half5 <= w5 /\ w5 <= Half5
    BY HalvesTyped, WithinMeans DEF Sized
  <2>2. QED
    BY <2>1, SMT DEF Half1, Half2, Half3, Half4, Half5
<1>6. PICK v \in Int : v = k2 * w + k3 * w2 + k4 * w3 + k5 * w4
  BY <1>2, <1>5
<1>7. -(Half1 * (k2 + k3 + k4 + k5)) <= v /\ v <= Half1 * (k2 + k3 + k4 + k5)
  <2>1. Half1 \in Nat
    BY SMT DEF Half1
  <2>2. k2 \in Nat /\ k3 \in Nat /\ k4 \in Nat /\ k5 \in Nat
    BY <1>2, <1>3, SMT
  <2>3. QED
    BY <1>5, <1>6, <2>1, <2>2, PowerErrors
<1>8. Line(k, w, w2, w3, w4, w5) = 1073741824 * k1 + v
  BY <1>1, <1>2, <1>5, <1>6, SMT DEF Line
<1>9. PICK j \in Int : k2 + k3 + k4 + k5 = j /\ j <= 4617089843
  BY <1>2, <1>4, SMT
<1>10. -(186066000 * j) <= v /\ v <= 186066000 * j
  BY <1>7, <1>9, SMT DEF Half1
<1>11. QED
  BY <1>2, <1>3, <1>6, <1>8, <1>9, <1>10, SMT DEF Units

\* A Horner step takes the polynomial k to m and keeps the error of 1000 units.
LEMMA FormStep ==
  ASSUME NEW w, NEW w2, NEW w3, NEW w4, NEW w5, PowersOf(w, w2, w3, w4, w5), Sized(w, w2, w3, w4, w5),
         NEW q, NEW a, NEW c, NEW k, NEW m, Leads(q, a, c, k, m),
         NEW r, Within(r, RestLimit), Around(r, q + a * w),
         NEW t, Off(t, Line(k, w, w2, w3, w4, w5), FormOff)
  PROVE  Off(Horner(t, r, c), Line(m, w, w2, w3, w4, w5), FormOff)
<1>1. /\ StepProductClose(q + a * w, Line(k, w, w2, w3, w4, w5), Line(m, w, w2, w3, w4, w5), c)
  BY FormProduct, Zenon
<1>2. PICK n, l, v : /\ Line(k, w, w2, w3, w4, w5) = n /\ Line(m, w, w2, w3, w4, w5) = l
                      /\ q + a * w = v /\ StepProductClose(v, n, l, c)
  BY <1>1
<1>3. c \in Int
  BY SMT DEF Leads
<1>4. n \in Int /\ l \in Int
  BY <1>2 DEF StepProductClose
<1>5. PICK j \in Int : l - 1073741824 * c = j
  BY <1>3, <1>4, SMT
<1>6. PICK b \in Int : b <= 5368709120 /\ Units(v * n - 1073741824 * j, b)
  BY <1>2, <1>5, SMT DEF StepProductClose
<1>7. PICK e \in Int : e = r - v /\ -300 <= e /\ e <= 300 /\ r \in Int /\ v \in Int
  BY <1>2, SMT DEF Around
<1>8. Units(n, 2147483648)
  <2>1. Units(Line(k, w, w2, w3, w4, w5), 2147483648)
    BY LineBounded, SMT
  <2>2. QED
    BY <1>2, <2>1, SMT
<1>9. PICK y \in Int, z \in Int : e * n = y /\ v * n = z
  BY <1>4, <1>7
<1>10. PICK f \in Int : 644245094400 <= f /\ f <= 644245094401 /\ -(1073741824 * f) <= y /\ y <= 1073741824 * f
  <2>1. PICK u \in Int, g \in Int : 300 = u /\ g = 1073741824 * 2147483648
    BY SMT
  <2>2. -u <= e /\ e <= u /\ 0 <= u
    BY <1>7, <2>1, SMT
  <2>3. -g <= n /\ n <= g
    BY <1>8, <2>1, SMT DEF Units
  <2>4. -(u * g) <= e * n /\ e * n <= u * g
    BY <1>4, <1>7, <2>1, <2>2, <2>3, TimesBounded
  <2>5. PICK f \in Int : 644245094400 <= f /\ f <= 644245094401
    BY SMT
  <2>6. PICK ug \in Int : u * g = ug
    BY <2>1
  <2>7. ug <= 1073741824 * f
    BY <2>1, <2>5, <2>6, SMT
  <2>8. QED
    BY <1>9, <2>4, <2>5, <2>6, <2>7, SMT
<1>11. PICK d \in Int : d = b + f
  BY <1>6, <1>10, SMT
<1>12. Units(r * n - 1073741824 * j, d)
  <2>1. r * n = y + z
    <3>1. r = v + e
      BY <1>7, SMT
    <3>2. (v + e) * n = v * n + e * n
      BY <1>4, <1>7, SMT
    <3>3. QED
      BY <1>9, <3>1, <3>2
  <2>2. Units(z - 1073741824 * j, b)
    BY <1>6, <1>9
  <2>3. Units((y + z) - 1073741824 * j, d)
    BY <1>5, <1>9, <1>10, <1>11, <2>2, SMT DEF Units
  <2>4. QED
    BY <2>1, <2>3
<1>13. Carries(FormOff, d, FormOff)
  BY <1>6, <1>10, <1>11, SMT DEF Carries, RestLimit, FormOff
<1>14. Off(Horner(t, r, c), 1073741824 * c + j, FormOff)
  BY <1>2, <1>3, <1>5, <1>12, <1>13, StepOff, SMT
<1>15. 1073741824 * c + j = l
  BY <1>3, <1>5, <1>4, SMT
<1>16. QED
  <2>1. Off(Horner(t, r, c), l, FormOff)
    BY <1>14, <1>15, SMT
  <2>2. QED
    BY <1>2, <2>1

\* The polynomials after each of the steps.
FormsLead(q, a, f) ==
  /\ f[1] = <<C5, 0, 0, 0, 0, 0>>
  /\ Leads(q, a, C4, f[1], f[2]) /\ Leads(q, a, C3, f[2], f[3]) /\ Leads(q, a, C2, f[3], f[4])
  /\ Leads(q, a, C1, f[4], f[5]) /\ Leads(q, a, C0, f[5], f[6])

\* The whole chain: the polynomial of the lane is that of the last step.
LEMMA PolyForm ==
  ASSUME NEW w, NEW w2, NEW w3, NEW w4, NEW w5, PowersOf(w, w2, w3, w4, w5), Sized(w, w2, w3, w4, w5),
         NEW q, NEW a, NEW f, FormsLead(q, a, f),
         NEW r, Within(r, RestLimit), Around(r, q + a * w)
  PROVE  Off(PolyOf(r), Line(f[6], w, w2, w3, w4, w5), FormOff)
<1> DEFINE L(k) == Line(k, w, w2, w3, w4, w5)
           t4 == Horner(C5, r, C4)
           t3 == Horner(t4, r, C3)
           t2 == Horner(t3, r, C2)
           t1 == Horner(t2, r, C1)
<1>1. Off(C5, L(f[1]), FormOff)
  <2>1. w \in Int /\ w2 \in Int /\ w3 \in Int /\ w4 \in Int /\ w5 \in Int
    BY DEF PowersOf, Scaled
  <2>2. f[1] = <<C5, 0, 0, 0, 0, 0>>
    BY DEF FormsLead
  <2>3. PICK k : f[1] = k
    OBVIOUS
  <2>4. k[1] = C5 /\ k[2] = 0 /\ k[3] = 0 /\ k[4] = 0 /\ k[5] = 0 /\ k[6] = 0
    BY <2>2, <2>3, SMT
  <2>5. L(k) = 1073741824 * C5
    BY <2>1, <2>4, SMT DEF Line, C5
  <2>6. QED
    BY <2>3, <2>5, SMT DEF Off, FormOff, C5
<1>2. Off(t4, L(f[2]), FormOff)
  BY <1>1, FormStep DEF FormsLead
<1>3. Off(t3, L(f[3]), FormOff)
  BY <1>2, FormStep DEF FormsLead
<1>4. Off(t2, L(f[4]), FormOff)
  BY <1>3, FormStep DEF FormsLead
<1>5. Off(t1, L(f[5]), FormOff)
  BY <1>4, FormStep DEF FormsLead
<1>6. Off(Horner(t1, r, C0), L(f[6]), FormOff)
  BY <1>5, FormStep DEF FormsLead
<1>7. PolyOf(r) = Horner(t1, r, C0)
  BY DEF PolyOf
<1>8. QED
  BY <1>6, <1>7

\* Around 0, half of ln 2 and its negative; and in half of the rest.
MiddleForms ==
  << <<C5, 0, 0, 0, 0, 0>>,
     <<44739243, 8947849, 0, 0, 0, 0>>,
     <<178956971, 44739243, 8947849, 0, 0, 0>>,
     <<536870912, 178956971, 44739243, 8947849, 0, 0>>,
     <<1073741824, 536870912, 178956971, 44739243, 8947849, 0>>,
     <<1073741824, 1073741824, 536870912, 178956971, 44739243, 8947849>> >>
HighForms ==
  << <<C5, 0, 0, 0, 0, 0>>,
     <<47840331, 8947849, 0, 0, 0, 0>>,
     <<195537166, 50941419, 8947849, 0, 0, 0>>,
     <<604638930, 213192116, 54042507, 8947849, 0, 0>>,
     <<1283293709, 678525687, 231921822, 57143595, 8947849, 0>>,
     <<1518497532, 1518452792, 758903666, 251726283, 60244683, 8947849>> >>
LowForms ==
  << <<C5, 0, 0, 0, 0, 0>>,
     <<41638155, 8947849, 0, 0, 0, 0>>,
     <<164526286, 38537067, 8947849, 0, 0, 0>>,
     <<479850446, 151170356, 35435979, 8947849, 0, 0>>,
     <<907438332, 427458793, 138889182, 32334891, 8947849, 0>>,
     <<759247663, 759292403, 379323471, 127682763, 29233803, 8947849>> >>
TwiceForms ==
  << <<C5, 0, 0, 0, 0, 0>>,
     <<44739243, 17895698, 0, 0, 0, 0>>,
     <<178956971, 89478486, 35791396, 0, 0, 0>>,
     <<536870912, 357913942, 178956972, 71582792, 0, 0>>,
     <<1073741824, 1073741824, 715827884, 357913944, 143165584, 0>>,
     <<1073741824, 2147483648, 2147483648, 1431655768, 715827888, 286331168>> >>

\* The polynomials around 0 and either half of ln 2, and that at 2 w.
LEMMA FormsGiven ==
  /\ FormsLead(0, 1, MiddleForms) /\ FormsLead(372130559, 1, HighForms)
  /\ FormsLead(-372130559, 1, LowForms) /\ FormsLead(0, 2, TwiceForms)
<1>1. FormsLead(0, 1, MiddleForms)
  BY SMT DEF FormsLead, Leads, HalfUnit, Coefs, MiddleForms, C0, C1, C2, C3, C4, C5
<1>2. FormsLead(372130559, 1, HighForms)
  BY SMT DEF FormsLead, Leads, HalfUnit, Coefs, HighForms, C0, C1, C2, C3, C4, C5
<1>3. FormsLead(-372130559, 1, LowForms)
  BY SMT DEF FormsLead, Leads, HalfUnit, Coefs, LowForms, C0, C1, C2, C3, C4, C5
<1>4. FormsLead(0, 2, TwiceForms)
  BY SMT DEF FormsLead, Leads, HalfUnit, Coefs, TwiceForms, C0, C1, C2, C3, C4, C5
<1>5. QED
  BY <1>1, <1>2, <1>3, <1>4, SMT

\* The powers of the powers.
CrossPowers(w2, w3, w4, w5) ==
  /\ -2147483648 <= w2 * w2 - 1073741824 * w4 /\ w2 * w2 - 1073741824 * w4 <= 2147483648
  /\ -2147483648 <= w2 * w3 - 1073741824 * w5 /\ w2 * w3 - 1073741824 * w5 <= 2147483648

LEMMA CrossStep ==
  ASSUME NEW w \in Int, NEW v2 \in Int, NEW v3 \in Int, NEW v4 \in Int, NEW v5 \in Int, NEW s \in Int,
         NEW e1 \in Int, NEW e2 \in Int, NEW e3 \in Int,
         w * w = s * v2 + e1, w * v3 = s * v4 + e2, w * v4 = s * v5 + e3
  PROVE  s * (v2 * v3) = s * (s * v5) + s * e3 + e2 * w - e1 * v3
<1>1. (w * w) * v3 = w * (w * v3)
  OBVIOUS
<1>2. (s * v2 + e1) * v3 = w * (s * v4 + e2)
  BY <1>1
<1>3. (s * v2 + e1) * v3 = s * (v2 * v3) + e1 * v3
  OBVIOUS
<1>4. w * (s * v4 + e2) = s * (w * v4) + e2 * w
  OBVIOUS
<1>5. s * (s * v5 + e3) = s * (s * v5) + s * e3
  OBVIOUS
<1>6. PICK t \in Int : s * (w * v4) = t /\ t = s * (s * v5) + s * e3
  BY <1>5
<1>7. PICK a \in Int, b \in Int, c \in Int : a = s * (v2 * v3) /\ b = e1 * v3 /\ c = e2 * w
  OBVIOUS
<1>8. a + b = t + c
  BY <1>2, <1>3, <1>4, <1>6, <1>7
<1>9. a = t + c - b
  BY <1>6, <1>7, <1>8
<1>10. QED
  BY <1>6, <1>7, <1>9

\* The product of two rounded powers is the rounded power, to within two units.
LEMMA PowersCross ==
  ASSUME NEW w, NEW w2, NEW w3, NEW w4, NEW w5, PowersOf(w, w2, w3, w4, w5), Sized(w, w2, w3, w4, w5)
  PROVE  CrossPowers(w2, w3, w4, w5)
<1>1. w \in Int /\ w2 \in Int /\ w3 \in Int /\ w4 \in Int /\ w5 \in Int
  BY SMT DEF PowersOf, Scaled
<1>2. PICK s \in Nat : 1073741824 = s
  BY SMT
<1>3. PICK e1 \in Int, e2 \in Int, e3 \in Int, e4 \in Int :
        /\ w * w = s * w2 + e1 /\ w * w2 = s * w3 + e2
        /\ w * w3 = s * w4 + e3 /\ w * w4 = s * w5 + e4
        /\ -s <= e1 /\ e1 <= s /\ -s <= e2 /\ e2 <= s /\ -s <= e3 /\ e3 <= s /\ -s <= e4 /\ e4 <= s
  <2>1. PICK e1 \in Int, e2 \in Int, e3 \in Int, e4 \in Int :
        /\ w * w - 1073741824 * w2 = e1 /\ w * w2 - 1073741824 * w3 = e2
        /\ w * w3 - 1073741824 * w4 = e3 /\ w * w4 - 1073741824 * w5 = e4
        /\ -1073741824 <= e1 /\ e1 <= 1073741824 /\ -1073741824 <= e2 /\ e2 <= 1073741824
        /\ -1073741824 <= e3 /\ e3 <= 1073741824 /\ -1073741824 <= e4 /\ e4 <= 1073741824
    BY <1>1, SMT DEF PowersOf, Scaled
  <2>2. /\ w * w = s * w2 + e1 /\ w * w2 = s * w3 + e2
        /\ w * w3 = s * w4 + e3 /\ w * w4 = s * w5 + e4
    BY <1>1, <1>2, <2>1, SMT
  <2>3. -s <= e1 /\ e1 <= s /\ -s <= e2 /\ e2 <= s /\ -s <= e3 /\ e3 <= s /\ -s <= e4 /\ e4 <= s
    BY <1>2, <2>1, SMT
  <2>4. QED
    BY <2>2, <2>3
<1>4. s * (w2 * w2) = s * (s * w4) + s * e3 + e2 * w - e1 * w2
  BY <1>1, <1>2, <1>3, CrossStep
<1>5. s * (w2 * w3) = s * (s * w5) + s * e4 + e3 * w - e1 * w3
  BY <1>1, <1>2, <1>3, CrossStep
<1>6. PICK x1 \in Int, x2 \in Int, x3 \in Int, x4 \in Int :
        e2 * w = x1 /\ e1 * w2 = x2 /\ e3 * w = x3 /\ e1 * w3 = x4
  BY <1>1, <1>3
<1>7. /\ -(s * Half1) <= x1 /\ x1 <= s * Half1 /\ -(s * Half2) <= x2 /\ x2 <= s * Half2
      /\ -(s * Half1) <= x3 /\ x3 <= s * Half1 /\ -(s * Half3) <= x4 /\ x4 <= s * Half3
  <2>1. /\ -Half1 <= w /\ w <= Half1 /\ -Half2 <= w2 /\ w2 <= Half2 /\ -Half3 <= w3 /\ w3 <= Half3
    BY HalvesTyped, WithinMeans DEF Sized
  <2>2. QED
    BY <1>1, <1>2, <1>3, <1>6, <2>1, HalvesTyped, TimesBounded
<1>8. PICK y \in Int, z \in Int : w2 * w2 = y /\ w2 * w3 = z
  BY <1>1
<1>9. /\ s * y = s * (s * w4) + s * e3 + x1 - x2
      /\ s * z = s * (s * w5) + s * e4 + x3 - x4
  BY <1>4, <1>5, <1>6, <1>8
<1>10. /\ -2147483648 <= y - 1073741824 * w4 /\ y - 1073741824 * w4 <= 2147483648
  BY <1>1, <1>2, <1>3, <1>6, <1>7, <1>8, <1>9, SMT DEF Half1, Half2
<1>11. /\ -2147483648 <= z - 1073741824 * w5 /\ z - 1073741824 * w5 <= 2147483648
  BY <1>1, <1>2, <1>3, <1>6, <1>7, <1>8, <1>9, SMT DEF Half1, Half3
<1>12. QED
  BY <1>8, <1>10, <1>11, SMT DEF CrossPowers

\* The square of such a polynomial is the polynomial p but for half a unit of
\* each coefficient and for the powers above the fifth.
Squares(a, p) ==
  /\ a \in [1 .. 6 -> Nat] /\ p \in Coefs
  /\ HalfUnit(a[1] * a[1] - 1073741824 * p[1])
  /\ HalfUnit(2 * (a[1] * a[2]) - 1073741824 * p[2])
  /\ HalfUnit(2 * (a[1] * a[3]) + a[2] * a[2] - 1073741824 * p[3])
  /\ HalfUnit(2 * (a[1] * a[4]) + 2 * (a[2] * a[3]) - 1073741824 * p[4])
  /\ HalfUnit(2 * (a[1] * a[5]) + 2 * (a[2] * a[4]) + a[3] * a[3] - 1073741824 * p[5])
  /\ HalfUnit(2 * (a[1] * a[6]) + 2 * (a[2] * a[5]) + 2 * (a[3] * a[4]) - 1073741824 * p[6])
  /\ a[2] <= 1518452792 /\ a[3] <= 758903666 /\ a[4] <= 251726283
  /\ a[5] <= 60244683 /\ a[6] <= 8947849

\* The largest values of its terms but the first.
Term1 == 263129700
Term2 == 22788900
Term3 == 1310000
Term4 == 54400
Term5 == 1400

Units2(v, d) ==
  v \in Int /\ d \in Int /\ -(1073741824 * (1073741824 * d)) <= v /\ v <= 1073741824 * (1073741824 * d)

LEMMA UnitsTimes ==
  ASSUME NEW x, NEW y, NEW b, NEW c, Units(x, b), Units(y, c), 0 <= b
  PROVE  Units2(x * y, b * c)
<1>1. PICK s \in Nat : 1073741824 = s
  BY SMT
<1>2. /\ x \in Int /\ y \in Int /\ b \in Int /\ c \in Int
      /\ -(s * b) <= x /\ x <= s * b /\ -(s * c) <= y /\ y <= s * c
  BY <1>1, SMT DEF Units
<1>3. 0 <= s * b
  BY <1>1, <1>2, TimesMonotone
<1>4. PICK sb \in Int, sc \in Int : sb = s * b /\ sc = s * c
  BY <1>1, <1>2
<1>5. -(sb * sc) <= x * y /\ x * y <= sb * sc
  BY <1>2, <1>3, <1>4, TimesBounded
<1>6. sb * sc = s * (s * (b * c))
  BY <1>1, <1>2, <1>4, SMT
<1>7. x * y \in Int /\ b * c \in Int
  BY <1>2
<1>8. PICK v \in Int, d \in Int, t \in Int : x * y = v /\ b * c = d /\ sb * sc = t
  BY <1>4, <1>7
<1>9. -t <= v /\ v <= t /\ t = s * (s * d)
  BY <1>5, <1>6, <1>8
<1>10. Units2(v, d)
  BY <1>1, <1>8, <1>9, SMT DEF Units2
<1>11. QED
  BY <1>8, <1>10

Covered(k, h, b) == k * h <= 1073741824 * b
LEMMA TermUnits ==
  ASSUME NEW a \in Nat, NEW k \in Nat, a <= k, NEW h \in Nat, NEW w, Within(w, h),
         NEW b \in Nat, Covered(k, h, b)
  PROVE  Units(a * w, b)
<1>1. w \in Int /\ -h <= w /\ w <= h
  BY WithinMeans
<1>2. PICK v \in Int : a * w = v
  BY <1>1
<1>3. -(k * h) <= v /\ v <= k * h
  <2>1. -k <= a /\ a <= k /\ 0 <= k
    OBVIOUS
  <2>2. QED
    BY <1>1, <1>2, <2>1, TimesBounded
<1>4. PICK m \in Int : k * h = m
  OBVIOUS
<1>5. QED
  BY <1>2, <1>3, <1>4, SMT DEF Units, Covered

\* The products of the terms beyond the fifth power.
TailUnits(v) == \E d \in Int : d <= 5150000000000 /\ Units2(v, d)
LEMMA TailBounded ==
  ASSUME NEW x1, NEW x2, NEW x3, NEW x4, NEW x5,
         Units(x1, Term1), Units(x2, Term2), Units(x3, Term3), Units(x4, Term4), Units(x5, Term5)
  PROVE  TailUnits(2 * (x1 * x5) + 2 * (x2 * x4) + x3 * x3 + 2 * (x2 * x5) + 2 * (x3 * x4)
                     + 2 * (x3 * x5) + x4 * x4 + 2 * (x4 * x5) + x5 * x5)
<1>1. 0 <= Term1 /\ 0 <= Term2 /\ 0 <= Term3 /\ 0 <= Term4 /\ 0 <= Term5
  BY SMT DEF Term1, Term2, Term3, Term4, Term5
<1>2. /\ Units2(x1 * x5, Term1 * Term5) /\ Units2(x2 * x4, Term2 * Term4) /\ Units2(x3 * x3, Term3 * Term3)
      /\ Units2(x2 * x5, Term2 * Term5) /\ Units2(x3 * x4, Term3 * Term4) /\ Units2(x3 * x5, Term3 * Term5)
      /\ Units2(x4 * x4, Term4 * Term4) /\ Units2(x4 * x5, Term4 * Term5) /\ Units2(x5 * x5, Term5 * Term5)
  BY <1>1, UnitsTimes
<1>3. PICK d15, d24, d33, d25, d34, d35, d44, d45, d55 :
        /\ Term1 * Term5 = d15 /\ Term2 * Term4 = d24 /\ Term3 * Term3 = d33
        /\ Term2 * Term5 = d25 /\ Term3 * Term4 = d34 /\ Term3 * Term5 = d35
        /\ Term4 * Term4 = d44 /\ Term4 * Term5 = d45 /\ Term5 * Term5 = d55
  OBVIOUS
<1>4. PICK y15, y24, y33, y25, y34, y35, y44, y45, y55 :
        /\ x1 * x5 = y15 /\ x2 * x4 = y24 /\ x3 * x3 = y33
        /\ x2 * x5 = y25 /\ x3 * x4 = y34 /\ x3 * x5 = y35
        /\ x4 * x4 = y44 /\ x4 * x5 = y45 /\ x5 * x5 = y55
  OBVIOUS
<1>5. /\ Units2(y15, d15) /\ Units2(y24, d24) /\ Units2(y33, d33) /\ Units2(y25, d25) /\ Units2(y34, d34)
      /\ Units2(y35, d35) /\ Units2(y44, d44) /\ Units2(y45, d45) /\ Units2(y55, d55)
  BY <1>2, <1>3, <1>4
<1>6. /\ d15 <= 368400000000 /\ d24 <= 1239800000000 /\ d33 <= 1716200000000 /\ d25 <= 32000000000
      /\ d34 <= 71300000000 /\ d35 <= 2000000000 /\ d44 <= 3000000000 /\ d45 <= 80000000 /\ d55 <= 2000000
  BY <1>3, SMT DEF Term1, Term2, Term3, Term4, Term5
<1>7. PICK d \in Int : d = 2 * d15 + 2 * d24 + d33 + 2 * d25 + 2 * d34 + 2 * d35 + d44 + 2 * d45 + d55
  BY <1>5 DEF Units2
<1>8. d <= 5150000000000
  BY <1>5, <1>6, <1>7, SMT DEF Units2
<1>9. Units2(2 * y15 + 2 * y24 + y33 + 2 * y25 + 2 * y34 + 2 * y35 + y44 + 2 * y45 + y55, d)
  BY <1>5, <1>7, SMT DEF Units2
<1>10. TailUnits(2 * y15 + 2 * y24 + y33 + 2 * y25 + 2 * y34 + 2 * y35 + y44 + 2 * y45 + y55)
  BY <1>8, <1>9, SMT DEF TailUnits
<1>11. QED
  BY <1>4, <1>10

SquareClose(n, l) ==
  /\ n \in Int /\ l \in Int
  /\ \E b \in Int : b <= 5300000000000 /\ Units2(n * n - 1073741824 * (1073741824 * l), b)

\* A product of two coefficients and the error of a product of powers.
CoefBound(a) == a \in Nat /\ a <= 1518452792
TwoUnits(e) == e \in Int /\ -2147483648 <= e /\ e <= 2147483648
CrossUnits(v) == \E d \in Int : d <= 5000000000 /\ Units2(v, d)

LEMMA CrossError ==
  ASSUME NEW a, NEW b, CoefBound(a), CoefBound(b), NEW e, TwoUnits(e)
  PROVE  CrossUnits((a * b) * e)
<1>1. a \in Nat /\ b \in Nat /\ e \in Int
  BY SMT DEF CoefBound, TwoUnits
<1>2. PICK k \in Nat, q \in Nat : 1518452792 = k /\ a * b = q
  BY <1>1, SMT
<1>3. q <= 2400000000000000000
  <2>1. -(k * k) <= a * b /\ a * b <= k * k
    <3>1. -k <= a /\ a <= k /\ -k <= b /\ b <= k /\ 0 <= k
      BY <1>1, <1>2, SMT DEF CoefBound
    <3>2. QED
      BY <1>1, <1>2, <3>1, TimesBounded
  <2>2. PICK m \in Int : k * k = m
    BY <1>2
  <2>3. m <= 2400000000000000000
    BY <1>2, <2>2, SMT
  <2>4. QED
    BY <1>2, <2>1, <2>2, <2>3, SMT
<1>4. PICK s \in Nat : 2147483648 = s
  BY SMT
<1>5. -(q * s) <= q * e /\ q * e <= q * s
  <2>1. -s <= e /\ e <= s /\ -q <= q /\ q <= q /\ 0 <= q
    BY <1>2, <1>4, SMT DEF TwoUnits
  <2>2. QED
    BY <1>1, <1>2, <1>4, <2>1, TimesBounded
<1>6. PICK v \in Int : q * e = v
  BY <1>1, <1>2
<1>7. -(2147483648 * q) <= v /\ v <= 2147483648 * q
  BY <1>1, <1>2, <1>4, <1>5, <1>6, SMT
<1>8. PICK d \in Int : 4900000000 <= d /\ d <= 5000000000
  BY SMT
<1>9. Units2(v, d)
  BY <1>2, <1>3, <1>6, <1>7, <1>8, SMT DEF Units2
<1>10. CrossUnits(v)
  BY <1>8, <1>9, SMT DEF CrossUnits
<1>11. QED
  BY <1>2, <1>6, <1>10

\* The terms of the polynomial.
LEMMA TermsBounded ==
  ASSUME NEW w, NEW w2, NEW w3, NEW w4, NEW w5, Sized(w, w2, w3, w4, w5),
         NEW a1 \in Nat, NEW a2 \in Nat, NEW a3 \in Nat, NEW a4 \in Nat, NEW a5 \in Nat,
         a1 <= 1518452792, a2 <= 758903666, a3 <= 251726283, a4 <= 60244683, a5 <= 8947849
  PROVE  /\ Units(a1 * w, Term1) /\ Units(a2 * w2, Term2) /\ Units(a3 * w3, Term3)
         /\ Units(a4 * w4, Term4) /\ Units(a5 * w5, Term5)
<1>1. PICK k1 \in Nat, k2 \in Nat, k3 \in Nat, k4 \in Nat, k5 \in Nat :
        1518452792 = k1 /\ 758903666 = k2 /\ 251726283 = k3 /\ 60244683 = k4 /\ 8947849 = k5
  BY SMT
<1>2. a1 <= k1 /\ a2 <= k2 /\ a3 <= k3 /\ a4 <= k4 /\ a5 <= k5
  BY <1>1, SMT
<1>3. Half1 \in Nat /\ Half2 \in Nat /\ Half3 \in Nat /\ Half4 \in Nat /\ Half5 \in Nat
  BY SMT DEF Half1, Half2, Half3, Half4, Half5
<1>4. Term1 \in Nat /\ Term2 \in Nat /\ Term3 \in Nat /\ Term4 \in Nat /\ Term5 \in Nat
  BY SMT DEF Term1, Term2, Term3, Term4, Term5
<1>5. /\ Within(w, Half1) /\ Within(w2, Half2) /\ Within(w3, Half3) /\ Within(w4, Half4) /\ Within(w5, Half5)
  BY DEF Sized
<1>6. Covered(k1, Half1, Term1)
  BY <1>1, SMT DEF Half1, Term1, Covered
<1>7. Covered(k2, Half2, Term2)
  BY <1>1, SMT DEF Half2, Term2, Covered
<1>8. Covered(k3, Half3, Term3)
  BY <1>1, SMT DEF Half3, Term3, Covered
<1>9. Covered(k4, Half4, Term4)
  BY <1>1, SMT DEF Half4, Term4, Covered
<1>10. Covered(k5, Half5, Term5)
  BY <1>1, SMT DEF Half5, Term5, Covered
<1>11. Units(a1 * w, Term1)
  BY <1>1, <1>2, <1>3, <1>4, <1>5, <1>6, TermUnits
<1>12. Units(a2 * w2, Term2)
  BY <1>1, <1>2, <1>3, <1>4, <1>5, <1>7, TermUnits
<1>13. Units(a3 * w3, Term3)
  BY <1>1, <1>2, <1>3, <1>4, <1>5, <1>8, TermUnits
<1>14. Units(a4 * w4, Term4)
  BY <1>1, <1>2, <1>3, <1>4, <1>5, <1>9, TermUnits
<1>15. Units(a5 * w5, Term5)
  BY <1>1, <1>2, <1>3, <1>4, <1>5, <1>10, TermUnits
<1>16. QED
  BY <1>11, <1>12, <1>13, <1>14, <1>15

LEMMA TermTimes ==
  ASSUME NEW a \in Int, NEW b \in Int, NEW v \in Int, NEW t \in Int, NEW u \in Int, NEW e \in Int,
         NEW s \in Int, v * t = s * u + e
  PROVE  (a * v) * (b * t) = s * ((a * b) * u) + (a * b) * e
<1>1. (a * v) * (b * t) = (a * b) * (v * t)
  BY SMT
<1>2. PICK q \in Int : q = a * b
  OBVIOUS
<1>3. q * (s * u + e) = s * (q * u) + q * e
  BY <1>2
<1>4. QED
  BY <1>1, <1>2, <1>3

LEMMA SquareOfSum ==
  ASSUME NEW c \in Int, NEW x1 \in Int, NEW x2 \in Int, NEW x3 \in Int, NEW x4 \in Int, NEW x5 \in Int
  PROVE  (c + x1 + x2 + x3 + x4 + x5) * (c + x1 + x2 + x3 + x4 + x5)
         = c * c + 2 * (c * x1) + 2 * (c * x2) + 2 * (c * x3) + 2 * (c * x4) + 2 * (c * x5)
           + x1 * x1 + 2 * (x1 * x2) + 2 * (x1 * x3) + x2 * x2 + 2 * (x1 * x4) + 2 * (x2 * x3)
           + (2 * (x1 * x5) + 2 * (x2 * x4) + x3 * x3 + 2 * (x2 * x5) + 2 * (x3 * x4)
                       + 2 * (x3 * x5) + x4 * x4 + 2 * (x4 * x5) + x5 * x5)
  BY SMT

\* The square of a polynomial is the polynomial of the squared coefficients;
\* the powers above the fifth are negligible.
LEMMA SquareForm ==
  ASSUME NEW w, NEW w2, NEW w3, NEW w4, NEW w5, PowersOf(w, w2, w3, w4, w5), Sized(w, w2, w3, w4, w5),
         NEW a, NEW p, Squares(a, p)
  PROVE  SquareClose(Line(a, w, w2, w3, w4, w5), Line(p, w, w2, w3, w4, w5))
<1>1. w \in Int /\ w2 \in Int /\ w3 \in Int /\ w4 \in Int /\ w5 \in Int
  BY SMT DEF PowersOf, Scaled
<1>2. PICK a0 \in Nat, a1 \in Nat, a2 \in Nat, a3 \in Nat, a4 \in Nat, a5 \in Nat :
        a[1] = a0 /\ a[2] = a1 /\ a[3] = a2 /\ a[4] = a3 /\ a[5] = a4 /\ a[6] = a5
  <2>1. a[1] \in Nat /\ a[2] \in Nat /\ a[3] \in Nat /\ a[4] \in Nat /\ a[5] \in Nat /\ a[6] \in Nat
    BY SMT DEF Squares
  <2>2. QED
    BY <2>1
<1>3. PICK p0 \in Int, p1 \in Int, p2 \in Int, p3 \in Int, p4 \in Int, p5 \in Int :
        p[1] = p0 /\ p[2] = p1 /\ p[3] = p2 /\ p[4] = p3 /\ p[5] = p4 /\ p[6] = p5
  <2>1. p[1] \in Int /\ p[2] \in Int /\ p[3] \in Int /\ p[4] \in Int /\ p[5] \in Int /\ p[6] \in Int
    BY SMT DEF Squares, Coefs
  <2>2. QED
    BY <2>1
<1>4. a1 <= 1518452792 /\ a2 <= 758903666 /\ a3 <= 251726283 /\ a4 <= 60244683 /\ a5 <= 8947849
  BY <1>2, SMT DEF Squares
<1>5. PICK s \in Nat : 1073741824 = s
  BY SMT
<1>6. PICK e2 \in Int, e3 \in Int, e4 \in Int, e5 \in Int, f4 \in Int, f5 \in Int :
        /\ w * w = s * w2 + e2 /\ w * w2 = s * w3 + e3 /\ w * w3 = s * w4 + e4 /\ w * w4 = s * w5 + e5
        /\ w2 * w2 = s * w4 + f4 /\ w2 * w3 = s * w5 + f5
        /\ TwoUnits(e2) /\ TwoUnits(e3) /\ TwoUnits(e4) /\ TwoUnits(e5) /\ TwoUnits(f4) /\ TwoUnits(f5)
  <2>1. PICK y2, y3, y4, y5, z4, z5 :
          /\ w * w = y2 /\ w * w2 = y3 /\ w * w3 = y4 /\ w * w4 = y5 /\ w2 * w2 = z4 /\ w2 * w3 = z5
    OBVIOUS
  <2>2. y2 \in Int /\ y3 \in Int /\ y4 \in Int /\ y5 \in Int /\ z4 \in Int /\ z5 \in Int
    BY <1>1, <2>1
  <2>3. CrossPowers(w2, w3, w4, w5)
    BY PowersCross, Zenon
  <2>4. PICK e2 \in Int, e3 \in Int, e4 \in Int, e5 \in Int, f4 \in Int, f5 \in Int :
          /\ e2 = y2 - s * w2 /\ e3 = y3 - s * w3 /\ e4 = y4 - s * w4 /\ e5 = y5 - s * w5
          /\ f4 = z4 - s * w4 /\ f5 = z5 - s * w5
    BY <1>1, <1>5, <2>2
  <2>5. /\ y2 = s * w2 + e2 /\ y3 = s * w3 + e3 /\ y4 = s * w4 + e4 /\ y5 = s * w5 + e5
        /\ z4 = s * w4 + f4 /\ z5 = s * w5 + f5
    BY <1>1, <1>5, <2>2, <2>4
  <2>6. TwoUnits(e2) /\ TwoUnits(e3) /\ TwoUnits(e4) /\ TwoUnits(e5)
    BY <1>1, <1>5, <2>1, <2>2, <2>4, SMT DEF PowersOf, Scaled, TwoUnits
  <2>7. TwoUnits(f4) /\ TwoUnits(f5)
    BY <1>1, <1>5, <2>1, <2>2, <2>3, <2>4, SMT DEF CrossPowers, TwoUnits
  <2>8. QED
    BY <2>1, <2>5, <2>6, <2>7
<1>7. PICK x1 \in Int, x2 \in Int, x3 \in Int, x4 \in Int, x5 \in Int :
        a1 * w = x1 /\ a2 * w2 = x2 /\ a3 * w3 = x3 /\ a4 * w4 = x4 /\ a5 * w5 = x5
  BY <1>1, <1>2
<1>8. PICK n \in Int : Line(a, w, w2, w3, w4, w5) = n /\ n = s * a0 + x1 + x2 + x3 + x4 + x5
  BY <1>1, <1>2, <1>5, <1>7, SMT DEF Line
<1>9. PICK z1 \in Int, z2 \in Int, z3 \in Int, z4 \in Int, z5 \in Int :
        p1 * w = z1 /\ p2 * w2 = z2 /\ p3 * w3 = z3 /\ p4 * w4 = z4 /\ p5 * w5 = z5
  BY <1>1, <1>3
<1>10. PICK l \in Int : Line(p, w, w2, w3, w4, w5) = l /\ l = s * p0 + z1 + z2 + z3 + z4 + z5
  BY <1>1, <1>3, <1>5, <1>9, SMT DEF Line
\* the tail and the errors of the powers
<1>11. PICK tail :
         2 * (x1 * x5) + 2 * (x2 * x4) + x3 * x3 + 2 * (x2 * x5) + 2 * (x3 * x4)
           + 2 * (x3 * x5) + x4 * x4 + 2 * (x4 * x5) + x5 * x5 = tail
  OBVIOUS
<1>12. PICK dt \in Int : dt <= 5150000000000 /\ Units2(tail, dt)
  <2>1. /\ Units(a1 * w, Term1) /\ Units(a2 * w2, Term2) /\ Units(a3 * w3, Term3)
        /\ Units(a4 * w4, Term4) /\ Units(a5 * w5, Term5)
    BY <1>2, <1>4, TermsBounded, SMT
  <2>2. /\ Units(x1, Term1) /\ Units(x2, Term2) /\ Units(x3, Term3) /\ Units(x4, Term4) /\ Units(x5, Term5)
    BY <1>7, <2>1, Zenon
  <2>3. TailUnits(tail)
    BY <1>11, <2>2, TailBounded
  <2>4. QED
    BY <2>3, SMT DEF TailUnits
<1>13. PICK q11 \in Int, q12 \in Int, q13 \in Int, q22 \in Int, q14 \in Int, q23 \in Int :
         a1 * a1 = q11 /\ a1 * a2 = q12 /\ a1 * a3 = q13 /\ a2 * a2 = q22 /\ a1 * a4 = q14 /\ a2 * a3 = q23
  BY <1>2
<1>14. PICK u11, u12, u13, u22, u14, u23 :
         q11 * e2 = u11 /\ q12 * e3 = u12 /\ q13 * e4 = u13 /\ q22 * f4 = u22 /\ q14 * e5 = u14 /\ q23 * f5 = u23
  OBVIOUS
<1>15. PICK d11 \in Int, d12 \in Int, d13 \in Int, d22 \in Int, d14 \in Int, d23 \in Int :
         /\ Units2(u11, d11) /\ Units2(u12, d12) /\ Units2(u13, d13)
         /\ Units2(u22, d22) /\ Units2(u14, d14) /\ Units2(u23, d23)
         /\ d11 <= 5000000000 /\ d12 <= 5000000000 /\ d13 <= 5000000000
         /\ d22 <= 5000000000 /\ d14 <= 5000000000 /\ d23 <= 5000000000
  <2>1. CoefBound(a1) /\ CoefBound(a2) /\ CoefBound(a3) /\ CoefBound(a4)
    BY <1>2, <1>4, SMT DEF CoefBound
  <2>2. /\ CrossUnits(u11) /\ CrossUnits(u12) /\ CrossUnits(u13)
        /\ CrossUnits(u22) /\ CrossUnits(u14) /\ CrossUnits(u23)
    <3>1. TwoUnits(e2) /\ TwoUnits(e3) /\ TwoUnits(e4) /\ TwoUnits(e5) /\ TwoUnits(f4) /\ TwoUnits(f5)
      BY <1>6
    <3>2. QED
      BY <1>13, <1>14, <2>1, <3>1, CrossError
  <2>3. QED
    BY <2>2, SMT DEF CrossUnits
\* the near products
<1>16. PICK y11 \in Int, y12 \in Int, y13 \in Int, y22 \in Int, y14 \in Int, y23 \in Int :
         /\ q11 * w2 = y11 /\ q12 * w3 = y12 /\ q13 * w4 = y13 /\ q22 * w4 = y22 /\ q14 * w5 = y14 /\ q23 * w5 = y23
  BY <1>1, <1>13
<1>17. /\ x1 * x1 = s * y11 + u11 /\ x1 * x2 = s * y12 + u12 /\ x1 * x3 = s * y13 + u13
       /\ x2 * x2 = s * y22 + u22 /\ x1 * x4 = s * y14 + u14 /\ x2 * x3 = s * y23 + u23
  <2>1. /\ (a1 * w) * (a1 * w) = s * ((a1 * a1) * w2) + (a1 * a1) * e2
        /\ (a1 * w) * (a2 * w2) = s * ((a1 * a2) * w3) + (a1 * a2) * e3
        /\ (a1 * w) * (a3 * w3) = s * ((a1 * a3) * w4) + (a1 * a3) * e4
        /\ (a2 * w2) * (a2 * w2) = s * ((a2 * a2) * w4) + (a2 * a2) * f4
        /\ (a1 * w) * (a4 * w4) = s * ((a1 * a4) * w5) + (a1 * a4) * e5
        /\ (a2 * w2) * (a3 * w3) = s * ((a2 * a3) * w5) + (a2 * a3) * f5
    <3>1. a1 \in Int /\ a2 \in Int /\ a3 \in Int /\ a4 \in Int /\ s \in Int
      BY <1>2, <1>5
    <3>2. /\ w * w = s * w2 + e2 /\ w * w2 = s * w3 + e3 /\ w * w3 = s * w4 + e4 /\ w * w4 = s * w5 + e5
          /\ w2 * w2 = s * w4 + f4 /\ w2 * w3 = s * w5 + f5
      BY <1>6
    <3>3. QED
      BY <1>1, <1>6, <3>1, <3>2, TermTimes
  <2>2. QED
    BY <1>7, <1>13, <1>14, <1>16, <2>1
\* the terms with the constant
<1>18. PICK q00 \in Int, q01 \in Int, q02 \in Int, q03 \in Int, q04 \in Int, q05 \in Int :
         a0 * a0 = q00 /\ a0 * a1 = q01 /\ a0 * a2 = q02 /\ a0 * a3 = q03 /\ a0 * a4 = q04 /\ a0 * a5 = q05
  BY <1>2
<1>19. PICK y01 \in Int, y02 \in Int, y03 \in Int, y04 \in Int, y05 \in Int :
         q01 * w = y01 /\ q02 * w2 = y02 /\ q03 * w3 = y03 /\ q04 * w4 = y04 /\ q05 * w5 = y05
  BY <1>1, <1>18
<1>20. /\ (s * a0) * (s * a0) = s * (s * q00)
       /\ (s * a0) * x1 = s * y01 /\ (s * a0) * x2 = s * y02 /\ (s * a0) * x3 = s * y03
       /\ (s * a0) * x4 = s * y04 /\ (s * a0) * x5 = s * y05
  <2>1. ASSUME NEW b \in Int, NEW v \in Int
        PROVE  (s * a0) * (b * v) = s * ((a0 * b) * v)
    BY <1>2, <1>5, SMT
  <2>2. (s * a0) * (s * a0) = s * (s * (a0 * a0))
    BY <1>2, <1>5, SMT
  <2>3. a1 \in Int /\ a2 \in Int /\ a3 \in Int /\ a4 \in Int /\ a5 \in Int
    BY <1>2
  <2>4. QED
    BY <1>1, <1>7, <1>18, <1>19, <2>1, <2>2, <2>3
<1>21. PICK g0 \in Int, g1 \in Int, g2 \in Int, g3 \in Int, g4 \in Int, g5 \in Int :
         /\ q00 - s * p0 = g0 /\ 2 * q01 - s * p1 = g1
         /\ 2 * q02 + q11 - s * p2 = g2 /\ 2 * q03 + 2 * q12 - s * p3 = g3
         /\ 2 * q04 + 2 * q13 + q22 - s * p4 = g4
         /\ 2 * q05 + 2 * q14 + 2 * q23 - s * p5 = g5
  <2>1. /\ s * p0 \in Int /\ s * p1 \in Int /\ s * p2 \in Int
        /\ s * p3 \in Int /\ s * p4 \in Int /\ s * p5 \in Int
    BY <1>3, <1>5
  <2>2. /\ q00 - s * p0 \in Int /\ 2 * q01 - s * p1 \in Int
        /\ 2 * q02 + q11 - s * p2 \in Int /\ 2 * q03 + 2 * q12 - s * p3 \in Int
        /\ 2 * q04 + 2 * q13 + q22 - s * p4 \in Int
        /\ 2 * q05 + 2 * q14 + 2 * q23 - s * p5 \in Int
    BY <1>13, <1>18, <2>1
  <2>3. QED
    BY <2>2
<1>22. HalfUnit(g0) /\ HalfUnit(g1) /\ HalfUnit(g2) /\ HalfUnit(g3) /\ HalfUnit(g4) /\ HalfUnit(g5)
  <2>1. /\ HalfUnit(q00 - s * p0) /\ HalfUnit(2 * q01 - s * p1)
        /\ HalfUnit(2 * q02 + q11 - s * p2) /\ HalfUnit(2 * q03 + 2 * q12 - s * p3)
        /\ HalfUnit(2 * q04 + 2 * q13 + q22 - s * p4)
        /\ HalfUnit(2 * q05 + 2 * q14 + 2 * q23 - s * p5)
    BY <1>2, <1>3, <1>5, <1>13, <1>18, SMT DEF Squares
  <2>2. QED
    BY <1>21, <2>1
<1>23. PICK t1 \in Int, t2 \in Int, t3 \in Int, t4 \in Int, t5 \in Int :
         g1 * w = t1 /\ g2 * w2 = t2 /\ g3 * w3 = t3 /\ g4 * w4 = t4 /\ g5 * w5 = t5
  BY <1>1, <1>21
<1>24. /\ -HalfOf(Half1) <= t1 /\ t1 <= HalfOf(Half1) /\ -HalfOf(Half2) <= t2 /\ t2 <= HalfOf(Half2)
       /\ -HalfOf(Half3) <= t3 /\ t3 <= HalfOf(Half3) /\ -HalfOf(Half4) <= t4 /\ t4 <= HalfOf(Half4)
       /\ -HalfOf(Half5) <= t5 /\ t5 <= HalfOf(Half5)
  <2>1. 0 <= Half1 /\ 0 <= Half2 /\ 0 <= Half3 /\ 0 <= Half4 /\ 0 <= Half5
    BY SMT DEF Half1, Half2, Half3, Half4, Half5
  <2>2. Within(w, Half1) /\ Within(w2, Half2) /\ Within(w3, Half3) /\ Within(w4, Half4) /\ Within(w5, Half5)
    BY DEF Sized
  <2>3. g1 \in Int /\ g2 \in Int /\ g3 \in Int /\ g4 \in Int /\ g5 \in Int
    BY <1>21
  <2>4. QED
    BY <1>22, <1>23, <2>1, <2>2, <2>3, HalvesTyped, HalfTerms, Zenon
<1>25. /\ 2 * y01 = s * z1 + t1 /\ 2 * y02 + y11 = s * z2 + t2 /\ 2 * y03 + 2 * y12 = s * z3 + t3
       /\ 2 * y04 + 2 * y13 + y22 = s * z4 + t4 /\ 2 * y05 + 2 * y14 + 2 * y23 = s * z5 + t5
  <2>1. ASSUME NEW b \in Int, NEW c \in Int, NEW d \in Int, NEW g \in Int, NEW q \in Int, NEW v \in Int,
               2 * b + 2 * c + d = s * q + g
        PROVE  2 * (b * v) + 2 * (c * v) + d * v = s * (q * v) + g * v
    <3>1. (2 * b + 2 * c + d) * v = (s * q + g) * v
      BY <2>1
    <3>2. (2 * b + 2 * c + d) * v = 2 * (b * v) + 2 * (c * v) + d * v
      BY SMT
    <3>3. (s * q + g) * v = s * (q * v) + g * v
      BY <1>5, SMT
    <3>4. QED
      BY <3>1, <3>2, <3>3
  <2>2. /\ 2 * q01 + 2 * 0 + 0 = s * p1 + g1 /\ 2 * q02 + 2 * 0 + q11 = s * p2 + g2
        /\ 2 * q03 + 2 * q12 + 0 = s * p3 + g3 /\ 2 * q04 + 2 * q13 + q22 = s * p4 + g4
    BY <1>3, <1>5, <1>13, <1>18, <1>21, SMT
  <2>3. 2 * y01 = s * z1 + t1
    <3>1. 2 * (q01 * w) + 2 * (0 * w) + 0 * w = s * (p1 * w) + g1 * w
      BY <1>1, <1>3, <1>18, <1>21, <2>1, <2>2
    <3>2. 0 * w = 0
      BY <1>1
    <3>3. 2 * y01 + 2 * 0 + 0 = s * z1 + t1
      BY <1>9, <1>19, <1>23, <3>1, <3>2
    <3>4. QED
      BY <1>5, <1>9, <1>19, <1>23, <3>3
  <2>4. 2 * y02 + y11 = s * z2 + t2
    <3>1. 2 * (q02 * w2) + 2 * (0 * w2) + q11 * w2 = s * (p2 * w2) + g2 * w2
      BY <1>1, <1>3, <1>13, <1>18, <1>21, <2>1, <2>2
    <3>2. 0 * w2 = 0
      BY <1>1
    <3>3. 2 * y02 + 2 * 0 + y11 = s * z2 + t2
      BY <1>9, <1>16, <1>19, <1>23, <3>1, <3>2
    <3>4. QED
      BY <1>5, <1>9, <1>16, <1>19, <1>23, <3>3
  <2>5. 2 * y03 + 2 * y12 = s * z3 + t3
    <3>1. 2 * (q03 * w3) + 2 * (q12 * w3) + 0 * w3 = s * (p3 * w3) + g3 * w3
      BY <1>1, <1>3, <1>13, <1>18, <1>21, <2>1, <2>2
    <3>2. 0 * w3 = 0
      BY <1>1
    <3>3. 2 * y03 + 2 * y12 + 0 = s * z3 + t3
      BY <1>9, <1>16, <1>19, <1>23, <3>1, <3>2
    <3>4. QED
      BY <1>5, <1>9, <1>16, <1>19, <1>23, <3>3
  <2>6. 2 * y04 + 2 * y13 + y22 = s * z4 + t4
    <3>1. 2 * (q04 * w4) + 2 * (q13 * w4) + q22 * w4 = s * (p4 * w4) + g4 * w4
      BY <1>1, <1>3, <1>13, <1>18, <1>21, <2>1, <2>2
    <3>2. QED
      BY <1>9, <1>16, <1>19, <1>23, <3>1
  <2>7. 2 * y05 + 2 * y14 + 2 * y23 = s * z5 + t5
    <3>1. 2 * q05 + 2 * (q14 + q23) + 0 = s * p5 + g5
      BY <1>3, <1>5, <1>13, <1>18, <1>21, SMT
    <3>2. q14 + q23 \in Int
      BY <1>13
    <3>3. 2 * (q05 * w5) + 2 * ((q14 + q23) * w5) + 0 * w5 = s * (p5 * w5) + g5 * w5
      BY <1>1, <1>3, <1>13, <1>18, <1>21, <2>1, <3>1, <3>2
    <3>4. 0 * w5 = 0 /\ (q14 + q23) * w5 = y14 + y23
      BY <1>1, <1>13, <1>16
    <3>5. 2 * y05 + 2 * (y14 + y23) + 0 = s * z5 + t5
      BY <1>9, <1>19, <1>23, <3>3, <3>4
    <3>6. QED
      BY <1>5, <1>9, <1>16, <1>19, <1>23, <3>5
  <2>8. QED
    BY <2>3, <2>4, <2>5, <2>6, <2>7
<1>26. PICK nn \in Int : n * n = nn
  BY <1>8
<1>27. nn = s * (s * q00) + 2 * (s * y01) + 2 * (s * y02) + 2 * (s * y03) + 2 * (s * y04) + 2 * (s * y05)
            + (s * y11 + u11) + 2 * (s * y12 + u12) + 2 * (s * y13 + u13) + (s * y22 + u22)
            + 2 * (s * y14 + u14) + 2 * (s * y23 + u23) + tail
  <2>1. s * a0 \in Int
    BY <1>2, <1>5
  <2>2. n * n = (s * a0) * (s * a0) + 2 * ((s * a0) * x1) + 2 * ((s * a0) * x2) + 2 * ((s * a0) * x3)
                 + 2 * ((s * a0) * x4) + 2 * ((s * a0) * x5)
           + x1 * x1 + 2 * (x1 * x2) + 2 * (x1 * x3) + x2 * x2 + 2 * (x1 * x4) + 2 * (x2 * x3)
           + (2 * (x1 * x5) + 2 * (x2 * x4) + x3 * x3 + 2 * (x2 * x5) + 2 * (x3 * x4)
                       + 2 * (x3 * x5) + x4 * x4 + 2 * (x4 * x5) + x5 * x5)
    BY <1>7, <1>8, <2>1, SquareOfSum
  <2>3. QED
    BY <1>11, <1>17, <1>20, <1>26, <2>2
<1>28. PICK r \in Int : nn - s * (s * l) = r
  BY <1>5, <1>10, <1>26
<1>29. r = s * (s * g0) + s * (t1 + t2 + t3 + t4 + t5)
           + (u11 + 2 * u12 + 2 * u13 + u22 + 2 * u14 + 2 * u23) + tail
  <2>1. /\ u11 \in Int /\ u12 \in Int /\ u13 \in Int /\ u22 \in Int /\ u14 \in Int /\ u23 \in Int
        /\ tail \in Int
    BY <1>15, <1>12, SMT DEF Units2
  <2>2. q00 = s * p0 + g0
    BY <1>3, <1>5, <1>18, <1>21
  <2>3. r = s * (s * (q00 - s * p0)) + s * (2 * y01 - s * z1) + s * (2 * y02 + y11 - s * z2)
              + s * (2 * y03 + 2 * y12 - s * z3) + s * (2 * y04 + 2 * y13 + y22 - s * z4)
              + s * (2 * y05 + 2 * y14 + 2 * y23 - s * z5)
              + (u11 + 2 * u12 + 2 * u13 + u22 + 2 * u14 + 2 * u23) + tail
    BY <1>3, <1>5, <1>9, <1>10, <1>16, <1>18, <1>19, <1>26, <1>27, <1>28, <2>1, SMT
  <2>4. /\ 2 * y01 - s * z1 = t1 /\ 2 * y02 + y11 - s * z2 = t2 /\ 2 * y03 + 2 * y12 - s * z3 = t3
        /\ 2 * y04 + 2 * y13 + y22 - s * z4 = t4 /\ 2 * y05 + 2 * y14 + 2 * y23 - s * z5 = t5
    BY <1>5, <1>9, <1>16, <1>19, <1>23, <1>25, SMT
  <2>5. r = s * (s * g0) + s * t1 + s * t2 + s * t3 + s * t4 + s * t5
              + (u11 + 2 * u12 + 2 * u13 + u22 + 2 * u14 + 2 * u23) + tail
    BY <1>21, <2>3, <2>4
  <2>6. QED
    BY <1>5, <1>21, <1>23, <2>1, <2>5, SMT
<1>30. PICK b \in Int : 5250000000000 <= b /\ b <= 5300000000000
  BY SMT
<1>31. Units2(r, b)
  BY <1>5, <1>15, <1>21, <1>22, <1>23, <1>24, <1>28, <1>12, <1>29, <1>30,
     SMT DEF Units2, HalfUnit, HalfOf, Half1, Half2, Half3, Half4, Half5
<1>32. Units2(nn - 1073741824 * (1073741824 * l), b)
  BY <1>5, <1>28, <1>31, SMT
<1>33. SquareClose(n, l)
  BY <1>8, <1>10, <1>26, <1>30, <1>32, SMT DEF SquareClose
<1>34. QED
  BY <1>8, <1>10, <1>33

\* The square of a value v of the polynomial, in units of 2^-60.
ValueSquare(v, l) ==
  /\ v \in Int /\ l \in Int
  /\ -9700000000000 <= v * v - l /\ v * v - l <= 9700000000000

\* It is also the square of a value within 1000 units.
LEMMA SquareOff ==
  ASSUME NEW v, NEW n, NEW l, Off(v, n, FormOff), SquareClose(n, l), 0 <= v, v < 2147483648
  PROVE  ValueSquare(v, l)
<1>1. v \in Int /\ n \in Int /\ l \in Int
  BY SMT DEF Off, SquareClose
<1>2. PICK s \in Nat, k \in Nat : 1073741824 = s /\ 2147483648 = k
  BY SMT
<1>3. PICK d \in Int : d = s * v - n
  <2>1. s * v - n \in Int
    BY <1>1
  <2>2. QED
    BY <2>1
<1>4. PICK m \in Nat : m = 1000 * s
  BY <1>2
<1>5. -m <= d /\ d <= m
  BY <1>1, <1>2, <1>3, <1>4, SMT DEF Off, FormOff
<1>6. -(k * m) <= v * d /\ v * d <= k * m
  <2>1. -k <= v /\ v <= k
    BY <1>1, <1>2, SMT
  <2>2. QED
    BY <1>1, <1>2, <1>3, <1>4, <1>5, <2>1, TimesBounded
<1>7. -(m * m) <= d * d /\ d * d <= m * m
  BY <1>3, <1>4, <1>5, TimesBounded
<1>8. PICK vd \in Int, dd \in Int, vv \in Int, nn \in Int : v * d = vd /\ d * d = dd /\ v * v = vv /\ n * n = nn
  BY <1>1, <1>3
<1>9. nn = s * (s * vv) - 2 * (s * vd) + dd
  <2>1. n = s * v - d
    BY <1>1, <1>2, <1>3
  <2>2. n * n = s * (s * (v * v)) - 2 * (s * (v * d)) + d * d
    BY <1>1, <1>2, <1>3, <2>1, SMT
  <2>3. QED
    BY <1>8, <2>2
<1>10. PICK b \in Int : b <= 5300000000000 /\ Units2(nn - 1073741824 * (1073741824 * l), b)
  BY <1>8, SMT DEF SquareClose
<1>11. /\ -(1073741824 * (1073741824 * b)) <= nn - 1073741824 * (1073741824 * l)
       /\ nn - 1073741824 * (1073741824 * l) <= 1073741824 * (1073741824 * b)
  BY <1>10, SMT DEF Units2
<1>12. PICK j \in Int : j <= 2200000000000 /\ -(s * j) <= vd /\ vd <= s * j
  <2>1. PICK j \in Int : j = 1000 * k
    BY <1>2
  <2>2. j <= 2200000000000
    BY <1>2, <2>1, SMT
  <2>3. k * m = s * j
    BY <1>2, <1>4, <2>1, SMT
  <2>4. -(s * j) <= vd /\ vd <= s * j
    BY <1>6, <1>8, <2>3
  <2>5. QED
    BY <2>2, <2>4
<1>13. -(s * (s * 1000000)) <= dd /\ dd <= s * (s * 1000000)
  <2>1. m * m = s * (s * 1000000)
    BY <1>2, <1>4, SMT
  <2>2. QED
    BY <1>7, <1>8, <2>1
<1>14. -9700000000000 <= vv - l /\ vv - l <= 9700000000000
  BY <1>1, <1>2, <1>8, <1>9, <1>10, <1>11, <1>12, <1>13, SMT
<1>15. QED
  BY <1>1, <1>8, <1>14, SMT DEF ValueSquare

\* Of the polynomials around 0, half of ln 2 and its negative.
MiddleSquare == <<1073741824, 2147483648, 2147483648, 1431655766, 715827884, 286331155>>
HighSquare == <<2147475960, 4294825377, 4293849291, 2858424801, 1418745642, 551532940>>
LowSquare == <<536867430, 1073798132, 1073373361, 717044378, 355928012, 144212892>>

\* The squared coefficients around the three centres.
LEMMA SquaresGiven ==
  /\ Squares(MiddleForms[6], MiddleSquare) /\ Squares(HighForms[6], HighSquare)
  /\ Squares(LowForms[6], LowSquare)
<1>1. Squares(MiddleForms[6], MiddleSquare)
  BY SMT DEF Squares, Coefs, HalfUnit, MiddleForms, MiddleSquare, C5
<1>2. Squares(HighForms[6], HighSquare)
  BY SMT DEF Squares, Coefs, HalfUnit, HighForms, HighSquare, C5
<1>3. Squares(LowForms[6], LowSquare)
  BY SMT DEF Squares, Coefs, HalfUnit, LowForms, LowSquare, C5
<1>4. QED
  BY <1>1, <1>2, <1>3

\* The square t^2 of the polynomial at h ln 2 / 2 + w against the polynomial p
\* at 2 w: 2^h p, in units of 2^-60.
NearSquare(h, t, p) ==
  /\ t \in Int /\ p \in Int
  /\ h = 0  => -11000000000000 <= t * t - 1073741824 * p /\ t * t - 1073741824 * p <= 11000000000000
  /\ h = 1  => /\ -128000000000000 <= t * t - 2147483648 * p
               /\ t * t - 2147483648 * p <= 128000000000000
  /\ h = -1 => /\ -93000000000000 <= 2 * (t * t) - 1073741824 * p
               /\ 2 * (t * t) - 1073741824 * p <= 93000000000000
Middle(h) == 372130559 * h
Value(t) == t \in Int /\ 0 <= t /\ t < 2147483648

LEMMA ValueOfForm ==
  ASSUME NEW w, NEW w2, NEW w3, NEW w4, NEW w5, PowersOf(w, w2, w3, w4, w5), Sized(w, w2, w3, w4, w5),
         NEW q, NEW f, NEW l, FormsLead(q, 1, f), Squares(f[6], l),
         NEW r, Within(r, RestLimit), Around(r, q + 1 * w), Value(PolyOf(r))
  PROVE  ValueSquare(PolyOf(r), Line(l, w, w2, w3, w4, w5))
<1>1. Off(PolyOf(r), Line(f[6], w, w2, w3, w4, w5), FormOff)
  BY PolyForm, Zenon
<1>2. SquareClose(Line(f[6], w, w2, w3, w4, w5), Line(l, w, w2, w3, w4, w5))
  BY SquareForm, Zenon
<1>3. PICK t, n, j : /\ PolyOf(r) = t /\ Line(f[6], w, w2, w3, w4, w5) = n
                      /\ Line(l, w, w2, w3, w4, w5) = j
  OBVIOUS
<1>4. Off(t, n, FormOff) /\ SquareClose(n, j) /\ Value(t)
  BY <1>1, <1>2, <1>3
<1>5. ValueSquare(t, j)
  BY <1>4, SquareOff, SMT DEF Value
<1>6. QED
  BY <1>3, <1>5

\* The square of the polynomial of the lane against that at twice the rest:
\* the coefficients of the two sides nearly agree.
LEMMA SquareAround ==
  ASSUME NEW h \in {-1, 0, 1}, NEW w, Within(w, Half1),
         NEW r, Within(r, RestLimit), r = Middle(h) + w, Value(PolyOf(r)),
         NEW s, Within(s, RestLimit), Around(s, 2 * w)
  PROVE  NearSquare(h, PolyOf(r), PolyOf(s))
<1>1. w \in Int
  BY HalvesTyped, WithinMeans
<1>2. PICK w2, w3, w4, w5 : PowersOf(w, w2, w3, w4, w5)
  BY <1>1, HasPowers
<1>3. Sized(w, w2, w3, w4, w5)
  BY <1>2, PowersSized
<1>4. w2 \in Int /\ w3 \in Int /\ w4 \in Int /\ w5 \in Int
  BY <1>2, SMT DEF PowersOf, Scaled
<1>5. /\ -186066000 <= w /\ w <= 186066000 /\ -32243000 <= w2 /\ w2 <= 32243000
      /\ -5587400 <= w3 /\ w3 <= 5587400 /\ -968300 <= w4 /\ w4 <= 968300
      /\ -167900 <= w5 /\ w5 <= 167900
  <2>1. /\ -Half1 <= w /\ w <= Half1 /\ -Half2 <= w2 /\ w2 <= Half2 /\ -Half3 <= w3 /\ w3 <= Half3
        /\ -Half4 <= w4 /\ w4 <= Half4 /\ -Half5 <= w5 /\ w5 <= Half5
    BY <1>3, HalvesTyped, WithinMeans DEF Sized
  <2>2. QED
    BY <2>1, SMT DEF Half1, Half2, Half3, Half4, Half5
<1>6. PICK t, p : PolyOf(r) = t /\ PolyOf(s) = p
  OBVIOUS
<1>7. /\ p \in Int
      /\ -1073741824000 <= 1073741824 * p - Line(TwiceForms[6], w, w2, w3, w4, w5)
      /\ 1073741824 * p - Line(TwiceForms[6], w, w2, w3, w4, w5) <= 1073741824000
  <2>1. Around(s, 0 + 2 * w)
    <3>1. 0 + 2 * w = 2 * w
      BY <1>1
    <3>2. QED
      BY <3>1
  <2>2. FormsLead(0, 2, TwiceForms)
    BY FormsGiven, SMT
  <2>3. Off(PolyOf(s), Line(TwiceForms[6], w, w2, w3, w4, w5), FormOff)
    BY <1>2, <1>3, <2>1, <2>2, PolyForm
  <2>4. Off(p, Line(TwiceForms[6], w, w2, w3, w4, w5), FormOff)
    BY <1>6, <2>3
  <2>5. QED
    BY <2>4, SMT DEF Off, FormOff
<1>8. Line(TwiceForms[6], w, w2, w3, w4, w5)
        = 1073741824 * 1073741824 + 2147483648 * w + 2147483648 * w2 + 1431655768 * w3
          + 715827888 * w4 + 286331168 * w5
  BY <1>1, <1>4, SMT DEF Line, TwiceForms
<1>9. 1 * w = w
  BY <1>1
<1>10. CASE h = 0
  <2>1. Around(r, 0 + 1 * w)
    BY <1>1, <1>10, SMT DEF Middle, Around
  <2>2. FormsLead(0, 1, MiddleForms)
    BY FormsGiven, SMT
  <2>3. Value(PolyOf(r)) /\ PolyOf(r) = t
    BY <1>6
  <2>4. ValueSquare(PolyOf(r), Line(MiddleSquare, w, w2, w3, w4, w5))
    BY <1>2, <1>3, <2>1, <2>2, <2>3, SquaresGiven, ValueOfForm
  <2>5. ValueSquare(t, Line(MiddleSquare, w, w2, w3, w4, w5))
    BY <2>3, <2>4
  <2>6. Line(MiddleSquare, w, w2, w3, w4, w5)
          = 1073741824 * 1073741824 + 2147483648 * w + 2147483648 * w2 + 1431655766 * w3
            + 715827884 * w4 + 286331155 * w5
    BY <1>1, <1>4, SMT DEF Line, MiddleSquare
  <2>7. PICK tt \in Int : t * t = tt
    BY <2>5, SMT DEF ValueSquare
  <2>8. t \in Int /\ -11000000000000 <= tt - 1073741824 * p /\ tt - 1073741824 * p <= 11000000000000
    BY <1>1, <1>4, <1>5, <1>7, <1>8, <2>5, <2>6, <2>7, SMT DEF ValueSquare
  <2>9. NearSquare(h, t, p)
    BY <1>7, <1>10, <2>7, <2>8, SMT DEF NearSquare
  <2>10. QED
    BY <1>6, <2>9
<1>11. CASE h = 1
  <2>1. Around(r, 372130559 + 1 * w)
    BY <1>1, <1>11, SMT DEF Middle, Around
  <2>2. FormsLead(372130559, 1, HighForms)
    BY FormsGiven, SMT
  <2>3. PICK q : 372130559 = q
    BY SMT
  <2>4. /\ Around(r, q + 1 * w) /\ Value(PolyOf(r)) /\ PolyOf(r) = t
        /\ FormsLead(q, 1, HighForms)
    BY <1>6, <2>1, <2>2, <2>3, SMT
  <2>5. ValueSquare(PolyOf(r), Line(HighSquare, w, w2, w3, w4, w5))
    BY <1>2, <1>3, <2>4, SquaresGiven, ValueOfForm
  <2>6. ValueSquare(t, Line(HighSquare, w, w2, w3, w4, w5))
    BY <2>4, <2>5
  <2>7. Line(HighSquare, w, w2, w3, w4, w5)
          = 1073741824 * 2147475960 + 4294825377 * w + 4293849291 * w2 + 2858424801 * w3
            + 1418745642 * w4 + 551532940 * w5
    BY <1>1, <1>4, SMT DEF Line, HighSquare
  <2>8. PICK tt \in Int : t * t = tt
    BY <2>6, SMT DEF ValueSquare
  <2>9. t \in Int /\ -128000000000000 <= tt - 2147483648 * p /\ tt - 2147483648 * p <= 128000000000000
    BY <1>1, <1>4, <1>5, <1>7, <1>8, <2>6, <2>7, <2>8, SMT DEF ValueSquare
  <2>10. NearSquare(h, t, p)
    BY <1>7, <1>11, <2>8, <2>9, SMT DEF NearSquare
  <2>11. QED
    BY <1>6, <2>10
<1>12. CASE h = -1
  <2>1. Around(r, -372130559 + 1 * w)
    BY <1>1, <1>12, SMT DEF Middle, Around
  <2>2. FormsLead(-372130559, 1, LowForms)
    BY FormsGiven, SMT
  <2>3. PICK q : -372130559 = q
    BY SMT
  <2>4. /\ Around(r, q + 1 * w) /\ Value(PolyOf(r)) /\ PolyOf(r) = t
        /\ FormsLead(q, 1, LowForms)
    BY <1>6, <2>1, <2>2, <2>3, SMT
  <2>5. ValueSquare(PolyOf(r), Line(LowSquare, w, w2, w3, w4, w5))
    BY <1>2, <1>3, <2>4, SquaresGiven, ValueOfForm
  <2>6. ValueSquare(t, Line(LowSquare, w, w2, w3, w4, w5))
    BY <2>4, <2>5
  <2>7. Line(LowSquare, w, w2, w3, w4, w5)
          = 1073741824 * 536867430 + 1073798132 * w + 1073373361 * w2 + 717044378 * w3
            + 355928012 * w4 + 144212892 * w5
    BY <1>1, <1>4, SMT DEF Line, LowSquare
  <2>8. PICK tt \in Int : t * t = tt
    BY <2>6, SMT DEF ValueSquare
  <2>9. t \in Int /\ -93000000000000 <= 2 * tt - 1073741824 * p /\ 2 * tt - 1073741824 * p <= 93000000000000
    BY <1>1, <1>4, <1>5, <1>7, <1>8, <2>6, <2>7, <2>8, SMT DEF ValueSquare
  <2>10. NearSquare(h, t, p)
    BY <1>7, <1>12, <2>8, <2>9, SMT DEF NearSquare
  <2>11. QED
    BY <1>6, <2>10
<1>13. QED
  BY <1>10, <1>11, <1>12

\* The operand with twice the magnitude: exact from 1/2 on, below it the bit
\* that the shift dropped may come back.
LEMMA ShiftedTwice ==
  ASSUME NEW k \in 2 .. 24, NEW w, Mantissa24(w)
  PROVE  /\ w \div Pow(k) \in Int /\ w \div Pow(k - 1) \in Int
         /\ 2 * (w \div Pow(k)) <= w \div Pow(k - 1)
         /\ w \div Pow(k - 1) <= 2 * (w \div Pow(k)) + 1
<1>1. \/ k = 2 \/ k = 3 \/ k = 4 \/ k = 5 \/ k = 6 \/ k = 7 \/ k = 8 \/ k = 9 \/ k = 10 \/ k = 11
      \/ k = 12 \/ k = 13 \/ k = 14 \/ k = 15 \/ k = 16 \/ k = 17 \/ k = 18 \/ k = 19
      \/ k = 20 \/ k = 21 \/ k = 22 \/ k = 23 \/ k = 24
  OBVIOUS
<1>2. QED
  BY <1>1, Powers, SMT DEF Mantissa24

Twofold(a, b) == a \in Int /\ b \in Int /\ 2 * a <= b /\ b <= 2 * a + 1

\* Twice the operand has twice the fixed-point operand, or a unit more.
LEMMA FixedTwice ==
  ASSUME NEW e \in 96 .. 132, NEW m \in Int, 0 <= m, m < 128
  PROVE  Twofold(Fixed(e, m), Fixed(e + 1, m))
<1>1. CASE e >= 125
  <2>1. PICK u \in Int : Pow(e - 125) = u /\ Pow((e + 1) - 125) = 2 * u
    BY <1>1, UnitDoubles
  <2>2. Fixed(e, m) = (128 + m) * (16384 * u)
    BY <1>1, <2>1, FixedHigh
  <2>3. Fixed(e + 1, m) = (128 + m) * (16384 * (2 * u))
    BY <1>1, <2>1, FixedHigh
  <2>4. (128 + m) * (16384 * (2 * u)) = 2 * ((128 + m) * (16384 * u)) /\ (128 + m) * (16384 * u) \in Int
    BY SMT
  <2>5. QED
    BY <2>2, <2>3, <2>4, SMT DEF Twofold
<1>2. CASE e < 125
  <2>1. PICK w \in Int : (128 + m) * 65536 = w /\ Mantissa24(w)
    BY SMT DEF Mantissa24
  <2>2. Fixed(e, m) = IF 127 - e > 24 THEN 0 ELSE w \div Pow(127 - e)
    BY <1>2, <2>1, SMT DEF Fixed
  <2>3. Fixed(e + 1, m) = IF 127 - (e + 1) > 24 THEN 0 ELSE w \div Pow(127 - (e + 1))
    BY <1>2, <2>1, SMT DEF Fixed
  <2>4. CASE 127 - e > 25
    BY <2>2, <2>3, <2>4, SMT DEF Twofold
  <2>5. CASE 127 - e = 25
    <3>1. w \div Pow(24) = 0
      BY <2>1, Powers, SMT DEF Mantissa24
    <3>2. Fixed(e + 1, m) = w \div Pow(24)
      BY <2>3, <2>5, SMT
    <3>3. Fixed(e, m) = 0
      BY <2>2, <2>5, SMT
    <3>4. QED
      BY <3>1, <3>2, <3>3, SMT DEF Twofold
  <2>6. CASE 127 - e <= 24
    <3>1. PICK k \in 2 .. 24 : 127 - e = k /\ 127 - (e + 1) = k - 1 /\ ~(k > 24) /\ ~(k - 1 > 24)
      BY <1>2, <2>6, SMT
    <3>2. Fixed(e, m) = w \div Pow(k) /\ Fixed(e + 1, m) = w \div Pow(k - 1)
      BY <2>2, <2>3, <3>1
    <3>3. QED
      BY <2>1, <3>2, ShiftedTwice DEF Twofold
  <2>7. QED
    BY <2>4, <2>5, <2>6, SMT
<1>3. QED
  BY <1>1, <1>2, SMT

\* x + 128 is the operand with the next exponent.
LEMMA TwiceFields ==
  ASSUME NEW x \in Nat, XExp(x) < 255
  PROVE  /\ x + 128 \in Nat /\ XSign(x + 128) = XSign(x) /\ XExp(x + 128) = XExp(x) + 1
         /\ (x + 128) % 128 = x % 128 /\ x % 128 \in Int /\ 0 <= x % 128 /\ x % 128 < 128
<1>1. PICK s \in Int, e \in Int, m \in Int :
        x = s * 32768 + e * 128 + m /\ 0 <= m /\ m < 128 /\ 0 <= e /\ e < 256
  <2>1. PICK d \in Int, m \in Int : x = d * 128 + m /\ 0 <= m /\ m < 128
    <3>1. x = (x \div 128) * 128 + (x % 128)
      BY SMT
    <3>2. QED
      BY <3>1
  <2>2. PICK s \in Int, e \in Int : d = s * 256 + e /\ 0 <= e /\ e < 256
    <3>1. d = (d \div 256) * 256 + (d % 256)
      BY SMT
    <3>2. QED
      BY <3>1
  <2>3. QED
    BY <2>1, <2>2, SMT
<1>2. x \div 32768 = s /\ (x \div 128) % 256 = e /\ x % 128 = m
  BY <1>1, SMT
<1>3. e < 255
  BY <1>2 DEF XExp
<1>4. (x + 128) \div 32768 = s /\ ((x + 128) \div 128) % 256 = e + 1 /\ (x + 128) % 128 = m
  BY <1>1, <1>3, SMT
<1>5. QED
  BY <1>1, <1>2, <1>4, SMT DEF XSign, XExp

\* Their fixed-point operands.
Doubles(p, q) == FixedPoint(p) /\ FixedPoint(q) /\ -1 <= q - 2 * p /\ q - 2 * p <= 1

\* With the sign, within a unit either way.
LEMMA OperandTwice ==
  ASSUME NEW x \in Nat, ~Overridden(x), ~Overridden(x + 128), 96 <= XExp(x)
  PROVE  Doubles(ToQ8_23(x), ToQ8_23(x + 128))
<1>1. XExp(x) \in 1 .. 133
  BY OperandInRange
<1>2. /\ x + 128 \in Nat /\ XSign(x + 128) = XSign(x) /\ XExp(x + 128) = XExp(x) + 1
      /\ (x + 128) % 128 = x % 128 /\ x % 128 \in Int /\ 0 <= x % 128 /\ x % 128 < 128
  BY <1>1, TwiceFields, SMT
<1>3. XExp(x + 128) \in 1 .. 133
  BY <1>2, OperandInRange
<1>4. PICK e \in 96 .. 132, m \in Int : XExp(x) = e /\ x % 128 = m /\ 0 <= m /\ m < 128
  BY <1>1, <1>2, <1>3, SMT
<1>5. ToQ8_23(x) = IF XSign(x) = 1 THEN -Fixed(e, m) ELSE Fixed(e, m)
  BY <1>4, FixedIs
<1>6. ToQ8_23(x + 128) = IF XSign(x) = 1 THEN -Fixed(e + 1, m) ELSE Fixed(e + 1, m)
  <2>1. 96 <= XExp(x + 128)
    BY <1>2, <1>4
  <2>2. QED
    BY <1>2, <1>4, <2>1, FixedIs
<1>7. PICK a \in Int, b \in Int : Fixed(e, m) = a /\ Fixed(e + 1, m) = b /\ 2 * a <= b /\ b <= 2 * a + 1
  BY <1>4, FixedTwice DEF Twofold
<1>8. FixedPoint(ToQ8_23(x)) /\ FixedPoint(ToQ8_23(x + 128))
  BY <1>2, OperandAbove, OperandBounded DEF FixedPoint
<1>9. PICK p \in Int, q \in Int : ToQ8_23(x) = p /\ ToQ8_23(x + 128) = q
  BY <1>8 DEF FixedPoint
<1>10. -1 <= q - 2 * p /\ q - 2 * p <= 1
  BY <1>5, <1>6, <1>7, <1>9, SMT
<1>11. QED
  BY <1>8, <1>9, <1>10 DEF Doubles

\* The rests r and s of the two, with h between their exponents of two: but
\* for the rounding s is twice the distance w of r from half of h ln 2.
RestsDouble(h, w, r, s) ==
  /\ h \in {-1, 0, 1} /\ Within(w, Half1) /\ r = Middle(h) + w
  /\ Within(r, RestLimit) /\ Within(s, RestLimit) /\ Around(s, 2 * w)
  /\ h = 1 => 0 <= r
  /\ h = -1 => r < -4

\* So has the operand in units of ln 2.
LEMMA QuotientTwice ==
  ASSUME NEW p \in Int, NEW q \in Int, Within(p, 738197504), Within(q, 738197504),
         -1 <= q - 2 * p, q - 2 * p <= 1
  PROVE  /\ Ranged(YQ(p)) /\ Ranged(YQ(q))
         /\ -2 <= YQ(q) - 2 * YQ(p) /\ YQ(q) - 2 * YQ(p) <= 2
<1>1. YQ(p) = (p * 1549082004 + 536870912) \div 1073741824 /\ Ranged(YQ(p))
  BY QuotientIsProduct
<1>2. YQ(q) = (q * 1549082004 + 536870912) \div 1073741824 /\ Ranged(YQ(q))
  BY QuotientIsProduct
<1>3. -2 <= YQ(q) - 2 * YQ(p) /\ YQ(q) - 2 * YQ(p) <= 2
  BY <1>1, <1>2, SMT
<1>4. QED
  BY <1>1, <1>2, <1>3

\* The exponent of two doubles up to a step h in {-1, 0, 1}, and the rests are
\* h ln 2 / 2 + w and 2 w.
LEMMA RestTwice ==
  ASSUME NEW y \in Int, NEW z \in Int, Ranged(y), Ranged(z), -2 <= z - 2 * y, z - 2 * y <= 2
  PROVE  \E h \in {-1, 0, 1}, w \in Int : NInt(z) = 2 * NInt(y) + h /\ RestsDouble(h, w, RQ(y), RQ(z))
<1>1. PICK d \in Int : /\ d = 128 * (y - 8388608 * NInt(y))
                       /\ RQ(y) = (d * 744261118 + 536870912) \div 1073741824
  BY RestIs
<1>2. PICK e \in Int : /\ e = 128 * (z - 8388608 * NInt(z))
                       /\ RQ(z) = (e * 744261118 + 536870912) \div 1073741824
  BY RestIs
<1>3. PICK m \in Int, n \in Int : /\ NInt(y) = m /\ m = (y + 4194304) \div 8388608
                                  /\ NInt(z) = n /\ n = (z + 4194304) \div 8388608
  BY NIntIs
<1>4. /\ -536870912 <= d /\ d <= 536870912 /\ -536870912 <= e /\ e <= 536870912
  BY <1>1, <1>2, <1>3, SMT
<1>5. PICK h \in Int, c \in Int : h = n - 2 * m /\ c = z - 2 * y
  BY <1>3
<1>6. e - 2 * d = 128 * c - 1073741824 * h
  BY <1>1, <1>2, <1>3, <1>5, SMT
<1>7. -1 <= h /\ h <= 1
  BY <1>4, <1>5, <1>6, SMT
<1>8. PICK r \in Int, s \in Int :
        /\ RQ(y) = r /\ RQ(z) = s
        /\ r = (d * 744261118 + 536870912) \div 1073741824
        /\ s = (e * 744261118 + 536870912) \div 1073741824
  BY <1>1, <1>2
<1>9. /\ 1073741824 * r <= 744261118 * d + 536870912 /\ 744261118 * d - 536870912 <= 1073741824 * r
      /\ 1073741824 * s <= 744261118 * e + 536870912 /\ 744261118 * e - 536870912 <= 1073741824 * s
  BY <1>8, SMT
<1>10. -300 <= s - 2 * r + 744261118 * h /\ s - 2 * r + 744261118 * h <= 300
  BY <1>5, <1>6, <1>9, SMT
<1>11. /\ -372130559 <= r /\ r <= 372130559 /\ -372130559 <= s /\ s <= 372130559
  BY <1>4, <1>9, SMT
<1>12. PICK w \in Int : w = r - 372130559 * h
  BY SMT
<1>13. -186066000 <= w /\ w <= 186066000
  BY <1>10, <1>11, <1>12, SMT
<1>14. Within(w, Half1) /\ Within(r, RestLimit) /\ Within(s, RestLimit)
  <2>1. /\ -Half1 <= w /\ w <= Half1
        /\ -RestLimit <= r /\ r <= RestLimit /\ -RestLimit <= s /\ s <= RestLimit
        /\ Half1 \in Int /\ RestLimit \in Int
    BY <1>11, <1>13, SMT DEF Half1, RestLimit
  <2>2. QED
    BY <2>1, IsWithin
<1>15. Around(s, 2 * w)
  BY <1>10, <1>12, SMT DEF Around
<1>16. (h = 1 => 0 <= r) /\ (h = -1 => r < -4)
  BY <1>4, <1>5, <1>6, <1>9, SMT
<1>17. r = Middle(h) + w
  BY <1>12, SMT DEF Middle
<1>18. h \in {-1, 0, 1} /\ n = 2 * m + h
  BY <1>3, <1>5, <1>7, SMT
<1>19. RestsDouble(h, w, r, s)
  BY <1>14, <1>15, <1>16, <1>17, <1>18 DEF RestsDouble
<1>20. QED
  BY <1>3, <1>8, <1>18, <1>19

\* What is read back from a packed result.
MantissaOf(y) == IF y < 1073741824 THEN y \div 64 ELSE y \div 128
LowBit(y) == IF y < 1073741824 THEN 1 ELSE 0

\* Exponent and mantissa of the result packed from a polynomial.
LEMMA ResultParts ==
  ASSUME NEW y, NEW n, Packable(y, n)
  PROVE  /\ ExpoOf(Reconstruct(y, n)) = 127 - LowBit(y) + n
         /\ MantOf(Reconstruct(y, n)) = MantissaOf(y)
<1>1. y \in Int /\ 536870912 <= y /\ y < 2147483648 /\ n \in Int
  BY SMT DEF Packable, Significand
<1>2. Reconstruct(y, n) = (126 + n) * 8388608 + Fraction(y)
  BY ResultIs DEF Packable
<1>3. CASE y < 1073741824
  <2>1. PICK f \in Int : Fraction(y) = f - 8388608 /\ y \div 64 = f /\ 8388608 <= f /\ f < 16777216
    BY <1>1, <1>3, SMT DEF Fraction
  <2>2. PICK o \in Int : Reconstruct(y, n) = o /\ o = (125 + n) * 8388608 + f
    BY <1>1, <1>2, <2>1, SMT
  <2>3. ExpoOf(o) = 126 + n /\ MantOf(o) = f
    BY <1>1, <2>1, <2>2, SMT DEF ExpoOf, MantOf
  <2>4. QED
    BY <1>1, <1>3, <2>1, <2>2, <2>3, SMT DEF MantissaOf, LowBit
<1>4. CASE ~(y < 1073741824)
  <2>1. PICK f \in Int : Fraction(y) = f /\ y \div 128 = f /\ 8388608 <= f /\ f < 16777216
    BY <1>1, <1>4, SMT DEF Fraction
  <2>2. PICK o \in Int : Reconstruct(y, n) = o /\ o = (126 + n) * 8388608 + f
    BY <1>1, <1>2, <2>1, SMT
  <2>3. ExpoOf(o) = 127 + n /\ MantOf(o) = f
    BY <1>1, <2>1, <2>2, SMT DEF ExpoOf, MantOf
  <2>4. QED
    BY <1>1, <1>4, <2>1, <2>2, <2>3, SMT DEF MantissaOf, LowBit
<1>5. QED
  BY <1>3, <1>4

\* The square of a mantissa, in units of 2^-28, below the square of the value.
Squared(y) == MulRound30(MantissaOf(y) * 64, MantissaOf(y) * 64)

SquareOf(y, yy, v) ==
  /\ yy \in Int /\ v \in Int
  /\ y < 1073741824 => /\ 1073741824 * v <= yy + 1073741824
                       /\ yy - 138512695296 <= 1073741824 * v
  /\ y >= 1073741824 => /\ 4294967296 * v <= yy + 4294967296
                        /\ yy - 554050781184 <= 4294967296 * v

\* The square of a truncated mantissa against that of the polynomial.
LEMMA SquaredIs ==
  ASSUME NEW y, Significand(y)
  PROVE  SquareOf(y, y * y, Squared(y))
<1>1. y \in Int /\ 536870912 <= y /\ y < 2147483648
  BY SMT DEF Significand
<1>2. PICK g \in Int : /\ MantissaOf(y) * 64 = g
                       /\ y < 1073741824 => y - 63 <= g /\ g <= y
                       /\ y >= 1073741824 => y - 127 <= 2 * g /\ 2 * g <= y
  BY <1>1, SMT DEF MantissaOf
<1>3. Squared(y) = (g * g + 536870912) \div 1073741824
  BY <1>2, RoundedProduct DEF Squared
<1>4. PICK gg \in Int, yy \in Int : g * g = gg /\ y * y = yy
  BY <1>1
<1>5. PICK v : Squared(y) = v
  OBVIOUS
<1>6. v \in Int /\ 1073741824 * v <= gg + 536870912
      /\ gg - 536870912 <= 1073741824 * v
  BY <1>3, <1>4, <1>5, SMT
<1>7. CASE y < 1073741824
  <2>1. PICK d \in Int, t \in Int : d = y - g /\ t = y + g /\ 0 <= d /\ d <= 64 /\ 0 <= t /\ t <= 2147483648
    BY <1>1, <1>2, <1>7, SMT
  <2>2. d * t = yy - gg
    BY <1>1, <1>4, <2>1
  <2>3. 0 <= d * t /\ 0 <= (64 - d) * t
    BY <2>1, TimesMonotone
  <2>4. (64 - d) * t = 64 * t - d * t
    BY <2>1
  <2>5. PICK p \in Int : d * t = p
    BY <2>1
  <2>6. 0 <= yy - gg /\ yy - gg <= 137438953472
    BY <1>4, <2>1, <2>2, <2>3, <2>4, <2>5, SMT
  <2>7. /\ 1073741824 * v <= yy + 1073741824 /\ yy - 138512695296 <= 1073741824 * v
    BY <1>4, <1>6, <2>6, SMT
  <2>8. SquareOf(y, yy, v)
    BY <1>1, <1>4, <1>6, <1>7, <2>7, SMT DEF SquareOf
  <2>9. QED
    BY <1>4, <1>5, <2>8
<1>8. CASE y >= 1073741824
  <2>1. PICK d \in Int, t \in Int : d = y - 2 * g /\ t = y + 2 * g /\ 0 <= d /\ d <= 128 /\ 0 <= t /\ t <= 4294967296
    BY <1>1, <1>2, <1>8, SMT
  <2>2. d * t = yy - 4 * gg
    BY <1>1, <1>4, <2>1
  <2>3. 0 <= d * t /\ 0 <= (128 - d) * t
    BY <2>1, TimesMonotone
  <2>4. (128 - d) * t = 128 * t - d * t
    BY <2>1
  <2>5. PICK p \in Int : d * t = p
    BY <2>1
  <2>6. 0 <= yy - 4 * gg /\ yy - 4 * gg <= 549755813888
    BY <1>4, <2>1, <2>2, <2>3, <2>4, <2>5, SMT
  <2>7. /\ 4294967296 * v <= yy + 4294967296 /\ yy - 554050781184 <= 4294967296 * v
    BY <1>4, <1>6, <2>6, SMT
  <2>8. SquareOf(y, yy, v)
    BY <1>1, <1>4, <1>6, <1>8, <2>7, SMT DEF SquareOf
  <2>9. QED
    BY <1>4, <1>5, <2>8
<1>9. QED
  BY <1>1, <1>7, <1>8, SMT

\* The two polynomials t and p, with h between their exponents of two, pack to
\* a square and its double.
Agrees(d) == d \in Int /\ -49152 <= d /\ d <= 49152
Place(h, t, p) == h + 2 * LowBit(t) - LowBit(p)
PacksSquare(h, t, p) ==
  /\ Place(h, t, p) \in -1 .. 2
  /\ Agrees(Squared(t) - MantissaOf(p) * 2 ^ (5 + Place(h, t, p)))

\* The truncation of both mantissas and the places of their leading ones keep
\* the squares within the target.
LEMMA SquarePacks ==
  ASSUME NEW h \in {-1, 0, 1}, NEW t, NEW p, Significand(t), Significand(p), NearSquare(h, t, p),
         h = 1 => 1073741824 <= t, h = -1 => t < 1073741824
  PROVE  PacksSquare(h, t, p)
<1>1. /\ t \in Int /\ 536870912 <= t /\ t < 2147483648
      /\ p \in Int /\ 536870912 <= p /\ p < 2147483648
  BY SMT DEF Significand
<1>2. PICK tt, v : t * t = tt /\ Squared(t) = v
  OBVIOUS
<1>3. SquareOf(t, tt, v)
  BY <1>2, SquaredIs
<1>4. tt \in Int /\ v \in Int
  BY <1>3 DEF SquareOf
<1>5. /\ h = 0  => -11000000000000 <= tt - 1073741824 * p /\ tt - 1073741824 * p <= 11000000000000
      /\ h = 1  => -128000000000000 <= tt - 2147483648 * p /\ tt - 2147483648 * p <= 128000000000000
      /\ h = -1 => -93000000000000 <= 2 * tt - 1073741824 * p /\ 2 * tt - 1073741824 * p <= 93000000000000
  BY <1>2, SMT DEF NearSquare
<1>6. PICK k \in Int, m \in Int :
        /\ LowBit(p) = k /\ MantissaOf(p) = m
        /\ \/ k = 0 /\ 128 * m <= p /\ p <= 128 * m + 127
           \/ k = 1 /\ 64 * m <= p /\ p <= 64 * m + 63
  BY <1>1, SMT DEF LowBit, MantissaOf
<1>7. Squared(t) = v /\ MantissaOf(p) = m
  BY <1>2, <1>6, SMT
<1>8. CASE h = 0 /\ t >= 1073741824
  <2>1. -10800 <= 4 * v - p /\ 4 * v - p <= 10800
    BY <1>1, <1>3, <1>5, <1>4, <1>8, SMT DEF SquareOf
  <2>2. Place(h, t, p) = 0 - k
    BY <1>1, <1>6, <1>8, SMT DEF Place, LowBit
  <2>3. CASE k = 0
    <3>1. Place(h, t, p) = 0 /\ 5 + 0 = 5 /\ 2 ^ 5 = 32
      BY <2>2, <2>3, Powers, SMT DEF Pow
    <3>2. Agrees(v - m * 32)
      BY <1>1, <1>6, <1>4, <2>1, <2>3, SMT DEF Agrees
    <3>3. QED
      BY <1>7, <3>1, <3>2, SMT DEF PacksSquare
  <2>4. CASE k = 1
    <3>1. Place(h, t, p) = -1 /\ 5 + (-1) = 4 /\ 2 ^ 4 = 16
      BY <2>2, <2>4, Powers, SMT DEF Pow
    <3>2. Agrees(v - m * 16)
      BY <1>1, <1>6, <1>4, <2>1, <2>4, SMT DEF Agrees
    <3>3. QED
      BY <1>7, <3>1, <3>2, SMT DEF PacksSquare
  <2>5. QED
    BY <1>6, <2>3, <2>4
<1>9. CASE h = 0 /\ t < 1073741824
  <2>1. -10400 <= v - p /\ v - p <= 10400
    BY <1>1, <1>3, <1>5, <1>4, <1>9, SMT DEF SquareOf
  <2>2. Place(h, t, p) = 2 - k
    BY <1>1, <1>6, <1>9, SMT DEF Place, LowBit
  <2>3. CASE k = 0
    <3>1. Place(h, t, p) = 2 /\ 5 + 2 = 7 /\ 2 ^ 7 = 128
      BY <2>2, <2>3, Powers, SMT DEF Pow
    <3>2. Agrees(v - m * 128)
      BY <1>1, <1>6, <1>4, <2>1, <2>3, SMT DEF Agrees
    <3>3. QED
      BY <1>7, <3>1, <3>2, SMT DEF PacksSquare
  <2>4. CASE k = 1
    <3>1. Place(h, t, p) = 1 /\ 5 + 1 = 6 /\ 2 ^ 6 = 64
      BY <2>2, <2>4, Powers, SMT DEF Pow
    <3>2. Agrees(v - m * 64)
      BY <1>1, <1>6, <1>4, <2>1, <2>4, SMT DEF Agrees
    <3>3. QED
      BY <1>7, <3>1, <3>2, SMT DEF PacksSquare
  <2>5. QED
    BY <1>6, <2>3, <2>4
<1>10. CASE h = 1
  <2>1. -119800 <= 4 * v - 2 * p /\ 4 * v - 2 * p <= 119800
    BY <1>1, <1>3, <1>5, <1>4, <1>10, SMT DEF SquareOf
  <2>2. Place(h, t, p) = 1 - k
    BY <1>1, <1>6, <1>10, SMT DEF Place, LowBit
  <2>3. CASE k = 0
    <3>1. Place(h, t, p) = 1 /\ 5 + 1 = 6 /\ 2 ^ 6 = 64
      BY <2>2, <2>3, Powers, SMT DEF Pow
    <3>2. Agrees(v - m * 64)
      BY <1>1, <1>6, <1>4, <2>1, <2>3, SMT DEF Agrees
    <3>3. QED
      BY <1>7, <3>1, <3>2, SMT DEF PacksSquare
  <2>4. CASE k = 1
    <3>1. Place(h, t, p) = 0 /\ 5 + 0 = 5 /\ 2 ^ 5 = 32
      BY <2>2, <2>4, Powers, SMT DEF Pow
    <3>2. Agrees(v - m * 32)
      BY <1>1, <1>6, <1>4, <2>1, <2>4, SMT DEF Agrees
    <3>3. QED
      BY <1>7, <3>1, <3>2, SMT DEF PacksSquare
  <2>5. QED
    BY <1>6, <2>3, <2>4
<1>11. CASE h = -1
  <2>1. -86900 <= 2 * v - p /\ 2 * v - p <= 86900
    BY <1>1, <1>3, <1>5, <1>4, <1>11, SMT DEF SquareOf
  <2>2. Place(h, t, p) = 1 - k
    BY <1>1, <1>6, <1>11, SMT DEF Place, LowBit
  <2>3. CASE k = 0
    <3>1. Place(h, t, p) = 1 /\ 5 + 1 = 6 /\ 2 ^ 6 = 64
      BY <2>2, <2>3, Powers, SMT DEF Pow
    <3>2. Agrees(v - m * 64)
      BY <1>1, <1>6, <1>4, <2>1, <2>3, SMT DEF Agrees
    <3>3. QED
      BY <1>7, <3>1, <3>2, SMT DEF PacksSquare
  <2>4. CASE k = 1
    <3>1. Place(h, t, p) = 0 /\ 5 + 0 = 5 /\ 2 ^ 5 = 32
      BY <2>2, <2>4, Powers, SMT DEF Pow
    <3>2. Agrees(v - m * 32)
      BY <1>1, <1>6, <1>4, <2>1, <2>4, SMT DEF Agrees
    <3>3. QED
      BY <1>7, <3>1, <3>2, SMT DEF PacksSquare
  <2>5. QED
    BY <1>6, <2>3, <2>4
<1>12. QED
  BY <1>1, <1>8, <1>9, <1>10, <1>11, SMT

\* At the rest 0 the polynomial is 1 exactly.
LEMMA PolyAtZero == PolyOf(0) = 1073741824
<1>1. \A t \in Int : MulRound30(0, t) = 0
  <2>1. ASSUME NEW t \in Int PROVE MulRound30(0, t) = 0
    <3>1. MulRound30(0, t) = (0 * t + 536870912) \div 1073741824
      BY RoundedProduct
    <3>2. QED
      BY <3>1, SMT
  <2>2. QED
    BY <2>1
<1>2. PICK c0 \in Int, c1 \in Int, c2 \in Int, c3 \in Int, c4 \in Int, c5 \in Int :
        C0 = c0 /\ C1 = c1 /\ C2 = c2 /\ C3 = c3 /\ C4 = c4 /\ C5 = c5
  BY Coefficients
<1>3. \A t \in Int, c \in Int : Horner(t, 0, c) = c
  BY <1>1 DEF Horner
<1>4. PolyOf(0) = c0
  BY <1>2, <1>3 DEF PolyOf
<1>5. QED
  BY <1>2, <1>4, Coefficients

\* The result for twice the operand is the square of the result.
Gap(o, o2) == ExpoOf(o2) - 2 * ExpoOf(o) + 127
ResultsDouble(o, o2) ==
  /\ Gap(o, o2) \in -1 .. 2
  /\ Agrees(MulRound30(MantOf(o) * 64, MantOf(o) * 64) - MantOf(o2) * 2 ^ (5 + Gap(o, o2)))

\* The results of two fixed-point operands of which one is twice the other.
LEMMA DoublesClosely ==
  ASSUME NEW p, NEW q, Doubles(p, q)
  PROVE  ResultsDouble(ResultOf(p), ResultOf(q))
<1>1. FixedPoint(p) /\ FixedPoint(q) /\ p \in Int /\ q \in Int /\ -1 <= q - 2 * p /\ q - 2 * p <= 1
  BY DEF Doubles, FixedPoint
<1>2. PICK y \in Int, z \in Int : /\ YQ(p) = y /\ YQ(q) = z /\ Ranged(y) /\ Ranged(z)
                                  /\ -2 <= z - 2 * y /\ z - 2 * y <= 2
  BY <1>1, QuotientTwice, SMT DEF FixedPoint, Ranged
<1>3. PICK h \in {-1, 0, 1}, w \in Int : NInt(z) = 2 * NInt(y) + h /\ RestsDouble(h, w, RQ(y), RQ(z))
  BY <1>2, RestTwice
<1>4. PICK m \in Int, n \in Int : NInt(y) = m /\ NInt(z) = n /\ n = 2 * m + h
  BY <1>2, <1>3, NIntIs
<1>5. PICK r, s : RQ(y) = r /\ RQ(z) = s
  OBVIOUS
<1>6. PICK t, u : PolyOf(r) = t /\ PolyOf(s) = u
  OBVIOUS
<1>7. Packable(t, m) /\ Packable(u, n) /\ Rest(r) /\ Rest(s)
  BY <1>1, <1>2, <1>4, <1>5, <1>6, FixedPointPackable
<1>8. Significand(t) /\ Significand(u)
  BY <1>7 DEF Packable
<1>9. RestsDouble(h, w, r, s)
  BY <1>3, <1>5
<1>10. NearSquare(h, t, u)
  <2>1. Value(PolyOf(r))
    BY <1>6, <1>8, SMT DEF Significand, Value
  <2>2. Within(w, Half1) /\ Within(r, RestLimit) /\ r = Middle(h) + w /\ Within(s, RestLimit) /\ Around(s, 2 * w)
    BY <1>9 DEF RestsDouble
  <2>3. NearSquare(h, PolyOf(r), PolyOf(s))
    BY <2>1, <2>2, SquareAround
  <2>4. QED
    BY <1>6, <2>3
<1>11. h = 1 => 1073741824 <= t
  BY <1>6, <1>7, <1>9, PolyBounded, SMT DEF RestsDouble, Rest
<1>12. h = -1 => t < 1073741824
  <2>1. ASSUME h = -1 PROVE t < 1073741824
    <3>1. r \in Int /\ r < -4 /\ Within(r, 372130559)
      BY <1>7, <1>9, <2>1, SMT DEF RestsDouble, Rest
    <3>2. Within(0, 372130559) /\ r <= 0
      BY <3>1, IsWithin, SMT
    <3>3. 0 - r - 4 <= 2 * (PolyOf(0) - PolyOf(r))
      BY <3>1, <3>2, PolyGrows
    <3>4. t \in Int
      BY <1>8, SMT DEF Significand
    <3>5. QED
      BY <1>6, <3>1, <3>3, <3>4, PolyAtZero, SMT
  <2>2. QED
    BY <2>1
<1>13. PacksSquare(h, t, u)
  BY <1>8, <1>10, <1>11, <1>12, SquarePacks, SMT
<1>14. ResultOf(p) = Reconstruct(t, m) /\ ResultOf(q) = Reconstruct(u, n)
  BY <1>2, <1>4, <1>5, <1>6 DEF ResultOf
<1>15. PICK o, o2 : ResultOf(p) = o /\ ResultOf(q) = o2
  OBVIOUS
<1>16. /\ ExpoOf(o) = 127 - LowBit(t) + m /\ MantOf(o) = MantissaOf(t)
       /\ ExpoOf(o2) = 127 - LowBit(u) + n /\ MantOf(o2) = MantissaOf(u)
  BY <1>7, <1>14, <1>15, ResultParts
<1>17. PICK a \in Int, b \in Int : LowBit(t) = a /\ LowBit(u) = b
  BY SMT DEF LowBit
<1>18. Gap(o, o2) = Place(h, t, u)
  BY <1>4, <1>16, <1>17, SMT DEF Gap, Place
<1>19. ResultsDouble(o, o2)
  BY <1>13, <1>16, <1>18, Zenon DEF ResultsDouble, PacksSquare, Squared
<1>20. QED
  BY <1>15, <1>19

\* Of two computed operands of which one is twice the other.
LEMMA ExpDoubles ==
  ASSUME NEW x \in Nat, ~Overridden(x), ~Overridden(x + 128), 96 <= XExp(x)
  PROVE  ResultsDouble(ExpOf(x), ExpOf(x + 128))
<1>1. ExpOf(x) = ResultOf(ToQ8_23(x)) /\ ExpOf(x + 128) = ResultOf(ToQ8_23(x + 128))
  BY ComputedResult
<1>2. Doubles(ToQ8_23(x), ToQ8_23(x + 128))
  BY OperandTwice
<1>3. QED
  BY <1>1, <1>2, DoublesClosely

-----------------------------------------------------------------------------
\* ----- the block quantiser

\* The thresholds that twice a magnitude reaches, in units of the scale.
Reached(w, s) == {q \in Thresholds : w >= q * s}
Steps(w, s) ==
  IF w < s THEN 0 ELSE IF w < 3 * s THEN 1 ELSE IF w < 5 * s THEN 2 ELSE IF w < 7 * s THEN 3
  ELSE IF w < 10 * s THEN 4 ELSE IF w < 14 * s THEN 5 ELSE IF w < 20 * s THEN 6 ELSE 7

LEMMA FirstThresholds ==
  /\ Cardinality({}) = 0 /\ Cardinality({1}) = 1 /\ Cardinality({1, 3}) = 2
  /\ Cardinality({1, 3, 5}) = 3 /\ Cardinality({1, 3, 5, 7}) = 4
  /\ Cardinality({1, 3, 5, 7, 10}) = 5 /\ Cardinality({1, 3, 5, 7, 10, 14}) = 6
  /\ Cardinality({1, 3, 5, 7, 10, 14, 20}) = 7
<1>1. Cardinality({}) = 0 /\ IsFiniteSet({})
  BY FS_EmptySet
<1>2. Cardinality({} \cup {1}) = 1 /\ IsFiniteSet({} \cup {1})
  BY <1>1, FS_AddElement
<1>3. Cardinality({1} \cup {3}) = 2 /\ IsFiniteSet({1} \cup {3})
  <2>1. {} \cup {1} = {1} /\ 3 \notin {1}
    OBVIOUS
  <2>2. QED
    BY <1>2, <2>1, FS_AddElement
<1>4. Cardinality({1, 3} \cup {5}) = 3 /\ IsFiniteSet({1, 3} \cup {5})
  <2>1. {1} \cup {3} = {1, 3} /\ 5 \notin {1, 3}
    OBVIOUS
  <2>2. QED
    BY <1>3, <2>1, FS_AddElement
<1>5. Cardinality({1, 3, 5} \cup {7}) = 4 /\ IsFiniteSet({1, 3, 5} \cup {7})
  <2>1. {1, 3} \cup {5} = {1, 3, 5} /\ 7 \notin {1, 3, 5}
    OBVIOUS
  <2>2. QED
    BY <1>4, <2>1, FS_AddElement
<1>6. Cardinality({1, 3, 5, 7} \cup {10}) = 5 /\ IsFiniteSet({1, 3, 5, 7} \cup {10})
  <2>1. {1, 3, 5} \cup {7} = {1, 3, 5, 7} /\ 10 \notin {1, 3, 5, 7}
    OBVIOUS
  <2>2. QED
    BY <1>5, <2>1, FS_AddElement
<1>7. Cardinality({1, 3, 5, 7, 10} \cup {14}) = 6 /\ IsFiniteSet({1, 3, 5, 7, 10} \cup {14})
  <2>1. {1, 3, 5, 7} \cup {10} = {1, 3, 5, 7, 10} /\ 14 \notin {1, 3, 5, 7, 10}
    OBVIOUS
  <2>2. QED
    BY <1>6, <2>1, FS_AddElement
<1>8. Cardinality({1, 3, 5, 7, 10, 14} \cup {20}) = 7
  <2>1. {1, 3, 5, 7, 10} \cup {14} = {1, 3, 5, 7, 10, 14} /\ 20 \notin {1, 3, 5, 7, 10, 14}
    OBVIOUS
  <2>2. QED
    BY <1>7, <2>1, FS_AddElement
<1>9. /\ {} \cup {1} = {1} /\ {1} \cup {3} = {1, 3} /\ {1, 3} \cup {5} = {1, 3, 5}
      /\ {1, 3, 5} \cup {7} = {1, 3, 5, 7} /\ {1, 3, 5, 7} \cup {10} = {1, 3, 5, 7, 10}
      /\ {1, 3, 5, 7, 10} \cup {14} = {1, 3, 5, 7, 10, 14}
      /\ {1, 3, 5, 7, 10, 14} \cup {20} = {1, 3, 5, 7, 10, 14, 20}
  OBVIOUS
<1>10. QED
  BY <1>1, <1>2, <1>3, <1>4, <1>5, <1>6, <1>7, <1>8, <1>9

LEMMA CodeIsSteps ==
  ASSUME NEW w \in Nat, NEW s \in Nat \ {0}
  PROVE  Cardinality(Reached(w, s)) = Steps(w, s)
<1>3. CASE w < s
  <2>1. Reached(w, s) = {}
    BY <1>3 DEF Reached, Thresholds
  <2>2. QED
    BY <1>3, <2>1, FirstThresholds DEF Steps
<1>4. CASE s <= w /\ w < 3 * s
  <2>1. Reached(w, s) = {1}
    BY <1>4 DEF Reached, Thresholds
  <2>2. QED
    BY <1>4, <2>1, FirstThresholds DEF Steps
<1>5. CASE 3 * s <= w /\ w < 5 * s
  <2>1. Reached(w, s) = {1, 3}
    BY <1>5 DEF Reached, Thresholds
  <2>2. QED
    BY <1>5, <2>1, FirstThresholds DEF Steps
<1>6. CASE 5 * s <= w /\ w < 7 * s
  <2>1. Reached(w, s) = {1, 3, 5}
    BY <1>6 DEF Reached, Thresholds
  <2>2. QED
    BY <1>6, <2>1, FirstThresholds DEF Steps
<1>7. CASE 7 * s <= w /\ w < 10 * s
  <2>1. Reached(w, s) = {1, 3, 5, 7}
    BY <1>7 DEF Reached, Thresholds
  <2>2. QED
    BY <1>7, <2>1, FirstThresholds DEF Steps
<1>8. CASE 10 * s <= w /\ w < 14 * s
  <2>1. Reached(w, s) = {1, 3, 5, 7, 10}
    BY <1>8 DEF Reached, Thresholds
  <2>2. QED
    BY <1>8, <2>1, FirstThresholds DEF Steps
<1>9. CASE 14 * s <= w /\ w < 20 * s
  <2>1. Reached(w, s) = {1, 3, 5, 7, 10, 14}
    BY <1>9 DEF Reached, Thresholds
  <2>2. QED
    BY <1>9, <2>1, FirstThresholds DEF Steps
<1>10. CASE 20 * s <= w
  <2>1. Reached(w, s) = {1, 3, 5, 7, 10, 14, 20}
    BY <1>10 DEF Reached, Thresholds
  <2>2. QED
    BY <1>10, <2>1, FirstThresholds DEF Steps
<1>11. QED
  BY <1>3, <1>4, <1>5, <1>6, <1>7, <1>8, <1>9, <1>10

\* What the code of n steps stands for, in halves.
Level(n)  == IF n <= 4 THEN n ELSE IF n = 5 THEN 6 ELSE IF n = 6 THEN 8 ELSE 12
Size(x)   == IF x < 0 THEN -x ELSE x
Sign(x, v) == IF x < 0 THEN -v ELSE v

LEMMA CodeDecoded ==
  ASSUME NEW x \in Int, NEW s \in Nat \ {0}
  PROVE  /\ fp32_to_nvfp4(x, s) \in 0 .. 15
         /\ nvfp4_decode_table(fp32_to_nvfp4(x, s)) = Sign(x, Level(Steps(2 * Size(x), s)))
<1>1. PICK w \in Nat : 2 * Size(x) = w
  BY DEF Size
<1>2. fp32_to_nvfp4(x, s) = (IF x < 0 THEN 8 ELSE 0) + Cardinality(Reached(2 * Size(x), s))
  BY DEF fp32_to_nvfp4, Reached, Size
<1>3. PICK n \in 0 .. 7 : Steps(w, s) = n
  BY DEF Steps
<1>4. fp32_to_nvfp4(x, s) = (IF x < 0 THEN 8 ELSE 0) + n
  BY <1>1, <1>2, <1>3, CodeIsSteps
<1>5. PICK c \in Int : c = fp32_to_nvfp4(x, s) /\ c \in 0 .. 15 /\ c % 8 = n /\ (c >= 8 <=> x < 0)
  BY <1>4
<1>6. <<0, 1, 2, 3, 4, 6, 8, 12>>[n + 1] = Level(n)
  <2>1. n = 0 \/ n = 1 \/ n = 2 \/ n = 3 \/ n = 4 \/ n = 5 \/ n = 6 \/ n = 7
    OBVIOUS
  <2>2. QED
    BY <2>1 DEF Level
<1>7. nvfp4_decode_table(c) = Sign(x, Level(n))
  BY <1>5, <1>6 DEF nvfp4_decode_table, Sign
<1>8. QED
  BY <1>1, <1>3, <1>5, <1>7

\* Decoding keeps the order of two elements.
LEMMA DecodedOrder ==
  ASSUME NEW x \in Int, NEW y \in Int, x <= y, NEW s \in Nat \ {0}
  PROVE  /\ nvfp4_decode_table(fp32_to_nvfp4(x, s)) \in Int
         /\ nvfp4_decode_table(fp32_to_nvfp4(y, s)) \in Int
         /\ nvfp4_decode_table(fp32_to_nvfp4(x, s)) <= nvfp4_decode_table(fp32_to_nvfp4(y, s))
<1>1. PICK v \in Nat, w \in Nat : 2 * Size(x) = v /\ 2 * Size(y) = w
  BY DEF Size
<1>2. PICK m \in 0 .. 7, n \in 0 .. 7 :
        /\ Steps(v, s) = m /\ Steps(w, s) = n
        /\ v <= w => m <= n
        /\ w <= v => n <= m
  BY DEF Steps
<1>3. /\ Level(m) \in Nat /\ Level(n) \in Nat
      /\ m <= n => Level(m) <= Level(n)
      /\ n <= m => Level(n) <= Level(m)
  BY DEF Level
<1>4. Sign(x, Level(m)) \in Int /\ Sign(y, Level(n)) \in Int /\ Sign(x, Level(m)) <= Sign(y, Level(n))
  BY <1>1, <1>2, <1>3 DEF Sign, Size
<1>5. QED
  BY <1>1, <1>2, <1>4, CodeDecoded

\* What is decoded is off by at most one scale, and above the last threshold
\* by what the magnitude exceeds six scales.
LEMMA DecodedNear ==
  ASSUME NEW x \in Int, NEW s \in Nat \ {0}
  PROVE  LET t == nvfp4_decode_table(fp32_to_nvfp4(x, s)) * s
         IN  /\ t \in Int
             /\ Size(x - t) <= 2 * s \/ Size(x - t) <= Size(x) - 12 * s
<1>1. PICK w \in Nat, a \in Nat : 2 * Size(x) = w /\ Size(x) = a /\ w = 2 * a
  <2>1. Size(x) \in Nat
    BY DEF Size
  <2>2. QED
    BY <2>1
<1>2. PICK n \in 0 .. 7 : Steps(w, s) = n
  BY DEF Steps
<1>3. PICK l \in Nat : Level(n) = l
  BY DEF Level
<1>4. Size(x - Sign(x, l) * s) = Size(a - l * s)
  BY <1>1 DEF Size, Sign
<1>5. Size(a - l * s) <= 2 * s \/ Size(a - l * s) <= a - 12 * s
  <2>1. CASE n = 0
    BY <1>1, <1>2, <1>3, <2>1 DEF Steps, Level, Size
  <2>2. CASE n = 1
    BY <1>1, <1>2, <1>3, <2>2 DEF Steps, Level, Size
  <2>3. CASE n = 2
    BY <1>1, <1>2, <1>3, <2>3 DEF Steps, Level, Size
  <2>4. CASE n = 3
    BY <1>1, <1>2, <1>3, <2>4 DEF Steps, Level, Size
  <2>5. CASE n = 4
    BY <1>1, <1>2, <1>3, <2>5 DEF Steps, Level, Size
  <2>6. CASE n = 5
    BY <1>1, <1>2, <1>3, <2>6 DEF Steps, Level, Size
  <2>7. CASE n = 6
    BY <1>1, <1>2, <1>3, <2>7 DEF Steps, Level, Size
  <2>8. CASE n = 7
    BY <1>1, <1>2, <1>3, <2>8 DEF Steps, Level, Size
  <2>9. QED
    BY <2>1, <2>2, <2>3, <2>4, <2>5, <2>6, <2>7, <2>8
<1>6. nvfp4_decode_table(fp32_to_nvfp4(x, s)) = Sign(x, l)
  BY <1>1, <1>2, <1>3, CodeDecoded
<1>7. Sign(x, l) * s \in Int
  BY DEF Sign
<1>8. QED
  BY <1>1, <1>4, <1>5, <1>6, <1>7

\* The exponent that the quotient n / d is given, with the powers by name.
FitsAt(n, d, i) ==
  IF i >= 0 THEN d * Pow(i) <= n /\ n < d * Pow(i + 1)
            ELSE n < d /\ d <= n * Pow(-i) /\ n * Pow(-i) < 2 * d
QuotientExp(n, d) == CHOOSE i \in -16 .. 12 : FitsAt(n, d, i)
QuotientAt(n, d, unit, k) ==
  LET num == n * Pow(7 + (IF k < 0 THEN -k ELSE 0))
      den == d * Pow(IF k > 0 THEN k ELSE 0)
      twice == 2 * (num % den)
      up  == twice > den \/ (twice = den /\ (num \div den) % 2 = 1)
  IN  (127 + k - unit) * 128 + ((num \div den) % 128) + (IF up THEN 1 ELSE 0)

LEMMA QuotientChosen ==
  ASSUME NEW n, NEW d, NEW unit
  PROVE  QuotientBf16(n, d, unit) =
           QuotientAt(n, d, unit,
             CHOOSE i \in -16 .. 12 :
               IF i >= 0 THEN d * 2 ^ i <= n /\ n < d * 2 ^ (i + 1)
                         ELSE n < d /\ d <= n * 2 ^ (-i) /\ n * 2 ^ (-i) < 2 * d)
  BY DEF QuotientBf16, QuotientAt, Pow

LEMMA QuotientForm ==
  ASSUME NEW n, NEW d
  PROVE  QuotientBf16(n, d, 10) = QuotientAt(n, d, 10, QuotientExp(n, d))
<1>1. QuotientExp(n, d) = CHOOSE i \in -16 .. 12 :
        IF i >= 0 THEN d * 2 ^ i <= n /\ n < d * 2 ^ (i + 1)
                  ELSE n < d /\ d <= n * 2 ^ (-i) /\ n * 2 ^ (-i) < 2 * d
  BY DEF QuotientExp, FitsAt, Pow
<1>2. QED
  BY <1>1, QuotientChosen

InRange(n, g) == n \in Int /\ 0 <= n /\ n <= 4000 * g

\* The zero guard in one division: what is above it is at least 2^-14 of a
\* unit, what is not is at most one unit.
LEMMA GuardIs ==
  ASSUME NEW g \in Nat \ {0}, NEW n, InRange(n, g)
  PROVE  /\ ZeroGuard(g) \in Int
         /\ n > ZeroGuard(g) => 1 <= n /\ g <= 9766 * n
         /\ ~(n > ZeroGuard(g)) => n <= g
<1> n \in Int /\ 0 <= n
  BY DEF InRange
<1>1. PICK a \in Nat, b \in Nat, c \in Nat :
        /\ 14073749 * g = a /\ a \div 1048576 = b /\ b \div 131072 = c /\ ZeroGuard(g) = c
  <2>1. 14073749 * g \in Nat
    BY SMT
  <2>2. (14073749 * g) \div 1048576 \in Nat
    BY <2>1, SMT
  <2>3. ((14073749 * g) \div 1048576) \div 131072 \in Nat
    BY <2>2, SMT
  <2>4. QED
    BY <2>1, <2>2, <2>3 DEF ZeroGuard
<1>2. /\ 1048576 * b <= a /\ a < 1048576 * (b + 1)
      /\ 131072 * c <= b /\ b < 131072 * (c + 1)
  BY <1>1, SMT
<1>3. n > c => 1 <= n /\ g <= 9766 * n
  BY <1>1, <1>2, SMT
<1>4. ~(n > c) => n <= g
  BY <1>1, <1>2, SMT
<1>5. QED
  BY <1>1, <1>3, <1>4

\* A quotient from 2^-16 to 1024 has an exponent.
QuotientRange(n, d) == n \in Int /\ d \in Int /\ 1 <= n /\ 1 <= d /\ d <= 65536 * n /\ n < 1024 * d

LEMMA ExponentExists ==
  ASSUME NEW n, NEW d, QuotientRange(n, d)
  PROVE  \E i \in -16 .. 12 : FitsAt(n, d, i)
<1> n \in Int /\ d \in Int /\ 1 <= n /\ 1 <= d /\ d <= 65536 * n /\ n < 1024 * d
  BY DEF QuotientRange
<1>1. CASE n < d
  <2>1. /\ 32768 * n < d => FitsAt(n, d, -16)
        /\ d <= 32768 * n /\ 16384 * n < d => FitsAt(n, d, -15)
        /\ d <= 16384 * n /\ 8192 * n < d => FitsAt(n, d, -14)
        /\ d <= 8192 * n /\ 4096 * n < d => FitsAt(n, d, -13)
        /\ d <= 4096 * n /\ 2048 * n < d => FitsAt(n, d, -12)
        /\ d <= 2048 * n /\ 1024 * n < d => FitsAt(n, d, -11)
    BY <1>1, Powers, SMT DEF FitsAt
  <2>2. /\ d <= 1024 * n /\ 512 * n < d => FitsAt(n, d, -10)
        /\ d <= 512 * n /\ 256 * n < d => FitsAt(n, d, -9)
        /\ d <= 256 * n /\ 128 * n < d => FitsAt(n, d, -8)
        /\ d <= 128 * n /\ 64 * n < d => FitsAt(n, d, -7)
        /\ d <= 64 * n /\ 32 * n < d => FitsAt(n, d, -6)
        /\ d <= 32 * n /\ 16 * n < d => FitsAt(n, d, -5)
    BY <1>1, Powers, SMT DEF FitsAt
  <2>3. /\ d <= 16 * n /\ 8 * n < d => FitsAt(n, d, -4)
        /\ d <= 8 * n /\ 4 * n < d => FitsAt(n, d, -3)
        /\ d <= 4 * n /\ 2 * n < d => FitsAt(n, d, -2)
        /\ d <= 2 * n => FitsAt(n, d, -1)
    BY <1>1, Powers, SMT DEF FitsAt
  <2>4. QED
    BY <2>1, <2>2, <2>3, SMT
<1>2. CASE d <= n
  <2>1. /\ n < 2 * d => FitsAt(n, d, 0)
        /\ 2 * d <= n /\ n < 4 * d => FitsAt(n, d, 1)
        /\ 4 * d <= n /\ n < 8 * d => FitsAt(n, d, 2)
        /\ 8 * d <= n /\ n < 16 * d => FitsAt(n, d, 3)
        /\ 16 * d <= n /\ n < 32 * d => FitsAt(n, d, 4)
    BY <1>2, Powers, SMT DEF FitsAt
  <2>2. /\ 32 * d <= n /\ n < 64 * d => FitsAt(n, d, 5)
        /\ 64 * d <= n /\ n < 128 * d => FitsAt(n, d, 6)
        /\ 128 * d <= n /\ n < 256 * d => FitsAt(n, d, 7)
        /\ 256 * d <= n /\ n < 512 * d => FitsAt(n, d, 8)
        /\ 512 * d <= n => FitsAt(n, d, 9)
    BY <1>2, Powers, SMT DEF FitsAt
  <2>3. QED
    BY <2>1, <2>2, SMT
<1>3. QED
  BY <1>1, <1>2

LEMMA ExponentFits ==
  ASSUME NEW n, NEW d, QuotientRange(n, d)
  PROVE  QuotientExp(n, d) \in -16 .. 9 /\ FitsAt(n, d, QuotientExp(n, d))
<1>1. PICK k \in -16 .. 12 : QuotientExp(n, d) = k /\ FitsAt(n, d, k)
  BY ExponentExists DEF QuotientExp
<1>2. ASSUME 9 < k PROVE FALSE
  <2>1. k = 10 \/ k = 11 \/ k = 12
    BY <1>2
  <2>2. QED
    BY <1>1, <2>1, Powers, SMT DEF FitsAt, QuotientRange
<1>3. QED
  BY <1>1, <1>2, SMT

\* Rounding a quotient of 128 to 256 to nearest.
QuotientOf(num, den, e) ==
  e * 128 + ((num \div den) % 128)
    + (IF 2 * (num % den) > den \/ (2 * (num % den) = den /\ (num \div den) % 2 = 1) THEN 1 ELSE 0)

LEMMA RoundedQuotient ==
  ASSUME NEW num \in Nat, NEW den \in Nat \ {0}, 128 * den <= num, num < 256 * den, NEW e \in Int
  PROVE  \E w \in 128 .. 256 : /\ QuotientOf(num, den, e) = (e - 1) * 128 + w
                                /\ 2 * num <= (2 * w + 1) * den
<1>1. PICK q \in Nat, r \in Nat : num \div den = q /\ num % den = r /\ num = den * q + r /\ r < den
  OBVIOUS
<1>2. q \in 128 .. 255
  <2>1. den * q <= num /\ num < den * q + den
    BY <1>1
  <2>2. 128 <= q
    <3>1. ASSUME q <= 127 PROVE FALSE
      <4>1. 0 <= den * (127 - q)
        BY <3>1, TimesMonotone
      <4>2. den * (127 - q) = den * 127 - den * q
        OBVIOUS
      <4>3. QED
        BY <2>1, <4>1, <4>2
    <3>2. QED
      BY <3>1
  <2>3. q <= 255
    <3>1. ASSUME 256 <= q PROVE FALSE
      <4>1. 0 <= den * (q - 256)
        BY <3>1, TimesMonotone
      <4>2. den * (q - 256) = den * q - den * 256
        OBVIOUS
      <4>3. QED
        BY <2>1, <4>1, <4>2
    <3>2. QED
      BY <3>1
  <2>4. QED
    BY <2>2, <2>3
<1>3. q % 128 = q - 128
  BY <1>2
<1>4. CASE 2 * r > den \/ (2 * r = den /\ q % 2 = 1)
  <2>1. q + 1 \in 128 .. 256 /\ e * 128 + (q - 128) + 1 = (e - 1) * 128 + (q + 1)
    BY <1>2
  <2>2. 2 * num <= (2 * (q + 1) + 1) * den
    <3>1. PICK dq \in Int : den * q = dq
      OBVIOUS
    <3>2. (2 * (q + 1) + 1) * den = 2 * dq + 3 * den
      BY <3>1
    <3>3. QED
      BY <1>1, <3>1, <3>2
  <2>3. QED
    BY <1>1, <1>3, <1>4, <2>1, <2>2 DEF QuotientOf
<1>5. CASE ~(2 * r > den \/ (2 * r = den /\ q % 2 = 1))
  <2>1. q \in 128 .. 256 /\ e * 128 + (q - 128) + 0 = (e - 1) * 128 + q
    BY <1>2
  <2>2. 2 * num <= (2 * q + 1) * den
    <3>1. PICK dq \in Int : den * q = dq
      OBVIOUS
    <3>2. (2 * q + 1) * den = 2 * dq + den
      BY <3>1
    <3>3. QED
      BY <1>1, <1>5, <3>1, <3>2
  <2>3. QED
    BY <1>1, <1>3, <1>5, <2>1, <2>2 DEF QuotientOf
<1>6. QED
  BY <1>4, <1>5

\* The quotient is a pattern of exponent k and mantissa w (256 for the next
\* exponent), at most half a unit below it.
IsQuotient(n, d, k, w) ==
  /\ QuotientBf16(n, d, 10) = (116 + k) * 128 + w
  /\ 0 <= k => 256 * n <= (2 * w + 1) * (d * Pow(k))
  /\ k < 0 => n < d

\* The fraction that is rounded: the quotient scaled to 128 .. 256.
ScaledTo(n, d, k, num, den) ==
  /\ n * Pow(7 + (IF k < 0 THEN -k ELSE 0)) = num
  /\ d * Pow(IF k > 0 THEN k ELSE 0) = den
  /\ num \in Nat /\ den \in Nat \ {0}
  /\ 128 * den <= num /\ num < 256 * den
  /\ 0 <= k => num = 128 * n /\ den = d * Pow(k)
  /\ k < 0 => n < d

LEMMA QuotientScaled ==
  ASSUME NEW n, NEW d, QuotientRange(n, d), NEW k \in -16 .. 9, FitsAt(n, d, k)
  PROVE  ScaledTo(n, d, k, n * Pow(7 + (IF k < 0 THEN -k ELSE 0)), d * Pow(IF k > 0 THEN k ELSE 0))
<1> n \in Int /\ d \in Int /\ 1 <= n /\ 1 <= d
  BY DEF QuotientRange
<1>1. CASE k = -16 \/ k = -15 \/ k = -14 \/ k = -13 \/ k = -12 \/ k = -11 \/ k = -10 \/ k = -9
  BY <1>1, Powers, SMT DEF FitsAt, ScaledTo
<1>2. CASE k = -8 \/ k = -7 \/ k = -6 \/ k = -5 \/ k = -4 \/ k = -3 \/ k = -2 \/ k = -1
  BY <1>2, Powers, SMT DEF FitsAt, ScaledTo
<1>3. CASE k = 0 \/ k = 1 \/ k = 2 \/ k = 3 \/ k = 4
  BY <1>3, Powers, SMT DEF FitsAt, ScaledTo
<1>4. CASE k = 5 \/ k = 6 \/ k = 7 \/ k = 8 \/ k = 9
  BY <1>4, Powers, SMT DEF FitsAt, ScaledTo
<1>5. QED
  BY <1>1, <1>2, <1>3, <1>4

LEMMA QuotientIs ==
  ASSUME NEW n, NEW d, QuotientRange(n, d)
  PROVE  \E k \in -16 .. 9, w \in 128 .. 256 : IsQuotient(n, d, k, w)
<1> n \in Int /\ d \in Int /\ 1 <= n /\ 1 <= d
  BY DEF QuotientRange
<1>1. PICK k \in -16 .. 9 : QuotientExp(n, d) = k /\ FitsAt(n, d, k)
  BY ExponentFits
<1>2. QuotientBf16(n, d, 10) = QuotientAt(n, d, 10, k)
  BY <1>1, QuotientForm
<1>3. PICK num, den : ScaledTo(n, d, k, num, den)
  BY <1>1, QuotientScaled
<1>4. PICK e \in Int : 127 + k - 10 = e /\ e - 1 = 116 + k
  OBVIOUS
<1>5. num \in Nat /\ den \in Nat \ {0} /\ 128 * den <= num /\ num < 256 * den
  BY <1>3 DEF ScaledTo
<1>6. PICK w \in 128 .. 256 :
        /\ QuotientAt(n, d, 10, k) = (e - 1) * 128 + w
        /\ 2 * num <= (2 * w + 1) * den
  <2>1. QuotientAt(n, d, 10, k) = QuotientOf(num, den, e)
    BY <1>3, <1>4, SMT DEF QuotientAt, QuotientOf, ScaledTo
  <2>2. QED
    BY <1>5, <2>1, RoundedQuotient
<1>7. 0 <= k => 256 * n <= (2 * w + 1) * (d * Pow(k))
  BY <1>3, <1>5, <1>6 DEF ScaledTo
<1>8. k < 0 => n < d
  BY <1>3 DEF ScaledTo
<1>9. QED
  BY <1>2, <1>4, <1>6, <1>7, <1>8, SMT DEF IsQuotient

\* What the code of a number decodes to is at most half a unit below it.
NotBelow(v, t, full) ==
  /\ v \in Nat
  /\ t >= 1 => \E r \in 8 .. 16 : v = r * Pow(t - 1) /\ full <= 16 * r + 8
  /\ t < 1  => 2 * full <= (2 * v + 1) * Pow(5 - t)

LEMMA CodeValue ==
  ASSUME NEW e \in 117 .. 127, NEW m \in 0 .. 127
  PROVE  CodeOf(e, m) \in 0 .. 127 /\ NotBelow(e4m3_decode(CodeOf(e, m)), e - 120, 128 + m)
<1>1. PICK t \in -3 .. 7 : e - 120 = t
  OBVIOUS
<1>2. PICK full \in 128 .. 255, s \in 4 .. 8 :
        128 + m = full /\ ShiftFor(t) = s /\ (t >= 1 => s = 4) /\ (t < 1 => s = 5 - t)
  BY DEF ShiftFor
<1>3. PICK n \in 0 .. 8 : Rounded(t, m) = n
  BY <1>2, KeptRange DEF Rounded
<1>4. CodeOf(e, m) = Finite(t, n \div 8, n % 8)
  BY <1>1, <1>3 DEF CodeOf, Cascade, MantOut
<1>5. CASE t >= 1
  <2>1. CodeOf(e, m) = 8 * t + n
    BY <1>4, <1>5 DEF Finite
  <2>2. e4m3_decode(8 * t + n) = (8 + n) * Pow(t - 1)
    <3>1. CASE n < 8
      BY <1>5, <3>1, DecodedNormal
    <3>2. CASE n = 8
      <4>1. e4m3_decode(8 * (t + 1) + 0) = (8 + 0) * Pow((t + 1) - 1)
        BY <1>5, DecodedNormal
      <4>2. Pow((t - 1) + 1) = 2 * Pow(t - 1) /\ Pow(t - 1) \in Nat
        BY <1>5, PowDouble, PowPositive
      <4>3. QED
        BY <3>2, <4>1, <4>2
    <3>3. QED
      BY <3>1, <3>2
  <2>3. full <= 16 * (8 + n) + 8
    <3>1. Rounded(t, m) = RoundedKept(full, 4)
      BY <1>2, <1>5 DEF Rounded
    <3>2. Kept(full, 4) = (full \div 16) % 8
      BY Powers DEF Kept
    <3>3. RoundedKept(full, 4) = ((full \div 16) % 8) +
            (IF (full \div 8) % 2 = 1 /\ (full % 8 # 0 \/ ((full \div 16) % 8) % 2 = 1) THEN 1 ELSE 0)
      BY <3>2, Powers DEF RoundedKept
    <3>4. QED
      BY <1>3, <3>1, <3>3, SMT
  <2>4. Pow(t - 1) \in Nat /\ 8 + n \in 8 .. 16
    BY <1>5, PowPositive
  <2>5. QED
    BY <1>1, <1>2, <1>5, <2>1, <2>2, <2>3, <2>4 DEF NotBelow
<1>6. CASE t < 1
  <2>1. CodeOf(e, m) = n
    BY <1>4, <1>6 DEF Finite
  <2>2. e4m3_decode(n) = n
    <3>1. CASE n < 8
      BY <3>1, DecodedSmall
    <3>2. CASE n = 8
      BY <3>2, DecodedNormal, Powers
    <3>3. QED
      BY <3>1, <3>2
  <2>3. 2 * full <= (2 * n + 1) * Pow(5 - t)
    <3>1. PICK p \in {16, 32, 64, 128} : Pow(5 - t) = 2 * p /\ Pow(5 - t - 1) = p /\ 5 - t = s
      <4>1. t = -3 \/ t = -2 \/ t = -1 \/ t = 0
        BY <1>6
      <4>2. QED
        BY <1>2, <1>6, <4>1, Powers
    <3>2. n = ((full \div (2 * p)) % 8) +
            (IF (full \div p) % 2 = 1 /\ (full % p # 0 \/ ((full \div (2 * p)) % 8) % 2 = 1) THEN 1 ELSE 0)
      BY <1>2, <1>3, <3>1 DEF Rounded, RoundedKept, Kept
    <3>3. 2 * full <= (2 * n + 1) * (2 * p)
      BY <3>2, SMT
    <3>4. QED
      BY <3>1, <3>3
  <2>4. QED
    BY <1>1, <1>2, <1>6, <2>1, <2>2, <2>3 DEF NotBelow
<1>7. QED
  BY <1>5, <1>6

\* So the scale of a block is at most a seventh below its maximum over six, or
\* half a subnormal unit and the rounding to BF16 before it.
Covers(v, n, g) == v \in Nat /\ (n <= 14 * (v * g) \/ 32 * n <= 384 * (v * g) + 195 * g)

\* The half unit above a pattern of exponent k and mantissa w, against the
\* value v of its code.
CodeReaches(k, w, v) ==
  \/ ((2 * w + 1) * 6) * Pow(k) <= 3584 * v
  \/ ((2 * w + 1) * 6) * Pow(k) <= 3072 * v + 1560

LEMMA CodeAbove ==
  ASSUME NEW k \in 0 .. 9, NEW w \in 128 .. 256, NEW v \in Nat, NEW t \in -3 .. 8,
         NEW full \in 128 .. 255, NotBelow(v, t, full),
         w < 256 => t = k - 3 /\ full = w,
         w = 256 => t = k - 2 /\ full = 128
  PROVE  CodeReaches(k, w, v)
<1>1. CASE w < 256 /\ t < 1
  <2>1. 2 * w <= (2 * v + 1) * Pow(5 - t) /\ (k = 0 \/ k = 1 \/ k = 2 \/ k = 3) /\ t = k - 3
    BY <1>1 DEF NotBelow
  <2>2. QED
    BY <1>1, <2>1, Powers, SMT DEF CodeReaches
<1>2. CASE w < 256 /\ t >= 1
  <2>1. PICK r \in 8 .. 16 : v = r * Pow(k - 4) /\ w <= 16 * r + 8
    BY <1>2 DEF NotBelow
  <2>2. k = 4 \/ k = 5 \/ k = 6 \/ k = 7 \/ k = 8 \/ k = 9
    BY <1>2
  <2>3. QED
    BY <1>2, <2>1, <2>2, Powers, SMT DEF CodeReaches
<1>3. CASE w = 256 /\ t < 1
  <2>1. 2 * 128 <= (2 * v + 1) * Pow(5 - t) /\ (k = 0 \/ k = 1 \/ k = 2) /\ t = k - 2
    BY <1>3 DEF NotBelow
  <2>2. QED
    BY <1>3, <2>1, Powers, SMT DEF CodeReaches
<1>4. CASE w = 256 /\ t >= 1
  <2>1. PICK r \in 8 .. 16 : v = r * Pow(k - 3)
    BY <1>4 DEF NotBelow
  <2>2. k = 3 \/ k = 4 \/ k = 5 \/ k = 6 \/ k = 7 \/ k = 8 \/ k = 9
    BY <1>4
  <2>3. QED
    BY <1>4, <2>1, <2>2, Powers, SMT DEF CodeReaches
<1>5. QED
  BY <1>1, <1>2, <1>3, <1>4

LEMMA AboveCovers ==
  ASSUME NEW g \in Nat \ {0}, NEW n \in Int, NEW k \in 0 .. 9, NEW w \in 128 .. 256, NEW v \in Nat,
         CodeReaches(k, w, v), 256 * n <= (2 * w + 1) * ((6 * g) * Pow(k))
  PROVE  Covers(v, n, g)
<1>1. PICK p \in Nat : Pow(k) = p
  BY PowPositive
<1>2. PICK m \in Nat : ((2 * w + 1) * 6) * p = m
  OBVIOUS
<1>3. (2 * w + 1) * ((6 * g) * p) = m * g
  BY <1>2
<1>4. CASE m <= 3584 * v
  <2>1. 0 <= (3584 * v - m) * g /\ (3584 * v - m) * g = 3584 * (v * g) - m * g
    BY <1>4, TimesMonotone
  <2>2. QED
    BY <1>1, <1>3, <2>1 DEF Covers
<1>5. CASE m <= 3072 * v + 1560
  <2>1. 0 <= (3072 * v + 1560 - m) * g
        /\ (3072 * v + 1560 - m) * g = 3072 * (v * g) + 1560 * g - m * g
    BY <1>5, TimesMonotone
  <2>2. QED
    BY <1>1, <1>3, <2>1 DEF Covers
<1>6. QED
  BY <1>1, <1>2, <1>4, <1>5 DEF CodeReaches

\* The scale byte of a block whose largest magnitude is n, and what its
\* elements decode to, in parts of a unit.
ScaleFor(c, n, g)  == c \in 0 .. 127 /\ Covers(e4m3_decode(c), n, g)
CodeFor(x, c, g)   == fp32_to_nvfp4(x, scale_decoded(c) * g)
ElementOf(x, c, g) == nvfp4_decode_table(CodeFor(x, c, g)) * (e4m3_decode(c) * g)

\* The byte of a positive pattern.
PositiveFields(b, e, m) == b \div 32768 = 0 /\ (b \div 128) % 256 = e /\ b % 128 = m

LEMMA PatternCode ==
  ASSUME NEW b \in Nat, NEW e \in 0 .. 127, NEW m \in 0 .. 127, PositiveFields(b, e, m)
  PROVE  /\ e <= 116 => bf16_to_e4m3(b) = 0
         /\ 117 <= e => /\ bf16_to_e4m3(b) \in 0 .. 127
                        /\ NotBelow(e4m3_decode(bf16_to_e4m3(b)), e - 120, 128 + m)
<1>1. bf16_to_e4m3(b) = CByFields(0, e, m)
  BY CFormIs DEF PositiveFields
<1>2. CByFields(0, e, m) = 0 * 128 + CodeOf(e, m)
  BY CQuantizes
<1>3. CASE e <= 116
  <2>1. CodeOf(e, m) = 0
    BY <1>3 DEF CodeOf
  <2>2. QED
    BY <1>1, <1>2, <1>3, <2>1
<1>4. CASE 117 <= e
  <2>2. CodeOf(e, m) \in 0 .. 127 /\ NotBelow(e4m3_decode(CodeOf(e, m)), e - 120, 128 + m)
    <3>1. e \in 117 .. 127
      BY <1>4
    <3>2. QED
      BY <3>1, CodeValue
  <2>3. 0 * 128 + CodeOf(e, m) = CodeOf(e, m)
    BY <2>2
  <2>4. QED
    BY <1>1, <1>2, <1>4, <2>2, <2>3
<1>5. QED
  BY <1>3, <1>4

LEMMA ScaleOfQuotient ==
  ASSUME NEW g \in Nat \ {0}, NEW n, QuotientRange(n, 6 * g)
  PROVE  ScaleFor(bf16_to_e4m3(QuotientBf16(n, 6 * g, 10)), n, g)
<1>0. n \in Int /\ 1 <= n
  BY DEF QuotientRange
<1>1. PICK k \in -16 .. 9, w \in 128 .. 256 : IsQuotient(n, 6 * g, k, w)
  BY QuotientIs, Zenon
<1>2. PICK b \in Nat : (116 + k) * 128 + w = b
  OBVIOUS
<1>bounds. /\ QuotientBf16(n, 6 * g, 10) = b
           /\ 0 <= k => 256 * n <= (2 * w + 1) * ((6 * g) * Pow(k))
           /\ k < 0 => n < 6 * g
  BY <1>1, <1>2 DEF IsQuotient
<1>3. PICK e \in 101 .. 127, m \in 0 .. 127 :
        /\ b \div 32768 = 0 /\ (b \div 128) % 256 = e /\ b % 128 = m
        /\ w < 256 => e = 117 + k /\ 128 + m = w
        /\ w = 256 => e = 118 + k /\ m = 0
  <2>1. CASE w < 256
    BY <1>2, <2>1
  <2>2. CASE w = 256
    BY <1>2, <2>2
  <2>3. QED
    BY <2>1, <2>2
<1>4. PICK c : bf16_to_e4m3(b) = c
  OBVIOUS
<1>5. /\ e <= 116 => c = 0
      /\ 117 <= e => c \in 0 .. 127 /\ NotBelow(e4m3_decode(c), e - 120, 128 + m)
  <2>1. e \in 0 .. 127
    OBVIOUS
  <2>2. PositiveFields(b, e, m)
    BY <1>3 DEF PositiveFields
  <2>3. QED
    BY <1>4, <2>1, <2>2, PatternCode
<1>6. CASE e <= 116
  <2>1. c = 0 /\ e4m3_decode(c) = 0
    BY <1>5, <1>6, DecodedSmall
  <2>2. n < 6 * g
    BY <1>0, <1>bounds, <1>3, <1>6
  <2>3. Covers(0, n, g)
    BY <1>0, <2>2 DEF Covers
  <2>4. QED
    BY <1>bounds, <1>4, <2>1, <2>3 DEF ScaleFor
<1>7. CASE 117 <= e
  <2>1. PICK v \in Nat : e4m3_decode(c) = v
    BY <1>5, <1>7 DEF NotBelow
  <2>2. Covers(v, n, g)
    <3>1. CASE k < 0
      <4>1. 0 <= v * g
        BY TimesMonotone
      <4>2. PICK vg \in Int : v * g = vg
        OBVIOUS
      <4>3. QED
        BY <1>0, <1>bounds, <3>1, <4>1, <4>2 DEF Covers
    <3>2. CASE 0 <= k
      <4>1. PICK t \in -3 .. 8, full \in 128 .. 255 : e - 120 = t /\ 128 + m = full
        BY <1>7
      <4>2. NotBelow(v, t, full)
        BY <1>5, <1>7, <2>1, <4>1
      <4>3. k \in 0 .. 9
        BY <3>2
      <4>4. (w < 256 => t = k - 3 /\ full = w) /\ (w = 256 => t = k - 2 /\ full = 128)
        BY <1>3, <4>1
      <4>5. CodeReaches(k, w, v)
        BY <4>2, <4>3, <4>4, CodeAbove
      <4>6. 256 * n <= (2 * w + 1) * ((6 * g) * Pow(k))
        BY <1>bounds, <3>2
      <4>7. QED
        BY <1>0, <4>3, <4>5, <4>6, AboveCovers, Zenon
    <3>3. QED
      BY <3>1, <3>2
  <2>3. QED
    BY <1>bounds, <1>4, <1>5, <1>7, <2>1, <2>2 DEF ScaleFor
<1>8. QED
  BY <1>6, <1>7

\* The byte of 1/64 decodes to at least eight units of 2^-9.
LEMMA ScaleOfGuard ==
  ASSUME NEW g \in Nat \ {0}, NEW n \in Int, n <= g
  PROVE  ScaleFor(bf16_to_e4m3(Bf16Pattern(1, 6)), n, g)
<1>1. 1 \in Nat /\ 0 \in 0 .. 7 /\ 0 \in 0 .. 20 /\ 6 \in Int /\ Pow(0) <= 1 /\ 1 < 2 * Pow(0)
  BY Powers
<1>2. Bf16Pattern(1, 6) = 15488
  <2>1. Bf16Pattern(1 * Pow(0), 6) = (126 + 0 + 0 - 6) * 128 + 1 * Pow(7 - 0)
    BY <1>1, PatternOf
  <2>2. 1 * Pow(0) = 1 /\ 7 - 0 = 7 /\ Pow(7) = 128
    BY Powers, SMT
  <2>3. QED
    BY <2>1, <2>2, SMT
<1>3. PICK b \in Nat, e \in Int, m \in 0 .. 127 :
        /\ b = 15488 /\ e = 121 /\ m = 0
        /\ b \div 32768 = 0 /\ (b \div 128) % 256 = e /\ b % 128 = m
  BY SMT
<1>4. PICK c \in 0 .. 127 : c = bf16_to_e4m3(b) /\ NotBelow(e4m3_decode(c), e - 120, 128 + m)
  <2>1. e \in 0 .. 127 /\ 117 <= e
    BY <1>3, SMT
  <2>2. PositiveFields(b, e, m)
    BY <1>3 DEF PositiveFields
  <2>3. /\ bf16_to_e4m3(b) \in 0 .. 127
        /\ NotBelow(e4m3_decode(bf16_to_e4m3(b)), e - 120, 128 + m)
    BY <2>1, <2>2, PatternCode
  <2>4. QED
    BY <2>3
<1>5. PICK v \in Nat, t \in Int, full \in Int :
        v = e4m3_decode(c) /\ t = e - 120 /\ full = 128 + m /\ NotBelow(v, t, full)
  BY <1>4 DEF NotBelow
<1>6. t = 1 /\ full = 128
  BY <1>3, <1>5
<1>7. 8 <= v
  <2>1. PICK r \in 8 .. 16 : v = r * Pow(t - 1)
    BY <1>5, <1>6 DEF NotBelow
  <2>2. QED
    BY <1>6, <2>1, Powers, SMT
<1>8. 0 <= (v - 1) * g /\ (v - 1) * g = v * g - g
  BY <1>7, TimesMonotone
<1>9. Covers(v, n, g)
  BY <1>8 DEF Covers
<1>10. QED
  BY <1>2, <1>3, <1>4, <1>5, <1>9 DEF ScaleFor

LEMMA ScaleIsFor ==
  ASSUME NEW g \in Nat \ {0}, NEW n, InRange(n, g)
  PROVE  ScaleFor(scale_byte(n, g), n, g)
<1> n \in Int /\ 0 <= n /\ n <= 4000 * g
  BY DEF InRange
<1>1. CASE n > ZeroGuard(g)
  <2>1. 1 <= n /\ g <= 9766 * n
    BY <1>1, GuardIs
  <2>2. QuotientRange(n, 6 * g)
    BY <2>1, SMT DEF QuotientRange
  <2>3. scale_byte(n, g) = bf16_to_e4m3(QuotientBf16(n, 6 * g, 10))
    BY <1>1 DEF scale_byte
  <2>4. QED
    BY <2>2, <2>3, ScaleOfQuotient
<1>2. CASE ~(n > ZeroGuard(g))
  <2>1. n <= g
    BY <1>2, GuardIs
  <2>2. scale_byte(n, g) = bf16_to_e4m3(Bf16Pattern(1, 6))
    BY <1>2 DEF scale_byte
  <2>3. QED
    BY <2>1, <2>2, ScaleOfGuard
<1>3. QED
  BY <1>1, <1>2

LEMMA ElementDecodes ==
  ASSUME NEW g \in Nat \ {0}, NEW n \in Int, NEW c, ScaleFor(c, n, g), NEW x \in Int, Size(x) <= n
  PROVE  /\ CodeFor(x, c, g) \in 0 .. 15
         /\ \/ Size(x - ElementOf(x, c, g)) <= 2 * (e4m3_decode(c) * g)
            \/ 32 * Size(x - ElementOf(x, c, g)) <= 195 * g
<1>1. PICK v \in Nat : e4m3_decode(c) = v
  BY DEF ScaleFor, Covers
<1>2. PICK u \in Nat \ {0} : scale_decoded(c) = u /\ (v > 0 => u = v)
  BY <1>1 DEF scale_decoded
<1>3. PICK s \in Nat \ {0}, vg \in Nat : u * g = s /\ v * g = vg /\ (v > 0 => vg = s)
  <2>1. u * g \in Nat \ {0} /\ v * g \in Nat
    OBVIOUS
  <2>2. QED
    BY <1>2, <2>1
<1>4. CodeFor(x, c, g) \in 0 .. 15 /\ nvfp4_decode_table(CodeFor(x, c, g)) \in Int
  BY <1>2, <1>3, CodeDecoded, DecodedOrder DEF CodeFor
<1>5. n <= 14 * vg \/ 32 * n <= 384 * vg + 195 * g
  BY <1>1, <1>3 DEF ScaleFor, Covers
<1>6. CASE v > 0
  <2>1. ElementOf(x, c, g) = nvfp4_decode_table(fp32_to_nvfp4(x, s)) * s
    BY <1>1, <1>2, <1>3, <1>6 DEF ElementOf, CodeFor
  <2>2. PICK t \in Int : /\ ElementOf(x, c, g) = t
                         /\ Size(x - t) <= 2 * s \/ Size(x - t) <= Size(x) - 12 * s
    <3>1. LET t == nvfp4_decode_table(fp32_to_nvfp4(x, s)) * s
          IN  t \in Int /\ (Size(x - t) <= 2 * s \/ Size(x - t) <= Size(x) - 12 * s)
      BY DecodedNear
    <3>2. QED
      BY <2>1, <3>1
  <2>3. Size(x - t) \in Int /\ Size(x) \in Int
    BY DEF Size
  <2>4. e4m3_decode(c) * g = s
    BY <1>1, <1>3, <1>6
  <2>5. Size(x - t) <= 2 * s \/ 32 * Size(x - t) <= 195 * g
    BY <1>3, <1>5, <1>6, <2>2, <2>3
  <2>6. QED
    BY <1>4, <2>2, <2>4, <2>5
<1>7. CASE v = 0
  <2>1. ElementOf(x, c, g) = 0
    BY <1>1, <1>4, <1>7 DEF ElementOf
  <2>2. vg = 0
    BY <1>3, <1>7
  <2>3. Size(x - 0) = Size(x) /\ Size(x) \in Int /\ 0 <= Size(x)
    BY DEF Size
  <2>4. 32 * Size(x) <= 195 * g
    BY <1>5, <2>2, <2>3
  <2>5. QED
    BY <1>4, <2>1, <2>3, <2>4
<1>8. QED
  BY <1>6, <1>7

LEMMA ElementsOrdered ==
  ASSUME NEW g \in Nat \ {0}, NEW n, NEW c, ScaleFor(c, n, g), NEW x \in Int, NEW y \in Int, x <= y
  PROVE  ElementOf(x, c, g) <= ElementOf(y, c, g)
<1>1. PICK v \in Nat : e4m3_decode(c) = v
  BY DEF ScaleFor, Covers
<1>2. PICK u \in Nat \ {0} : scale_decoded(c) = u
  BY <1>1 DEF scale_decoded
<1>3. PICK s \in Nat \ {0}, vg \in Nat : scale_decoded(c) * g = s /\ v * g = vg
  <2>1. u * g \in Nat \ {0} /\ v * g \in Nat
    OBVIOUS
  <2>2. QED
    BY <1>2, <2>1
<1>4. PICK a \in Int, b \in Int :
        nvfp4_decode_table(CodeFor(x, c, g)) = a /\ nvfp4_decode_table(CodeFor(y, c, g)) = b /\ a <= b
  BY <1>3, DecodedOrder DEF CodeFor
<1>5. 0 <= (b - a) * vg /\ (b - a) * vg = b * vg - a * vg
  BY <1>4, TimesMonotone
<1>6. QED
  BY <1>1, <1>3, <1>4, <1>5 DEF ElementOf
=============================================================================
