------------------------- MODULE NativeSoftmaxProofs -------------------------
(***************************************************************************)
(* For every number of heads, every number of rows that is a multiple of   *)
(* the strip, every VLMAX that holds a strip and every choice vsetvl may   *)
(* make, the three softmax loops cover each row and never use a value of   *)
(* the head before.                                                        *)
(***************************************************************************)
EXTENDS NativeSoftmax, TLAPS

ScoresOfHead == \A i \in Rows : S[i] = h
Summed == \A i \in Rows : sum[i] = 1 /\ P_fp32[i] = h

\* What holds in each of the five phases.
QkInv == pc = "qk" => s <= SEQ_LEN + 1 /\ \A i \in Rows : i < s => S[i] = h
MaxInv ==
  pc = "max" =>
    /\ ScoresOfHead
    /\ vlm = LANES /\ Multiple(s - 1) /\ s - 1 <= SEQ_LEN
    /\ \A i \in Rows : i < s => i \in seen
QuantInv ==
  pc = "quant" =>
    /\ Multiple(at - 1) /\ n > 0 /\ n + (at - 1) = SEQ_LEN
    /\ \A i \in Rows : i < at => P_fp8[i] = h
PvInv == pc = "pv" => s <= SEQ_LEN + 1
HeadInv == s >= 1 /\ (pc # "qk" => h <= N_HEADS)

IInv ==
  /\ TypeOK /\ HeadInv
  /\ QkInv /\ MaxInv /\ QuantInv /\ PvInv
  /\ MaxSeesEveryRow /\ SumExact /\ FreshWeights

-----------------------------------------------------------------------------
\* vsetvl grants at least one element, at most what was asked for and at
\* most VLMAX, and exactly what was asked for when it fits.
LEMMA VLengthsFacts ==
  ASSUME NEW avl \in Nat \ {0}, NEW vl \in VLengths(avl, VLMAX)
  PROVE  /\ vl \in Nat /\ 1 <= vl /\ vl <= avl /\ vl <= VLMAX
         /\ avl <= VLMAX => vl = avl
         /\ VLMAX < avl => vl = VLMAX \/ avl <= 2 * vl
BY ShapeAssumption DEF VLengths

\* Behind a whole number of strips that is not the end there is another
\* whole strip.
LEMMA StripFits ==
  ASSUME NEW x \in Nat, Multiple(x), x < SEQ_LEN
  PROVE  x + LANES <= SEQ_LEN /\ Multiple(x + LANES)
<1>1. PICK j \in 0 .. SEQ_LEN : x = j * LANES
  BY DEF Multiple
<1>2. PICK k \in 0 .. SEQ_LEN : SEQ_LEN = k * LANES
  BY StripsAssumption DEF Multiple
<1>3. j < k
  <2>1. SUFFICES ASSUME k <= j PROVE FALSE
    BY ShapeAssumption
  <2>2. k * LANES <= j * LANES
    BY <2>1, ShapeAssumption
  <2> QED  BY <2>2, <1>1, <1>2
<1>4. (j + 1) * LANES = x + LANES
  BY <1>1, ShapeAssumption
<1>5. (j + 1) * LANES <= k * LANES
  BY <1>3, ShapeAssumption
<1>6. j + 1 \in 0 .. SEQ_LEN
  BY <1>3, ShapeAssumption
<1> QED  BY <1>2, <1>4, <1>5, <1>6 DEF Multiple

\* A strip of the maximum is never shorter than the stride.
LEMMA StripIsLong ==
  ASSUME NEW x \in Nat, Multiple(x), x < SEQ_LEN,
         NEW vl \in VLengths(SEQ_LEN - x, VLMAX)
  PROVE  vl \in Nat /\ LANES <= vl /\ x + vl <= SEQ_LEN
<1>1. SEQ_LEN - x \in Nat \ {0}
  BY ShapeAssumption
<1>2. x + LANES <= SEQ_LEN /\ Multiple(x + LANES)
  BY StripFits
<1>3. VLMAX < SEQ_LEN - x => (x + LANES) + LANES <= SEQ_LEN
  BY <1>2, StripFits, ShapeAssumption
<1>4. /\ vl \in Nat /\ 1 <= vl /\ vl <= SEQ_LEN - x /\ vl <= VLMAX
      /\ SEQ_LEN - x <= VLMAX => vl = SEQ_LEN - x
      /\ VLMAX < SEQ_LEN - x => vl = VLMAX \/ SEQ_LEN - x <= 2 * vl
  BY <1>1, VLengthsFacts
<1> QED  BY <1>2, <1>3, <1>4, ShapeAssumption

\* The vector length of a strip request is the strip: it fits the group.
LEMMA StripGranted ==
  ASSUME NEW vl \in VLengths(LANES, VLMAX)
  PROVE  vl = LANES
BY ShapeAssumption DEF VLengths

\* No strip has been done at the start of a loop.
LEMMA NoStrips == Multiple(0)
<1>1. 0 \in 0 .. SEQ_LEN /\ 0 = 0 * LANES
  BY ShapeAssumption
<1> QED  BY <1>1 DEF Multiple

-----------------------------------------------------------------------------
\* The phases hold initially.
LEMMA InitIInv == Init => IInv
BY ShapeAssumption, SMT DEF Init, None, Rows, IInv, TypeOK, HeadInv, QkInv, MaxInv,
  QuantInv, PvInv, MaxSeesEveryRow, SumExact, FreshWeights

\* Writing the scores.
LEMMA QkInvariant ==
  ASSUME IInv, QkRow \/ StartMax
  PROVE  IInv'
<1> USE ShapeAssumption DEF IInv
<1>1. CASE QkRow
  <2>1. TypeOK'
    <3>1. h \in Nat /\ s \in Rows /\ S \in [Rows -> Nat]
      BY <1>1 DEF QkRow, TypeOK, HeadInv, Rows
    <3>2. S' \in [Rows -> Nat]
      BY <1>1, <3>1 DEF QkRow
    <3>3. s' \in Nat /\ UNCHANGED <<pc, h, n, at, vlm, seen, P_fp32, P_fp8, sum, used>>
      BY <1>1, <3>1 DEF QkRow, Rows
    <3> QED  BY <3>2, <3>3 DEF TypeOK
  <2>2. HeadInv' /\ QkInv' /\ PvInv'
    BY <1>1 DEF QkRow, TypeOK, HeadInv, QkInv, PvInv, Rows
  <2>3. MaxInv' /\ QuantInv' /\ MaxSeesEveryRow' /\ SumExact' /\ FreshWeights'
    BY <1>1 DEF QkRow, MaxInv, QuantInv, MaxSeesEveryRow, SumExact, FreshWeights
  <2> QED  BY <2>1, <2>2, <2>3
<1>2. CASE StartMax
  <2>1. vlm' = LANES /\ s' = 1 /\ pc' = "max" /\ pc = "qk" /\ h <= N_HEADS
    <3>1. h <= N_HEADS
      BY <1>2 DEF StartMax, TypeOK
    <3> QED  BY <1>2, <3>1, StripGranted DEF StartMax, MaxRequest
  <2>2. (s - 1)' = 0
    BY <2>1
  <2>3. Multiple(s - 1)'
    BY <2>2, NoStrips DEF Multiple
  <2>4. TypeOK'
    BY <1>2, <2>1 DEF StartMax, TypeOK
  <2>5. HeadInv' /\ QkInv' /\ PvInv'
    BY <2>1, <1>2 DEF StartMax, HeadInv, QkInv, PvInv
  <2>6. ScoresOfHead'
    BY <1>2 DEF StartMax, TypeOK, QkInv, ScoresOfHead, Rows
  <2>7. MaxInv'
    BY <2>1, <2>2, <2>3, <2>6 DEF MaxInv, Rows
  <2>8. QuantInv' /\ MaxSeesEveryRow' /\ SumExact' /\ FreshWeights'
    BY <2>1 DEF QuantInv, MaxSeesEveryRow, SumExact, FreshWeights
  <2> QED  BY <2>4, <2>5, <2>7, <2>8
<1> QED  BY <1>1, <1>2

\* The strips of the maximum.
LEMMA MaxInvariant ==
  ASSUME IInv, MaxStrip \/ StartExp
  PROVE  IInv'
<1> USE ShapeAssumption DEF IInv
<1>1. CASE MaxStrip
  <2>1. PICK vl \in VLengths(SEQ_LEN - (s - 1), VLMAX) : seen' = seen \cup s .. s + vl - 1
    BY <1>1 DEF MaxStrip
  <2>2. /\ pc = "max" /\ pc' = "max" /\ s' = s + LANES /\ s \in Nat \ {0}
        /\ s - 1 \in Nat /\ Multiple(s - 1) /\ s - 1 < SEQ_LEN
    BY <1>1 DEF MaxStrip, TypeOK, HeadInv, MaxInv
  <2>3. vl \in Nat /\ LANES <= vl /\ (s - 1) + vl <= SEQ_LEN
    BY <2>1, <2>2, StripIsLong
  <2>4. (s - 1) + LANES <= SEQ_LEN /\ Multiple((s - 1) + LANES)
    BY <2>2, StripFits
  <2>5. s' - 1 = (s - 1) + LANES
    BY <2>2
  <2>6. Multiple(s - 1)'
    BY <2>4, <2>5 DEF Multiple
  <2>7. TypeOK'
    <3>1. seen' \subseteq Rows
      BY <2>1, <2>2, <2>3 DEF TypeOK, Rows
    <3> QED  BY <1>1, <2>2, <3>1 DEF MaxStrip, TypeOK
  <2>8. HeadInv' /\ QkInv' /\ PvInv'
    BY <1>1, <2>2 DEF MaxStrip, HeadInv, QkInv, PvInv
  <2>9. MaxInv'
    <3>1. ScoresOfHead' /\ vlm' = LANES /\ (s - 1)' <= SEQ_LEN
      BY <1>1, <2>2, <2>4, <2>5 DEF MaxStrip, MaxInv, ScoresOfHead
    <3>2. \A i \in Rows : i < s' => i \in seen'
      BY <2>1, <2>2, <2>3 DEF MaxInv, Rows
    <3> QED  BY <2>6, <3>1, <3>2 DEF MaxInv, Rows
  <2>10. QuantInv' /\ MaxSeesEveryRow' /\ SumExact' /\ FreshWeights'
    BY <2>2 DEF QuantInv, MaxSeesEveryRow, SumExact, FreshWeights
  <2> QED  BY <2>7, <2>8, <2>9, <2>10
<1>2. CASE StartExp
  <2>1. pc = "max" /\ pc' = "exp" /\ n' = SEQ_LEN /\ at' = 1 /\ sum' = None
    BY <1>2 DEF StartExp, SumStart
  <2>2. TypeOK'
    BY <1>2, <2>1 DEF StartExp, TypeOK, None
  <2>3. HeadInv' /\ QkInv' /\ MaxInv' /\ QuantInv' /\ PvInv' /\ FreshWeights'
    BY <1>2, <2>1 DEF StartExp, HeadInv, QkInv, MaxInv, QuantInv, PvInv, FreshWeights
  <2>4. MaxSeesEveryRow'
    <3>1. \A i \in Rows : i < s
      BY <1>2 DEF StartExp, TypeOK, Rows
    <3>2. seen = Rows
      BY <2>1, <3>1 DEF TypeOK, MaxInv
    <3> QED  BY <1>2, <2>1, <3>2 DEF StartExp, MaxInv, ScoresOfHead, MaxSeesEveryRow, Rows
  <2>5. SumExact'
    BY <2>1 DEF SumExact, None, Rows
  <2> QED  BY <2>2, <2>3, <2>4, <2>5
<1> QED  BY <1>1, <1>2

\* The exponential loop.
LEMMA ExpInvariant ==
  ASSUME IInv, ExpStrip
  PROVE  IInv'
<1> USE ShapeAssumption DEF IInv
<1>1. /\ pc = "exp" /\ n \in Nat \ {0} /\ n + (at - 1) = SEQ_LEN /\ at \in 1 .. SEQ_LEN
      /\ h \in Nat /\ UNCHANGED <<h, s, vlm, seen, S, P_fp8, used>>
  BY DEF ExpStrip, TypeOK, SumExact
<1>2. PICK t0 \in VLengths(n, VLMAX) :
        /\ P_fp32' = [i \in Rows |-> IF i \in at .. at + t0 - 1 THEN S[i] ELSE P_fp32[i]]
        /\ sum' = [i \in Rows |-> IF i \in at .. at + t0 - 1 THEN sum[i] + 1 ELSE sum[i]]
        /\ IF n - t0 # 0
           THEN at' = at + t0 /\ n' = n - t0 /\ pc' = pc
           ELSE at' = 1 /\ n' = SEQ_LEN /\ pc' = "quant"
  BY DEF ExpStrip
<1>3. t0 \in Nat /\ 1 <= t0 /\ t0 <= n
  BY <1>1, <1>2, VLengthsFacts
<1>4. /\ P_fp32' \in [Rows -> Nat] /\ sum' \in [Rows -> Nat]
      /\ \A i \in Rows : i < at + t0 => P_fp32'[i] = h /\ sum'[i] = 1
      /\ \A i \in Rows : i >= at + t0 => sum'[i] = 0
  <2>1. /\ S \in [Rows -> Nat] /\ P_fp32 \in [Rows -> Nat] /\ sum \in [Rows -> Nat]
        /\ \A i \in Rows : S[i] = h
        /\ \A i \in Rows : sum[i] = IF i < at THEN 1 ELSE 0
        /\ \A i \in Rows : i < at => P_fp32[i] = h
    BY <1>1 DEF TypeOK, SumExact, MaxSeesEveryRow
  <2>2. P_fp32' \in [Rows -> Nat] /\ sum' \in [Rows -> Nat]
    BY <1>2, <2>1
  <2>3. ASSUME NEW i \in Rows
        PROVE  /\ i < at + t0 => P_fp32'[i] = h /\ sum'[i] = 1
               /\ i >= at + t0 => sum'[i] = 0
    <3>1. i \in Nat /\ (i \in at .. at + t0 - 1 <=> at <= i /\ i < at + t0)
      BY <1>1, <1>3 DEF Rows
    <3>2. /\ P_fp32'[i] = IF i \in at .. at + t0 - 1 THEN S[i] ELSE P_fp32[i]
          /\ sum'[i] = IF i \in at .. at + t0 - 1 THEN sum[i] + 1 ELSE sum[i]
      BY <1>2
    <3> QED  BY <1>1, <1>3, <2>1, <3>1, <3>2
  <2> QED  BY <2>2, <2>3
<1>5. CASE n - t0 # 0
  <2>1. at' = at + t0 /\ n' = n - t0 /\ pc' = "exp" /\ n - t0 > 0
    BY <1>1, <1>2, <1>3, <1>5
  <2>2. TypeOK'
    BY <1>1, <1>3, <1>4, <2>1 DEF TypeOK
  <2>3. HeadInv' /\ QkInv' /\ MaxInv' /\ QuantInv' /\ PvInv' /\ FreshWeights'
    BY <1>1, <2>1 DEF HeadInv, QkInv, MaxInv, QuantInv, PvInv, FreshWeights
  <2>4. MaxSeesEveryRow'
    BY <1>1, <2>1 DEF MaxSeesEveryRow, Rows
  <2>5. SumExact'
    BY <1>1, <1>3, <1>4, <2>1 DEF SumExact, Rows
  <2> QED  BY <2>2, <2>3, <2>4, <2>5
<1>6. CASE n - t0 = 0
  <2>1. at' = 1 /\ n' = SEQ_LEN /\ pc' = "quant" /\ at + t0 = SEQ_LEN + 1
    BY <1>1, <1>2, <1>3, <1>6
  <2>2. (at - 1)' = 0
    BY <2>1
  <2>3. Multiple(at - 1)'
    BY <2>2, NoStrips DEF Multiple
  <2>4. TypeOK'
    BY <1>1, <1>4, <2>1 DEF TypeOK
  <2>5. HeadInv' /\ QkInv' /\ MaxInv' /\ PvInv' /\ FreshWeights'
    BY <1>1, <2>1 DEF HeadInv, QkInv, MaxInv, PvInv, FreshWeights
  <2>6. MaxSeesEveryRow'
    BY <1>1, <2>1 DEF MaxSeesEveryRow, Rows
  <2>7. SumExact'
    <3>1. \A i \in Rows : i < at + t0
      BY <2>1 DEF Rows
    <3> QED  BY <1>1, <1>4, <2>1, <3>1 DEF SumExact
  <2>8. QuantInv'
    BY <2>1, <2>2, <2>3 DEF QuantInv, Rows
  <2> QED  BY <2>4, <2>5, <2>6, <2>7, <2>8
<1> QED  BY <1>3, <1>5, <1>6

\* The weights loop.
LEMMA QuantInvariant ==
  ASSUME IInv, QuantStrip
  PROVE  IInv'
<1> USE ShapeAssumption DEF IInv, TypeOK, HeadInv, QkInv, MaxInv, QuantInv, PvInv,
      MaxSeesEveryRow, SumExact, FreshWeights, ScoresOfHead, Rows
<1>1. PICK vl \in VLengths(LANES, VLMAX) :
        P_fp8' = [i \in Rows |-> IF i \in at .. at + vl - 1 THEN P_fp32[i] ELSE P_fp8[i]]
  BY DEF QuantStrip
<1>2. vl = LANES
  BY <1>1, StripGranted
<1>3. at - 1 \in Nat /\ Multiple(at - 1) /\ at - 1 < SEQ_LEN /\ n + (at - 1) = SEQ_LEN
  BY DEF QuantStrip
<1>4. (at - 1) + LANES <= SEQ_LEN /\ Multiple((at - 1) + LANES)
  BY <1>3, StripFits
<1>5. at' = at + LANES /\ n' = n - LANES
  BY DEF QuantStrip, QuantStride, QuantEnds
<1>6. at' - 1 = (at - 1) + LANES
  BY <1>3, <1>5
<1>7. Multiple(at - 1)'
  BY <1>4, <1>6 DEF Multiple
<1>8. P_fp8' \in [Rows -> Nat] /\ \A i \in Rows : i < at' => P_fp8'[i] = h
  BY <1>1, <1>2, <1>3, <1>5 DEF QuantStrip
<1>9. /\ at' \in 1 .. SEQ_LEN + 1 /\ n' \in 0 .. SEQ_LEN
      /\ n' + (at' - 1) = SEQ_LEN /\ (n' # 0 => n' > 0)
      /\ n' = 0 => at' = SEQ_LEN + 1
  BY <1>3, <1>4, <1>5
<1>10. CASE QuantEnds
  <2>1. pc' = "pv" /\ s' = 1 /\ UNCHANGED <<h, vlm, seen, S, P_fp32, sum, used>> /\ pc = "quant"
    BY <1>10 DEF QuantStrip
  <2>2. n - LANES = 0
    BY <1>10 DEF QuantEnds
  <2>3. \A i \in Rows : P_fp8'[i] = h
    BY <2>2, <1>5, <1>8, <1>9
  <2> QED  BY <2>1, <2>3, <1>8, <1>9
<1>11. CASE ~QuantEnds
  <2>1. UNCHANGED <<pc, s, h, vlm, seen, S, P_fp32, sum, used>> /\ pc = "quant"
    BY <1>11 DEF QuantStrip
  <2>2. n' # 0
    BY <1>5, <1>11 DEF QuantEnds
  <2> QED  BY <2>1, <2>2, <1>7, <1>8, <1>9
<1> QED  BY <1>10, <1>11

\* The weighted sum and the next head.
LEMMA PvInvariant ==
  ASSUME IInv, PvRow \/ FinishHead
  PROVE  IInv'
<1> USE ShapeAssumption DEF IInv, TypeOK, HeadInv, QkInv, MaxInv, QuantInv, PvInv,
      MaxSeesEveryRow, SumExact, FreshWeights, ScoresOfHead, Rows
<1>1. CASE PvRow
  BY <1>1 DEF PvRow
<1>2. CASE FinishHead
  BY <1>2 DEF FinishHead
<1> QED  BY <1>1, <1>2

\* Every step keeps the phases.
LEMMA NextIInv == IInv /\ [Next]_vars => IInv'
<1> SUFFICES ASSUME IInv, [Next]_vars PROVE IInv'
  OBVIOUS
<1>1. CASE Next
  BY <1>1, QkInvariant, MaxInvariant, ExpInvariant, QuantInvariant, PvInvariant DEF Next
<1>2. CASE UNCHANGED vars
  BY <1>2 DEF vars, IInv, TypeOK, HeadInv, QkInv, MaxInv, QuantInv, PvInv, Multiple,
    MaxSeesEveryRow, SumExact, FreshWeights, ScoresOfHead
<1> QED  BY <1>1, <1>2

\* The phases hold throughout.
LEMMA SpecIInv == Spec => []IInv
BY InitIInv, NextIInv, PTL DEF Spec

\* The pointers of both assembler loops stay inside the arrays.
THEOREM PointersInside == Spec => []TypeOK
<1>1. IInv => TypeOK
  BY DEF IInv
<1> QED  BY <1>1, SpecIInv, PTL

\* The maximum of every head is taken over all of its scores.
THEOREM MaxComplete == Spec => []MaxSeesEveryRow
<1>1. IInv => MaxSeesEveryRow
  BY DEF IInv
<1> QED  BY <1>1, SpecIInv, PTL

\* Every exponential is stored and added to the sum exactly once.
THEOREM SumComplete == Spec => []SumExact
<1>1. IInv => SumExact
  BY DEF IInv
<1> QED  BY <1>1, SpecIInv, PTL

\* Every weight that a row of V is multiplied with is of the current head.
THEOREM WeightsFresh == Spec => []FreshWeights
<1>1. IInv => FreshWeights
  BY DEF IInv
<1> QED  BY <1>1, SpecIInv, PTL
=============================================================================
