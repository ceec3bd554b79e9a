------------------------ MODULE TwoPassKernelProofs ------------------------
(***************************************************************************)
(* Proofs about the two-pass kernel, for every number of heads and rows,   *)
(* every head dimension that is a whole number of strips and every vector  *)
(* group that holds a strip, whatever vsetvl returns above it.             *)
(***************************************************************************)
EXTENDS TwoPassKernel, FiniteSetTheorems, WellFoundedInduction, TLAPS

\* x is a whole number of strips
Multiple(x) == \E k \in Nat : x = k * LANES

\* The build: HEAD_DIM is 64 or 128, a strip has 16 elements, VLEN >= 256.
Strips == Multiple(HEAD_DIM) /\ LANES <= VLMAX

\* Where the loops may be.
Loops ==
  /\ pc \in {"k_row", "dot", "max", "exp", "quant", "v_row", "fma"}
  /\ h \in Nat \ {0} /\ s \in Nat \ {0} /\ d \in Nat
  /\ pc # "k_row" /\ pc # "dot" => vlm = LANES
  /\ pc # "k_row" => h <= N_HEADS
  /\ pc = "k_row" => s <= SEQ_LEN + 1 /\ (s > 1 => h <= N_HEADS)
  /\ pc = "dot" => s <= SEQ_LEN
Shapes ==
  /\ score \in [Heads -> [Rows -> Scores]]
  /\ S \in [Rows -> Int]

\* The rows before the current one have their scores.
ScoresSoFar ==
  pc \in {"k_row", "dot"} => \A i \in Rows : i < s => S[i] = score[h][i]

\* Within a dot product the first LANES lanes hold the dimensions before d,
\* each of them once.
DotSoFar ==
  pc = "dot" =>
    /\ K_row = <<h, s>> /\ vl_max = LANES
    /\ Multiple(d) /\ d <= HEAD_DIM
    /\ vacc = [l \in Lanes |-> vacc[l]]
    /\ \A l \in 0 .. LANES - 1 : vacc[l] \subseteq 0 .. d - 1
    /\ \A x \in 0 .. d - 1 : \E l \in 0 .. LANES - 1 : x \in vacc[l]
    /\ \A l, m \in 0 .. LANES - 1 : \A x \in vacc[l] \cap vacc[m] : l = m

IInv == Loops /\ Shapes /\ ScoresSoFar /\ DotSoFar /\ ScoresOfThisHead

\* Behind a whole number of strips that is not the end is another whole strip.
LEMMA StripFits ==
  ASSUME NEW n \in Nat, Multiple(n), NEW x \in Nat, Multiple(x), x < n
  PROVE  x + LANES <= n /\ Multiple(x + LANES)
<1>1. PICK j \in Nat : x = j * LANES
  BY DEF Multiple
<1>2. PICK k \in Nat : n = k * LANES
  BY DEF Multiple
<1>3. j < k
  <2>1. SUFFICES ASSUME k <= j PROVE FALSE
    OBVIOUS
  <2>2. k * LANES <= j * LANES
    BY <2>1, ShapeAssumption
  <2>3. QED
    BY <2>2, <1>1, <1>2
<1>4. (j + 1) * LANES = x + LANES
  BY <1>1, ShapeAssumption
<1>5. (j + 1) * LANES <= k * LANES
  BY <1>3, ShapeAssumption
<1>6. QED
  BY <1>2, <1>4, <1>5 DEF Multiple

\* vsetvl grants a whole strip wherever a whole number of strips is left.
LEMMA StripGranted ==
  ASSUME Strips, NEW n \in Nat, Multiple(n), NEW x \in Nat, Multiple(x), x < n,
         NEW vl \in VLengths(n - x, VLMAX)
  PROVE  vl \in LANES .. VLMAX
<1>1. n - x \in Nat /\ LANES <= n - x
  BY StripFits, ShapeAssumption
<1>2. CASE n - x <= VLMAX
  BY <1>1, <1>2, ShapeAssumption DEF VLengths
<1>3. CASE VLMAX < n - x
  <2>1. x + LANES \in Nat /\ x + LANES < n /\ Multiple(x + LANES)
    BY <1>1, <1>3, StripFits, ShapeAssumption DEF Strips
  <2>2. (x + LANES) + LANES <= n
    BY <2>1, StripFits
  <2>3. 2 * LANES <= n - x
    BY <2>2, ShapeAssumption
  <2>4. QED
    BY <1>1, <1>3, <2>3, ShapeAssumption DEF VLengths, Strips
<1>4. QED
  BY <1>1, <1>2, <1>3, ShapeAssumption

\* Nothing done is a whole number of strips.
LEMMA NoStrips == Multiple(0)
<1>1. 0 \in Nat /\ 0 = 0 * LANES
  BY ShapeAssumption
<1>2. QED
  BY <1>1 DEF Multiple

\* The request for one strip.
LEMMA OneStrip ==
  ASSUME Strips, NEW vl \in VLengths(LANES, VLMAX)
  PROVE  vl = LANES
  BY ShapeAssumption DEF Strips, VLengths

\* No head has a score before its first row.
LEMMA InitInv == Init => IInv
<1> SUFFICES ASSUME Init PROVE IInv
  OBVIOUS
<1>1. Loops
  BY ShapeAssumption DEF Init, Loops
<1>2. Shapes
  BY ScoresAssumption DEF Init, Shapes, Garbage
<1>3. ScoresSoFar /\ DotSoFar /\ ScoresOfThisHead
  BY DEF Init, ScoresSoFar, DotSoFar, ScoresOfThisHead, Rows
<1>4. QED
  BY <1>1, <1>2, <1>3 DEF IInv

\* Dequantising the next row of K.
LEMMA KRowInv ==
  ASSUME Strips, IInv, KRow
  PROVE  IInv'
<1>1. /\ h \in Nat \ {0} /\ h <= N_HEADS /\ s \in Nat \ {0} /\ s <= SEQ_LEN
      /\ pc = "k_row" /\ pc' = "dot" /\ d' = 0 /\ UNCHANGED <<h, s, S, score>>
      /\ K_row' = <<h, s>> /\ vacc' = [l \in Lanes |-> {}]
  BY DEF IInv, Loops, KRow, KeyRow
<1>2. vl_max' = LANES
  BY OneStrip DEF KRow
<1>3. Multiple(0)
  BY NoStrips
<1>4. \A l \in 0 .. LANES - 1 : l \in Lanes
  BY ShapeAssumption DEF Lanes, Strips
<1>5. DotSoFar'
  BY <1>1, <1>2, <1>3, <1>4, ShapeAssumption DEF DotSoFar, Multiple
<1>6. QED
  BY <1>1, <1>5 DEF IInv, Loops, Shapes, ScoresSoFar, ScoresOfThisHead

\* One strip of the dot product.
LEMMA DotInv ==
  ASSUME Strips, IInv, Dot
  PROVE  IInv'
<1>1. /\ d \in Nat /\ d < HEAD_DIM /\ Multiple(d) /\ vl_max = LANES
      /\ pc = "dot" /\ UNCHANGED <<pc, h, s, S, score, K_row, vl_max>>
      /\ d' = d + LANES /\ LANES \in Nat \ {0}
  BY ShapeAssumption DEF IInv, Loops, DotSoFar, Dot
<1>2. d + LANES <= HEAD_DIM /\ Multiple(d + LANES)
  BY <1>1, StripFits, ShapeAssumption DEF Strips
<1>3. PICK vl \in VLengths(HEAD_DIM - d, VLMAX) :
        vacc' = [l \in Lanes |-> IF l < vl THEN vacc[l] \cup {d + l} ELSE vacc[l]]
  BY DEF Dot
<1>4. vl \in LANES .. VLMAX
  BY <1>1, StripGranted, ShapeAssumption DEF Strips
<1>5. \A l \in 0 .. LANES - 1 : vacc'[l] = vacc[l] \cup {d + l}
  BY <1>3, <1>4, ShapeAssumption DEF Lanes
<1>6. /\ \A l \in 0 .. LANES - 1 : vacc[l] \subseteq 0 .. d - 1
      /\ \A x \in 0 .. d - 1 : \E l \in 0 .. LANES - 1 : x \in vacc[l]
      /\ \A l, m \in 0 .. LANES - 1 : \A x \in vacc[l] \cap vacc[m] : l = m
  BY <1>1 DEF IInv, DotSoFar
<1>7. \A l \in 0 .. LANES - 1 : vacc'[l] \subseteq 0 .. d' - 1
  BY <1>1, <1>5, <1>6
<1>8. \A x \in 0 .. d' - 1 : \E l \in 0 .. LANES - 1 : x \in vacc'[l]
  <2> TAKE x \in 0 .. d' - 1
  <2>1. CASE x < d
    BY <1>1, <1>5, <1>6, <2>1
  <2>2. CASE ~(x < d)
    <3>1. x - d \in 0 .. LANES - 1 /\ d + (x - d) = x
      BY <1>1, <2>2
    <3>2. QED
      BY <1>5, <3>1
  <2>3. QED
    BY <2>1, <2>2
<1>9. \A l, m \in 0 .. LANES - 1 : \A x \in vacc'[l] \cap vacc'[m] : l = m
  <2> TAKE l, m \in 0 .. LANES - 1
  <2> TAKE x \in vacc'[l] \cap vacc'[m]
  <2>1. x \in vacc[l] => x # d + m
    BY <1>1, <1>6
  <2>2. x \in vacc[m] => x # d + l
    BY <1>1, <1>6
  <2>3. d + l = d + m => l = m
    BY <1>1
  <2>4. QED
    BY <1>5, <1>6, <2>1, <2>2, <2>3
<1>10. DotSoFar'
  <2>1. vacc' = [l \in Lanes |-> vacc'[l]]
    BY <1>3
  <2>2. Multiple(d')
    BY <1>1, <1>2
  <2>3. QED
    BY <1>1, <1>2, <1>7, <1>8, <1>9, <2>1, <2>2 DEF IInv, DotSoFar, Multiple
<1>11. QED
  BY <1>1, <1>10 DEF IInv, Loops, Shapes, ScoresSoFar, ScoresOfThisHead

\* The reduction: every dimension sits in exactly one of the lanes reduced.
LEMMA DotReduceInv ==
  ASSUME Strips, IInv, DotReduce
  PROVE  IInv'
<1>1. /\ d = HEAD_DIM /\ vl_max = LANES /\ LANES \in Nat \ {0}
      /\ pc = "dot" /\ pc' = "k_row" /\ s' = s + 1 /\ UNCHANGED <<h, d, score>>
      /\ h \in Nat \ {0} /\ h <= N_HEADS /\ s \in Nat \ {0} /\ s <= SEQ_LEN
      /\ K_row = <<h, s>>
  BY ShapeAssumption DEF IInv, Loops, DotSoFar, DotReduce
<1>2. \A x \in Dims : Reduced[x] = 1
  <2> TAKE x \in Dims
  <2> DEFINE holding == {l \in 0 .. vl_max - 1 : x \in vacc[l]}
  <2>1. PICK l \in 0 .. LANES - 1 : x \in vacc[l]
    BY <1>1 DEF IInv, DotSoFar, Dims
  <2>2. \A m \in 0 .. LANES - 1 : x \in vacc[m] => m = l
    BY <1>1, <2>1 DEF IInv, DotSoFar
  <2>3. holding = {l}
    BY <1>1, <2>1, <2>2
  <2>4. Cardinality(holding) = 1
    BY <2>3, FS_Singleton
  <2>5. QED
    BY <2>4 DEF Reduced
<1>3. S' = [S EXCEPT ![s] = score[h][s]]
  <2>1. S' = [S EXCEPT ![s] = IF \A x \in Dims : Reduced[x] = 1
                              THEN score[K_row[1]][K_row[2]] ELSE Garbage]
    BY DEF DotReduce
  <2>2. K_row[1] = h /\ K_row[2] = s
    BY <1>1
  <2>3. QED
    BY <1>2, <2>1, <2>2
<1>4. score[h][s] \in Int /\ s \in Rows /\ h \in Heads
  <2>1. s \in Rows /\ h \in Heads
    BY <1>1, ShapeAssumption DEF Rows, Heads
  <2>2. QED
    BY <2>1, ScoresAssumption DEF IInv, Shapes
<1>5. Loops'
  BY <1>1, ShapeAssumption DEF Loops
<1>6. Shapes'
  BY <1>1, <1>3, <1>4 DEF IInv, Shapes
<1>7. ScoresSoFar'
  <2> SUFFICES ASSUME NEW i \in Rows, i < s + 1 PROVE S'[i] = score[h][i]
    BY <1>1 DEF ScoresSoFar
  <2>1. i = s \/ i < s
    BY <1>1 DEF Rows
  <2>2. S'[i] = IF i = s THEN score[h][s] ELSE S[i]
    BY <1>3 DEF IInv, Shapes
  <2>3. QED
    BY <1>1, <2>1, <2>2 DEF IInv, ScoresSoFar
<1>8. QED
  BY <1>1, <1>5, <1>6, <1>7 DEF IInv, DotSoFar, ScoresOfThisHead

\* When the last row has its score, S is the row of scores of this head.
LEMMA StartMaxInv ==
  ASSUME Strips, IInv, StartMax
  PROVE  IInv'
<1>1. /\ h \in Nat \ {0} /\ h <= N_HEADS /\ s = SEQ_LEN + 1
      /\ pc = "k_row" /\ pc' = "max" /\ s' = 1 /\ UNCHANGED <<h, d, S, score>>
  BY ShapeAssumption DEF IInv, Loops, StartMax, scores
<1>2. vlm' = LANES
  BY OneStrip DEF StartMax
<1>3. S = score[h]
  <2>1. h \in Heads
    BY <1>1, ShapeAssumption DEF Heads
  <2>2. score[h] \in [Rows -> Scores] /\ S \in [Rows -> Int]
    BY <2>1 DEF IInv, Shapes
  <2>3. \A i \in Rows : S[i] = score[h][i]
    BY <1>1, ShapeAssumption DEF IInv, ScoresSoFar, Rows
  <2>4. QED
    BY <2>2, <2>3
<1>4. QED
  BY <1>1, <1>2, <1>3 DEF IInv, Loops, Shapes, ScoresSoFar, DotSoFar, ScoresOfThisHead

\* Behind the scores no step of the head changes them.
LEMMA SoftmaxInv ==
  ASSUME Strips, IInv,
         \/ MaxStrip \/ StartExp \/ ExpRow \/ StartQuant \/ QuantRow
         \/ StartPV \/ VRow \/ Fma \/ RowAdded
  PROVE  IInv'
<1>1. CASE MaxStrip
  <2>1. vlm \in Nat
    BY <1>1, ShapeAssumption DEF IInv, Loops, MaxStrip
  <2>2. QED
    BY <1>1, <2>1 DEF MaxStrip, scores, IInv, Loops, Shapes, ScoresSoFar, DotSoFar,
                      ScoresOfThisHead
<1>2. CASE StartExp \/ ExpRow
  BY <1>2 DEF StartExp, ExpRow, scores, IInv, Loops, Shapes, ScoresSoFar, DotSoFar,
              ScoresOfThisHead
<1>3. CASE StartQuant \/ QuantRow
  BY <1>3 DEF StartQuant, QuantRow, scores, IInv, Loops, Shapes, ScoresSoFar, DotSoFar,
              ScoresOfThisHead
<1>4. CASE StartPV \/ VRow \/ RowAdded
  BY <1>4 DEF StartPV, VRow, RowAdded, scores, IInv, Loops, Shapes, ScoresSoFar, DotSoFar,
              ScoresOfThisHead
<1>5. CASE Fma
  <2>1. vlm \in Nat /\ d' \in Nat
    BY <1>5, ShapeAssumption DEF IInv, Loops, Fma
  <2>2. pc = "fma" /\ UNCHANGED <<score, pc, h, s, vlm, S>>
    BY <1>5 DEF Fma, scores
  <2>3. QED
    BY <2>1, <2>2 DEF IInv, Loops, Shapes, ScoresSoFar, DotSoFar, ScoresOfThisHead
<1>6. QED
  BY <1>1, <1>2, <1>3, <1>4, <1>5

\* The next head starts with its first row.
LEMMA StoreInv ==
  ASSUME Strips, IInv, Store
  PROVE  IInv'
<1>1. /\ h' = h + 1 /\ s' = 1 /\ pc = "v_row" /\ pc' = "k_row"
      /\ UNCHANGED <<score, S, d>>
  BY DEF Store, scores
<1>2. Loops'
  BY <1>1, ShapeAssumption DEF IInv, Loops
<1>3. ScoresSoFar'
  BY <1>1 DEF ScoresSoFar, Rows
<1>4. QED
  BY <1>1, <1>2, <1>3 DEF IInv, Shapes, DotSoFar, ScoresOfThisHead

\* Every step of the kernel keeps the scores invariant.
LEMMA NextInv ==
  ASSUME Strips
  PROVE  IInv /\ [Next]_vars => IInv'
<1> SUFFICES ASSUME IInv, [Next]_vars PROVE IInv'
  OBVIOUS
<1>1. CASE Next
  BY <1>1, KRowInv, DotInv, DotReduceInv, StartMaxInv, SoftmaxInv, StoreInv DEF Next
<1>2. CASE UNCHANGED vars
  BY <1>2 DEF vars, loops, scores, IInv, Loops, Shapes, ScoresSoFar, DotSoFar,
              ScoresOfThisHead
<1>3. QED
  BY <1>1, <1>2

\* Whenever the softmax loops of bench_fa_mixed_rvv.c read S, it holds the
\* scores of the current head, each over every dimension exactly once: for
\* any number of heads and rows and any head dimension of whole strips.
THEOREM ScoresRight ==
  ASSUME Strips
  PROVE  Spec => []ScoresOfThisHead
<1>1. IInv => ScoresOfThisHead
  BY DEF IInv
<1>2. QED
  BY InitInv, NextInv, <1>1, PTL DEF Spec

-----------------------------------------------------------------------------
\* A set of integers with an upper bound has a largest element.
LEMMA LargestFacts ==
  ASSUME NEW T \in SUBSET Int, T # {}, NEW c \in Int, \A t \in T : t <= c
  PROVE  LargestOf(T) \in T /\ \A t \in T : t <= LargestOf(T)
<1> DEFINE gaps == {c - t : t \in T}
<1>1. gaps \subseteq Nat /\ gaps # {}
  <2>1. \A t \in T : c - t \in Nat
    OBVIOUS
  <2>2. PICK t \in T : TRUE
    OBVIOUS
  <2>3. c - t \in gaps
    BY <2>2
  <2>4. QED
    BY <2>1, <2>3
<1> DEFINE R == OpToRel(<, Nat)
<1>2. PICK g \in gaps : \A y \in gaps : ~(<<y, g>> \in R)
  BY <1>1, NatLessThanWellFounded, WFMin
<1>3. \A y \in gaps : ~(y < g)
  BY <1>1, <1>2 DEF OpToRel
<1>4. PICK m \in T : g = c - m
  OBVIOUS
<1>5. \A t \in T : t <= m
  <2> TAKE t \in T
  <2>1. c - t \in gaps /\ ~(c - t < c - m)
    BY <1>3, <1>4
  <2>2. QED
    BY <2>1
<1>6. QED
  BY <1>5 DEF LargestOf

\* The weight of a row, and the rows that the FP8 weights keep.
Weight(i) == score[h][i] - max_s
Kept(k) == {<<<<h, i>>, Weight(i)>> : i \in {j \in 1 .. k : Weight(j) >= -Fp8Min}}

\* The vector group is one strip (VLEN 256), and scores are bounded, as FP32
\* numbers are.
OneStripGroups == Strips /\ LANES = VLMAX /\ \E b \in Int : \A x \in Scores : x <= b

WeightShapes ==
  /\ max_s \in Int
  /\ P_fp32 = [i \in Rows |-> P_fp32[i]] /\ P_fp8 = [i \in Rows |-> P_fp8[i]]
  /\ O_fp32 = [x \in Dims |-> O_fp32[x]]
  /\ pc \in {"exp", "quant", "v_row"} => s <= SEQ_LEN + 1
  /\ pc = "fma" => s <= SEQ_LEN

\* The exponentials and their sum are those of the first k rows.
ExpDone(k) ==
  /\ \A i \in 1 .. k : P_fp32[i] = Expf(Weight(i))
  /\ sum_p = [i \in {j \in 1 .. k : Weight(j) >= -ExpMin} |-> Weight(i)]
\* So are the FP8 weights.
QuantDone(k) == \A i \in 1 .. k : P_fp8[i] = {x \in {Weight(i)} : x >= -Fp8Min}

Exponentials ==
  /\ pc = "exp" => ExpDone(s - 1)
  /\ pc \in {"quant", "v_row", "fma"} => ExpDone(SEQ_LEN)
Quantised ==
  /\ pc = "quant" => QuantDone(s - 1)
  /\ pc \in {"v_row", "fma"} => QuantDone(SEQ_LEN)
\* Every element holds the rows so far; within a row, those before d also it.
Accumulated ==
  /\ pc = "v_row" => \A x \in Dims : O_fp32[x] = SetToBag(Kept(s - 1))
  /\ pc = "fma" =>
       /\ V_row = <<h, s>> /\ p = P_fp8[s]
       /\ Multiple(d) /\ d <= HEAD_DIM
       /\ \A x \in Dims : O_fp32[x] = SetToBag(Kept(IF x < d THEN s ELSE s - 1))

WInv == IInv /\ WeightShapes /\ Exponentials /\ Quantised /\ Accumulated

\* The rows of the current head, once its scores are complete.
LEMMA RowFacts ==
  ASSUME IInv, max_s \in Int, pc # "k_row"
  PROVE  /\ h \in Heads
         /\ \A i \in Rows : score[h][i] \in Scores /\ score[h][i] \in Int /\ Weight(i) \in Int
<1>1. h \in Heads
  BY ShapeAssumption DEF IInv, Loops, Heads
<1>2. score[h] \in [Rows -> Scores]
  BY <1>1 DEF IInv, Shapes
<1>3. ASSUME NEW i \in Rows
      PROVE  score[h][i] \in Scores /\ score[h][i] \in Int /\ Weight(i) \in Int
  <2>1. score[h][i] \in Scores /\ score[h][i] \in Int
    BY <1>2, ScoresAssumption
  <2>2. QED
    BY <2>1 DEF Weight
<1>4. QED
  BY <1>1, <1>3

\* Initially no weight has been computed.
LEMMA WInitInv == Init => WInv
<1> SUFFICES ASSUME Init PROVE WInv
  OBVIOUS
<1>1. WeightShapes
  BY ScoresAssumption DEF Init, WeightShapes
<1>2. Exponentials /\ Quantised /\ Accumulated
  BY DEF Init, Exponentials, Quantised, Accumulated
<1>3. QED
  BY <1>1, <1>2, InitInv DEF WInv

\* Computing scores touches no weight.
LEMMA ScoreStepsKeep ==
  ASSUME WInv, KRow \/ Dot \/ DotReduce
  PROVE  WeightShapes' /\ Exponentials' /\ Quantised' /\ Accumulated'
<1>1. /\ UNCHANGED <<max_s, P_fp32, P_fp8, O_fp32>>
      /\ pc' \in {"k_row", "dot"}
  BY DEF KRow, Dot, DotReduce, weights, values
<1>2. QED
  BY <1>1 DEF WInv, WeightShapes, Exponentials, Quantised, Accumulated

\* The maximum stays a number.
LEMMA MaxStepsKeep ==
  ASSUME OneStripGroups, WInv, StartMax \/ MaxStrip
  PROVE  WeightShapes' /\ Exponentials' /\ Quantised' /\ Accumulated'
<1>1. UNCHANGED <<P_fp32, P_fp8, O_fp32>> /\ pc' = "max"
  BY DEF StartMax, MaxStrip, weights, values
<1>2. max_s' \in Int
  <2>1. CASE StartMax
    BY <2>1, ScoresAssumption DEF StartMax
  <2>2. CASE MaxStrip
    <3>1. PICK vl \in VLengths(SEQ_LEN - (s - 1), VLMAX) :
            max_s' = LargestOf({max_s} \cup {S[i] : i \in s .. s + vl - 1})
      BY <2>2 DEF MaxStrip
    <3> DEFINE T == {max_s} \cup {S[i] : i \in s .. s + vl - 1}
    <3>2. PICK b \in Int : \A x \in Scores : x <= b
      BY DEF OneStripGroups
    <3>3. s \in Nat \ {0} /\ s <= SEQ_LEN /\ max_s \in Int /\ S = score[h]
      BY <2>2 DEF MaxStrip, WInv, IInv, Loops, ScoresOfThisHead, WeightShapes
    <3>4. vl \in Nat /\ vl <= SEQ_LEN - (s - 1)
      BY <3>3, ShapeAssumption DEF VLengths
    <3>5. \A i \in s .. s + vl - 1 : i \in Rows
      BY <3>3, <3>4, ShapeAssumption DEF Rows
    <3>6. \A i \in s .. s + vl - 1 : S[i] \in Int /\ S[i] <= b
      BY <2>2, <3>2, <3>3, <3>5, RowFacts DEF WInv, MaxStrip
    <3>7. T \in SUBSET Int /\ T # {}
      BY <3>3, <3>6
    <3>8. \E c \in Int : \A t \in T : t <= c
      <4>1. CASE max_s <= b
        BY <3>2, <3>6, <4>1
      <4>2. CASE ~(max_s <= b)
        <5>1. \A t \in T : t <= max_s
          BY <3>2, <3>3, <3>6, <4>2
        <5>2. QED
          BY <3>3, <5>1
      <4>3. QED
        BY <4>1, <4>2
    <3>9. LargestOf(T) \in T
      BY <3>7, <3>8, LargestFacts
    <3>10. QED
      BY <3>1, <3>7, <3>9
  <2>3. QED
    BY <2>1, <2>2
<1>3. QED
  BY <1>1, <1>2 DEF WInv, WeightShapes, Exponentials, Quantised, Accumulated

\* Each step of the exponential loop adds the weight of its row.
LEMMA ExpStepsKeep ==
  ASSUME WInv, StartExp \/ ExpRow
  PROVE  WeightShapes' /\ Exponentials' /\ Quantised' /\ Accumulated'
<1>1. /\ UNCHANGED <<score, h, max_s, P_fp8, O_fp32, S>> /\ max_s \in Int
      /\ pc' = "exp" /\ s \in Nat \ {0}
  BY DEF StartExp, ExpRow, values, scores, WInv, WeightShapes, IInv, Loops
<1>2. CASE StartExp
  <2>1. s' = 1 /\ sum_p' = NoRows /\ P_fp32' = P_fp32
    BY <1>2 DEF StartExp, SumStart
  <2>2. {j \in 1 .. s - 1 : Weight(j) >= -ExpMin}' = {}
    BY <2>1
  <2>3. ExpDone(s - 1)'
    BY <2>1, <2>2 DEF ExpDone, NoRows
  <2>4. QED
    BY <1>1, <2>1, <2>3, ShapeAssumption
       DEF WInv, WeightShapes, Exponentials, Quantised, Accumulated
<1>3. CASE ExpRow
  <2>1. /\ s <= SEQ_LEN /\ s' = s + 1 /\ s \in Rows /\ pc = "exp"
        /\ P_fp32' = [P_fp32 EXCEPT ![s] = Expf(Exponent)]
        /\ sum_p' = PlusWeight(sum_p, s, Expf(Exponent))
    BY <1>1, <1>3 DEF ExpRow, Rows
  <2>2. Exponent = Weight(s) /\ Weight(s) \in Int
    BY <1>1, <2>1, RowFacts DEF Exponent, Weight, WInv, IInv, ScoresOfThisHead
  <2>3. \A i \in 1 .. s : Weight(i)' = Weight(i)
    BY <1>1 DEF Weight
  <2>4. /\ \A i \in 1 .. s - 1 : P_fp32[i] = Expf(Weight(i))
        /\ sum_p = [i \in {j \in 1 .. s - 1 : Weight(j) >= -ExpMin} |-> Weight(i)]
    BY <2>1 DEF WInv, Exponentials, ExpDone
  <2>5. \A i \in 1 .. s : P_fp32'[i] = Expf(Weight(i))
    <3> TAKE i \in 1 .. s
    <3>1. i \in Rows /\ (i # s => i \in 1 .. s - 1)
      BY <1>1, <2>1, ShapeAssumption DEF Rows
    <3>2. P_fp32'[i] = IF i = s THEN Expf(Exponent) ELSE P_fp32[i]
      BY <2>1, <3>1 DEF WInv, WeightShapes
    <3>3. QED
      BY <2>2, <2>4, <3>1, <3>2
  <2>6. sum_p' = [i \in {j \in 1 .. s : Weight(j) >= -ExpMin} |-> Weight(i)]
    <3>1. CASE Weight(s) < -ExpMin
      <4>1. sum_p' = sum_p
        BY <2>1, <2>2, <3>1 DEF Expf, PlusWeight
      <4>2. ~(Weight(s) >= -ExpMin)
        BY <2>2, <3>1, ScoresAssumption
      <4>3. \A i \in 1 .. s : Weight(i) >= -ExpMin => i \in 1 .. s - 1
        BY <1>1, <4>2
      <4>4. {i \in 1 .. s : Weight(i) >= -ExpMin} = {i \in 1 .. s - 1 : Weight(i) >= -ExpMin}
        BY <1>1, <4>3
      <4>5. QED
        BY <2>4, <4>1, <4>4
    <3>2. CASE ~(Weight(s) < -ExpMin)
      <4>1. Expf(Exponent) = {Weight(s)} /\ Weight(s) >= -ExpMin
        BY <2>2, <3>2, ScoresAssumption DEF Expf
      <4>2. (CHOOSE x \in {Weight(s)} : TRUE) = Weight(s)
        OBVIOUS
      <4>3. sum_p' = [j \in DOMAIN sum_p \cup {s} |-> IF j = s THEN Weight(s) ELSE sum_p[j]]
        BY <2>1, <4>1, <4>2 DEF PlusWeight
      <4>4. DOMAIN sum_p \cup {s} = {i \in 1 .. s : Weight(i) >= -ExpMin}
        BY <1>1, <2>4, <4>1
      <4>5. QED
        BY <2>4, <4>3, <4>4
    <3>3. QED
      BY <3>1, <3>2
  <2>7. ExpDone(s - 1)'
    <3>1. (s - 1)' = s
      BY <1>1, <2>1
    <3>2. QED
      BY <2>3, <2>5, <2>6, <3>1 DEF ExpDone
  <2>8. P_fp32' = [i \in Rows |-> P_fp32'[i]]
    BY <2>1 DEF WInv, WeightShapes
  <2>9. QED
    BY <1>1, <2>1, <2>7, <2>8, ShapeAssumption
       DEF WInv, WeightShapes, Exponentials, Quantised, Accumulated
<1>4. QED
  BY <1>2, <1>3

\* The conversion to FP8 drops the weights below its range and no other.
LEMMA QuantStepsKeep ==
  ASSUME WInv, StartQuant \/ QuantRow
  PROVE  WeightShapes' /\ Exponentials' /\ Quantised' /\ Accumulated'
<1>1. /\ UNCHANGED <<score, h, max_s, P_fp32, sum_p, O_fp32>> /\ max_s \in Int
      /\ pc' = "quant" /\ s \in Nat \ {0} /\ s <= SEQ_LEN + 1
  BY DEF StartQuant, QuantRow, values, weights, WInv, WeightShapes, IInv, Loops
<1>2. ExpDone(SEQ_LEN)
  <2>1. CASE StartQuant
    <3>1. pc = "exp" /\ s - 1 = SEQ_LEN
      BY <1>1, <2>1, ShapeAssumption DEF StartQuant
    <3>2. QED
      BY <3>1 DEF WInv, Exponentials
  <2>2. CASE QuantRow
    BY <2>2 DEF QuantRow, WInv, Exponentials
  <2>3. QED
    BY <2>1, <2>2
<1>3. ExpDone(SEQ_LEN)'
  BY <1>1, <1>2 DEF ExpDone, Weight
<1>4. CASE StartQuant
  <2>1. s' = 1 /\ P_fp8' = P_fp8
    BY <1>4 DEF StartQuant, weights
  <2>2. QuantDone(s - 1)'
    BY <2>1 DEF QuantDone
  <2>3. QED
    BY <1>1, <1>3, <2>1, <2>2, ShapeAssumption
       DEF WInv, WeightShapes, Exponentials, Quantised, Accumulated
<1>5. CASE QuantRow
  <2>1. /\ s <= SEQ_LEN /\ s' = s + 1 /\ s \in Rows /\ pc = "quant"
        /\ P_fp8' = [P_fp8 EXCEPT ![s] = {x \in P_fp32[s] : x >= -Fp8Min}]
    BY <1>1, <1>5 DEF QuantRow, Rows
  <2>2. Weight(s) \in Int /\ P_fp32[s] = Expf(Weight(s))
    BY <1>1, <1>2, <2>1, RowFacts DEF WInv, ExpDone, Rows
  <2>3. {x \in P_fp32[s] : x >= -Fp8Min} = {x \in {Weight(s)} : x >= -Fp8Min}
    <3>1. CASE Weight(s) < -ExpMin
      <4>1. P_fp32[s] = {} /\ ~(Weight(s) >= -Fp8Min)
        BY <2>2, <3>1, ScoresAssumption DEF Expf
      <4>2. QED
        BY <4>1
    <3>2. CASE ~(Weight(s) < -ExpMin)
      BY <2>2, <3>2 DEF Expf
    <3>3. QED
      BY <3>1, <3>2
  <2>4. QuantDone(s - 1)'
    <3>1. (s - 1)' = s
      BY <1>1, <2>1
    <3>2. SUFFICES ASSUME NEW i \in 1 .. s
                   PROVE  P_fp8'[i] = {x \in {Weight(i)} : x >= -Fp8Min}
      BY <1>1, <3>1 DEF QuantDone, Weight
    <3>3. i \in Rows /\ (i # s => i \in 1 .. s - 1)
      BY <1>1, <2>1, ShapeAssumption DEF Rows
    <3>4. P_fp8'[i] = IF i = s THEN {x \in P_fp32[s] : x >= -Fp8Min} ELSE P_fp8[i]
      BY <2>1, <3>3 DEF WInv, WeightShapes
    <3>5. i # s => P_fp8[i] = {x \in {Weight(i)} : x >= -Fp8Min}
      BY <2>1, <3>3 DEF WInv, Quantised, QuantDone
    <3>6. QED
      BY <2>3, <3>4, <3>5
  <2>5. P_fp8' = [i \in Rows |-> P_fp8'[i]]
    BY <2>1 DEF WInv, WeightShapes
  <2>6. QED
    BY <1>1, <1>3, <2>1, <2>4, <2>5, ShapeAssumption
       DEF WInv, WeightShapes, Exponentials, Quantised, Accumulated
<1>6. QED
  BY <1>4, <1>5

\* A row adds to the rows kept its weight, if FP8 can hold it.
LEMMA KeptGrows ==
  ASSUME NEW k \in Nat \ {0}
  PROVE  /\ Kept(k) = Kept(k - 1) \cup {<<<<h, k>>, x>> : x \in {y \in {Weight(k)} : y >= -Fp8Min}}
         /\ \A x : <<<<h, k>>, x>> \notin Kept(k - 1)
<1>1. \A i : i \in 1 .. k <=> i \in 1 .. k - 1 \/ i = k
  OBVIOUS
<1>2. ASSUME NEW e
      PROVE  e \in Kept(k) <=> e \in Kept(k - 1) \cup
               {<<<<h, k>>, x>> : x \in {y \in {Weight(k)} : y >= -Fp8Min}}
  <2>1. e \in Kept(k) <=> \E i \in 1 .. k : Weight(i) >= -Fp8Min /\ e = <<<<h, i>>, Weight(i)>>
    BY DEF Kept
  <2>2. e \in Kept(k - 1) <=>
          \E i \in 1 .. k - 1 : Weight(i) >= -Fp8Min /\ e = <<<<h, i>>, Weight(i)>>
    BY DEF Kept
  <2>3. QED
    BY <1>1, <2>1, <2>2
<1>3. ASSUME NEW x, <<<<h, k>>, x>> \in Kept(k - 1)
      PROVE  FALSE
  <2>1. PICK i \in 1 .. k - 1 : <<<<h, k>>, x>> = <<<<h, i>>, Weight(i)>>
    BY <1>3 DEF Kept
  <2>2. i = k
    BY <2>1
  <2>3. QED
    BY <2>2
<1>4. QED
  BY <1>2, <1>3

\* Adding a disjoint set to a bag without duplicates gives one again.
LEMMA AddOnce ==
  ASSUME NEW A, NEW B, A \cap B = {}
  PROVE  SetToBag(A) (+) SetToBag(B) = SetToBag(A \cup B)
  BY DEF SetToBag, (+)

\* What the steps of the weighted sum leave alone.
LEMMA WeightsKept ==
  ASSUME WInv, UNCHANGED <<score, h, max_s, P_fp32, P_fp8, sum_p>>,
         pc \in {"v_row", "fma"} \/ (pc = "quant" /\ s > SEQ_LEN), pc' \in {"v_row", "fma"}
  PROVE  Exponentials' /\ Quantised'
<1>1. ExpDone(SEQ_LEN)
  BY DEF WInv, Exponentials
<1>2. QuantDone(SEQ_LEN)
  <2>1. CASE pc = "quant" /\ s > SEQ_LEN
    <3>1. s - 1 = SEQ_LEN
      BY <2>1, ShapeAssumption DEF WInv, WeightShapes, IInv, Loops
    <3>2. QED
      BY <2>1, <3>1 DEF WInv, Quantised
  <2>2. CASE pc \in {"v_row", "fma"}
    BY <2>2 DEF WInv, Quantised
  <2>3. QED
    BY <2>1, <2>2
<1>3. ExpDone(SEQ_LEN)' /\ QuantDone(SEQ_LEN)'
  BY <1>1, <1>2 DEF ExpDone, QuantDone, Weight
<1>4. QED
  BY <1>3 DEF Exponentials, Quantised

\* The accumulator starts empty, and a row starts at its first strip.
LEMMA RowStepsKeep ==
  ASSUME Strips, WInv, StartPV \/ VRow \/ RowAdded
  PROVE  WeightShapes' /\ Exponentials' /\ Quantised' /\ Accumulated'
<1>1. /\ UNCHANGED <<score, h, max_s, P_fp32, P_fp8, sum_p>>
      /\ pc \in {"v_row", "fma"} \/ (pc = "quant" /\ s > SEQ_LEN)
      /\ pc' \in {"v_row", "fma"} /\ s \in Nat \ {0}
  BY DEF StartPV, VRow, RowAdded, weights, WInv, IInv, Loops
<1>2. Exponentials' /\ Quantised'
  BY <1>1, WeightsKept
<1>3. \A k : Kept(k)' = Kept(k)
  BY <1>1 DEF Kept, Weight
<1>4. CASE StartPV
  <2>1. s' = 1 /\ pc' = "v_row" /\ O_fp32' = [x \in Dims |-> EmptyBag]
    BY <1>4 DEF StartPV, OutStart
  <2>2. Kept(s - 1)' = {}
    BY <2>1 DEF Kept
  <2>3. QED
    BY <1>1, <1>2, <2>1, <2>2, ShapeAssumption DEF WInv, WeightShapes, Accumulated, EmptyBag
<1>5. CASE VRow
  <2>1. /\ pc = "v_row" /\ pc' = "fma" /\ d' = 0 /\ UNCHANGED <<s, O_fp32>>
        /\ V_row' = <<h, s>> /\ p' = P_fp8[s] /\ s <= SEQ_LEN
    BY <1>5 DEF VRow
  <2>2. Multiple(0) /\ 0 <= HEAD_DIM
    BY NoStrips, ShapeAssumption
  <2>3. \A x \in Dims : ~(x < 0)
    BY DEF Dims
  <2>4. \A x \in Dims : O_fp32[x] = SetToBag(Kept(s - 1))
    BY <2>1 DEF WInv, Accumulated
  <2>5. Accumulated'
    BY <1>1, <1>3, <2>1, <2>2, <2>3, <2>4 DEF Accumulated, Multiple
  <2>6. QED
    BY <1>1, <1>2, <2>1, <2>5 DEF WInv, WeightShapes
<1>6. CASE RowAdded
  <2>1. /\ pc = "fma" /\ pc' = "v_row" /\ d = HEAD_DIM /\ s' = s + 1
        /\ UNCHANGED O_fp32 /\ s <= SEQ_LEN
    BY <1>6, ShapeAssumption
       DEF RowAdded, MoreStrips, values, WInv, Accumulated, WeightShapes, IInv, Loops
  <2>2. \A x \in Dims : x < HEAD_DIM
    BY ShapeAssumption DEF Dims
  <2>3. \A x \in Dims : O_fp32[x] = SetToBag(Kept(s))
    BY <2>1, <2>2 DEF WInv, Accumulated
  <2>4. (s - 1)' = s
    BY <1>1, <2>1
  <2>5. QED
    BY <1>1, <1>2, <1>3, <2>1, <2>3, <2>4, ShapeAssumption DEF WInv, WeightShapes, Accumulated
<1>7. QED
  BY <1>4, <1>5, <1>6

\* One strip of the weighted sum: exactly the LANES elements from d on take
\* the row, and none of them had it.
LEMMA FmaKeeps ==
  ASSUME OneStripGroups, WInv, Fma
  PROVE  WeightShapes' /\ Exponentials' /\ Quantised' /\ Accumulated'
<1>1. /\ UNCHANGED <<score, h, s, pc, max_s, P_fp32, P_fp8, sum_p, V_row, p>>
      /\ pc = "fma" /\ s \in Nat \ {0} /\ s <= SEQ_LEN /\ d \in Nat /\ d < HEAD_DIM
      /\ d' = d + LANES /\ Multiple(d) /\ V_row = <<h, s>> /\ p = P_fp8[s]
      /\ LANES \in Nat \ {0}
  BY ShapeAssumption
     DEF Fma, MoreStrips, weights, WInv, WeightShapes, Accumulated, IInv, Loops
<1>2. Exponentials' /\ Quantised'
  BY <1>1, WeightsKept
<1>3. d + LANES <= HEAD_DIM /\ Multiple(d + LANES)
  BY <1>1, StripFits, ShapeAssumption DEF OneStripGroups, Strips
<1>4. PICK vl \in VLengths(HEAD_DIM - d, VLMAX) :
        O_fp32' = [x \in Dims |-> IF x \in d .. d + vl - 1
                                  THEN O_fp32[x] (+) SetToBag({<<V_row, e>> : e \in p})
                                  ELSE O_fp32[x]]
  BY DEF Fma
<1>5. vl = LANES
  <2>1. vl \in LANES .. VLMAX
    BY <1>1, StripGranted, ShapeAssumption DEF OneStripGroups, Strips
  <2>2. QED
    BY <1>1, <2>1 DEF OneStripGroups
<1>6. Kept(s) = Kept(s - 1) \cup {<<V_row, e>> : e \in p}
      /\ Kept(s - 1) \cap {<<V_row, e>> : e \in p} = {}
  <2>1. p = {x \in {Weight(s)} : x >= -Fp8Min}
    BY <1>1 DEF WInv, Quantised, QuantDone
  <2>2. QED
    BY <1>1, <2>1, KeptGrows
<1>7. \A x \in Dims : O_fp32'[x] = SetToBag(Kept(IF x < d + LANES THEN s ELSE s - 1))
  <2> TAKE x \in Dims
  <2>1. x \in Nat /\ O_fp32[x] = SetToBag(Kept(IF x < d THEN s ELSE s - 1))
    BY <1>1 DEF Dims, WInv, Accumulated
  <2>2. CASE x \in d .. d + vl - 1
    <3>1. ~(x < d) /\ x < d + LANES
      BY <1>1, <1>5, <2>1, <2>2
    <3>2. O_fp32'[x] = SetToBag(Kept(s - 1)) (+) SetToBag({<<V_row, e>> : e \in p})
      BY <1>4, <2>1, <2>2, <3>1
    <3>3. QED
      BY <1>6, <3>1, <3>2, AddOnce
  <2>3. CASE x \notin d .. d + vl - 1
    <3>1. x < d <=> x < d + LANES
      BY <1>1, <1>5, <2>1, <2>3
    <3>2. O_fp32'[x] = O_fp32[x]
      BY <1>4, <2>3
    <3>3. QED
      BY <2>1, <3>1, <3>2
  <2>4. QED
    BY <2>2, <2>3
<1>8. Accumulated'
  <2>1. ASSUME NEW x \in Dims
        PROVE  (O_fp32[x] = SetToBag(Kept(IF x < d THEN s ELSE s - 1)))'
    <3>1. O_fp32'[x] = SetToBag(Kept(IF x < d' THEN s ELSE s - 1))
      BY <1>1, <1>7
    <3>2. (Kept(IF x < d THEN s ELSE s - 1))' = Kept(IF x < d' THEN s ELSE s - 1)
      BY <1>1 DEF Kept, Weight
    <3>3. QED
      BY <3>1, <3>2 DEF SetToBag
  <2>2. V_row' = <<h', s'>> /\ p' = P_fp8'[s'] /\ Multiple(d)' /\ d' <= HEAD_DIM
    BY <1>1, <1>3 DEF Multiple
  <2>3. QED
    BY <1>1, <2>1, <2>2 DEF Accumulated
<1>9. QED
  BY <1>1, <1>2, <1>4, <1>8 DEF WInv, WeightShapes

\* Every step of the kernel keeps the invariant of the weights.
LEMMA WNextInv ==
  ASSUME OneStripGroups
  PROVE  WInv /\ [Next]_vars => WInv'
<1> SUFFICES ASSUME WInv, [Next]_vars PROVE WInv'
  OBVIOUS
<1>1. Strips
  BY DEF OneStripGroups
<1>2. IInv'
  BY <1>1, NextInv DEF WInv
<1>3. CASE Store
  <2>1. UNCHANGED <<max_s, P_fp32, P_fp8, O_fp32>> /\ pc' = "k_row"
    BY <1>3 DEF Store, weights, values
  <2>2. QED
    BY <1>2, <2>1 DEF WInv, WeightShapes, Exponentials, Quantised, Accumulated
<1>4. CASE UNCHANGED vars
  <2>1. UNCHANGED <<score, h, s, d, pc, max_s, P_fp32, P_fp8, sum_p, V_row, p, O_fp32>>
    BY <1>4 DEF vars, loops, weights, values
  <2>2. WeightShapes'
    BY <2>1 DEF WInv, WeightShapes
  <2>3. Exponentials' /\ Quantised'
    BY <2>1 DEF WInv, Exponentials, Quantised, ExpDone, QuantDone, Weight
  <2>4. Accumulated'
    BY <2>1 DEF WInv, Accumulated, Kept, Weight, Multiple
  <2>5. QED
    BY <1>2, <2>2, <2>3, <2>4 DEF WInv
<1>5. CASE Next /\ ~Store
  <2>1. WeightShapes' /\ Exponentials' /\ Quantised' /\ Accumulated'
    BY <1>1, <1>5, ScoreStepsKeep, MaxStepsKeep, ExpStepsKeep, QuantStepsKeep, RowStepsKeep,
       FmaKeeps DEF Next
  <2>2. QED
    BY <1>2, <2>1 DEF WInv
<1>6. QED
  BY <1>3, <1>4, <1>5

\* The rows in a bag of the accumulator are those FP8 keeps.
LEMMA RowsOfKept ==
  ASSUME WInv, pc \in {"v_row", "fma"}, NEW k \in 0 .. SEQ_LEN
  PROVE  /\ \A e \in Kept(k) :
              /\ e[1][1] = h /\ e[1][2] \in 1 .. k
              /\ e[1][2] \in DOMAIN sum_p /\ e[2] = sum_p[e[1][2]]
              /\ e[2] = Weight(e[1][2]) /\ e[1] = <<h, e[1][2]>>
         /\ \A i \in 1 .. k : (\E e \in Kept(k) : e[1] = <<h, i>>)
                                <=> score[h][i] >= max_s - Fp8Min
<1>1. ASSUME NEW i \in 1 .. k
      PROVE  /\ i \in Rows /\ score[h][i] \in Int /\ Weight(i) = score[h][i] - max_s
             /\ Weight(i) >= -Fp8Min <=> score[h][i] >= max_s - Fp8Min
             /\ Weight(i) >= -Fp8Min => Weight(i) >= -ExpMin
  <2>1. i \in Rows
    BY ShapeAssumption DEF Rows
  <2>2. score[h][i] \in Int /\ max_s \in Int
    BY <2>1, RowFacts DEF WInv, WeightShapes
  <2>3. QED
    BY <2>1, <2>2, ScoresAssumption DEF Weight
<1>2. /\ DOMAIN sum_p = {i \in 1 .. SEQ_LEN : Weight(i) >= -ExpMin}
      /\ \A i \in DOMAIN sum_p : sum_p[i] = Weight(i)
  BY DEF WInv, Exponentials, ExpDone
<1>3. ASSUME NEW e \in Kept(k)
      PROVE  /\ e[1][1] = h /\ e[1][2] \in 1 .. k
             /\ e[1][2] \in DOMAIN sum_p /\ e[2] = sum_p[e[1][2]]
             /\ e[2] = Weight(e[1][2]) /\ e[1] = <<h, e[1][2]>>
  <2>1. PICK i \in 1 .. k : Weight(i) >= -Fp8Min /\ e = <<<<h, i>>, Weight(i)>>
    BY DEF Kept
  <2>2. e[1] = <<h, i>> /\ e[1][1] = h /\ e[1][2] = i /\ e[2] = Weight(i)
    BY <2>1
  <2>3. i \in DOMAIN sum_p
    BY <1>1, <1>2, <2>1 DEF Rows
  <2>4. QED
    BY <1>2, <2>2, <2>3
<1>4. ASSUME NEW i \in 1 .. k
      PROVE  (\E e \in Kept(k) : e[1] = <<h, i>>) <=> score[h][i] >= max_s - Fp8Min
  <2>1. ASSUME NEW e \in Kept(k), e[1] = <<h, i>> PROVE Weight(i) >= -Fp8Min
    <3>1. PICK j \in 1 .. k : Weight(j) >= -Fp8Min /\ e = <<<<h, j>>, Weight(j)>>
      BY DEF Kept
    <3>2. j = i
      BY <2>1, <3>1
    <3>3. QED
      BY <3>1, <3>2
  <2>2. ASSUME Weight(i) >= -Fp8Min PROVE \E e \in Kept(k) : e[1] = <<h, i>>
    <3>1. <<<<h, i>>, Weight(i)>> \in Kept(k)
      BY <2>2 DEF Kept
    <3>2. QED
      BY <3>1
  <2>3. QED
    BY <1>1, <2>1, <2>2
<1>5. QED
  BY <1>3, <1>4

\* The weighted sum of bench_fa_mixed_rvv.c adds every row of the current
\* head that FP8 can hold exactly once to every element, with the weight the
\* row has in the denominator: for any number of heads and rows, any head
\* dimension of whole strips and any scores.
THEOREM RowsAddedOnce ==
  ASSUME OneStripGroups
  PROVE  Spec => []EachRowOnce
<1>1. ASSUME WInv PROVE EachRowOnce
  <2>1. s \in Nat \ {0} /\ (pc = "v_row" => s <= SEQ_LEN + 1) /\ (pc = "fma" => s <= SEQ_LEN)
    BY <1>1 DEF WInv, WeightShapes, IInv, Loops
  <2>2. ASSUME pc \in {"v_row", "fma"}, NEW x \in Dims, NEW e \in DOMAIN O_fp32[x]
        PROVE  /\ O_fp32[x][e] = 1
               /\ e[1][1] = h /\ e[1][2] <= s
               /\ e[1][2] \in DOMAIN sum_p /\ e[2] = sum_p[e[1][2]]
    <3>1. PICK k \in {s - 1, s} \cap (0 .. SEQ_LEN) : O_fp32[x] = SetToBag(Kept(k))
      <4>1. CASE pc = "v_row"
        <5>1. s - 1 \in 0 .. SEQ_LEN
          BY <2>1, <4>1, ShapeAssumption
        <5>2. QED
          BY <1>1, <4>1, <5>1 DEF WInv, Accumulated
      <4>2. CASE pc = "fma"
        <5>1. s - 1 \in 0 .. SEQ_LEN /\ s \in 0 .. SEQ_LEN
          BY <2>1, <4>2, ShapeAssumption
        <5>2. QED
          BY <1>1, <4>2, <5>1 DEF WInv, Accumulated
      <4>3. QED
        BY <2>2, <4>1, <4>2
    <3>2. e \in Kept(k) /\ O_fp32[x][e] = 1
      BY <2>2, <3>1 DEF SetToBag
    <3>3. QED
      BY <1>1, <2>1, <2>2, <3>2, RowsOfKept
  <2>3. ASSUME pc = "v_row", NEW x \in Dims, NEW i \in 1 .. s - 1
        PROVE  (\E e \in DOMAIN O_fp32[x] : e[1] = <<h, i>>) <=> score[h][i] >= max_s - Fp8Min
    <3>1. s - 1 \in 0 .. SEQ_LEN
      BY <2>1, <2>3, ShapeAssumption
    <3>2. DOMAIN O_fp32[x] = Kept(s - 1)
      BY <1>1, <2>3 DEF WInv, Accumulated, SetToBag
    <3>3. QED
      BY <1>1, <2>3, <3>1, <3>2, RowsOfKept
  <2>4. QED
    BY <2>2, <2>3 DEF EachRowOnce
<1>2. QED
  BY WInitInv, WNextInv, <1>1, PTL DEF Spec

-----------------------------------------------------------------------------
\* The rows are a whole number of strips too (sequence lengths are powers of
\* two from 2 K on).
WholeRows == OneStripGroups /\ Multiple(SEQ_LEN)

\* The maximum covers the strips so far.
MaxSoFar ==
  /\ pc = "max" =>
       /\ vlm = LANES /\ Multiple(s - 1) /\ s - 1 <= SEQ_LEN
       /\ (s = 1 /\ max_s = MInit) \/ \E i \in Rows : S[i] = max_s
       /\ \A i \in Rows : i < s => S[i] <= max_s
  /\ pc \in {"exp", "quant", "v_row", "fma"} =>
       /\ \E i \in Rows : S[i] = max_s
       /\ \A i \in Rows : S[i] <= max_s
\* No head has a result before its turn.
Results ==
  /\ O = [k \in Heads |-> O[k]]
  /\ \A k \in Heads : k >= h => O[k] = NoResult

RInv == WInv /\ MaxSoFar /\ Results

\* Initially no maximum and no result has.
LEMMA RInitInv == Init => RInv
<1> SUFFICES ASSUME Init PROVE RInv
  OBVIOUS
<1>1. MaxSoFar /\ Results
  BY DEF Init, MaxSoFar, Results
<1>2. QED
  BY <1>1, WInitInv DEF RInv

\* A strip of the maximum takes the larger of what it was and its scores.
LEMMA MaxStripInv ==
  ASSUME WholeRows, RInv, MaxStrip
  PROVE  MaxSoFar'
<1>1. /\ s \in Nat \ {0} /\ s <= SEQ_LEN /\ s - 1 \in Nat /\ Multiple(s - 1)
      /\ vlm = LANES /\ LANES \in Nat \ {0} /\ s' = s + LANES
      /\ pc = "max" /\ pc' = "max" /\ UNCHANGED <<h, S, score, vlm>>
      /\ S = score[h] /\ max_s \in Int
  BY ShapeAssumption
     DEF MaxStrip, scores, RInv, WInv, IInv, Loops, ScoresOfThisHead, WeightShapes, MaxSoFar
<1>2. PICK vl \in VLengths(SEQ_LEN - (s - 1), VLMAX) :
        max_s' = LargestOf({max_s} \cup {S[i] : i \in s .. s + vl - 1})
  BY DEF MaxStrip
<1> DEFINE T == {max_s} \cup {S[i] : i \in s .. s + vl - 1}
<1>3. (s - 1) + LANES <= SEQ_LEN /\ Multiple((s - 1) + LANES)
  BY <1>1, StripFits, ShapeAssumption DEF WholeRows
<1>4. vl = LANES
  <2>1. vl \in LANES .. VLMAX
    BY <1>1, StripGranted, ShapeAssumption DEF WholeRows, OneStripGroups
  <2>2. QED
    BY <1>1, <2>1 DEF WholeRows, OneStripGroups
<1>5. \A i \in s .. s + LANES - 1 : i \in Rows
  BY <1>1, <1>3, ShapeAssumption DEF Rows
<1>6. \A i \in Rows : S[i] \in Int /\ S[i] \in Scores
  BY <1>1, RowFacts DEF RInv, WInv
<1>7. LargestOf(T) \in T /\ \A t \in T : t <= LargestOf(T)
  <2>1. T \in SUBSET Int /\ T # {}
    BY <1>1, <1>4, <1>5, <1>6
  <2>2. PICK b \in Int : \A x \in Scores : x <= b
    BY DEF WholeRows, OneStripGroups
  <2>3. \E c \in Int : \A t \in T : t <= c
    <3>1. CASE max_s <= b
      BY <1>4, <1>5, <1>6, <2>2, <3>1
    <3>2. CASE ~(max_s <= b)
      <4>1. \A t \in T : t <= max_s
        BY <1>1, <1>4, <1>5, <1>6, <2>2, <3>2
      <4>2. QED
        BY <1>1, <4>1
    <3>3. QED
      BY <3>1, <3>2
  <2>4. QED
    BY <2>1, <2>3, LargestFacts
<1>8. max_s' \in T /\ \A t \in T : t <= max_s'
  BY <1>2, <1>7
<1>9. \E i \in Rows : S[i] = max_s'
  <2>1. CASE max_s' = max_s
    <3>1. s \in s .. s + LANES - 1 /\ s \in Rows
      BY <1>1, <1>5
    <3>2. S[s] \in T /\ S[s] <= max_s' /\ S[s] \in Int
      BY <1>4, <1>6, <1>8, <3>1
    <3>4. CASE \E i \in Rows : S[i] = max_s
      BY <2>1, <3>4
    <3>5. CASE s = 1 /\ max_s = MInit
      BY <1>6, <2>1, <3>1, <3>2, <3>5, ScoresAssumption
    <3>6. QED
      BY <1>1, <3>4, <3>5 DEF RInv, MaxSoFar
  <2>2. CASE max_s' # max_s
    <3>1. PICK i \in s .. s + vl - 1 : max_s' = S[i]
      BY <1>8, <2>2
    <3>2. QED
      BY <1>4, <1>5, <3>1
  <2>3. QED
    BY <2>1, <2>2
<1>10. \A i \in Rows : i < s + LANES => S[i] <= max_s'
  <2> SUFFICES ASSUME NEW i \in Rows, i < s + LANES PROVE S[i] <= max_s'
    OBVIOUS
  <2>1. CASE i < s
    <3>1. S[i] <= max_s /\ max_s <= max_s' /\ max_s' \in Int /\ S[i] \in Int
      BY <1>1, <1>6, <1>8, <1>9, <2>1 DEF RInv, MaxSoFar
    <3>2. QED
      BY <1>1, <3>1
  <2>2. CASE ~(i < s)
    <3>1. i \in s .. s + vl - 1
      BY <1>1, <1>4, <2>2 DEF Rows
    <3>2. QED
      BY <1>8, <3>1
  <2>3. QED
    BY <2>1, <2>2
<1>11. (s - 1)' = (s - 1) + LANES
  BY <1>1
<1>12. Multiple(s - 1)'
  BY <1>3, <1>11 DEF Multiple
<1>13. QED
  BY <1>1, <1>3, <1>9, <1>10, <1>11, <1>12 DEF MaxSoFar

\* The other steps leave what the maximum covers.
LEMMA MaxSoFarInv ==
  ASSUME WholeRows, RInv, Next
  PROVE  MaxSoFar'
<1>1. CASE KRow \/ Dot \/ DotReduce \/ Store
  <2>1. pc' \in {"k_row", "dot"}
    BY <1>1 DEF KRow, Dot, DotReduce, Store
  <2>2. QED
    BY <2>1 DEF MaxSoFar
<1>2. CASE StartMax
  <2>1. pc' = "max" /\ s' = 1 /\ max_s' = MInit /\ (s - 1)' = 0
    BY <1>2 DEF StartMax
  <2>2. vlm' = LANES
    BY <1>2, OneStrip DEF StartMax, WholeRows, OneStripGroups
  <2>3. Multiple(s - 1)'
    BY <2>1, NoStrips DEF Multiple
  <2>4. QED
    BY <2>1, <2>2, <2>3, ShapeAssumption DEF MaxSoFar, Rows
<1>3. CASE MaxStrip
  BY <1>3, MaxStripInv
<1>4. CASE StartExp
  <2>1. /\ pc = "max" /\ pc' = "exp" /\ s > SEQ_LEN /\ s \in Nat
        /\ UNCHANGED <<h, S, max_s>>
    BY <1>4 DEF StartExp, scores, RInv, WInv, IInv, Loops
  <2>2. s # 1 /\ \A i \in Rows : i < s
    BY <2>1, ShapeAssumption DEF Rows
  <2>3. QED
    BY <2>1, <2>2 DEF RInv, MaxSoFar
<1>5. CASE ExpRow \/ StartQuant \/ QuantRow \/ StartPV \/ VRow \/ Fma \/ RowAdded
  <2>1. /\ pc \in {"exp", "quant", "v_row", "fma"} /\ pc' \in {"exp", "quant", "v_row", "fma"}
        /\ UNCHANGED <<S, max_s>>
    BY <1>5 DEF ExpRow, StartQuant, QuantRow, StartPV, VRow, Fma, RowAdded, scores
  <2>2. QED
    BY <2>1 DEF RInv, MaxSoFar
<1>6. QED
  BY <1>1, <1>2, <1>3, <1>4, <1>5 DEF Next

\* Every step of the kernel keeps the whole invariant.
LEMMA RNextInv ==
  ASSUME WholeRows
  PROVE  RInv /\ [Next]_vars => RInv'
<1> SUFFICES ASSUME RInv, [Next]_vars PROVE RInv'
  OBVIOUS
<1>1. WInv'
  BY WNextInv DEF RInv, WholeRows
<1>2. MaxSoFar'
  <2>1. CASE Next
    BY <2>1, MaxSoFarInv
  <2>2. CASE UNCHANGED vars
    BY <2>2 DEF vars, loops, scores, RInv, MaxSoFar, Multiple
  <2>3. QED
    BY <2>1, <2>2
<1>3. Results'
  <2>1. CASE Store
    <3>1. O' = [O EXCEPT ![h] = [done |-> TRUE, num |-> O_fp32, den |-> sum_p]]
          /\ h' = h + 1 /\ h \in Nat
      BY <2>1 DEF Store, RInv, WInv, IInv, Loops
    <3>2. ASSUME NEW k \in Heads, k >= h' PROVE O'[k] = NoResult
      <4>1. k # h /\ k >= h
        BY <3>1, <3>2 DEF Heads
      <4>2. QED
        BY <3>1, <4>1 DEF RInv, Results
    <3>3. O' = [k \in Heads |-> O'[k]]
      BY <3>1 DEF RInv, Results
    <3>4. QED
      BY <3>2, <3>3 DEF Results, NoResult
  <2>2. CASE ~Store
    <3>1. UNCHANGED <<O, h>>
      BY <2>2 DEF Next, vars, loops, KRow, Dot, DotReduce, StartMax, MaxStrip, StartExp,
         ExpRow, StartQuant, QuantRow, StartPV, VRow, Fma, RowAdded
    <3>2. QED
      BY <3>1 DEF RInv, Results, NoResult
  <2>3. QED
    BY <2>1, <2>2
<1>4. QED
  BY <1>1, <1>2, <1>3 DEF RInv

\* The rows within min of the maximum.
Keep(min) == {i \in Rows : Weight(i) >= -min}

\* What a finished head stores is the weighted rows over the same weights.
LEMMA StoreIsProduce ==
  ASSUME WholeRows, RInv, Store
  PROVE  Promise!Next
<1>1. /\ pc = "v_row" /\ s = SEQ_LEN + 1 /\ h \in Heads /\ score' = score
      /\ O' = [O EXCEPT ![h] = [done |-> TRUE, num |-> O_fp32, den |-> sum_p]]
      /\ max_s \in Int /\ S = score[h]
  BY ShapeAssumption, RowFacts
     DEF Store, RInv, WInv, IInv, Loops, WeightShapes, ScoresOfThisHead
<1>2. \A i \in Rows : score[h][i] \in Scores /\ score[h][i] \in Int /\ Weight(i) \in Int
  BY <1>1, RowFacts DEF RInv, WInv
<1>3. max_s \in Scores /\ Promise!IsMax(h, max_s)
  BY <1>1, <1>2 DEF RInv, MaxSoFar, Promise!IsMax, Promise!Rows, Rows
<1>4. \A x \in Dims : O_fp32[x] = SetToBag(Kept(SEQ_LEN))
  <2>1. s - 1 = SEQ_LEN
    BY <1>1, ShapeAssumption
  <2>2. QED
    BY <1>1, <2>1 DEF RInv, WInv, Accumulated
<1>5. DOMAIN SetToBag(Kept(SEQ_LEN)) = Kept(SEQ_LEN)
  BY DEF SetToBag
<1>6. 0 \in Dims
  BY ShapeAssumption DEF Dims
<1>7. sum_p = [i \in Keep(ExpMin) |-> score[h][i] - max_s]
  <2>1. sum_p = [i \in Keep(ExpMin) |-> Weight(i)]
    BY <1>1 DEF RInv, WInv, Exponentials, ExpDone, Keep, Rows
  <2>2. QED
    BY <2>1 DEF Weight
<1>8. ASSUME NEW i \in Keep(Fp8Min)
      PROVE  ExponentIn(SetToBag(Kept(SEQ_LEN)), i) = score[h][i] - max_s
  <2> DEFINE rows == DOMAIN SetToBag(Kept(SEQ_LEN))
             entry == <<<<h, i>>, Weight(i)>>
  <2>1. entry \in rows /\ entry[1][2] = i /\ entry[2] = Weight(i)
    BY <1>5 DEF Kept, Keep, Rows
  <2>2. ASSUME NEW e \in rows, e[1][2] = i PROVE e[2] = Weight(i)
    <3>1. PICK j \in 1 .. SEQ_LEN : e = <<<<h, j>>, Weight(j)>>
      BY <1>5 DEF Kept
    <3>2. j = i
      BY <2>2, <3>1
    <3>3. QED
      BY <3>1, <3>2
  <2> HIDE DEF rows, entry
  <2>3. (CHOOSE e \in rows : e[1][2] = i)[2] = Weight(i)
    BY <2>1, <2>2
  <2>4. QED
    BY <2>3 DEF ExponentIn, rows, Weight
<1>9. RowsIn(SetToBag(Kept(SEQ_LEN))) = Keep(Fp8Min)
  <2>1. \A i : i \in Keep(Fp8Min) <=> \E e \in Kept(SEQ_LEN) : e[1][2] = i
    <3>1. ASSUME NEW i \in Keep(Fp8Min) PROVE \E e \in Kept(SEQ_LEN) : e[1][2] = i
      <4>1. <<<<h, i>>, Weight(i)>> \in Kept(SEQ_LEN) /\ (<<<<h, i>>, Weight(i)>>)[1][2] = i
        BY DEF Kept, Keep, Rows
      <4>2. QED
        BY <4>1
    <3>2. ASSUME NEW e \in Kept(SEQ_LEN) PROVE e[1][2] \in Keep(Fp8Min)
      <4>1. PICK j \in 1 .. SEQ_LEN : Weight(j) >= -Fp8Min /\ e = <<<<h, j>>, Weight(j)>>
        BY DEF Kept
      <4>2. e[1][2] = j
        BY <4>1
      <4>3. QED
        BY <4>1, <4>2 DEF Keep, Rows
    <3>3. QED
      BY <3>1, <3>2
  <2>2. QED
    BY <1>5, <2>1 DEF RowsIn
<1>10. Result(O'[h]) = [done |-> TRUE, dims |-> Dims,
                        num |-> [i \in Keep(Fp8Min) |-> score[h][i] - max_s],
                        den |-> [i \in Keep(ExpMin) |-> score[h][i] - max_s]]
  <2>1. O'[h].num = O_fp32 /\ O'[h].den = sum_p
    BY <1>1 DEF RInv, Results
  <2>2. {x \in Dims : O_fp32[x] = SetToBag(Kept(SEQ_LEN))} = Dims
        /\ O_fp32[0] = SetToBag(Kept(SEQ_LEN))
    BY <1>4, <1>6
  <2>3. [i \in RowsIn(O_fp32[0]) |-> ExponentIn(O_fp32[0], i)]
          = [i \in Keep(Fp8Min) |-> score[h][i] - max_s]
    BY <1>8, <1>9, <2>2
  <2>4. QED
    BY <1>7, <2>1, <2>2, <2>3 DEF Result
<1>11. /\ ~Shown(O[h]).done
       /\ Shown(O'[h]) = Result(O'[h])
       /\ \A k \in Heads : k # h => Shown(O'[k]) = Shown(O[k])
  <2>1. h >= h
    BY <1>1 DEF Heads
  <2>2. O[h] = NoResult
    BY <1>1, <2>1 DEF RInv, Results
  <2>3. O'[h] = [done |-> TRUE, num |-> O_fp32, den |-> sum_p]
        /\ \A k \in Heads : k # h => O'[k] = O[k]
    BY <1>1 DEF RInv, Results
  <2>4. QED
    BY <2>2, <2>3 DEF Shown, NoResult
<1>12. Keep(Fp8Min) \in SUBSET Promise!Rows /\ Keep(ExpMin) \in SUBSET Promise!Rows
       /\ Promise!Keeps(h, max_s, Keep(Fp8Min), Fp8Min)
       /\ Promise!Keeps(h, max_s, Keep(ExpMin), ExpMin)
  BY <1>1, <1>2, ScoresAssumption DEF Promise!Keeps, Promise!Rows, Rows, Keep, Weight
<1>13. [k \in Heads |-> Shown(O'[k])]
         = [[k \in Heads |-> Shown(O[k])] EXCEPT ![h] =
              [done |-> TRUE, dims |-> Promise!Dims,
               num |-> Promise!Weights(h, max_s, Keep(Fp8Min)),
               den |-> Promise!Weights(h, max_s, Keep(ExpMin))]]
  <2>1. Shown(O'[h]) = [done |-> TRUE, dims |-> Promise!Dims,
                      num |-> Promise!Weights(h, max_s, Keep(Fp8Min)),
                      den |-> Promise!Weights(h, max_s, Keep(ExpMin))]
    BY <1>10, <1>11 DEF Promise!Dims, Dims, Promise!Weights
  <2>2. QED
    BY <1>1, <1>11, <2>1
<1>14. Promise!Produce(h)
  <2>1. ~[k \in Heads |-> Shown(O[k])][h].done
    BY <1>1, <1>11
  <2>2. QED
    BY <1>1, <1>3, <1>12, <1>13, <2>1 DEF Promise!Produce
<1>15. QED
  BY <1>1, <1>14 DEF Promise!Next, Promise!Heads, Heads

\* Only Store shows a result.
LEMMA StepImplements ==
  ASSUME WholeRows, RInv, [Next]_vars
  PROVE  [Promise!Next]_<<score, [k \in Heads |-> Shown(O[k])]>>
<1>1. CASE Store
  BY <1>1, StoreIsProduce
<1>2. CASE ~Store
  <2>1. UNCHANGED <<score, O>>
    BY <1>2 DEF Next, vars, KRow, Dot, DotReduce, StartMax, MaxStrip, StartExp, ExpRow,
       StartQuant, QuantRow, StartPV, VRow, Fma, RowAdded
  <2>2. QED
    BY <2>1
<1>3. QED
  BY <1>1, <1>2

\* bench_fa_mixed_rvv.c computes the attention of every head: numerators
\* without the rows below FP8, denominators without those below expf, both
\* relative to the largest score, in every output dimension: for any number
\* of heads, any rows and head dimension of whole strips and any scores.
THEOREM ImplementsPromise ==
  ASSUME WholeRows
  PROVE  Spec => ImplementsAttention
<1>1. Init => Promise!Init
  <2> SUFFICES ASSUME Init PROVE Promise!Init
    OBVIOUS
  <2>1. \A k \in Heads : Shown(O[k]) = Promise!NoResult
    BY DEF Init, Shown, NoResult, Promise!NoResult, NoRows, Promise!NoRows
  <2>2. QED
    BY <2>1 DEF Init, Promise!Init, Heads, Promise!Heads, Rows, Promise!Rows
<1>2. RInv /\ [Next]_vars => [Promise!Next]_<<score, [k \in Heads |-> Shown(O[k])]>>
  BY StepImplements
<1>3. QED
  BY RInitInv, RNextInv, <1>1, <1>2, PTL DEF Spec, ImplementsAttention, Promise!Spec

-----------------------------------------------------------------------------
\* Where the loops are in range before a step, they are after it.
LEMMA LoopsInRange ==
  ASSUME WholeRows, RInv, TypeOK, Next
  PROVE  /\ pc' \in {"k_row", "dot", "max", "exp", "quant", "v_row", "fma"}
         /\ h' \in 1 .. N_HEADS + 1 /\ s' \in 1 .. SEQ_LEN + LANES
         /\ d' \in 0 .. HEAD_DIM + LANES
<1>1. /\ h \in 1 .. N_HEADS + 1 /\ s \in 1 .. SEQ_LEN + LANES /\ d \in 0 .. HEAD_DIM + LANES
      /\ pc # "k_row" => h <= N_HEADS
      /\ pc # "k_row" /\ pc # "dot" => vlm = LANES
      /\ pc = "dot" => s <= SEQ_LEN /\ vl_max = LANES
      /\ pc = "fma" => s <= SEQ_LEN
  BY DEF TypeOK, RInv, WInv, WeightShapes, IInv, Loops, DotSoFar
<1>2. CASE KRow
  BY <1>1, <1>2, ShapeAssumption DEF KRow
<1>3. CASE Dot
  BY <1>1, <1>3, ShapeAssumption DEF Dot
<1>4. CASE DotReduce
  BY <1>1, <1>4, ShapeAssumption DEF DotReduce
<1>5. CASE StartMax \/ StartExp \/ StartQuant \/ StartPV
  BY <1>1, <1>5, ShapeAssumption DEF StartMax, StartExp, StartQuant, StartPV
<1>6. CASE MaxStrip
  BY <1>1, <1>6, ShapeAssumption DEF MaxStrip
<1>7. CASE ExpRow \/ QuantRow
  BY <1>1, <1>7, ShapeAssumption DEF ExpRow, QuantRow
<1>8. CASE VRow \/ RowAdded
  BY <1>1, <1>8, ShapeAssumption DEF VRow, RowAdded
<1>9. CASE Fma
  BY <1>1, <1>9, ShapeAssumption DEF Fma, MoreStrips
<1>10. CASE Store
  BY <1>1, <1>10, ShapeAssumption DEF Store
<1>11. QED
  BY <1>2, <1>3, <1>4, <1>5, <1>6, <1>7, <1>8, <1>9, <1>10 DEF Next

\* A score is one of the input or marked as garbage.
LEMMA ScoresInRange ==
  ASSUME RInv, TypeOK, Next
  PROVE  S' \in [Rows -> Scores \cup {Garbage}]
<1>1. CASE DotReduce
  <2>1. pc = "dot" /\ h \in Heads /\ s \in Rows /\ K_row = <<h, s>>
        /\ score \in [Heads -> [Rows -> Scores]]
    BY <1>1 DEF DotReduce, RInv, WInv, IInv, Loops, Shapes, DotSoFar, Heads, Rows
  <2>2. score[K_row[1]][K_row[2]] \in Scores
    BY <2>1
  <2>3. QED
    BY <1>1, <2>2 DEF DotReduce, TypeOK
<1>2. CASE ~DotReduce
  <2>1. S' = S
    BY <1>2 DEF Next, scores, KRow, Dot, StartMax, MaxStrip, StartExp, ExpRow,
       StartQuant, QuantRow, StartPV, VRow, Fma, RowAdded, Store
  <2>2. QED
    BY <2>1 DEF TypeOK
<1>3. QED
  BY <1>1, <1>2

\* Exponents of weights are between -ExpMin and 0, since no score exceeds the
\* maximum.
LEMMA WeightsInRange ==
  ASSUME RInv, TypeOK, Next
  PROVE  /\ DOMAIN P_fp32' = Rows /\ DOMAIN P_fp8' = Rows /\ DOMAIN sum_p' \subseteq Rows
         /\ \A i \in Rows : \A x \in P_fp32'[i] \cup P_fp8'[i] : x \in -ExpMin .. 0
<1>1. CASE ExpRow
  <2>1. pc = "exp" /\ s \in Rows /\ max_s \in Int /\ S[s] \in Int /\ S[s] <= max_s
    BY <1>1 DEF ExpRow, RInv, WInv, WeightShapes, MaxSoFar, IInv, Loops, Shapes, Rows
  <2>2. \A x \in Expf(Exponent) : x \in -ExpMin .. 0
    BY <2>1, ScoresAssumption DEF Expf, Exponent
  <2>3. /\ P_fp32' = [P_fp32 EXCEPT ![s] = Expf(Exponent)] /\ P_fp8' = P_fp8
        /\ sum_p' = PlusWeight(sum_p, s, Expf(Exponent))
    BY <1>1 DEF ExpRow
  <2>4. DOMAIN sum_p' \subseteq Rows
    BY <2>1, <2>3 DEF PlusWeight, TypeOK
  <2>5. ASSUME NEW i \in Rows, NEW x \in P_fp32'[i] PROVE x \in -ExpMin .. 0
    <3>1. CASE i = s
      BY <2>1, <2>2, <2>3, <2>5, <3>1 DEF TypeOK
    <3>2. CASE i # s
      BY <2>1, <2>3, <2>5, <3>2 DEF TypeOK
    <3>3. QED
      BY <3>1, <3>2
  <2>6. QED
    BY <2>3, <2>4, <2>5 DEF TypeOK
<1>2. CASE QuantRow
  <2>1. /\ P_fp8' = [P_fp8 EXCEPT ![s] = {x \in P_fp32[s] : x >= -Fp8Min}]
        /\ P_fp32' = P_fp32 /\ sum_p' = sum_p
    BY <1>2 DEF QuantRow
  <2>2. ASSUME NEW i \in Rows PROVE P_fp8'[i] \subseteq P_fp8[i] \cup P_fp32[i]
    BY <2>1 DEF TypeOK
  <2>3. QED
    BY <2>1, <2>2 DEF TypeOK
<1>3. CASE StartExp
  BY <1>3 DEF StartExp, SumStart, NoRows, TypeOK
<1>4. CASE ~(ExpRow \/ QuantRow \/ StartExp)
  <2>1. UNCHANGED weights
    BY <1>4 DEF Next, KRow, Dot, DotReduce, StartMax, MaxStrip, StartQuant, StartPV,
       VRow, Fma, RowAdded, Store
  <2>2. QED
    BY <2>1 DEF weights, TypeOK
<1>5. QED
  BY <1>1, <1>2, <1>3, <1>4

\* The accumulator holds bags.
LEMMA BagsStay ==
  ASSUME WholeRows, RInv, TypeOK, Next
  PROVE  \A x \in Dims : IsABag(O_fp32'[x])
<1>1. ASSUME NEW T PROVE IsABag(SetToBag(T))
  BY DEF IsABag, SetToBag
<1>2. CASE StartPV
  BY <1>1, <1>2 DEF StartPV, OutStart, EmptyBag
<1>3. CASE Fma
  <2>1. pc' = "fma"
    BY <1>3 DEF Fma
  <2>2. Accumulated'
    BY WNextInv DEF RInv, WInv, WholeRows
  <2>3. ASSUME NEW x \in Dims PROVE \E T : O_fp32'[x] = SetToBag(T)
    BY <2>1, <2>2, <2>3 DEF Accumulated
  <2>4. QED
    BY <1>1, <2>3
<1>4. CASE ~(StartPV \/ Fma)
  <2>1. O_fp32' = O_fp32
    BY <1>4 DEF Next, values, KRow, Dot, DotReduce, StartMax, MaxStrip, StartExp, ExpRow,
       StartQuant, QuantRow, VRow, RowAdded, Store
  <2>2. QED
    BY <2>1 DEF TypeOK
<1>5. QED
  BY <1>2, <1>3, <1>4

\* Counters of bench_fa_mixed_rvv.c pass the ends of their loops by less than
\* a strip, and every exponential has an argument between -ExpMin and 0: for
\* every size that is a whole number of strips and any scores.
THEOREM TypeCorrect ==
  ASSUME WholeRows
  PROVE  Spec => []TypeOK
<1>1. Init => TypeOK
  <2> SUFFICES ASSUME Init PROVE TypeOK
    OBVIOUS
  <2>1. IsABag(EmptyBag)
    BY DEF IsABag, EmptyBag, SetToBag
  <2>2. QED
    BY <2>1, ShapeAssumption DEF Init, TypeOK, NoRows
<1>2. RInv /\ TypeOK /\ [Next]_vars => TypeOK'
  <2> SUFFICES ASSUME RInv, TypeOK, [Next]_vars PROVE TypeOK'
    OBVIOUS
  <2>1. CASE Next
    BY <2>1, LoopsInRange, ScoresInRange, WeightsInRange, BagsStay DEF TypeOK
  <2>2. CASE UNCHANGED vars
    BY <2>2 DEF vars, loops, scores, weights, values, TypeOK
  <2>3. QED
    BY <2>1, <2>2
<1>3. QED
  BY RInitInv, RNextInv, <1>1, <1>2, PTL DEF Spec
=============================================================================
