------------------------ MODULE OnlineSoftmaxProofs ------------------------
(***************************************************************************)
(* Proofs about OnlineSoftmax, for any number of heads and rows, any       *)
(* scores in any order and any underflow threshold.                        *)
(***************************************************************************)
EXTENDS OnlineSoftmax, TLAPS

\* The inductive invariant.
Inv == TypeOK /\ MaxOfSeen /\ ExactWeights /\ NearMaxKept

\* A rescaled sum has the rows of the sum, or none after an underflow.
LEMMA TimesFacts ==
  ASSUME NEW sum, sum \in [DOMAIN sum -> Int], NEW x \in Int
  PROVE  /\ Times(sum, x) \in [DOMAIN Times(sum, x) -> Int]
         /\ DOMAIN Times(sum, x) \subseteq DOMAIN sum
         /\ x >= -ExpMin => DOMAIN Times(sum, x) = DOMAIN sum
         /\ \A i \in DOMAIN Times(sum, x) : Times(sum, x)[i] = sum[i] + x
<1>1. CASE x < -ExpMin
  <2>1. Times(sum, x) = NoRows
    BY <1>1 DEF Times, Underflows
  <2>2. DOMAIN NoRows = {} /\ NoRows \in [{} -> Int]
    BY DEF NoRows
  <2>3. ~(x >= -ExpMin)
    BY <1>1, ScoresAssumption
  <2> QED
    BY <2>1, <2>2, <2>3
<1>2. CASE ~(x < -ExpMin)
  <2>1. Times(sum, x) = [i \in DOMAIN sum |-> sum[i] + x]
    BY <1>2 DEF Times, Underflows
  <2> QED
    BY <2>1
<1> QED
  BY <1>1, <1>2

\* A factor of exp(0) leaves a sum as it is.
LEMMA TimesOne ==
  ASSUME NEW sum, sum \in [DOMAIN sum -> Int]
  PROVE  Times(sum, 0) = sum
<1>1. ~Underflows(0)
  BY ScoresAssumption DEF Underflows
<1>2. Times(sum, 0) = [i \in DOMAIN sum |-> sum[i] + 0]
  BY <1>1 DEF Times
<1>3. \A i \in DOMAIN sum : sum[i] + 0 = sum[i]
  OBVIOUS
<1> QED
  BY <1>2, <1>3

\* Adding a row adds that row, or nothing if its exponential underflows.
LEMMA PlusFacts ==
  ASSUME NEW sum, sum \in [DOMAIN sum -> Int], NEW r, NEW x \in Int
  PROVE  /\ Plus(sum, r, x) \in [DOMAIN Plus(sum, r, x) -> Int]
         /\ DOMAIN sum \subseteq DOMAIN Plus(sum, r, x)
         /\ DOMAIN Plus(sum, r, x) \subseteq DOMAIN sum \cup {r}
         /\ x >= -ExpMin => r \in DOMAIN Plus(sum, r, x)
         /\ \A i \in DOMAIN sum : i # r => Plus(sum, r, x)[i] = sum[i]
         /\ r \notin DOMAIN sum /\ r \in DOMAIN Plus(sum, r, x) =>
              Plus(sum, r, x)[r] = x
<1>1. CASE x < -ExpMin
  <2>1. Plus(sum, r, x) = sum
    BY <1>1 DEF Plus, Underflows
  <2>2. ~(x >= -ExpMin)
    BY <1>1, ScoresAssumption
  <2> QED
    BY <2>1, <2>2
<1>2. CASE ~(x < -ExpMin)
  <2>1. Plus(sum, r, x) = [j \in DOMAIN sum \cup {r} |-> IF j = r THEN x ELSE sum[j]]
    BY <1>2 DEF Plus, Underflows
  <2> QED
    BY <2>1
<1> QED
  BY <1>1, <1>2

\* The score of the row at hand is one of Scores.
LEMMA ScoreFacts ==
  ASSUME TypeOK, h <= N_HEADS
  PROVE  \A i \in Rows : score[h][i] \in Scores /\ score[h][i] \in Int
<1>1. h \in Heads
  BY ShapeAssumption DEF TypeOK, Heads
<1>2. score[h] \in [Rows -> Scores]
  BY <1>1 DEF TypeOK
<1> QED
  BY <1>2, ScoresAssumption

LEMMA InitInv == Init => Inv
<1> SUFFICES ASSUME Init PROVE Inv
  OBVIOUS
<1>1. S = NoRows /\ VKQ = NoRows /\ h = 1 /\ ic = 1 /\ M = MInit
  BY DEF Init
<1>2. DOMAIN NoRows = {} /\ NoRows \in [{} -> Int]
  BY DEF NoRows
<1>3. TypeOK
  <2>1. O = [k \in Heads |-> NoResult]
    BY DEF Init
  <2>2. O = [k \in Heads |-> O[k]] /\ \A k \in Heads : O[k] = NoResult
    BY <2>1
  <2>3. 1 \in 1 .. N_HEADS + 1 /\ 1 \in 1 .. SEQ_LEN + 1
    BY ShapeAssumption
  <2> QED
    BY <1>1, <1>2, <2>2, <2>3, ScoresAssumption DEF TypeOK, Init
<1>4. MaxOfSeen
  BY <1>1, ShapeAssumption DEF MaxOfSeen
<1>5. ExactWeights
  BY <1>1, <1>2 DEF ExactWeights
<1>6. NearMaxKept
  BY <1>1, <1>2 DEF NearMaxKept
<1> QED
  BY <1>3, <1>4, <1>5, <1>6 DEF Inv

\* Absorbing a row, whichever of the two branches absorbs it: what the new
\* maximum, sum and accumulator have to satisfy for the invariant to hold.
LEMMA AbsorbInv ==
  ASSUME Inv, h <= N_HEADS, ic <= SEQ_LEN,
         UNCHANGED <<score, O, h>>, ic' = ic + 1,
         M' \in Int, score[h][ic] <= M', M <= M',
         M' = score[h][ic] \/ (M' = M /\ ic > 1),
         VKQ' = S',
         S' \in [DOMAIN S' -> Int],
         DOMAIN S' \subseteq DOMAIN S \cup {ic},
         M' - ExpMin <= score[h][ic] => ic \in DOMAIN S',
         M' - ExpMin <= M => DOMAIN S \subseteq DOMAIN S',
         \A i \in DOMAIN S' : S'[i] = score[h][i] - M'
  PROVE  Inv'
<1> USE DEF Inv
<1>1. ic \in Nat /\ ic >= 1 /\ h \in Nat /\ M \in Int /\ ic \in Rows
  BY ShapeAssumption DEF TypeOK, Rows
<1>2. \A i \in Rows : score[h][i] \in Int
  BY ScoreFacts
<1>3. \A i \in 1 .. ic - 1 : i \in Rows /\ score[h][i] <= M'
  <2> TAKE i \in 1 .. ic - 1
  <2>1. i \in Rows /\ ic > 1
    BY <1>1, ShapeAssumption DEF Rows
  <2>2. score[h][i] <= M
    BY <2>1 DEF MaxOfSeen
  <2> QED
    BY <1>1, <1>2, <2>1, <2>2
<1>4. TypeOK'
  <2>1. DOMAIN S' \subseteq Rows
    BY <1>1 DEF TypeOK
  <2>2. ic' \in 1 .. SEQ_LEN + 1
    BY <1>1, ShapeAssumption
  <2> QED
    BY <2>1, <2>2 DEF TypeOK
<1>5. MaxOfSeen'
  <2>1. ic' > 1 /\ ic' # 1 /\ ~(h' > N_HEADS)
    BY <1>1, ShapeAssumption
  <2>2. \E i \in 1 .. ic' - 1 : score'[h'][i] = M'
    <3>1. CASE M' = score[h][ic]
      <4>1. ic \in 1 .. ic' - 1
        BY <1>1
      <4> QED
        BY <3>1, <4>1
    <3>2. CASE M' = M /\ ic > 1
      <4>1. PICK i \in 1 .. ic - 1 : score[h][i] = M
        BY <3>2 DEF MaxOfSeen
      <4>2. i \in 1 .. ic' - 1
        BY <1>1
      <4> QED
        BY <3>2, <4>1, <4>2
    <3> QED
      BY <3>1, <3>2
  <2>3. \A i \in 1 .. ic' - 1 : score'[h'][i] <= M'
    <3> TAKE i \in 1 .. ic' - 1
    <3>1. i \in 1 .. ic - 1 \/ i = ic
      BY <1>1
    <3> QED
      BY <3>1, <1>3
  <2> QED
    BY <2>1, <2>2, <2>3 DEF MaxOfSeen
<1>6. ExactWeights'
  <2>1. \A i \in DOMAIN S' : i < ic'
    <3> TAKE i \in DOMAIN S'
    <3>1. CASE i = ic
      BY <3>1, <1>1
    <3>2. CASE i \in DOMAIN S
      <4>1. i < ic /\ i \in Rows
        BY <3>2 DEF ExactWeights, TypeOK
      <4> QED
        BY <4>1, <1>1, ShapeAssumption DEF Rows
    <3> QED
      BY <3>1, <3>2
  <2> QED
    BY <2>1 DEF ExactWeights
<1>7. NearMaxKept'
  <2> SUFFICES ASSUME NEW i \in 1 .. ic' - 1, score[h][i] >= M' - ExpMin
               PROVE  i \in DOMAIN S'
    BY DEF NearMaxKept
  <2>1. CASE i = ic
    BY <2>1, <1>1, <1>2, ScoresAssumption
  <2>2. CASE i \in 1 .. ic - 1
    <3>1. score[h][i] \in Int /\ i \in Rows
      BY <2>2, <1>2, <1>3
    <3>2. score[h][i] <= M
      <4>1. ic > 1
        BY <2>2, <1>1
      <4> QED
        BY <2>2, <4>1 DEF MaxOfSeen
    <3>3. M' - ExpMin <= M /\ score[h][i] >= M - ExpMin
      BY <3>1, <3>2, <1>1, ScoresAssumption
    <3>4. i \in DOMAIN S
      BY <3>3, <2>2 DEF NearMaxKept
    <3> QED
      BY <3>3, <3>4
  <2>3. i = ic \/ i \in 1 .. ic - 1
    BY <1>1
  <2> QED
    BY <2>1, <2>2, <2>3
<1> QED
  BY <1>4, <1>5, <1>6, <1>7

LEMMA NewMaxInv == Inv /\ NewMax => Inv'
<1> SUFFICES ASSUME Inv, NewMax PROVE Inv'
  OBVIOUS
<1> DEFINE ms == M - score[h][ic]
           T  == Times(S, ms)
<1>1. h <= N_HEADS /\ ic <= SEQ_LEN /\ score[h][ic] > M /\ M' = score[h][ic]
      /\ ic' = ic + 1 /\ UNCHANGED <<score, O, h>>
  BY DEF NewMax
<1>2. TypeOK /\ ic \in Rows /\ M \in Int /\ S \in [DOMAIN S -> Int] /\ VKQ = S
  BY <1>1, ShapeAssumption DEF Inv, TypeOK, Rows, ExactWeights
<1>3. score[h][ic] \in Int /\ \A i \in Rows : score[h][i] \in Int
  BY <1>1, <1>2, ScoreFacts
<1>4. ms \in Int /\ ExpMin \in Nat
  BY <1>2, <1>3, ScoresAssumption
<1>5. S' = Plus(T, ic, 0) /\ VKQ' = Plus(T, ic, 0)
  BY <1>2 DEF NewMax, NewSum
<1>6. /\ T \in [DOMAIN T -> Int]
      /\ DOMAIN T \subseteq DOMAIN S
      /\ ms >= -ExpMin => DOMAIN T = DOMAIN S
      /\ \A i \in DOMAIN T : T[i] = S[i] + ms
  BY <1>2, <1>4, TimesFacts
<1> HIDE DEF T, ms
<1>7. ic \notin DOMAIN T
  BY <1>2, <1>6 DEF Inv, ExactWeights, Rows
<1>8. /\ S' \in [DOMAIN S' -> Int]
      /\ DOMAIN T \subseteq DOMAIN S'
      /\ DOMAIN S' \subseteq DOMAIN T \cup {ic}
      /\ ic \in DOMAIN S' /\ S'[ic] = 0
      /\ \A i \in DOMAIN T : S'[i] = T[i]
  <2>1. 0 \in Int /\ 0 >= -ExpMin
    BY <1>4
  <2> QED
    BY <1>5, <1>6, <1>7, <2>1, PlusFacts
<1>9. \A i \in DOMAIN S' : S'[i] = score[h][i] - M'
  <2> TAKE i \in DOMAIN S'
  <2>1. CASE i = ic
    BY <2>1, <1>1, <1>3, <1>8
  <2>2. CASE i \in DOMAIN T
    <3>1. i \in DOMAIN S /\ S'[i] = S[i] + ms
      BY <2>2, <1>6, <1>8
    <3>2. S[i] = score[h][i] - M /\ i \in Rows
      BY <3>1 DEF Inv, ExactWeights, TypeOK
    <3> QED
      BY <3>1, <3>2, <1>1, <1>2, <1>3 DEF ms
  <2> QED
    BY <2>1, <2>2, <1>8
<1>10. M' - ExpMin <= M => DOMAIN S \subseteq DOMAIN S'
  <2>1. M' - ExpMin <= M => ms >= -ExpMin
    BY <1>1, <1>2, <1>3, <1>4 DEF ms
  <2> QED
    BY <2>1, <1>6, <1>8
<1>11. M' \in Int /\ score[h][ic] <= M' /\ M <= M'
  BY <1>1, <1>2, <1>3
<1>12. DOMAIN S' \subseteq DOMAIN S \cup {ic}
  BY <1>6, <1>8
<1> QED
  BY <1>1, <1>5, <1>8, <1>9, <1>10, <1>11, <1>12, AbsorbInv

LEMMA OldMaxInv == Inv /\ OldMax => Inv'
<1> SUFFICES ASSUME Inv, OldMax PROVE Inv'
  OBVIOUS
<1> DEFINE e == score[h][ic] - M
<1>1. h <= N_HEADS /\ ic <= SEQ_LEN /\ ~(score[h][ic] > M) /\ M' = M
      /\ ic' = ic + 1 /\ UNCHANGED <<score, O, h>>
  BY DEF OldMax
<1>2. TypeOK /\ ic \in Rows /\ M \in Int /\ S \in [DOMAIN S -> Int] /\ VKQ = S
  BY <1>1, ShapeAssumption DEF Inv, TypeOK, Rows, ExactWeights
<1>3. score[h][ic] \in Int /\ score[h][ic] \in Scores /\ \A i \in Rows : score[h][i] \in Int
  BY <1>1, <1>2, ScoreFacts
<1>4. e \in Int /\ ExpMin \in Nat
  BY <1>2, <1>3, ScoresAssumption
<1>5. S' = Plus(S, ic, e) /\ VKQ' = Plus(S, ic, e)
  BY <1>2, TimesOne DEF OldMax, NewSum
<1>6. ic \notin DOMAIN S
  BY <1>2 DEF Inv, ExactWeights, Rows
<1>7. ic > 1
  <2>1. ic = 1 => M = MInit
    BY DEF Inv, MaxOfSeen
  <2>2. M = MInit => FALSE
    BY <1>1, <1>2, <1>3, ScoresAssumption
  <2> QED
    BY <2>1, <2>2, <1>2, ShapeAssumption DEF Rows
<1>8. /\ S' \in [DOMAIN S' -> Int]
      /\ DOMAIN S \subseteq DOMAIN S'
      /\ DOMAIN S' \subseteq DOMAIN S \cup {ic}
      /\ e >= -ExpMin => ic \in DOMAIN S'
      /\ ic \in DOMAIN S' => S'[ic] = e
      /\ \A i \in DOMAIN S : S'[i] = S[i]
  <2> HIDE DEF e
  <2> QED
    BY <1>2, <1>4, <1>5, <1>6, PlusFacts
<1>9. \A i \in DOMAIN S' : S'[i] = score[h][i] - M'
  BY <1>1, <1>8 DEF Inv, ExactWeights
<1>10. M' - ExpMin <= score[h][ic] => ic \in DOMAIN S'
  <2>1. M' - ExpMin <= score[h][ic] => e >= -ExpMin
    BY <1>1, <1>2, <1>3, <1>4
  <2> QED
    BY <2>1, <1>8
<1>11. M' \in Int /\ score[h][ic] <= M' /\ M <= M'
  BY <1>1, <1>2, <1>3
<1> HIDE DEF e
<1> QED
  BY <1>1, <1>5, <1>7, <1>8, <1>9, <1>10, <1>11, AbsorbInv

LEMMA FinishHeadInv == Inv /\ FinishHead => Inv'
<1> SUFFICES ASSUME Inv, FinishHead PROVE Inv'
  OBVIOUS
<1>1. h <= N_HEADS /\ h' = h + 1 /\ ic' = 1 /\ M' = MInit
      /\ S' = NoRows /\ VKQ' = NoRows /\ score' = score
  BY DEF FinishHead, Reset
<1>2. DOMAIN NoRows = {} /\ NoRows \in [{} -> Int]
  BY DEF NoRows
<1>3. h \in Nat /\ h' \in 1 .. N_HEADS + 1 /\ 1 \in 1 .. SEQ_LEN + 1
  BY <1>1, ShapeAssumption DEF Inv, TypeOK
<1>4. TypeOK'
  <2>1. O' = [k \in Heads |-> O'[k]]
    BY DEF FinishHead, Store, Inv, TypeOK
  <2>2. \A k \in Heads : k >= h' => O'[k] = NoResult
    <3> TAKE k \in Heads
    <3>1. k \in Nat /\ (k >= h' => k >= h /\ k # h)
      BY <1>1, <1>3 DEF Heads
    <3>2. k # h => O'[k] = O[k]
      BY DEF FinishHead, Store, Inv, TypeOK
    <3> QED
      BY <3>1, <3>2 DEF Inv, TypeOK
  <2> QED
    BY <1>1, <1>2, <1>3, <2>1, <2>2, ScoresAssumption DEF Inv, TypeOK
<1>5. MaxOfSeen'
  BY <1>1 DEF MaxOfSeen
<1>6. ExactWeights'
  BY <1>1, <1>2 DEF ExactWeights
<1>7. NearMaxKept'
  BY <1>1 DEF NearMaxKept
<1> QED
  BY <1>4, <1>5, <1>6, <1>7 DEF Inv

LEMMA NextInv == Inv /\ [Next]_vars => Inv'
<1> SUFFICES ASSUME Inv, [Next]_vars PROVE Inv'
  OBVIOUS
<1>1. CASE Next
  BY <1>1, NewMaxInv, OldMaxInv, FinishHeadInv DEF Next
<1>2. CASE UNCHANGED vars
  BY <1>2 DEF vars, Inv, TypeOK, MaxOfSeen, ExactWeights, NearMaxKept
<1> QED
  BY <1>1, <1>2

LEMMA SpecInv == Spec => []Inv
<1> QED
  BY InitInv, NextInv, PTL DEF Spec

\* Type correctness of the kernel state.
THEOREM TypeCorrect == Spec => []TypeOK
<1>1. Inv => TypeOK
  BY DEF Inv
<1> QED
  BY <1>1, SpecInv, PTL

\* The numerator and the denominator stay rescaled in step: for any order of
\* the scores every row in them has weight exp(s - M) for the maximum of now.
THEOREM WeightsExact == Spec => []ExactWeights
<1>1. Inv => ExactWeights
  BY DEF Inv
<1> QED
  BY <1>1, SpecInv, PTL

\* No row within ExpMin of the running maximum is lost to an underflow.
THEOREM NoNearRowLost == Spec => []NearMaxKept
<1>1. Inv => NearMaxKept
  BY DEF Inv
<1> QED
  BY <1>1, SpecInv, PTL

\* M is the largest of the scores seen so far, for any order of the rows.
THEOREM RunningMax == Spec => []MaxOfSeen
<1>1. Inv => MaxOfSeen
  BY DEF Inv
<1> QED
  BY <1>1, SpecInv, PTL

\* When the rows of a head are through, the row of the maximum is in the sum,
\* with weight exp(0).
LEMMA TopInSum ==
  ASSUME Inv, FinishHead
  PROVE  \E i \in DOMAIN S : S[i] = 0
<1>1. h <= N_HEADS /\ ic > 1
  BY ShapeAssumption DEF FinishHead, Inv, TypeOK
<1>2. PICK top \in 1 .. ic - 1 : score[h][top] = M
  BY <1>1 DEF Inv, MaxOfSeen
<1>3. M \in Int /\ M >= M - ExpMin /\ M - M = 0
  BY ScoresAssumption DEF Inv, TypeOK
<1>4. top \in DOMAIN S
  BY <1>2, <1>3 DEF Inv, NearMaxKept
<1>5. S[top] = 0
  BY <1>2, <1>3, <1>4 DEF Inv, ExactWeights
<1> QED
  BY <1>4, <1>5

\* The division guard S == 0 of the kernel is never needed: the sum of a
\* finished head contains exp(0).
THEOREM DenominatorNotZero == Spec => []DenominatorPositive
<1>1. Init => DenominatorPositive
  BY DEF Init, DenominatorPositive, NoResult
<1>2. Inv /\ DenominatorPositive /\ [Next]_vars => DenominatorPositive'
  <2> SUFFICES ASSUME Inv, DenominatorPositive, [Next]_vars
               PROVE  DenominatorPositive'
    OBVIOUS
  <2>1. CASE NewMax \/ OldMax \/ UNCHANGED vars
    <3>1. O' = O
      BY <2>1 DEF NewMax, OldMax, vars
    <3> QED
      BY <3>1 DEF DenominatorPositive
  <2>2. CASE FinishHead
    <3> SUFFICES ASSUME NEW k \in Heads, O'[k].done
                 PROVE  \E i \in DOMAIN O'[k].den : O'[k].den[i] = 0
      BY DEF DenominatorPositive
    <3>1. O = [j \in Heads |-> O[j]] /\ O' = [O EXCEPT ![h] = Normalised]
      BY <2>2 DEF FinishHead, Store, Inv, TypeOK
    <3>2. CASE k = h
      <4>1. O'[k].den = S
        BY <3>1, <3>2 DEF Normalised
      <4> QED
        BY <4>1, <2>2, TopInSum
    <3>3. CASE k # h
      <4>1. O'[k] = O[k]
        BY <3>1, <3>3
      <4> QED
        BY <4>1 DEF DenominatorPositive
    <3> QED
      BY <3>2, <3>3
  <2> QED
    BY <2>1, <2>2 DEF Next
<1> QED
  BY <1>1, <1>2, SpecInv, PTL DEF Spec

-----------------------------------------------------------------------------
\* The head fits the two register groups.
Fits == vl_m4 <= HEAD_DIM /\ HEAD_DIM - vl_m4 <= VLMAX

LEMMA DimsCovered == ASSUME Fits PROVE VKQ_Dims = Dims
<1>1. vl_m4 \in Nat \ {0} /\ HEAD_DIM \in Nat /\ VLMAX \in Nat
  BY ShapeAssumption DEF vl_m4, AtMost
<1>2. AtMost(HEAD_DIM - vl_m4, VLMAX) = HEAD_DIM - vl_m4
  BY DEF Fits, AtMost
<1>3. VKQ_Dims = (0 .. vl_m4 - 1) \cup (vl_m4 .. vl_m4 + (HEAD_DIM - vl_m4) - 1)
  BY <1>2 DEF VKQ_Dims
<1> HIDE DEF vl_m4
<1>4. vl_m4 <= HEAD_DIM
  BY DEF Fits
<1> QED
  BY <1>1, <1>3, <1>4 DEF Dims

LEMMA InitImplements == Init => Promise!Init
BY DEF Init, Promise!Init, Heads, Rows, NoResult, NoRows,
       Promise!Heads, Promise!Rows, Promise!NoResult, Promise!NoRows

\* When the last row of a head is in, M is the largest score of the head and
\* the sum is what a two-pass computation would have formed.
LEMMA FinishIsProduce ==
  ASSUME Fits, Inv, FinishHead
  PROVE  Promise!Produce(h)
<1>1. /\ h <= N_HEADS /\ ic > SEQ_LEN /\ score' = score
      /\ O' = [O EXCEPT ![h] =
                [done |-> TRUE, dims |-> VKQ_Dims,
                 num |-> IF DOMAIN S = {} THEN NoRows ELSE VKQ, den |-> S]]
  BY DEF FinishHead, Store, Normalised
<1>2. h \in Heads /\ ic = SEQ_LEN + 1 /\ ic > 1 /\ Rows = 1 .. ic - 1
  BY <1>1, ShapeAssumption DEF Inv, TypeOK, Heads, Rows
<1>3. O[h] = NoResult
  <2>1. h \in Nat /\ h >= h
    BY <1>2, ShapeAssumption DEF Heads
  <2> QED
    BY <1>2, <2>1 DEF Inv, TypeOK
<1>4. PICK top \in Rows : score[h][top] = M
  BY <1>1, <1>2 DEF Inv, MaxOfSeen
<1>5. \A i \in Rows : score[h][i] <= M
  BY <1>1, <1>2 DEF Inv, MaxOfSeen
<1>6. M \in Scores /\ M \in Int /\ ExpMin \in Nat
  BY <1>1, <1>4, ScoreFacts, ScoresAssumption DEF Inv
<1>7. \A i \in Rows : score[h][i] >= M - ExpMin => i \in DOMAIN S
  BY <1>2 DEF Inv, NearMaxKept
<1>8. DOMAIN S # {}
  <2>1. score[h][top] >= M - ExpMin
    BY <1>4, <1>6
  <2> QED
    BY <1>7, <2>1
<1>9. DOMAIN S \subseteq Rows /\ VKQ = S /\ S = [i \in DOMAIN S |-> score[h][i] - M]
  BY DEF Inv, TypeOK, ExactWeights
<1>10. O' = [O EXCEPT ![h] =
               [done |-> TRUE, dims |-> Dims,
                num |-> Promise!Weights(h, M, DOMAIN S),
                den |-> Promise!Weights(h, M, DOMAIN S)]]
  BY <1>1, <1>8, <1>9, DimsCovered DEF Promise!Weights
<1>11. Promise!IsMax(h, M)
  BY <1>4, <1>5 DEF Promise!IsMax, Promise!Rows, Rows
<1>12. Promise!Keeps(h, M, DOMAIN S, ExpMin)
  BY <1>7 DEF Promise!Keeps, Promise!Rows, Rows
<1>13. DOMAIN S \in SUBSET Promise!Rows
  BY <1>9 DEF Promise!Rows, Rows
<1>14. ~O[h].done
  BY <1>3 DEF NoResult
<1>15. Promise!Dims = Dims
  BY DEF Promise!Dims, Dims
<1> QED
  BY <1>1, <1>6, <1>10, <1>11, <1>12, <1>13, <1>14, <1>15 DEF Promise!Produce

LEMMA StepImplements ==
  ASSUME Fits, Inv, [Next]_vars
  PROVE  [Promise!Next]_<<score, O>>
<1>1. CASE NewMax \/ OldMax
  BY <1>1 DEF NewMax, OldMax
<1>2. CASE FinishHead
  <2>1. h \in Promise!Heads
    BY <1>2, ShapeAssumption DEF FinishHead, Inv, TypeOK, Promise!Heads
  <2> QED
    BY <1>2, <2>1, FinishIsProduce DEF Promise!Next
<1>3. CASE UNCHANGED vars
  BY <1>3 DEF vars
<1> QED
  BY <1>1, <1>2, <1>3 DEF Next

\* The streaming kernel computes, in one pass, the attention of every head:
\* whatever the order of the scores, provided the head fits the two register
\* groups.
THEOREM ImplementsPromise ==
  ASSUME Fits
  PROVE  Spec => ImplementsAttention
<1>1. Init => Promise!Init
  BY InitImplements
<1>2. Inv /\ [Next]_vars => [Promise!Next]_<<score, O>>
  BY StepImplements
<1> QED
  BY <1>1, <1>2, SpecInv, PTL DEF Spec, ImplementsAttention, Promise!Spec
=============================================================================
