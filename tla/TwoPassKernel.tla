---------------------------- MODULE TwoPassKernel ----------------------------
(***************************************************************************)
(* The two-pass kernel (bench_fa_mixed_rvv.c): for each head all scores    *)
(* first, then their maximum, the exponentials and their sum, the FP8      *)
(* weights, the weighted sum of the value rows and the store.  The score   *)
(* array S, the weights P_fp32 and P_fp8, the row buffers and O_fp32 are   *)
(* allocated once and used again for every head.                           *)
(*                                                                         *)
(* A row buffer holds the row <<h, s>> it was filled from.  A weight is    *)
(* the set {x} for exp(x), and {} for zero; O_fp32[d] is the bag of the    *)
(* pairs <<row, exponent>> added to it, sum_p a function from the rows it  *)
(* contains to their exponents.  A score that is not the dot product over  *)
(* every dimension is Garbage.                                             *)
(*                                                                         *)
(* A definition marked as faulty stands for a slip in the one after it.    *)
(***************************************************************************)
EXTENDS Integers, FiniteSets, Bags, Vsetvl

CONSTANTS
  N_HEADS, SEQ_LEN, HEAD_DIM,
  LANES,              \* elements handled by one strip, 16 in the code
  VLMAX,              \* elements of an e32 m2 vector group, 16 for VLEN = 256
  Scores,
  ExpMin,             \* expf of less than -ExpMin is zero
  Fp8Min,             \* the FP8 weight of less than -Fp8Min is zero
  MInit               \* the initial maximum, -1e30

ASSUME ShapeAssumption ==
  /\ N_HEADS \in Nat \ {0} /\ SEQ_LEN \in Nat \ {0} /\ HEAD_DIM \in Nat \ {0}
  /\ LANES \in Nat \ {0} /\ VLMAX \in Nat \ {0}
ASSUME ScoresAssumption ==
  /\ Scores \subseteq Int /\ ExpMin \in Nat /\ Fp8Min \in 0 .. ExpMin
  /\ MInit \in Int /\ \A x \in Scores : MInit < x

VARIABLES
  score,              \* input: the scaled dot product of every head and row
  O,
  pc, h, s, d,
  vl_max, vlm,        \* the strides of the dot product and of the later loops
  K_row, V_row, vacc, S, max_s, P_fp32, sum_p, P_fp8, p, O_fp32

loops   == <<pc, h, s, d>>
scores  == <<vl_max, K_row, vacc, S>>
weights == <<P_fp32, sum_p, P_fp8>>
values  == <<V_row, p, O_fp32>>
vars == <<score, O, loops, vlm, scores, max_s, weights, values>>

Heads == 1 .. N_HEADS
Rows  == 1 .. SEQ_LEN
Dims  == 0 .. HEAD_DIM - 1
Lanes == 0 .. VLMAX - 1

NoRow    == <<0, 0>>
NoRows   == [i \in {} |-> 0]
NoResult == [done |-> FALSE, num |-> [x \in Dims |-> EmptyBag], den |-> NoRows]
Garbage  == MInit - 1

Init ==
  /\ score \in [Heads -> [Rows -> Scores]]
  /\ O = [k \in Heads |-> NoResult]
  /\ pc = "k_row" /\ h = 1 /\ s = 1 /\ d = 0
  /\ vl_max = 0 /\ vlm = 0
  /\ K_row = NoRow /\ V_row = NoRow
  /\ vacc = [l \in Lanes |-> {}]
  /\ S = [i \in Rows |-> Garbage]
  /\ max_s = MInit
  /\ P_fp32 = [i \in Rows |-> {}] /\ P_fp8 = [i \in Rows |-> {}]
  /\ sum_p = NoRows /\ p = {}
  /\ O_fp32 = [x \in Dims |-> EmptyBag]

-----------------------------------------------------------------------------
\* Q K^T: dequantise row s of K, then accumulate strip by strip, lane l of
\* the accumulator taking dimension d + l.

\* faulty: the offset of the head is forgotten
KeyRowNoHead == <<1, s>>
KeyRow == <<h, s>>

KRow ==
  /\ pc = "k_row" /\ h <= N_HEADS /\ s <= SEQ_LEN
  /\ K_row' = KeyRow
  /\ vl_max' \in VLengths(LANES, VLMAX)
  /\ vacc' = [l \in Lanes |-> {}]
  /\ d' = 0 /\ pc' = "dot"
  /\ UNCHANGED <<score, O, h, s, vlm, S, max_s, weights, values>>

Dot ==
  /\ pc = "dot" /\ d < HEAD_DIM
  /\ \E vl \in VLengths(HEAD_DIM - d, VLMAX) :
       vacc' = [l \in Lanes |-> IF l < vl THEN vacc[l] \cup {d + l} ELSE vacc[l]]
  /\ d' = d + vl_max
  /\ UNCHANGED <<score, O, pc, h, s, vl_max, vlm, K_row, S, max_s, weights, values>>

\* The reduction takes vl_max lanes.
Reduced == [x \in Dims |-> Cardinality({l \in 0 .. vl_max - 1 : x \in vacc[l]})]

DotReduce ==
  /\ pc = "dot" /\ d >= HEAD_DIM
  /\ S' = [S EXCEPT ![s] = IF \A x \in Dims : Reduced[x] = 1
                           THEN score[K_row[1]][K_row[2]] ELSE Garbage]
  /\ s' = s + 1 /\ pc' = "k_row"
  /\ UNCHANGED <<score, O, h, d, vlm, vl_max, K_row, vacc, max_s, weights, values>>

\* The maximum of all scores, by strips of vlm.

StartMax ==
  /\ pc = "k_row" /\ s > SEQ_LEN
  /\ vlm' \in VLengths(LANES, VLMAX)
  /\ max_s' = MInit
  /\ s' = 1 /\ pc' = "max"
  /\ UNCHANGED <<score, O, h, d, scores, weights, values>>

LargestOf(nums) == CHOOSE m \in nums : \A n \in nums : n <= m

MaxStrip ==
  /\ pc = "max" /\ s <= SEQ_LEN
  /\ \E vl \in VLengths(SEQ_LEN - (s - 1), VLMAX) :
       max_s' = LargestOf({max_s} \cup {S[i] : i \in s .. s + vl - 1})
  /\ s' = s + vlm
  /\ UNCHANGED <<score, O, pc, h, d, vlm, scores, weights, values>>

\* faulty: the sum of the head before is kept
SumStartKept == sum_p
SumStart == NoRows

StartExp ==
  /\ pc = "max" /\ s > SEQ_LEN
  /\ sum_p' = SumStart
  /\ s' = 1 /\ pc' = "exp"
  /\ UNCHANGED <<score, O, h, d, vlm, scores, max_s, P_fp32, P_fp8, values>>

Expf(x) == IF x < -ExpMin THEN {} ELSE {x}
PlusWeight(sum, i, e) ==
  IF e = {} THEN sum
  ELSE [j \in DOMAIN sum \cup {i} |-> IF j = i THEN CHOOSE x \in e : TRUE ELSE sum[j]]

\* faulty: the operands are swapped
ExponentSwapped == max_s - S[s]
Exponent == S[s] - max_s

ExpRow ==
  /\ pc = "exp" /\ s <= SEQ_LEN
  /\ P_fp32' = [P_fp32 EXCEPT ![s] = Expf(Exponent)]
  /\ sum_p' = PlusWeight(sum_p, s, Expf(Exponent))
  /\ s' = s + 1
  /\ UNCHANGED <<score, O, pc, h, d, vlm, scores, max_s, P_fp8, values>>

StartQuant ==
  /\ pc = "exp" /\ s > SEQ_LEN
  /\ s' = 1 /\ pc' = "quant"
  /\ UNCHANGED <<score, O, h, d, vlm, scores, max_s, weights, values>>

QuantRow ==
  /\ pc = "quant" /\ s <= SEQ_LEN
  /\ P_fp8' = [P_fp8 EXCEPT ![s] = {x \in P_fp32[s] : x >= -Fp8Min}]
  /\ s' = s + 1
  /\ UNCHANGED <<score, O, pc, h, d, vlm, scores, max_s, P_fp32, sum_p, values>>

\* P V, one row of V after the other: dequantise it, then add p times the
\* row to O_fp32 strip by strip.

\* faulty: the row of the head before is added to
OutStartKept == O_fp32
OutStart == [x \in Dims |-> EmptyBag]

StartPV ==
  /\ pc = "quant" /\ s > SEQ_LEN
  /\ O_fp32' = OutStart
  /\ s' = 1 /\ pc' = "v_row"
  /\ UNCHANGED <<score, O, h, d, vlm, scores, max_s, weights, V_row, p>>

VRow ==
  /\ pc = "v_row" /\ s <= SEQ_LEN
  /\ V_row' = <<h, s>>
  /\ p' = P_fp8[s]
  /\ d' = 0 /\ pc' = "fma"
  /\ UNCHANGED <<score, O, h, s, vlm, scores, max_s, weights, O_fp32>>

MoreStrips == d < HEAD_DIM

Fma ==
  /\ pc = "fma" /\ MoreStrips
  /\ \E vl \in VLengths(HEAD_DIM - d, VLMAX) :
       O_fp32' = [x \in Dims |->
         IF x \in d .. d + vl - 1
         THEN O_fp32[x] (+) SetToBag({<<V_row, e>> : e \in p}) ELSE O_fp32[x]]
  /\ d' = d + vlm
  /\ UNCHANGED <<score, O, pc, h, s, vlm, scores, max_s, weights, V_row, p>>

RowAdded ==
  /\ pc = "fma" /\ ~MoreStrips
  /\ s' = s + 1 /\ pc' = "v_row"
  /\ UNCHANGED <<score, O, h, d, vlm, scores, max_s, weights, values>>

\* oh[d] = O_fp32[d] / sum_p, then the next head.
Store ==
  /\ pc = "v_row" /\ s > SEQ_LEN
  /\ O' = [O EXCEPT ![h] = [done |-> TRUE, num |-> O_fp32, den |-> sum_p]]
  /\ h' = h + 1
  /\ s' = 1 /\ pc' = "k_row"
  /\ UNCHANGED <<score, d, vlm, scores, max_s, weights, values>>

Next ==
  \/ KRow \/ Dot \/ DotReduce
  \/ StartMax \/ MaxStrip
  \/ StartExp \/ ExpRow
  \/ StartQuant \/ QuantRow
  \/ StartPV \/ VRow \/ Fma \/ RowAdded \/ Store

Spec == Init /\ [][Next]_vars

-----------------------------------------------------------------------------
\* The exponent of a weight is at most 0 and within the range of expf; strips
\* may run past the end of a row by less than a strip.
TypeOK ==
  /\ pc \in {"k_row", "dot", "max", "exp", "quant", "v_row", "fma"}
  /\ h \in 1 .. N_HEADS + 1 /\ s \in 1 .. SEQ_LEN + LANES
  /\ d \in 0 .. HEAD_DIM + LANES
  /\ S \in [Rows -> Scores \cup {Garbage}]
  /\ DOMAIN P_fp32 = Rows /\ DOMAIN P_fp8 = Rows /\ DOMAIN sum_p \subseteq Rows
  /\ \A i \in Rows : \A x \in P_fp32[i] \cup P_fp8[i] : x \in -ExpMin .. 0
  /\ \A x \in Dims : IsABag(O_fp32[x])

\* When the softmax reads S, every entry is the score of its row in the
\* current head: no dimension is skipped or counted twice by the strips of
\* the dot product, and nothing is left over from the head before.
ScoresOfThisHead ==
  pc \in {"max", "exp", "quant", "v_row", "fma"} => S = score[h]

\* Every element of the accumulator holds each row of this head at most
\* once, none before its turn, with the weight that the row has in the
\* denominator.  Between two rows every element holds all rows so far whose
\* weight FP8 can hold: no strip was skipped for any of them.
EachRowOnce ==
  /\ pc \in {"v_row", "fma"} => \A x \in Dims : \A e \in DOMAIN O_fp32[x] :
       /\ O_fp32[x][e] = 1
       /\ e[1][1] = h /\ e[1][2] <= s
       /\ e[1][2] \in DOMAIN sum_p /\ e[2] = sum_p[e[1][2]]
  /\ pc = "v_row" => \A x \in Dims : \A i \in 1 .. s - 1 :
       (\E e \in DOMAIN O_fp32[x] : e[1] = <<h, i>>) <=> score[h][i] >= max_s - Fp8Min

\* The kernel implements the attention row it stands for: numerators lose
\* the rows below FP8, denominators only those below expf.
RowsIn(num) == {e[1][2] : e \in DOMAIN num}
ExponentIn(num, i) == (CHOOSE e \in DOMAIN num : e[1][2] = i)[2]
Result(o) ==
  LET num == o.num[0]
  IN  [done |-> TRUE,
       dims |-> {x \in Dims : o.num[x] = num},
       num  |-> [i \in RowsIn(num) |-> ExponentIn(num, i)],
       den  |-> o.den]
Shown(o) == IF o.done THEN Result(o)
            ELSE [done |-> FALSE, dims |-> {}, num |-> NoRows, den |-> NoRows]
Promise == INSTANCE Attention WITH
  NumMin <- Fp8Min, DenMin <- ExpMin, O <- [k \in Heads |-> Shown(O[k])]
ImplementsAttention == Promise!Spec
=============================================================================
