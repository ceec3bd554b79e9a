---------------------------- MODULE OnlineSoftmax ----------------------------
(***************************************************************************)
(* The streaming kernel (bench_fa_spacemit_bf16.c, and with NVFP4 rows     *)
(* bench_fa_mixed_streaming_stub.c): one pass over the rows of a head with *)
(* a running maximum M, a running sum S and the accumulator VKQ, both      *)
(* rescaled whenever a row raises the maximum.                             *)
(*                                                                         *)
(* A sum of exponentials is a function from the rows it contains to their  *)
(* exponents (see Attention); sums and products are exact but for the      *)
(* underflow of the exponential to zero below -ExpMin (87 in fu_expf).     *)
(* Scores are integers and are given; the score of a row, like the output, *)
(* is computed over the dimensions VKQ_Dims only.                          *)
(*                                                                         *)
(* A definition marked as faulty stands for a slip in the one after it.    *)
(***************************************************************************)
EXTENDS Integers

CONSTANTS
  N_HEADS, SEQ_LEN, HEAD_DIM,
  VLMAX,              \* elements of an e32 m4 vector group
  Request,            \* the application vector length asked for, 32
  Scores,             \* the scores that occur
  ExpMin,             \* the exponential of less than -ExpMin is zero
  MInit               \* the initial maximum, -1e30

ASSUME ShapeAssumption ==
  /\ N_HEADS \in Nat \ {0} /\ SEQ_LEN \in Nat \ {0} /\ HEAD_DIM \in Nat \ {0}
  /\ VLMAX \in Nat \ {0} /\ Request \in Nat \ {0}
ASSUME ScoresAssumption ==
  /\ Scores \subseteq Int
  /\ ExpMin \in Nat
  /\ MInit \in Int /\ \A s \in Scores : MInit < s

VARIABLES
  score,              \* input: the scaled dot product of every head and row
  O,
  h, ic,              \* the loop counters
  M, S, VKQ

vars == <<score, O, h, ic, M, S, VKQ>>

Heads == 1 .. N_HEADS
Rows  == 1 .. SEQ_LEN
Dims  == 0 .. HEAD_DIM - 1

\* The two register groups: the first vl_m4 dimensions and the rest, for
\* which the code passes HEAD_DIM - vl_m4 as the vector length; a vector
\* length beyond VLMAX gives VLMAX elements.
AtMost(a, b) == IF a <= b THEN a ELSE b
vl_m4 == AtMost(Request, VLMAX)
VKQ_Dims ==
  (0 .. vl_m4 - 1) \cup (vl_m4 .. vl_m4 + AtMost(HEAD_DIM - vl_m4, VLMAX) - 1)

NoRows   == [i \in {} |-> 0]
NoResult == [done |-> FALSE, dims |-> {}, num |-> NoRows, den |-> NoRows]

\* sum * exp(x), and sum + exp(x) * (row i)
\* faulty: the smallest exponential that is not zero is dropped
UnderflowsSooner(x) == x <= -ExpMin
Underflows(x) == x < -ExpMin
Times(sum, x) == IF Underflows(x) THEN NoRows ELSE [i \in DOMAIN sum |-> sum[i] + x]
Plus(sum, i, x) ==
  IF Underflows(x) THEN sum
  ELSE [j \in DOMAIN sum \cup {i} |-> IF j = i THEN x ELSE sum[j]]

Init ==
  /\ score \in [Heads -> [Rows -> Scores]]
  /\ O = [k \in Heads |-> NoResult]
  /\ h = 1 /\ ic = 1
  /\ M = MInit /\ S = NoRows /\ VKQ = NoRows

\* S * ms + vs, and VKQ * ms + vs * (row ic of V).
\* faulty: the old sum is not rescaled; the two factors are swapped
NewSumUnscaled(ms, vs) == Plus(S, ic, vs)
NewSumSwapped(ms, vs) == Plus(Times(S, vs), ic, ms)
NewSum(ms, vs) == Plus(Times(S, ms), ic, vs)

\* The row raises the maximum: ms = exp(Mold - M), vs = 1.
NewMax ==
  /\ h <= N_HEADS /\ ic <= SEQ_LEN
  /\ score[h][ic] > M
  /\ M' = score[h][ic]
  /\ LET ms == M - score[h][ic]
     IN  /\ VKQ' = Plus(Times(VKQ, ms), ic, 0)
         /\ S'   = NewSum(ms, 0)
  /\ ic' = ic + 1
  /\ UNCHANGED <<score, O, h>>

\* The row does not raise the maximum: ms = 1, vs = exp(s - M).
OldMax ==
  /\ h <= N_HEADS /\ ic <= SEQ_LEN
  /\ ~(score[h][ic] > M)
  /\ LET vs == score[h][ic] - M
     IN  /\ VKQ' = Plus(VKQ, ic, vs)
         /\ S'   = NewSum(0, vs)
  /\ ic' = ic + 1
  /\ UNCHANGED <<score, O, h, M>>

\* Normalise by 1 / S (by 0 if S is 0), store, start the next head.
Normalised ==
  [done |-> TRUE, dims |-> VKQ_Dims,
   num |-> IF DOMAIN S = {} THEN NoRows ELSE VKQ, den |-> S]

\* faulty: stored one head further on
StoreBehind == O' = [O EXCEPT ![h + 1] = Normalised]
Store == O' = [O EXCEPT ![h] = Normalised]

\* faulty: the maximum of the head before is kept
ResetKeepsMax == M' = M /\ S' = NoRows /\ VKQ' = NoRows
Reset == M' = MInit /\ S' = NoRows /\ VKQ' = NoRows

FinishHead ==
  /\ h <= N_HEADS /\ ic > SEQ_LEN
  /\ Store
  /\ h' = h + 1
  /\ ic' = 1
  /\ Reset
  /\ UNCHANGED score

Next == NewMax \/ OldMax \/ FinishHead

Spec == Init /\ [][Next]_vars

-----------------------------------------------------------------------------
\* A sum is over rows of one head, and no head has a result before its turn.
TypeOK ==
  /\ score \in [Heads -> [Rows -> Scores]]
  /\ h \in 1 .. N_HEADS + 1 /\ ic \in 1 .. SEQ_LEN + 1
  /\ M \in Int
  /\ DOMAIN S \subseteq Rows /\ S \in [DOMAIN S -> Int]
  /\ O = [k \in Heads |-> O[k]]
  /\ \A k \in Heads : k >= h => O[k] = NoResult

\* M is the largest score of the rows seen so far.
MaxOfSeen ==
  /\ h > N_HEADS => ic = 1
  /\ ic = 1 => M = MInit
  /\ h <= N_HEADS /\ ic > 1 =>
       /\ \E i \in 1 .. ic - 1 : score[h][i] = M
       /\ \A i \in 1 .. ic - 1 : score[h][i] <= M

\* The accumulator is rescaled inside the branch and the sum after it: the
\* two still hold the same rows with the same weights, and the weight of
\* every row is exp(s - M) for the maximum of now, not the one at which the
\* row was added.  Only rows of this head are in them.
ExactWeights ==
  /\ VKQ = S
  /\ \A i \in DOMAIN S : i < ic /\ S[i] = score[h][i] - M

\* A rescaling that underflows wipes the accumulator.  No row within ExpMin
\* of the maximum is ever lost that way, in whatever order the rows come.
NearMaxKept ==
  \A i \in 1 .. ic - 1 : score[h][i] >= M - ExpMin => i \in DOMAIN S

\* The denominator of a finished head is not zero: the division guard
\* S == 0 is never needed.
DenominatorPositive ==
  \A k \in Heads : O[k].done => \E i \in DOMAIN O[k].den : O[k].den[i] = 0

\* Every dimension of the output is computed, from every dimension of the
\* keys ("swept over head_dim in {64, 128}").
EveryDimComputed ==
  \A k \in Heads : O[k].done => O[k].dims = Dims

\* The kernel implements the attention row it stands for.
Promise == INSTANCE Attention WITH NumMin <- ExpMin, DenMin <- ExpMin
ImplementsAttention == Promise!Spec
=============================================================================
