------------------------------ MODULE Attention ------------------------------
(***************************************************************************)
(* What every flash-attention kernel of the repository promises, whatever  *)
(* its order of computation: for each head one result, the sum of the      *)
(* value rows weighted by the exponentials of their scores, over the sum   *)
(* of those exponentials, both relative to the largest score of the head.  *)
(*                                                                         *)
(* Numbers are symbolic.  A sum of exponentials is the function from the   *)
(* rows it contains to their exponents; row i of a result has exponent     *)
(* score[h][i] - max.  An exponential too small for the number format may  *)
(* be missing from a sum: rows within NumMin (numerator) and DenMin        *)
(* (denominator) of the largest score may not.                             *)
(***************************************************************************)
EXTENDS Integers

CONSTANTS N_HEADS, SEQ_LEN, HEAD_DIM, Scores, NumMin, DenMin

VARIABLES score, O

Heads == 1 .. N_HEADS
Rows  == 1 .. SEQ_LEN
Dims  == 0 .. HEAD_DIM - 1

NoRows   == [i \in {} |-> 0]
NoResult == [done |-> FALSE, dims |-> {}, num |-> NoRows, den |-> NoRows]

Init ==
  /\ score \in [Heads -> [Rows -> Scores]]
  /\ O = [h \in Heads |-> NoResult]

IsMax(h, t) ==
  /\ \E i \in Rows : score[h][i] = t
  /\ \A i \in Rows : score[h][i] <= t

Keeps(h, t, kept, min) == \A i \in Rows : score[h][i] >= t - min => i \in kept

Weights(h, t, kept) == [i \in kept |-> score[h][i] - t]

Produce(h) ==
  /\ ~O[h].done
  /\ \E t \in Scores, n, d \in SUBSET Rows :
       /\ IsMax(h, t)
       /\ Keeps(h, t, n, NumMin) /\ Keeps(h, t, d, DenMin)
       /\ O' = [O EXCEPT ![h] = [done |-> TRUE, dims |-> Dims,
                                 num |-> Weights(h, t, n), den |-> Weights(h, t, d)]]
  /\ UNCHANGED score

Next == \E h \in Heads : Produce(h)

Spec == Init /\ [][Next]_<<score, O>>
=============================================================================
