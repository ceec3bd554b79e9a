---------------------------- MODULE NativeSoftmax ----------------------------
(***************************************************************************)
(* The softmax of bench_fa_mixed_rvv_native_allfu.c: the maximum by        *)
(* intrinsics, the exponentials and the FP8 weights by two assembler       *)
(* loops.  The loops move through the arrays in three different ways: the  *)
(* maximum advances by the first vector length vlm whatever vl its strip   *)
(* has, the exponentials by the length t0 that vsetvli has just returned,  *)
(* the weights always by 16, testing n only for zero.                      *)
(*                                                                         *)
(* Numbers are abstract: an array element holds the head it was computed   *)
(* for, 0 if none.  at is the pointer pair of an assembler loop, as the    *)
(* row it points to.                                                       *)
(*                                                                         *)
(* A definition marked as faulty stands for a slip in the one after it.    *)
(***************************************************************************)
EXTENDS Vsetvl

CONSTANTS
  N_HEADS, SEQ_LEN,
  LANES,              \* the strip of the weights loop, 16
  VLMAX               \* elements of an e32 m2 (e16 m1, e8 mf2) vector group

\* x is a whole number of strips
Multiple(x) == \E k \in 0 .. SEQ_LEN : x = k * LANES

\* The build has VLEN >= 256, and SEQ_LEN a power of two above 16.
ASSUME ShapeAssumption ==
  /\ N_HEADS \in Nat \ {0} /\ SEQ_LEN \in Nat \ {0}
  /\ LANES \in Nat \ {0} /\ VLMAX \in Nat /\ LANES <= VLMAX
ASSUME StripsAssumption == Multiple(SEQ_LEN)

VARIABLES
  pc, h,
  s,                  \* the counter of the C loops
  n, at,              \* the operands of the assembler loops
  vlm,
  seen,               \* the rows that went into max_s
  S, P_fp32, P_fp8,
  sum,                \* how often each row was added to sum_p
  used                \* the head of the weight used for each row of V

vars == <<pc, h, s, n, at, vlm, seen, S, P_fp32, P_fp8, sum, used>>

Rows == 1 .. SEQ_LEN
None == [i \in Rows |-> 0]

Init ==
  /\ pc = "qk" /\ h = 1 /\ s = 1
  /\ n = 0 /\ at = 1 /\ vlm = 0
  /\ seen = {}
  /\ S = None /\ P_fp32 = None /\ P_fp8 = None /\ sum = None /\ used = None

QkRow ==
  /\ pc = "qk" /\ h <= N_HEADS /\ s <= SEQ_LEN
  /\ S' = [S EXCEPT ![s] = h]
  /\ s' = s + 1
  /\ UNCHANGED <<pc, h, n, at, vlm, seen, P_fp32, P_fp8, sum, used>>

\* The application vector length for the stride of the maximum.
\* faulty: all rows, so that the stride may exceed the length of a strip;
\* what the counter of the loop before leaves, which is nothing
MaxRequestAll == SEQ_LEN
MaxRequestRest == SEQ_LEN - (s - 1)
MaxRequest == LANES

StartMax ==
  /\ pc = "qk" /\ h <= N_HEADS /\ s > SEQ_LEN
  /\ vlm' \in VLengths(MaxRequest, VLMAX)
  /\ seen' = {}
  /\ s' = 1 /\ pc' = "max"
  /\ UNCHANGED <<h, n, at, S, P_fp32, P_fp8, sum, used>>

MaxStrip ==
  /\ pc = "max" /\ s <= SEQ_LEN
  /\ \E vl \in VLengths(SEQ_LEN - (s - 1), VLMAX) : seen' = seen \cup s .. s + vl - 1
  /\ s' = s + vlm
  /\ UNCHANGED <<pc, h, n, at, vlm, S, P_fp32, P_fp8, sum, used>>

\* faulty: the sum of the head before is kept
SumStartKept == sum
SumStart == None

StartExp ==
  /\ pc = "max" /\ s > SEQ_LEN
  /\ n' = SEQ_LEN /\ at' = 1
  /\ sum' = SumStart
  /\ pc' = "exp"
  /\ UNCHANGED <<h, s, vlm, seen, S, P_fp32, P_fp8, used>>

\* The exponentials: store t0 of them, add them to the sum, go on behind
\* them until none is left.
ExpStrip ==
  /\ pc = "exp"
  /\ \E t0 \in VLengths(n, VLMAX) :
       LET strip == at .. at + t0 - 1
       IN  /\ P_fp32' = [i \in Rows |-> IF i \in strip THEN S[i] ELSE P_fp32[i]]
           /\ sum' = [i \in Rows |-> IF i \in strip THEN sum[i] + 1 ELSE sum[i]]
           /\ IF n - t0 # 0
              THEN at' = at + t0 /\ n' = n - t0 /\ pc' = pc
              ELSE at' = 1 /\ n' = SEQ_LEN /\ pc' = "quant"
  /\ UNCHANGED <<h, s, vlm, seen, S, P_fp8, used>>

\* The weights: the length that vsetivli grants is not looked at.
\* faulty: the pointers advance by a whole vector group
QuantStrideGroup == VLMAX
QuantStride == LANES

\* faulty: the loop stops one strip early
QuantEndsEarly == n - LANES <= LANES
QuantEnds == n - LANES = 0

QuantStrip ==
  /\ pc = "quant"
  /\ \E vl \in VLengths(LANES, VLMAX) :
       P_fp8' = [i \in Rows |-> IF i \in at .. at + vl - 1 THEN P_fp32[i] ELSE P_fp8[i]]
  /\ at' = at + QuantStride
  /\ n' = n - LANES
  /\ IF QuantEnds THEN pc' = "pv" /\ s' = 1 ELSE UNCHANGED <<pc, s>>
  /\ UNCHANGED <<h, vlm, seen, S, P_fp32, sum, used>>

PvRow ==
  /\ pc = "pv" /\ s <= SEQ_LEN
  /\ used' = [used EXCEPT ![s] = P_fp8[s]]
  /\ s' = s + 1
  /\ UNCHANGED <<pc, h, n, at, vlm, seen, S, P_fp32, P_fp8, sum>>

FinishHead ==
  /\ pc = "pv" /\ s > SEQ_LEN
  /\ h' = h + 1
  /\ s' = 1 /\ pc' = "qk"
  /\ UNCHANGED <<n, at, vlm, seen, S, P_fp32, P_fp8, sum, used>>

Next ==
  \/ QkRow \/ StartMax \/ MaxStrip \/ StartExp \/ ExpStrip
  \/ QuantStrip \/ PvRow \/ FinishHead

Spec == Init /\ [][Next]_vars

\* A single thread that runs until the kernel returns.
FairSpec == Spec /\ WF_vars(Next)

-----------------------------------------------------------------------------
\* The pointers stay inside the arrays while a loop runs (one behind their
\* end when it has ended).
TypeOK ==
  /\ pc \in {"qk", "max", "exp", "quant", "pv"}
  /\ h \in 1 .. N_HEADS + 1 /\ s \in Nat /\ vlm \in Nat
  /\ n \in 0 .. SEQ_LEN /\ at \in 1 .. SEQ_LEN + 1
  /\ seen \subseteq Rows
  /\ S \in [Rows -> Nat] /\ P_fp32 \in [Rows -> Nat] /\ P_fp8 \in [Rows -> Nat]
  /\ sum \in [Rows -> Nat] /\ used \in [Rows -> Nat]

\* The maximum is taken over every score, and over scores of this head only,
\* although its stride and the lengths of its strips come from different
\* vsetvli calls.
MaxSeesEveryRow ==
  pc \in {"exp", "quant", "pv"} => seen = Rows /\ \A i \in Rows : S[i] = h

\* However vsetvli splits the rest, the exponential loop stores and adds
\* every row of the head exactly once: neither the remainder nor a strip
\* that is shorter than the one before is skipped or counted twice.
SumExact ==
  /\ pc = "exp" =>
       /\ n > 0 /\ n + (at - 1) = SEQ_LEN
       /\ \A i \in Rows : sum[i] = IF i < at THEN 1 ELSE 0
       /\ \A i \in Rows : i < at => P_fp32[i] = h
  /\ pc \in {"quant", "pv"} => \A i \in Rows : sum[i] = 1 /\ P_fp32[i] = h

\* No weight of the head before is multiplied with a row of V.
FreshWeights ==
  pc = "pv" => \A i \in Rows : P_fp8[i] = h /\ (i < s => used[i] = h)

\* The assembler loops test for zero only; they reach it, and every head is
\* finished.
Terminates == <>(h > N_HEADS)
=============================================================================
