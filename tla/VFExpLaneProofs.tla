-------------------------- MODULE VFExpLaneProofs --------------------------
(***************************************************************************)
(* Proofs about the pipeline of the exponential lane, for every set of     *)
(* operands and every stream of them: that the values of one operand meet  *)
(* in the right clock, for which the arithmetic between the registers      *)
(* stays unexpanded, and that every register stays in its range, for which *)
(* ArithmeticProofs bounds that arithmetic.                                *)
(***************************************************************************)
EXTENDS VFExpLane, ArithmeticProofs, TLAPS

\* What the lane computes for operand x on the way.
ROf(x) == RQ(YQ(ToQ8_23(x)))
NOf(x) == NInt(YQ(ToQ8_23(x)))
T0(r) == Horner(C5, r, C4)
T1(r) == Horner(T0(r), r, C3)
T2(r) == Horner(T1(r), r, C2)
T3(r) == Horner(T2(r), r, C1)
T4(r) == Horner(T3(r), r, C0)

\* The inductive invariant: beside a valid bit each register of the stage
\* holds its function of the operand of that stage.
Shape ==
  /\ stage_valid \in [Stages -> BOOLEAN]
  /\ v_stage \in [PipeStages -> BOOLEAN]
ValidHasSource == \A i \in Stages : stage_valid[i] <=> source[i] # NoOperand
PolyInStep == \A k \in PipeStages : v_stage[k] = stage_valid[5 + k]
Front ==
  /\ stage_valid[1] => s1_x = source[1]
  /\ stage_valid[2] => s2_x_q = ToQ8_23(source[2]) /\ s2_special = Special(source[2])
  /\ stage_valid[3] => s3_y_q = YQ(ToQ8_23(source[3])) /\ s3_special = Special(source[3])
  /\ stage_valid[4] => /\ s4_r_q = ROf(source[4]) /\ s4_N_int = NOf(source[4])
                       /\ s4_special = Special(source[4])
Beside ==
  \A k \in PipeStages : stage_valid[5 + k] =>
    /\ sp_pipe[k] = Special(source[5 + k])
    /\ N_pipe[k] = NOf(source[5 + k])
    /\ r_stage[k] = ROf(source[5 + k])
Polynomial ==
  /\ stage_valid[5] => t_stage[0] = T0(ROf(source[5]))
  /\ stage_valid[6] => t_stage[1] = T1(ROf(source[6]))
  /\ stage_valid[7] => t_stage[2] = T2(ROf(source[7]))
  /\ stage_valid[8] => t_stage[3] = T3(ROf(source[8]))
  /\ stage_valid[9] => t_stage[4] = T4(ROf(source[9]))
Result == stage_valid[10] => s10_out = ExpOf(source[10])

IInv ==
  /\ Shape /\ ValidHasSource /\ PolyInStep
  /\ Front /\ Beside /\ Polynomial /\ Result

\* The Horner pipeline has the arithmetic of ExpArith.
LEMMA SameHorner ==
  ASSUME NEW t, NEW r, NEW c
  PROVE  Poly!Horner(t, r, c) = Horner(t, r, c)
<1>1. Poly!MulRound30(r, t) = MulRound30(r, t)
  BY DEF MulRound30, Poly!MulRound30
<1>2. QED
  BY <1>1 DEF Horner, Poly!Horner

\* After a reset no stage is valid.
LEMMA InitInv == Init => IInv
  BY DEF Init, IInv, Poly!PolyInit, Poly!PolyStages, PipeStages, Stages, LAT,
         Shape, ValidHasSource, PolyInStep, Front, Beside, Polynomial, Result

\* One clock edge, whatever the two ports do.
LEMMA ClockInv ==
  ASSUME IInv, NEW v \in BOOLEAN, NEW r \in BOOLEAN, NEW x,
         v /\ r => x # NoOperand, Clock(v, x, r)
  PROVE  IInv'
<1> DEFINE fire == v /\ r
<1>1. /\ stage_valid' = [i \in Stages |-> IF i = 1 THEN fire ELSE stage_valid[i - 1]]
      /\ source' = [i \in Stages |-> IF i = 1 THEN IF fire THEN x ELSE NoOperand
                                              ELSE source[i - 1]]
      /\ Stages = 1 .. 10 /\ PipeStages = 0 .. 4
  BY DEF Clock, Stages, LAT, PipeStages
<1>2. /\ stage_valid'[1] = fire /\ (fire => source'[1] = x)
      /\ \A i \in 2 .. 10 : stage_valid'[i] = stage_valid[i - 1] /\ source'[i] = source[i - 1]
  BY <1>1
<1>3. /\ stage_valid'[2] = stage_valid[1] /\ source'[2] = source[1]
      /\ stage_valid'[3] = stage_valid[2] /\ source'[3] = source[2]
      /\ stage_valid'[4] = stage_valid[3] /\ source'[4] = source[3]
      /\ stage_valid'[5] = stage_valid[4] /\ source'[5] = source[4]
      /\ stage_valid'[6] = stage_valid[5] /\ source'[6] = source[5]
      /\ stage_valid'[7] = stage_valid[6] /\ source'[7] = source[6]
      /\ stage_valid'[8] = stage_valid[7] /\ source'[8] = source[7]
      /\ stage_valid'[9] = stage_valid[8] /\ source'[9] = source[8]
      /\ stage_valid'[10] = stage_valid[9] /\ source'[10] = source[9]
  BY <1>2
<1>4. Shape'
  BY <1>1 DEF IInv, Shape, Clock, Poly!PolyClock, Poly!PolyStages, PipeStages, poly_in_valid
<1>5. ValidHasSource'
  BY <1>1 DEF IInv, ValidHasSource, Shape
<1>6. PolyInStep'
  <2> SUFFICES ASSUME NEW k \in PipeStages PROVE v_stage'[k] = stage_valid'[5 + k]
    BY DEF PolyInStep
  <2>1. v_stage'[k] = IF k = 0 THEN stage_valid[4] ELSE v_stage[k - 1]
    BY DEF Clock, Poly!PolyClock, Poly!PolyStages, PipeStages, poly_in_valid
  <2>2. stage_valid'[5 + k] = stage_valid[4 + k]
    BY <1>1, <1>2
  <2>3. CASE k = 0
    BY <2>1, <2>2, <2>3
  <2>4. CASE k # 0
    <3>1. k - 1 \in PipeStages /\ 5 + (k - 1) = 4 + k
      BY <1>1, <2>4
    <3>2. QED
      BY <2>1, <2>2, <2>4, <3>1 DEF IInv, PolyInStep
  <2>5. QED
    BY <2>3, <2>4
<1>7. Front'
  BY <1>2, <1>3 DEF IInv, Front, Clock, ROf, NOf
<1>8. Beside'
  <2> SUFFICES ASSUME NEW k \in PipeStages, stage_valid'[5 + k]
               PROVE  /\ sp_pipe'[k] = Special(source'[5 + k])
                      /\ N_pipe'[k] = NOf(source'[5 + k])
                      /\ r_stage'[k] = ROf(source'[5 + k])
    BY DEF Beside
  <2>1. /\ sp_pipe'[k] = IF k = 0 THEN s4_special ELSE sp_pipe[k - 1]
        /\ N_pipe'[k] = IF k = 0 THEN s4_N_int ELSE N_pipe[k - 1]
        /\ r_stage'[k] = IF k = 0 THEN s4_r_q ELSE r_stage[k - 1]
    BY DEF Clock, Pipe, Poly!PolyClock, Poly!PolyStages, PipeStages
  <2>2. stage_valid'[5 + k] = stage_valid[4 + k] /\ source'[5 + k] = source[4 + k]
    <3>1. 5 + k \in 2 .. 10 /\ (5 + k) - 1 = 4 + k
      BY <1>1
    <3>2. QED
      BY <1>2, <3>1
  <2>3. CASE k = 0
    BY <2>1, <2>2, <2>3 DEF IInv, Front
  <2>4. CASE k # 0
    <3>1. k - 1 \in PipeStages /\ 5 + (k - 1) = 4 + k
      BY <1>1, <2>4
    <3>2. QED
      BY <2>1, <2>2, <2>4, <3>1 DEF IInv, Beside
  <2>5. QED
    BY <2>3, <2>4
<1>9. Polynomial'
  <2>1. /\ t_stage'[0] = Poly!Horner(Poly!C5, s4_r_q, Poly!C4)
        /\ t_stage'[1] = Poly!Horner(t_stage[0], r_stage[0], Poly!C3)
        /\ t_stage'[2] = Poly!Horner(t_stage[1], r_stage[1], Poly!C2)
        /\ t_stage'[3] = Poly!Horner(t_stage[2], r_stage[2], Poly!C1)
        /\ t_stage'[4] = Poly!Horner(t_stage[3], r_stage[3], Poly!C0)
    BY DEF Clock, Poly!PolyClock, Poly!PolyStages
  <2>2. /\ t_stage'[0] = Horner(C5, s4_r_q, C4)
        /\ t_stage'[1] = Horner(t_stage[0], r_stage[0], C3)
        /\ t_stage'[2] = Horner(t_stage[1], r_stage[1], C2)
        /\ t_stage'[3] = Horner(t_stage[2], r_stage[2], C1)
        /\ t_stage'[4] = Horner(t_stage[3], r_stage[3], C0)
    BY <2>1, SameHorner DEF C0, C1, C2, C3, C4, C5,
         Poly!C0, Poly!C1, Poly!C2, Poly!C3, Poly!C4, Poly!C5
  <2>3. /\ stage_valid[5] => r_stage[0] = ROf(source[5])
        /\ stage_valid[6] => r_stage[1] = ROf(source[6])
        /\ stage_valid[7] => r_stage[2] = ROf(source[7])
        /\ stage_valid[8] => r_stage[3] = ROf(source[8])
    BY <1>1 DEF IInv, Beside
  <2>4. QED
    BY <1>3, <2>2, <2>3 DEF IInv, Polynomial, Front, T0, T1, T2, T3, T4
<1>10. Result'
  <2> SUFFICES ASSUME stage_valid[9] PROVE s10_out' = ExpOf(source[9])
    BY <1>3 DEF Result
  <2>1. s10_out' = LaneOutput(sp_pipe[4], t_stage[4], N_pipe[4])
    BY DEF Clock, s9_special, s9_N_int, Poly!poly_y
  <2>2. sp_pipe[4] = Special(source[9]) /\ N_pipe[4] = NOf(source[9])
    BY <1>1 DEF IInv, Beside
  <2>3. t_stage[4] = PolyOf(ROf(source[9]))
    BY DEF IInv, Polynomial, PolyOf, T0, T1, T2, T3, T4
  <2>4. QED
    BY <2>1, <2>2, <2>3 DEF ExpOf, ROf, NOf
<1>11. QED
  BY <1>4, <1>5, <1>6, <1>7, <1>8, <1>9, <1>10 DEF IInv

\* Every step of the lane keeps the invariant.
LEMMA NextInv == IInv /\ [Next]_vars => IInv'
<1> SUFFICES ASSUME IInv, [Next]_vars PROVE IInv'
  OBVIOUS
<1>1. CASE Accept
  <2>1. PICK x \in Operands : Clock(TRUE, x, TRUE)
    BY <1>1 DEF Accept
  <2>2. x # NoOperand
    BY OperandsAssumption DEF NoOperand
  <2>3. QED
    BY <2>1, <2>2, ClockInv
<1>2. CASE Stalled
  BY <1>2, ClockInv DEF Stalled
<1>3. CASE Idle
  BY <1>3, ClockInv DEF Idle
<1>4. CASE UNCHANGED vars
  BY <1>4 DEF vars, regs, IInv, Shape, ValidHasSource, PolyInStep, Front, Beside,
              Polynomial, Result
<1>5. QED
  BY <1>1, <1>2, <1>3, <1>4 DEF Next

\* The lane (io.out of VFExpLane) shows, exactly ten clocks after an operand
\* was accepted, the exponential of that operand, for every stream of
\* operands, stalls and idle clocks and every power-up value.
THEOREM ExponentialOfOperand == Spec => []OutputMatchesOperand
<1>1. IInv => OutputMatchesOperand
  BY DEF IInv, ValidHasSource, PolyInStep, Result, OutputMatchesOperand, out_valid, out_bits,
         Stages, LAT
<1>2. QED
  BY InitInv, NextInv, <1>1, PTL DEF Spec

\* No value of a register without a reset (N_pipe and sp_pipe) is ever beside
\* a valid bit.
THEOREM PowerUpHidden == Spec => []NoPowerUpValueEmitted
<1>1. IInv => NoPowerUpValueEmitted
  BY DEF IInv, Beside, NoPowerUpValueEmitted, NOf
<1>2. QED
  BY InitInv, NextInv, <1>1, PTL DEF Spec

-----------------------------------------------------------------------------
\* The inductive invariant: every register of the range reduction stays in
\* its range, whether or not the data in it belongs to an operand that counts.
Flag(s) == s.override_valid \in BOOLEAN
Reduction ==
  /\ s1_x \in Nat /\ s2_x_q \in Int /\ s3_y_q \in Int
  /\ Within(s4_r_q, LN2_Q2_30 \div 2)
  /\ s4_N_int \in -256 .. 255
Flags ==
  /\ Flag(s2_special) /\ Flag(s3_special) /\ Flag(s4_special)
  /\ \A k \in PipeStages : Flag(sp_pipe[k])
Exponents == N_pipe \in [PipeStages -> -256 .. 255]
Sources == \A i \in Stages : source[i] = NoOperand \/ source[i] \in Nat

Ranges == Shape /\ Reduction /\ Flags /\ Exponents /\ Sources

LEMMA InitRanges == Init => Ranges
<1> SUFFICES ASSUME Init PROVE Ranges
  OBVIOUS
<1>1. Shape
  BY DEF Init, Poly!PolyInit, Poly!PolyStages, PipeStages, Stages, LAT, Shape
<1>2. Reduction
  <2>1. s1_x = 0 /\ s2_x_q = 0 /\ s3_y_q = 0 /\ s4_r_q = 0 /\ s4_N_int = 0
    BY DEF Init
  <2>2. Within(s4_r_q, LN2_Q2_30 \div 2)
    BY <2>1, IsWithin, SMT DEF LN2_Q2_30
  <2>3. QED
    BY <2>1, <2>2 DEF Reduction
<1>3. Flags
  <2>1. \A k \in PipeStages : Flag(sp_pipe[k])
    BY PowerUpAssumption DEF Init, Flag, PipeStages
  <2>2. QED
    BY <2>1 DEF Init, Flags, Flag, NoSpecial
<1>4. Exponents
  BY PowerUpAssumption DEF Init, Exponents, PipeStages
<1>5. Sources
  BY DEF Init, Sources
<1>6. QED
  BY <1>1, <1>2, <1>3, <1>4, <1>5 DEF Ranges

\* One clock edge, whatever operand the port shows.
LEMMA ClockRanges ==
  ASSUME Ranges, NEW v \in BOOLEAN, NEW r \in BOOLEAN, NEW x \in Nat, Clock(v, x, r)
  PROVE  Ranges'
<1>1. Shape'
  BY DEF Ranges, Shape, Clock, Poly!PolyClock, Poly!PolyStages, PipeStages, Stages, LAT,
         poly_in_valid
<1>2. Reduction'
  <2>1. /\ s1_x' = x /\ s2_x_q' = ToQ8_23(s1_x) /\ s3_y_q' = YQ(s2_x_q)
        /\ s4_r_q' = RQ(s3_y_q) /\ s4_N_int' = NInt(s3_y_q)
    BY DEF Clock
  <2>2. s1_x \in Nat /\ s2_x_q \in Int /\ s3_y_q \in Int
    BY DEF Ranges, Reduction
  <2>3. s2_x_q' \in Int
    BY <2>1, <2>2, OperandTyped
  <2>4. s3_y_q' \in Int
    BY <2>1, <2>2, QuotientTyped
  <2>5. Within(s4_r_q', LN2_Q2_30 \div 2)
    BY <2>1, <2>2, RestBounded
  <2>6. s4_N_int' \in -256 .. 255
    BY <2>1, <2>2, NearestInteger
  <2>7. QED
    BY <2>1, <2>3, <2>4, <2>5, <2>6 DEF Reduction
<1>3. Flags'
  <2>1. Flag(s2_special)'
    BY DEF Clock, Special, Flag
  <2>2. Flag(s3_special)' /\ Flag(s4_special)'
    BY DEF Ranges, Flags, Clock, Flag
  <2>3. \A k \in PipeStages : Flag(sp_pipe[k])'
    BY DEF Ranges, Flags, Clock, Pipe, Flag, PipeStages
  <2>4. QED
    BY <2>1, <2>2, <2>3 DEF Flags
<1>4. Exponents'
  <2>1. N_pipe' = [k \in PipeStages |-> IF k = 0 THEN s4_N_int ELSE N_pipe[k - 1]]
    BY DEF Clock, Pipe
  <2>2. s4_N_int \in -256 .. 255
    BY DEF Ranges, Reduction
  <2>3. QED
    BY <2>1, <2>2 DEF Ranges, Exponents, PipeStages
<1>5. Sources'
  BY DEF Clock, Ranges, Sources, Stages, LAT
<1>6. QED
  BY <1>1, <1>2, <1>3, <1>4, <1>5 DEF Ranges

LEMMA NextRanges == Ranges /\ [Next]_vars => Ranges'
<1> SUFFICES ASSUME Ranges, [Next]_vars PROVE Ranges'
  OBVIOUS
<1>1. CASE Accept
  BY <1>1, ClockRanges, OperandsAssumption DEF Accept
<1>2. CASE Stalled
  BY <1>2, ClockRanges, OperandsAssumption DEF Stalled
<1>3. CASE Idle
  BY <1>3, ClockRanges, IdleBitsAssumption DEF Idle
<1>4. CASE UNCHANGED vars
  BY <1>4 DEF vars, regs, Ranges, Shape, Reduction, Flags, Flag, Exponents, Sources
<1>5. QED
  BY <1>1, <1>2, <1>3, <1>4 DEF Next

\* The exponent of an operand that no special case catches is not cut: its
\* nine bits are the ten of N_int_wide, and it is less than 128 in magnitude.
LEMMA LiveExponent ==
  ASSUME IInv, Ranges, stage_valid[4], ~s4_special.override_valid
  PROVE  s4_N_int = NIntWide(YQ(ToQ8_23(source[4]))) /\ s4_N_int \in -127 .. 127
<1>1. 4 \in Stages
  BY DEF Stages, LAT
<1>2. PICK x \in Nat : x = source[4]
  BY <1>1 DEF IInv, ValidHasSource, Ranges, Sources
<1>3. s4_N_int = NInt(YQ(ToQ8_23(x))) /\ s4_special = Special(x)
  BY <1>2 DEF IInv, Front, NOf
<1>4. ~Overridden(x)
  <2>1. Special(x).override_valid = (SpecialHits(x) # {})
    BY DEF Special
  <2>2. QED
    BY <1>3, <2>1 DEF Overridden
<1>5. PICK q \in Int : q = ToQ8_23(x) /\ Within(q, 738197504)
  BY <1>4, OperandTyped, OperandBounded
<1>6. PICK y \in Int : y = YQ(q) /\ Ranged(y)
  BY <1>5, QuotientIsProduct, SMT DEF Ranged
<1>7. NInt(y) = NIntWide(y) /\ NInt(y) \in -127 .. 127
  BY <1>6, NearestInteger
<1>8. QED
  BY <1>2, <1>3, <1>5, <1>6, <1>7

\* The registers of the lane stay in their ranges for every stream of operands:
\* the operand of the polynomial is at most half of ln 2 in magnitude, also in
\* the clocks in which s3 belongs to no operand or to one that is overridden,
\* every exponent fits the nine bits of N_pipe, and that of an operand whose
\* result is computed from it lost no bit on the way there.
THEOREM RegistersInRange == Spec => []TypeOK
<1>1. ASSUME IInv, Ranges PROVE TypeOK
  <2>1. s4_N_int \in -256 .. 255
    BY <1>1 DEF Ranges, Reduction
  <2>2. s4_r_q \in -(LN2_Q2_30 \div 2) .. LN2_Q2_30 \div 2
    <3>1. Within(s4_r_q, LN2_Q2_30 \div 2)
      BY <1>1 DEF Ranges, Reduction
    <3>2. QED
      BY <3>1 DEF Within
  <2>3. /\ stage_valid \in [Stages -> BOOLEAN] /\ v_stage \in [PipeStages -> BOOLEAN]
        /\ N_pipe \in [PipeStages -> -256 .. 255]
        /\ \A k \in PipeStages : sp_pipe[k].override_valid \in BOOLEAN
    BY <1>1 DEF Ranges, Shape, Flags, Flag, Exponents
  <2>4. stage_valid[4] /\ ~s4_special.override_valid =>
          s4_N_int = NIntWide(YQ(ToQ8_23(source[4]))) /\ s4_N_int \in -127 .. 127
    BY <1>1, LiveExponent
  <2>5. QED
    BY <2>1, <2>2, <2>3, <2>4, Zenon DEF TypeOK
<1>2. QED
  BY InitInv, NextInv, InitRanges, NextRanges, <1>1, PTL DEF Spec
=============================================================================
