----------------------------- MODULE VFExpLane -----------------------------
(***************************************************************************)
(* One lane of vfexp.v, register by register: ten valid bits, the range    *)
(* reduction registers s1..s4, the Horner sub-pipeline s5..s9 with N_pipe  *)
(* and sp_pipe beside it, and the output register s10.  Four shift         *)
(* registers have to arrive at the output multiplexer together: the valid  *)
(* bits, the polynomial, the exponent and the special-case override.       *)
(*                                                                         *)
(* source is a history variable: source[i] is the operand accepted i       *)
(* clocks ago, NoOperand if none was.                                      *)
(***************************************************************************)
EXTENDS ExpArith

CONSTANTS
  Operands,           \* BF16 patterns the producer offers
  IdleBits,           \* what in.bits shows while in.valid is low
  PowerUp,            \* what r_stage and t_stage, of five registers each, may
                      \* power up with: they have no reset
  PowerUpN,           \* what N_pipe may power up with
  PowerUpSpecial      \* what sp_pipe may power up with

ASSUME OperandsAssumption == Operands \subseteq Nat
ASSUME IdleBitsAssumption == IdleBits \in Nat
ASSUME PowerUpAssumption ==
  /\ PowerUp \subseteq [0 .. 4 -> Int]
  /\ PowerUpN \subseteq [0 .. 4 -> -256 .. 255]
  /\ PowerUpSpecial \subseteq
       [0 .. 4 -> [override_valid : BOOLEAN, override_result : Nat]]

VARIABLES
  stage_valid, s1_x, s2_x_q, s2_special, s3_y_q, s3_special,
  s4_r_q, s4_N_int, s4_special, N_pipe, sp_pipe,
  r_stage, t_stage, v_stage, s10_out, source

regs == <<stage_valid, s1_x, s2_x_q, s2_special, s3_y_q, s3_special,
          s4_r_q, s4_N_int, s4_special, N_pipe, sp_pipe, s10_out>>
vars == <<regs, r_stage, t_stage, v_stage, source>>

LAT == 10
Stages == 1 .. LAT
PipeStages == 0 .. 4
NoOperand == -1
NoSpecial == [override_valid |-> FALSE, override_result |-> 0]

Poly == INSTANCE PolyExpQ2_30

Init ==
  /\ stage_valid = [i \in Stages |-> FALSE]
  /\ s1_x = 0
  /\ s2_x_q = 0 /\ s2_special = NoSpecial
  /\ s3_y_q = 0 /\ s3_special = NoSpecial
  /\ s4_r_q = 0 /\ s4_N_int = 0 /\ s4_special = NoSpecial
  /\ N_pipe \in PowerUpN
  /\ sp_pipe \in PowerUpSpecial
  /\ s10_out = FP32_PLUS_ONE
  /\ source = [i \in Stages |-> NoOperand]
  /\ Poly!PolyInit

\* Definitions marked as faulty stand for a slip in the one after them.

poly_in_valid == stage_valid[4]

\* faulty: the first register of a pipe is never written
PipeUnfed(pipe, first) == [k \in PipeStages |-> IF k = 0 THEN pipe[0] ELSE pipe[k - 1]]
Pipe(pipe, first) == [k \in PipeStages |-> IF k = 0 THEN first ELSE pipe[k - 1]]

\* faulty: the override of the operand behind
s9_special_early == sp_pipe[3]
s9_special == sp_pipe[4]
s9_N_int == N_pipe[4]

\* io.out.valid and io.out.bits
out_valid == stage_valid[LAT]
out_bits  == s10_out

\* One clock edge with in.valid = v, in.bits = x, out.ready = r.
Clock(v, x, r) ==
  LET fire == v /\ r
  IN  /\ stage_valid' = [i \in Stages |-> IF i = 1 THEN fire ELSE stage_valid[i - 1]]
      /\ s1_x' = x
      /\ s2_x_q' = ToQ8_23(s1_x)
      /\ s2_special' = Special(s1_x)
      /\ s3_y_q' = YQ(s2_x_q)
      /\ s3_special' = s2_special
      /\ s4_r_q' = RQ(s3_y_q)
      /\ s4_N_int' = NInt(s3_y_q)
      /\ s4_special' = s3_special
      /\ N_pipe' = Pipe(N_pipe, s4_N_int)
      /\ sp_pipe' = Pipe(sp_pipe, s4_special)
      /\ Poly!PolyClock(poly_in_valid, s4_r_q)
      /\ s10_out' = LaneOutput(s9_special, Poly!poly_y, s9_N_int)
      /\ source' = [i \in Stages |-> IF i = 1 THEN IF fire THEN x ELSE NoOperand
                                              ELSE source[i - 1]]

Accept  == \E x \in Operands : Clock(TRUE, x, TRUE)
Stalled == \E x \in Operands : Clock(TRUE, x, FALSE)
Idle    == \E r \in BOOLEAN : Clock(FALSE, IdleBits, r)

Next == Accept \/ Stalled \/ Idle

Spec == Init /\ [][Next]_vars

-----------------------------------------------------------------------------
\* The operand of the polynomial is within ln(2)/2 of zero (in Q2.30), also when
\* the data in s3 belongs to no operand or to one whose result is overridden:
\* s4 takes it from the ten bits of N_int_wide.  The nine bits that N_pipe
\* carries may have lost the tenth of those, but not for an operand whose result
\* the reconstruction computes from them.
TypeOK ==
  /\ stage_valid \in [Stages -> BOOLEAN]
  /\ v_stage \in [PipeStages -> BOOLEAN]
  /\ s4_N_int \in -256 .. 255
  /\ s4_r_q \in -(LN2_Q2_30 \div 2) .. LN2_Q2_30 \div 2
  /\ stage_valid[4] /\ ~s4_special.override_valid =>
       s4_N_int = NIntWide(YQ(ToQ8_23(source[4]))) /\ s4_N_int \in -127 .. 127
  /\ N_pipe \in [PipeStages -> -256 .. 255]
  /\ \A k \in PipeStages : sp_pipe[k].override_valid \in BOOLEAN

\* Ten clocks after an operand was accepted, and only then, the lane shows a
\* valid result, and it is the exponential of that operand: polynomial,
\* exponent and override of one operand meet at the output register whatever
\* was accepted before and after it.  The valid bits that the Horner
\* sub-pipeline shifts for itself stay in step with those of the lane.
OutputMatchesOperand ==
  /\ \A k \in PipeStages : v_stage[k] = stage_valid[5 + k]
  /\ out_valid <=> source[LAT] # NoOperand
  /\ out_valid => out_bits = ExpOf(source[LAT])

\* Whatever unreset registers power up with, no such value is ever shown as
\* a valid result: a valid output stage has its own exponent and override.
NoPowerUpValueEmitted ==
  \A k \in PipeStages : stage_valid[5 + k] =>
    /\ sp_pipe[k] = Special(source[5 + k])
    /\ N_pipe[k] = NInt(YQ(ToQ8_23(source[5 + k])))
=============================================================================
