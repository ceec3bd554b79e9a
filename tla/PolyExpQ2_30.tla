---------------------------- MODULE PolyExpQ2_30 ----------------------------
(***************************************************************************)
(* The five-stage Horner pipeline of the exponential lane.  It has no      *)
(* handshake: every register moves in every clock.  r_stage and t_stage    *)
(* have no reset, so each of their registers powers up with a value of its *)
(* own.  A Horner step is not cut to 32 bits: with r at most half of ln 2  *)
(* in magnitude no t of 32 bits makes it leave them, and neither do the    *)
(* values with which TLC powers the registers up.                          *)
(***************************************************************************)
EXTENDS ExpArith

CONSTANT PowerUp      \* what the five registers without a reset may power up with

VARIABLES r_stage, t_stage, v_stage

polyVars == <<r_stage, t_stage, v_stage>>

PolyStages == 0 .. 4

PolyInit ==
  /\ r_stage \in PowerUp
  /\ t_stage \in PowerUp
  /\ v_stage = [k \in PolyStages |-> FALSE]

PolyClock(in_valid, r) ==
  /\ v_stage' = [k \in PolyStages |-> IF k = 0 THEN in_valid ELSE v_stage[k - 1]]
  /\ r_stage' = [k \in PolyStages |-> IF k = 0 THEN r ELSE r_stage[k - 1]]
  /\ t_stage' = [k \in PolyStages |->
       CASE k = 0 -> Horner(C5, r, C4)
         [] k = 1 -> Horner(t_stage[0], r_stage[0], C3)
         [] k = 2 -> Horner(t_stage[1], r_stage[1], C2)
         [] k = 3 -> Horner(t_stage[2], r_stage[2], C1)
         [] k = 4 -> Horner(t_stage[3], r_stage[3], C0)]

poly_out_valid == v_stage[4]
poly_y == t_stage[4]
=============================================================================
