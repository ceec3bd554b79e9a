---------------------------- MODULE MCVFExpLane ----------------------------
(***************************************************************************)
(* Two operands that take different ways through the lane: -5.0 goes       *)
(* through the polynomial, 200.0 is overridden, and its s2_x_q and s3_y_q  *)
(* lose bits.  An idle port shows -5.0 too, so that a value must never     *)
(* stand in for the valid bit beside it.  No two neighbouring registers    *)
(* power up alike.                                                         *)
(***************************************************************************)
EXTENDS VFExpLane

MCOperands == {49312, 17224}      \* 0xC0A0 = -5.0, 0x4348 = 200.0
MCIdleBits == 49312
MCPowerUp  == {[k \in 0 .. 4 |-> 134217728 * (k - 2)],
               [k \in 0 .. 4 |-> IF k % 2 = 0 THEN 536870912 ELSE -1]}
MCPowerUpN == {[k \in 0 .. 4 |-> IF k % 2 = 0 THEN 255 ELSE -256],
               [k \in 0 .. 4 |-> 60 * (k - 2)]}
MCPowerUpSpecial ==
  {[k \in 0 .. 4 |-> [override_valid |-> k % 2 = m, override_result |-> FP32_QNAN + k]] :
     m \in {0, 1}}
=============================================================================
