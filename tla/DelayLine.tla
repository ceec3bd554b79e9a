----------------------------- MODULE DelayLine -----------------------------
(***************************************************************************)
(* What one lane of the Saturn functional unit promises at its two ports,  *)
(* with no pipeline registers in sight: an operand accepted in one clock   *)
(* is presented to the consumer exactly LAT clocks later, for that one     *)
(* clock, and is then either taken or gone.  The operands are numbered in  *)
(* the order of their acceptance.                                          *)
(***************************************************************************)
EXTENDS Naturals

CONSTANT LAT          \* clocks between the two handshakes

VARIABLES
  flight,             \* pairs <<operand, clocks left until it is presented>>
  accepted,           \* number of operands accepted so far
  taken,              \* operands the consumer has taken
  lost                \* operands presented while the consumer was not ready

vars == <<flight, accepted, taken, lost>>

Init ==
  /\ flight = {}
  /\ accepted = 0
  /\ taken = {}
  /\ lost = {}

\* The operands the lane shows at its output port in this clock.
Presented == {x[1] : x \in {y \in flight : y[2] = 1}}

\* The operands in flight after one clock, the accepted one left out.
Nearer == {<<x[1], x[2] - 1>> : x \in {y \in flight : y[2] # 1}}

Tick(v, r) ==
  /\ flight' = Nearer \cup (IF v /\ r THEN {<<accepted + 1, LAT>>} ELSE {})
  /\ accepted' = IF v /\ r THEN accepted + 1 ELSE accepted
  /\ taken' = IF r THEN taken \cup Presented ELSE taken
  /\ lost'  = IF r THEN lost ELSE lost \cup Presented

Next == \E v, r \in BOOLEAN : Tick(v, r)

Spec == Init /\ [][Next]_vars
=============================================================================
