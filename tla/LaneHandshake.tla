--------------------------- MODULE LaneHandshake ---------------------------
(***************************************************************************)
(* The valid/ready skeleton that the four lanes (VFExpLane,                *)
(* VFConvNvfp4Bf16Lane, VFConvBf16Fp8Lane, VFConvFp8Bf16Lane) share: a     *)
(* shift register of valid bits beside a shift register of data, both      *)
(* clocked unconditionally, and `io.in.ready := io.out.ready`.             *)
(*                                                                         *)
(* The payload is abstract: a data register holds the number of the        *)
(* operand whose value has moved into it (operands are numbered in the     *)
(* order of acceptance) or Junk, the value of an idle input port or of     *)
(* the reset.  Bounds: MaxItems operands are offered in one behavior.      *)
(***************************************************************************)
EXTENDS Naturals

CONSTANTS
  LAT,                \* length of the valid pipeline: 10, 3, 2 or 1
  MaxItems            \* bound on the operands the producer offers

ASSUME LatAssumption == LAT \in Nat \ {0}
ASSUME MaxItemsAssumption == MaxItems \in Nat

VARIABLES
  stage_valid,        \* stage_valid[i] models stage_valid(i - 1) of the code
  stage_data,         \* the data register beside stage_valid[i]
  accepted,           \* history: operands accepted
  taken,              \* history: operands the consumer took
  lost                \* history: operands presented to an unready consumer

vars == <<stage_valid, stage_data, accepted, taken, lost>>

Stages == 1 .. LAT
Junk   == 0

\* One valid bit and one data register for each stage; no operand is taken or
\* lost before it was accepted.
TypeOK ==
  /\ stage_valid \in [Stages -> BOOLEAN]
  /\ stage_data \in [Stages -> Nat]
  /\ accepted \in 0 .. MaxItems
  /\ taken \subseteq 1 .. accepted
  /\ lost \subseteq 1 .. accepted

Init ==
  /\ stage_valid = [i \in Stages |-> FALSE]
  /\ stage_data = [i \in Stages |-> Junk]
  /\ accepted = 0
  /\ taken = {}
  /\ lost = {}

-----------------------------------------------------------------------------
\* Faulty variants are marked as such.  Each breaks one of the properties
\* below and stands for a slip in the definition after it.

\* faulty: the valid bit of the stage before
OutValidEarly == stage_valid[LAT - 1]

\* io.out.valid and io.out.bits
OutValid == stage_valid[LAT]
OutBits  == stage_data[LAT]

\* The operand shown to the consumer in this clock.
Presented == IF OutValid THEN {OutBits} ELSE {}

InFlight == {stage_data[i] : i \in {j \in Stages : stage_valid[j]}}

\* faulty: in.ready forgotten
FirstValidUngated(v, r) == v

\* stage_valid(0) := io.in.valid && io.in.ready, with io.in.ready := io.out.ready
FirstValid(v, r) == v /\ r

\* faulty: an operand that enters wipes the one before it
ShiftValidWipes(first) ==
  [i \in Stages |-> IF i = 1 THEN first ELSE stage_valid[i - 1] /\ ~(i = 2 /\ first)]

ShiftValid(first) ==
  [i \in Stages |-> IF i = 1 THEN first ELSE stage_valid[i - 1]]

\* faulty: the last data register takes the wrong one
ShiftDataTap(bits) ==
  [i \in Stages |-> IF i = 1 THEN bits
                    ELSE IF i = LAT THEN stage_data[1] ELSE stage_data[i - 1]]

\* RegNext upon RegNext
ShiftData(bits) ==
  [i \in Stages |-> IF i = 1 THEN bits ELSE stage_data[i - 1]]

\* One clock edge.  v is io.in.valid, r is io.out.ready.  io.in.ready is
\* io.out.ready, so the operand is accepted iff both hold; the registers
\* move in every clock, also when the consumer is not ready.
Clock(v, r) ==
  /\ v => accepted < MaxItems
  /\ stage_valid' = ShiftValid(FirstValid(v, r))
  /\ stage_data' = ShiftData(IF v THEN accepted + 1 ELSE Junk)
  /\ accepted' = IF v /\ r THEN accepted + 1 ELSE accepted
  /\ taken' = IF r THEN taken \cup Presented ELSE taken
  /\ lost'  = IF r THEN lost ELSE lost \cup Presented

Next == \E v, r \in BOOLEAN : Clock(v, r)

\* Any producer and any consumer.
Spec == Init /\ [][Next]_vars

\* The clock of the design keeps running: weak fairness of the clock edge.
FairSpec == Spec /\ WF_vars(Next)

-----------------------------------------------------------------------------
\* Every valid bit travels beside the data it vouches for, and a younger
\* operand never overtakes an older one: of two valid stages the one nearer
\* to the output holds the older operand.
InOrder ==
  /\ \A i \in Stages : stage_valid[i] => stage_data[i] \in 1 .. accepted
  /\ \A i, j \in Stages :
       i < j /\ stage_valid[i] /\ stage_valid[j] => stage_data[j] < stage_data[i]

\* Operands leave in the order in which they came: whatever is still in the
\* lane is younger than everything that was presented, taken or lost.
LeavesInOrder ==
  \A i \in Stages : stage_valid[i] =>
    \A o \in taken \cup lost : o < stage_data[i]

\* An accepted operand is in the lane, taken or lost, and in only one of
\* the three places: nothing vanishes inside the pipeline or comes out twice.
Conservation ==
  /\ 1 .. accepted = InFlight \cup taken \cup lost
  /\ taken \cap lost = {}
  /\ InFlight \cap (taken \cup lost) = {}

Safety == InOrder /\ LeavesInOrder /\ Conservation

\* The consumer takes operands one at a time and in order, also when some of
\* them were lost in between (an action property over every clock).
TakenInOrder ==
  [][\A o \in taken' \ taken : \A p \in taken : p < o]_vars

\* Every accepted operand eventually reaches the output, whatever producer
\* and consumer do: no stall holds it in the lane for ever.  (It is taken
\* then only if the consumer is ready in the clock that shows it, as it is
\* in every test of the repository.)
EventuallyPresented ==
  \A o \in 1 .. MaxItems : (o <= accepted) ~> (o \in taken \cup lost)

\* The lane implements the delay line: exact latency, one presentation.
Promise == INSTANCE DelayLine WITH
  flight <- {<<stage_data[i], LAT + 1 - i>> : i \in {j \in Stages : stage_valid[j]}}
ImplementsDelayLine == Promise!Spec
=============================================================================
