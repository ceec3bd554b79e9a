------------------------ MODULE LaneHandshakeProofs ------------------------
(***************************************************************************)
(* Proofs about the handshake skeleton of the lanes, for every latency and *)
(* every number of operands.                                               *)
(***************************************************************************)
EXTENDS LaneHandshake, TLAPS

IInv == TypeOK /\ Safety

\* What one clock does to the lane, without the bounds of the model.
LEMMA StageFacts ==
  ASSUME TypeOK
  PROVE  /\ LAT \in Stages
         /\ 1 \in Stages
         /\ \A i \in Stages : i # 1 => i - 1 \in Stages
         /\ \A i \in Stages : i # LAT => i + 1 \in Stages
         /\ accepted \in Nat
  BY LatAssumption, MaxItemsAssumption DEF TypeOK, Stages

\* The initial state of the lane satisfies the inductive invariant.
LEMMA InitInv == Init => IInv
<1> SUFFICES ASSUME Init PROVE IInv
  OBVIOUS
<1>1. TypeOK
  BY MaxItemsAssumption DEF Init, TypeOK, Stages, Junk
<1>2. InOrder /\ LeavesInOrder
  BY DEF Init, InOrder, LeavesInOrder, Stages
<1>3. Conservation
  BY DEF Init, Conservation, InFlight, Stages
<1>4. QED
  BY <1>1, <1>2, <1>3 DEF IInv, Safety

\* The operand at the output port is older than any other in the lane.
LEMMA PresentedOldest ==
  ASSUME IInv
  PROVE  /\ Presented \subseteq 1 .. accepted
         /\ Presented \subseteq InFlight
         /\ Presented \cap (taken \cup lost) = {}
         /\ \A i \in Stages : stage_valid[i] /\ i # LAT =>
              \A o \in Presented : o < stage_data[i]
<1>1. LAT \in Stages
  BY StageFacts DEF IInv
<1>2. ASSUME NEW i \in Stages, i # LAT
      PROVE  i < LAT
  BY <1>2, LatAssumption DEF Stages
<1>3. QED
  BY <1>1, <1>2 DEF IInv, Safety, InOrder, Conservation, Presented,
                    OutValid, OutBits, InFlight

\* The operands in the lane after a clock: those not presented, and the
\* accepted one.
LEMMA InFlightStep ==
  ASSUME IInv, NEW v \in BOOLEAN, NEW r \in BOOLEAN, Clock(v, r)
  PROVE  InFlight' = (InFlight \ Presented)
                       \cup (IF v /\ r THEN {accepted + 1} ELSE {})
<1>0. /\ LAT \in Stages
      /\ 1 \in Stages
      /\ \A i \in Stages : i # 1 => i - 1 \in Stages
      /\ \A i \in Stages : i # LAT => i + 1 \in Stages
      /\ Stages \subseteq Nat
  BY StageFacts DEF IInv, Stages
<1>1. /\ \A i \in Stages : stage_valid'[i] = IF i = 1 THEN v /\ r ELSE stage_valid[i - 1]
      /\ \A i \in Stages : stage_data'[i] =
            IF i = 1 THEN (IF v THEN accepted + 1 ELSE Junk) ELSE stage_data[i - 1]
  BY DEF Clock, FirstValid, ShiftValid, ShiftData
<1>2. ASSUME NEW o \in InFlight'
      PROVE  o \in (InFlight \ Presented) \cup (IF v /\ r THEN {accepted + 1} ELSE {})
  <2>1. PICK i \in Stages : stage_valid'[i] /\ o = stage_data'[i]
    BY <1>2 DEF InFlight
  <2>2. CASE i = 1
    BY <2>1, <2>2, <1>1
  <2>3. CASE i # 1
    <3>1. /\ i - 1 \in Stages
          /\ stage_valid[i - 1]
          /\ o = stage_data[i - 1]
      BY <2>1, <2>3, <1>0, <1>1
    <3>2. i - 1 # LAT
      BY LatAssumption DEF Stages
    <3>3. o \notin Presented
      <4>1. o \in Nat
        BY <3>1 DEF IInv, TypeOK
      <4>2. \A q \in Presented : q < o
        BY <3>1, <3>2, PresentedOldest
      <4>3. QED
        BY <4>1, <4>2
    <3>4. QED
      BY <3>1, <3>3 DEF InFlight
  <2>4. QED
    BY <2>2, <2>3
<1>3. ASSUME NEW o \in InFlight \ Presented
      PROVE  o \in InFlight'
  <2>1. PICK i \in Stages : stage_valid[i] /\ o = stage_data[i]
    BY <1>3 DEF InFlight
  <2>2. i # LAT
    BY <1>3, <2>1 DEF Presented, OutValid, OutBits
  <2>3. i + 1 \in Stages /\ i + 1 # 1 /\ (i + 1) - 1 = i
    BY <2>2, <1>0 DEF Stages
  <2>4. stage_valid'[i + 1] /\ stage_data'[i + 1] = o
    BY <2>1, <2>3, <1>1
  <2>5. QED
    BY <2>3, <2>4 DEF InFlight
<1>4. ASSUME v, r
      PROVE  accepted + 1 \in InFlight'
  BY <1>0, <1>1, <1>4 DEF InFlight
<1>5. QED
  BY <1>2, <1>3, <1>4

\* One clock of the lane preserves the inductive invariant.
LEMMA NextInv == IInv /\ [Next]_vars => IInv'
<1> SUFFICES ASSUME IInv, [Next]_vars PROVE IInv'
  OBVIOUS
<1>1. ASSUME NEW v \in BOOLEAN, NEW r \in BOOLEAN, Clock(v, r)
      PROVE  IInv'
  <2>0. /\ 1 \in Stages
        /\ \A i \in Stages : i # 1 => i - 1 \in Stages
        /\ Stages \subseteq Nat
        /\ accepted \in Nat
        /\ MaxItems \in Nat
    BY StageFacts, MaxItemsAssumption DEF IInv, Stages
  <2>1. /\ \A i \in Stages : stage_valid'[i] = IF i = 1 THEN v /\ r ELSE stage_valid[i - 1]
        /\ \A i \in Stages : stage_data'[i] =
              IF i = 1 THEN (IF v THEN accepted + 1 ELSE Junk) ELSE stage_data[i - 1]
        /\ stage_valid' \in [Stages -> BOOLEAN]
        /\ stage_data' \in [Stages -> Nat]
    <3>1. stage_valid \in [Stages -> BOOLEAN] /\ stage_data \in [Stages -> Nat]
      BY DEF IInv, TypeOK
    <3>2. QED
      BY <1>1, <2>0, <3>1 DEF Clock, FirstValid, ShiftValid, ShiftData, Junk
  <2>2. /\ accepted' = IF v /\ r THEN accepted + 1 ELSE accepted
        /\ taken' = IF r THEN taken \cup Presented ELSE taken
        /\ lost' = IF r THEN lost ELSE lost \cup Presented
        /\ v => accepted < MaxItems
    BY <1>1 DEF Clock, FirstValid, ShiftValid, ShiftData
  <2>3. accepted' \in Nat /\ accepted <= accepted'
    BY <2>0, <2>2
  <2>4. taken' \cup lost' = (taken \cup lost) \cup Presented
    BY <2>2
  <2>5. taken \subseteq 1 .. accepted /\ lost \subseteq 1 .. accepted
    BY DEF IInv, TypeOK
  <2>6. Presented \subseteq 1 .. accepted
    BY PresentedOldest
  <2>7. TypeOK'
    <3>1. taken' \subseteq 1 .. accepted' /\ lost' \subseteq 1 .. accepted'
      BY <2>0, <2>2, <2>3, <2>5, <2>6
    <3>2. accepted' \in 0 .. MaxItems
      BY <2>0, <2>2 DEF IInv, TypeOK
    <3>3. QED
      BY <2>1, <3>1, <3>2 DEF TypeOK, Stages
  <2>8. InOrder'
    <3>1. ASSUME NEW i \in Stages, stage_valid'[i]
          PROVE  stage_data'[i] \in 1 .. accepted'
      BY <3>1, <2>0, <2>1, <2>2, <2>3 DEF IInv, Safety, InOrder
    <3>2. ASSUME NEW i \in Stages, NEW j \in Stages, i < j,
                 stage_valid'[i], stage_valid'[j]
          PROVE  stage_data'[j] < stage_data'[i]
      <4>1. j # 1 /\ j - 1 \in Stages /\ stage_valid[j - 1]
            /\ stage_data'[j] = stage_data[j - 1]
        BY <3>2, <2>0, <2>1 DEF Stages
      <4>2. CASE i = 1
        <5>1. stage_data'[i] = accepted + 1
          BY <4>2, <3>2, <2>1
        <5>2. stage_data[j - 1] \in 1 .. accepted
          BY <4>1 DEF IInv, Safety, InOrder
        <5>3. QED
          BY <4>1, <5>1, <5>2, <2>0
      <4>3. CASE i # 1
        <5>1. i - 1 \in Stages /\ stage_valid[i - 1] /\ i - 1 < j - 1
              /\ stage_data'[i] = stage_data[i - 1]
          BY <4>3, <3>2, <2>0, <2>1
        <5>2. QED
          BY <4>1, <5>1 DEF IInv, Safety, InOrder
      <4>4. QED
        BY <4>2, <4>3
    <3>3. QED
      BY <3>1, <3>2 DEF InOrder, Stages
  <2>9. LeavesInOrder'
    <3>1. ASSUME NEW i \in Stages, stage_valid'[i], NEW o \in taken' \cup lost'
          PROVE  o < stage_data'[i]
      <4>1. CASE i = 1
        <5>1. stage_data'[i] = accepted + 1
          BY <3>1, <4>1, <2>1
        <5>2. o \in 1 .. accepted
          BY <3>1, <2>4, <2>5, <2>6
        <5>3. QED
          BY <5>1, <5>2, <2>0
      <4>2. CASE i # 1
        <5>1. i - 1 \in Stages /\ stage_valid[i - 1] /\ i - 1 # LAT
              /\ stage_data'[i] = stage_data[i - 1]
          BY <3>1, <4>2, <2>0, <2>1, LatAssumption DEF Stages
        <5>2. CASE o \in Presented
          BY <5>1, <5>2, PresentedOldest
        <5>3. CASE o \in taken \cup lost
          BY <5>1, <5>3 DEF IInv, Safety, LeavesInOrder
        <5>4. QED
          BY <3>1, <5>2, <5>3, <2>4
      <4>3. QED
        BY <4>1, <4>2
    <3>2. QED
      BY <3>1 DEF LeavesInOrder, Stages
  <2>10. Conservation'
    <3>1. InFlight' = (InFlight \ Presented)
                        \cup (IF v /\ r THEN {accepted + 1} ELSE {})
      BY <1>1, InFlightStep
    <3>2. /\ 1 .. accepted = InFlight \cup taken \cup lost
          /\ taken \cap lost = {}
          /\ InFlight \cap (taken \cup lost) = {}
      BY DEF IInv, Safety, Conservation
    <3>3. Presented \subseteq InFlight /\ Presented \cap (taken \cup lost) = {}
      BY PresentedOldest
    <3>4. 1 .. accepted' = (1 .. accepted) \cup (IF v /\ r THEN {accepted + 1} ELSE {})
      BY <2>0, <2>2
    <3>5. 1 .. accepted' = InFlight' \cup taken' \cup lost'
      BY <3>1, <3>2, <3>3, <3>4, <2>4
    <3>6. taken' \cap lost' = {}
      BY <3>2, <3>3, <2>2
    <3>7. accepted + 1 \notin taken \cup lost \cup Presented
      BY <2>0, <2>5, <2>6
    <3>8. InFlight' \cap (taken' \cup lost') = {}
      BY <3>1, <3>2, <3>3, <3>7, <2>4
    <3>9. QED
      BY <3>5, <3>6, <3>8 DEF Conservation
  <2>11. QED
    BY <2>7, <2>8, <2>9, <2>10 DEF IInv, Safety
<1>2. CASE UNCHANGED vars
  BY <1>2 DEF vars, IInv, TypeOK, Safety, InOrder, LeavesInOrder,
              Conservation, InFlight
<1>3. QED
  BY <1>1, <1>2 DEF Next

\* The lane keeps its operands in order, in one place each, and every valid
\* bit beside the data it vouches for (stage_valid and the data registers of
\* the four lanes), with any producer and any consumer.
THEOREM LaneSafety == Spec => [](TypeOK /\ InOrder /\ LeavesInOrder /\ Conservation)
<1>1. IInv => TypeOK /\ InOrder /\ LeavesInOrder /\ Conservation
  BY DEF IInv, Safety
<1>2. QED
  BY InitInv, NextInv, <1>1, PTL DEF Spec

\* Type correctness of the handshake: the counts stay within the operands
\* accepted, and every register holds an accepted operand or idle data.
THEOREM TypeCorrect == Spec => []TypeOK
<1>1. IInv => TypeOK
  BY DEF IInv
<1>2. QED
  BY InitInv, NextInv, <1>1, PTL DEF Spec

\* The consumer takes the operands in the order of their acceptance, however
\* often it stalled before.
THEOREM OrderedDelivery == Spec => TakenInOrder
<1>1. ASSUME IInv, [Next]_vars
      PROVE  [\A o \in taken' \ taken : \A p \in taken : p < o]_vars
  <2> SUFFICES ASSUME NEW v \in BOOLEAN, NEW r \in BOOLEAN, Clock(v, r),
                      NEW o \in taken' \ taken, NEW p \in taken
               PROVE  p < o
    BY <1>1 DEF Next
  <2>1. o \in Presented
    BY DEF Clock, FirstValid, ShiftValid, ShiftData
  <2>2. stage_valid[LAT] /\ o = stage_data[LAT] /\ LAT \in Stages
    BY <1>1, <2>1, StageFacts DEF IInv, Presented, OutValid, OutBits
  <2>3. QED
    BY <1>1, <2>2 DEF IInv, Safety, LeavesInOrder
<1>2. QED
  BY InitInv, NextInv, <1>1, PTL DEF Spec, TakenInOrder

-----------------------------------------------------------------------------
\* The pairs of the refinement mapping.
Flight == {<<stage_data[i], LAT + 1 - i>> : i \in {j \in Stages : stage_valid[j]}}

\* One clock of the lane is one tick of the delay line.
LEMMA ClockIsTick ==
  ASSUME IInv, NEW v \in BOOLEAN, NEW r \in BOOLEAN, Clock(v, r)
  PROVE  Promise!Tick(v, r)
<1>0. /\ LAT \in Stages
      /\ 1 \in Stages
      /\ \A i \in Stages : i # 1 => i - 1 \in Stages
      /\ \A i \in Stages : i # LAT => i + 1 \in Stages
      /\ Stages \subseteq Nat
      /\ LAT \in Nat
  BY StageFacts, LatAssumption DEF IInv, Stages
<1>1. /\ \A i \in Stages : stage_valid'[i] = IF i = 1 THEN v /\ r ELSE stage_valid[i - 1]
      /\ \A i \in Stages : stage_data'[i] =
            IF i = 1 THEN (IF v THEN accepted + 1 ELSE Junk) ELSE stage_data[i - 1]
  BY DEF Clock, FirstValid, ShiftValid, ShiftData
<1>2. Promise!Presented = Presented
  <2>1. ASSUME NEW x \in Flight, x[2] = 1
        PROVE  stage_valid[LAT] /\ x[1] = stage_data[LAT]
    <3>1. PICK i \in Stages : stage_valid[i] /\ x = <<stage_data[i], LAT + 1 - i>>
      BY DEF Flight
    <3>2. i = LAT
      BY <2>1, <3>1, <1>0
    <3>3. QED
      BY <3>1, <3>2
  <2>2. ASSUME stage_valid[LAT]
        PROVE  <<stage_data[LAT], 1>> \in Flight
    BY <2>2, <1>0 DEF Flight
  <2>3. Promise!Presented = {x[1] : x \in {y \in Flight : y[2] = 1}}
    BY DEF Promise!Presented, Flight
  <2>4. Promise!Presented \subseteq Presented
    BY <2>1, <2>3 DEF Presented, OutValid, OutBits
  <2>5. Presented \subseteq Promise!Presented
    BY <2>2, <2>3 DEF Presented, OutValid, OutBits
  <2>6. QED
    BY <2>4, <2>5
<1>3. Flight' = Promise!Nearer \cup (IF v /\ r THEN {<<accepted + 1, LAT>>} ELSE {})
  <2>1. Promise!Nearer = {<<x[1], x[2] - 1>> : x \in {y \in Flight : y[2] # 1}}
    BY DEF Promise!Nearer, Flight
  <2>2. Flight' = {<<stage_data'[i], LAT + 1 - i>> : i \in {j \in Stages : stage_valid'[j]}}
    BY DEF Flight, Stages
  <2>3. ASSUME NEW i \in Stages, stage_valid'[i]
        PROVE  <<stage_data'[i], LAT + 1 - i>> \in
                 Promise!Nearer \cup (IF v /\ r THEN {<<accepted + 1, LAT>>} ELSE {})
    <3>1. CASE i = 1
      BY <2>3, <3>1, <1>0, <1>1
    <3>2. CASE i # 1
      <4>1. i - 1 \in Stages /\ stage_valid[i - 1] /\ stage_data'[i] = stage_data[i - 1]
        BY <2>3, <3>2, <1>0, <1>1
      <4>2. <<stage_data[i - 1], LAT + 1 - (i - 1)>> \in Flight
        BY <4>1 DEF Flight
      <4>3. LAT + 1 - (i - 1) # 1 /\ (LAT + 1 - (i - 1)) - 1 = LAT + 1 - i
        BY <1>0, <4>1 DEF Stages
      <4>4. QED
        BY <4>1, <4>2, <4>3, <2>1
    <3>3. QED
      BY <3>1, <3>2
  <2>4. ASSUME NEW x \in Flight, x[2] # 1
        PROVE  <<x[1], x[2] - 1>> \in Flight'
    <3>1. PICK i \in Stages : stage_valid[i] /\ x = <<stage_data[i], LAT + 1 - i>>
      BY DEF Flight
    <3>2. i # LAT
      BY <2>4, <3>1, <1>0
    <3>3. i + 1 \in Stages /\ i + 1 # 1 /\ (i + 1) - 1 = i
          /\ (LAT + 1 - i) - 1 = LAT + 1 - (i + 1)
      BY <3>2, <1>0 DEF Stages
    <3>4. stage_valid'[i + 1] /\ stage_data'[i + 1] = stage_data[i]
      BY <3>1, <3>3, <1>1
    <3>5. QED
      BY <3>1, <3>3, <3>4, <2>2
  <2>5. ASSUME v, r
        PROVE  <<accepted + 1, LAT>> \in Flight'
    <3>1. stage_valid'[1]
      BY <2>5, <1>0, <1>1
    <3>2. stage_data'[1] = accepted + 1
      BY <2>5, <1>0, <1>1
    <3>3. LAT + 1 - 1 = LAT
      BY <1>0
    <3>4. QED
      BY <3>1, <3>2, <3>3, <1>0, <2>2
  <2>6. QED
    BY <2>1, <2>2, <2>3, <2>4, <2>5
<1>4. QED
  BY <1>2, <1>3 DEF Clock, FirstValid, ShiftValid, ShiftData, Promise!Tick, Flight

\* The lane implements the delay line: an accepted operand is presented
\* exactly LAT clocks later and for one clock.
THEOREM LaneImplementsDelayLine == Spec => ImplementsDelayLine
<1>1. Init => Promise!Init
  BY DEF Init, Promise!Init, Stages
<1>2. IInv /\ [Next]_vars => [Promise!Next]_(Promise!vars)
  <2> SUFFICES ASSUME IInv, [Next]_vars
               PROVE  [Promise!Next]_(Promise!vars)
    OBVIOUS
  <2>1. ASSUME NEW v \in BOOLEAN, NEW r \in BOOLEAN, Clock(v, r)
        PROVE  Promise!Next
    BY <2>1, ClockIsTick DEF Promise!Next
  <2>2. CASE UNCHANGED vars
    BY <2>2 DEF vars, Promise!vars
  <2>3. QED
    BY <2>1, <2>2 DEF Next
<1>3. QED
  BY InitInv, NextInv, <1>1, <1>2, PTL DEF Spec, ImplementsDelayLine, Promise!Spec
=============================================================================
