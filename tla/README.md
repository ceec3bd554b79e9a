# Formal verification of the mixed-precision flash-attention kernels and the Saturn FU lanes

This directory holds TLA+ models of the program in `src/`, the TLC configurations that
check them on small instances, and TLAPS proofs of the properties that hold for every
instance. Everything is translated from the source; `PROJECT.json` names the lines that
each definition stands for, the hazards of the code and the properties aimed at them.

Contents: 1 inventory, 2 plan, 3 models, 4 runs, 5 proofs, 6 findings, 7 what is not modelled.

## 1. Inventory

The repository holds a study of a decode step of flash attention in mixed precision on
a RISC-V vector machine. Five bodies of code have logic of their own: the functional
unit in Chisel, the number formats of the benches, the kernels in C, the Exo
schedule that generates one more kernel, and the reproducers of a compiler defect that
two of the kernels work around.

| Component | Where | State it keeps | Operations | Hard behaviour | What makes it correct |
|---|---|---|---|---|---|
| Valid/ready skeleton | the four lanes in `saturn-fu/src/main` | a shift register of valid bits beside one of data | one clock edge; accept, stall, idle, present | the registers move also when the consumer is not ready: an operand presented to an unready consumer is gone | order, exact latency, one presentation; nothing but a stall loses an operand |
| `vfexp.v` lane | `VFExpLane.scala`, `PolyExpQ2_30.scala` | ten stages: range reduction, Horner pipeline with valid bits of its own, exponent pipe, override pipe | one clock edge | four pipelines must meet; registers without reset; fixed-point range limits; thresholds; a five-bit shift amount | what comes out is the exponential of the operand that went in; the function is monotone, doubles correctly, and its special cases join the rest |
| `vfconv.bf16.fp8.v` lane | `VFConvBf16Fp8Lane.scala` | two stages | one clock edge | rounding carries, subnormals, saturation | correct rounding; equality with the C function |
| `vfconv.fp8.bf16.v` lane | `VFConvFp8Bf16Lane.scala` | one stage | one clock edge | subnormal normalisation, NaN code, signed zero | exact value; round trip |
| `vfconv.nvfp4.bf16.v` lane | `VFConvNvfp4Bf16Lane.scala` | three stages | one clock edge | exponent sum of three numbers, clamps that must stay idle, NaN and zero overrides | exact product |
| Conversions and block quantiser | `microbench-fa/bench_fa_common.h` | the block, `amax`, the scale byte, the packed bytes | `quantize_nvfp4_block`, `bf16_to_e4m3`, decode tables | the scale is rounded after it was computed, may become subnormal or zero | bounded block error; order of the elements kept |
| Streaming kernels | `bench_fa_spacemit_bf16.c`, `bench_fa_mixed_streaming_stub.c` | running maximum, running sum, accumulator | one row; finish a head | order of rescaling; underflow of the rescaling factor; register groups | weights of the final maximum, for any order of rows; no row that matters lost |
| Two-pass kernel | `bench_fa_mixed_rvv.c` | score, weight and output arrays used again for every head; row buffers | strips and rows of seven loops | stale data of the previous head; strip lengths and strides from different `vsetvl` calls | every row and dimension once, of this head |
| Native softmax | `bench_fa_mixed_rvv_native_allfu.c` | the same arrays, pointers and counters of two assembler loops | strips | three loops that advance in three ways; loops that test for zero only | every row once, for any length granted; the loops end |
| Mixed-precision kernels, scalar and native dequantisation | `bench_fa_mixed.c`, `bench_fa_mixed_rvv_native.c`, `..._native_dq.c` | packed K and V, scale bytes, row buffers | pack a row, dequantise a row, softmax, weighted sum | the packed layout is written once and read with different address arithmetic | each element under its own scale, in its place |
| Exo-generated kernel | `paper/exo_schedule_fa.py`, `microbench-fa-exo/` | unpacked words and scales, as above | unpack, blocks of sixteen | strides fixed in the generated code; output left unnormalised | as above |
| BF16 baselines | `bench_fa_bf16.c`, `bench_fa_bf16_rvv.c` | K and V as arrays of BF16, scores, weights, output row | store a row, load a row, softmax, weighted sum | address arithmetic; reused arrays | as above |
| Latency stubs | the `_stub` files | as above | as above, with cheap arithmetic in the place of the functional unit | loads that nothing uses vanish; arithmetic wrong on purpose hides a wrong address | the same bytes loaded, as often, as by the kernel they stand for; rows complete up to the arithmetic |
| NVFP4 dot product | `microbench-mo2/` | packed or plain K, scores | fill, one dot product | packing, loads, as above | each element under its scale; each byte loaded once |
| Compiler defect and its workaround | `paper/gcc_repro/`, `paper/gcc_bug_report.md`, the assembler of the kernels | `vtype` and `vl` in the machine, the compiler's record of them | set by assembler, set by the compiler, used by an instruction | the record goes stale behind an `asm volatile` block, on some paths only | each instruction runs under the configuration it is written for |
| Smoke tests, scripts, simulator hooks | `microbench-j4/`, build files | none | straight-line | none | none |

Interactions. A kernel calls the conversions of `bench_fa_common.h` when it packs its
inputs and issues the instructions of the functional unit as `.4byte` words; the lanes
share no state with each other. Inside a lane the producer (the vector sequencer) and the
consumer (the result write port) are the two actors; the pipelines inside a lane are
concurrent and meet at the output register. The kernels are single threads. Their
hard part is state that outlives a head or a row (arrays allocated once, running
maxima, pointers), the vector length, which the hardware chooses, and the vector type,
which the assembler blocks and the compiler both set. There is
no persistence and no communication, so crashes and lost messages do not arise; the
nearest thing to a lost message is the operand dropped by a stalled lane.

## 2. Plan

Order of work, most important behaviour first; all of it is done.

1. `DelayLine` (abstract), `LaneHandshake`: the protocol of all lanes; proofs.
2. `ExpArith`, `PolyExpQ2_30`, `VFExpLane`, `VFExpSweep`: the exponential lane, register
   by register and as a function over all operands; proofs about the registers.
3. `BenchCommon`, `ConvArith`, `VFConv*Lane`: the conversion lanes against the C
   conversions; composed with the exponential in `FunctionalUnit`.
4. `QuantizeBlock`: the block quantiser, over `BenchCommon`.
5. `Attention` (abstract), `OnlineSoftmax`: the streaming kernel; proofs, refinement.
6. `Vsetvl`, `TwoPassKernel`: the two-pass kernel; proofs, refinement.
7. `NativeSoftmax`: the assembler loops; proofs.
8. `KernelVariants`: the packed layout and its readers, for every kernel and stub;
   proofs.
9. `VtypeTracking`: the vector configuration under which each instruction runs.

What would come next, in this order:

- `VFExpLane` and the `VFConv*Lane` modules shown to implement `LaneHandshake`;
- the schedule script of the Exo kernel, as a rewriting of the loops it produces.

## 3. Models

`MC*` modules and `.cfg` files only give constants. Definitions whose comment begins with
"faulty" stand for a slip in the definition after them; each is paired in `PROJECT.json`
with a property that it breaks.

| Module | Models | State and actions |
|---|---|---|
| `DelayLine` | the promise of a lane at its ports | operands with the clocks left until they appear; one action, a tick |
| `LaneHandshake` | the handshake of all four lanes, any length | `stage_valid`, `stage_data` are the registers, `accepted`, `taken`, `lost` history; one action `Clock(v, r)` per clock edge, `v` = `io.in.valid`, `r` = `io.out.ready` |
| `PolyExpQ2_30`, `ExpArith` | the combinational arithmetic of `vfexp.v`, bit exact: BF16 to Q8.23, range reduction, Horner steps with rounding, reconstruction, special cases | operators |
| `VFExpLane` | every register of the lane | `Accept`, `Stalled` and `Idle` are the clock edge `Clock(v, x, r)` by the state of the input port; `source` remembers the operand of each stage; registers without a reset start with values from `PowerUp`, `PowerUpN` and `PowerUpSpecial`, each register with one of its own |
| `VFExpSweep` | the function of the lane | a walk over all operands of a sign, one per step; part of `FunctionalUnit`, and on its own for the tiny operands |
| `BenchCommon` | `e4m3_decode`, `nvfp4_decode_table`, `bf16_to_e4m3`, `fp32_to_nvfp4` | operators; a decoded value is an integer in units of 2^-9 (E4M3) or 2^-1 (NVFP4), an element one in units of 2^-10 / `GRAIN` |
| `ConvArith` | the combinational parts of the three conversion lanes | operators, bit exact |
| `VFConvBf16Fp8Lane`, `VFConvFp8Bf16Lane`, `VFConvNvfp4Bf16Lane` | the registers of the lanes | `Clock` as above |
| `FunctionalUnit` | the four lanes as one unit | `Exponential`, `Widen`, `Narrow`, `Dequantise`: `vs1`, a field of the instruction, picks the lane that runs; the conversions clock by clock, of the exponential the function |
| `QuantizeBlock` | `quantize_nvfp4_block`, for elements on a grid of 2^-10 / `GRAIN`; with a `GRAIN` that is a large enough power of two it holds every FP32 value | `MaxStep` (the pass for `amax`), `ChooseScale`, `PackStep`, `Return` |
| `Attention` | what a kernel promises for a head | `Produce(h)` |
| `OnlineSoftmax` | the row loop of the streaming kernels | `NewMax` and `OldMax` (a row that raises the maximum, one that does not), `FinishHead` |
| `Vsetvl` | the lengths `vsetvli` may return, from the vector specification (external) | one operator |
| `TwoPassKernel` | `bench_fa_mixed_rvv.c` from the head loop to the store | one action per row dequantised and per strip of each loop |
| `NativeSoftmax` | head loop, maximum, and the assembler loops of `..._native_allfu.c` | one action per strip; `at` and `n` are pointer and counter |
| `KernelVariants` | fifteen kernels from the stores in `main` to the output: two baselines, five mixed-precision kernels, four of the stubs, four dot-product benches | `StoreRow`, `PackRow`, `FillPacked`, `UnpackRow` write; `KRow`, `NextDotHead`, `Softmax`, `VRow` or `PvDim`, `FinishHead` are a two-pass kernel, `StreamRow`, `StreamFinish` the streaming one; `loads` counts the loads of each byte |
| `VtypeTracking` | `exo_schedule_fa.c`, the three native kernels and the two reproducers, as graphs of basic blocks of vector instructions | `AsmVsetvli` and `AsmInstruction` (assembler blocks), `GccVsetvl` and `GccInstruction` (intrinsics), `Jump`; `vtype` is the machine's register, `assumed` what the compiler believes it to be, `wrong` the kinds of instruction that ran under another configuration than their own |

Abstractions. Arithmetic of the functional unit and of the conversions is exact to the bit.
In the kernels numbers are symbolic: scores are integers given at the start, an
exponential is represented by its exponent, a sum by the rows it contains (with
multiplicity where the code could add a row twice; in `KernelVariants` a sum loses its value when an addend comes a second time, `Plus`), and the only effect of rounding kept is
the one the kernels depend on, that an exponential below a limit (`ExpMin` in FP32, `Fp8Min`
after the conversion to FP8) is zero. A dot product that has not covered every
dimension, or has used a wrong row, is a value `Garbage` that no score equals.
Allocation failures, statistics and printing are left out.

Where GCC puts its `vsetvli` is not in the repository. `VtypeTracking` takes from
`paper/gcc_bug_report.md` what it says of the insertion pass (external in `PROJECT.json`): an
`asm volatile` block need not invalidate the record; GCC 13.2 is content with the ratio of
element width and register group where the width matters; and leaves the choice
among the legal placements open, a hoist to any edge included.
`bench_common.h` of `microbench-mo2` is not in the repository either; its sizes are constants.

## 4. Runs

All passing runs finish without an error; bounds are the constants in the `.cfg` files.

| Run | Question | Bounds and why they suffice |
|---|---|---|
| `lane_handshake` | Does the lane keep order and latency, and does every accepted operand appear, for any producer and consumer? | three stages, six operands: more operands than stages, so a lane fills, drains and refills; the proofs cover every length |
| `vfexp_lane` | Do the four pipelines meet? | operands -5 (computed) and 200.0 (overridden, after a data path that runs out of its range: `s4_N_int` is -223), and power-up values that differ from register to register: an operand of each kind beside every other, an idle clock or a power-up value tells each pipeline from the others |
| `functional_unit` | Are the conversions right, also in the pipeline, and is the exponential the right function? | all BF16 patterns, all bytes, all pairs of code and scale byte; no bound on values |
| `quantize_block` | How far may a decoded element be from its original? | blocks of two elements (one byte) in units of 2^-16; magnitudes that cross every rounding threshold and the subnormal and zero scales, and between two multiples of 2^-10 the ones on either side of each tie of a subnormal scale and of the BF16 rounding before it, where the error is largest |
| `online_softmax` | Does streaming give the attention row? | two heads of three rows, five scores with gaps below, at and above the underflow limit: three rows give every order of rise, fall and double rescaling |
| `two_pass` | Are the reused buffers, strips and rows right? | two heads (stale data), three rows (a remainder), head dimension of two strips; vector groups of one strip, as with VLEN 256 |
| `native_softmax` | Do the three loops cover all rows, and end? | five strips of four rows and a vector group of eight: lengths between one and two groups, where `vsetvli` may split as it likes, occur; three heads |
| `kernel_variants` | Do all readers find what the writer stored, is every head complete, are the loads those that are timed? | two heads, two rows, blocks of two nibbles, head dimensions 8 and 16 (one chunk of four blocks, and two; the Exo kernel, the all-units kernel and the streaming stub, written for 64 elements, get one); registers of one block, as with VLEN 256; a truncation that keeps one of the two weights below 1 |
| `vtype_tracking` | Under which configuration does each instruction run, whatever the compiler does? | none: six finite programs, two versions of the compiler, loops that run as often as they like |
| `vfexp_tiny` | the accuracy statement for tiny operands (a finding) | magnitudes up to 14000 |
| `largest_maps_to_six` | the comment on the block scale (a finding) | as `quantize_block` |
| `head_dim_128` | the streaming kernel at head dimension 128 (a finding) | one head of three rows, VLEN 256 |

What the properties say:

- *Lane.* `Conservation`: an accepted operand is in the lane, taken or lost, and in only one of
  these. `TakenInOrder`: an action property. `ImplementsDelayLine`: the refinement.
  `EventuallyPresented`: liveness.
- *Exponential.* `OutputMatchesOperand`, `NoPowerUpValueEmitted` on the registers.
  `ReconstructInRange` (clamps and leading-one detector stay in their two cases),
  `SpecialResults`, `SlopeAtZero`, `Doubling` (exp(2x) = exp(x)^2 to three times the accuracy
  target) and `Monotone` on the function: facts about exp that need no reference implementation.
- *Conversions.* `NearestTiesToEven`, `MirrorsC`, `ExactValue`, `ExactProduct`,
  `NoClampNoRounding`; `BlockError` and `OrderKept` for the quantiser. That a byte survives
  the way to BF16 and back follows from `ExactValue` and `NearestTiesToEven`.
- *Kernels.* `ExactWeights`, `NearMaxKept`, `DenominatorPositive` (streaming);
  `ScoresOfThisHead`, `EachRowOnce` (two-pass); `MaxSeesEveryRow`, `SumExact`, `FreshWeights`,
  `Terminates` (native); `RowsDecoded`, `HeadComplete`, `Traffic` (variants); `ImplementsAttention` for the
  streaming and two-pass kernels. `HeadComplete` records the differences between the variants
  that are meant: the Exo kernel leaves the division by the sum to its caller;
  `..._native_dq.c` and two of the stubs replace the FP8 conversion by a truncation, so that only rows that attain the
  maximum count, and the scalar stub by one that drops some weights; the streaming stub may keep rows out of reach. `Traffic` is what
  the stubs are for: they load each packed byte and scale byte as often as the kernel they time.
- *Vector configuration.* `DemandsMet`: with the workaround in place every instruction runs under
  its own configuration. `SilentOnly`: without it no load or store is affected, so that nothing traps and
  only values are wrong, as the report says.

Deadlock is checked for `lane_handshake`, `vfexp_lane` and `vtype_tracking`, which never stop (a clock; loops without a
trip count). The walk over all operands, the quantiser and the kernels end; their runs say `CHECK_DEADLOCK FALSE`.

Fairness. `LaneHandshake!FairSpec` has weak fairness of the clock edge: the clock of a
synchronous design runs, and nothing is assumed about producer or consumer, so
`EventuallyPresented` speaks of presentation and not of acceptance.
`NativeSoftmax!FairSpec` has weak fairness of the next step: a single thread runs on until it
returns. No other property needs fairness.

## 5. Proofs

TLAPS checks eight modules. Each theorem holds for every value of the constants that satisfies the
named assumptions, which TLC evaluates on the instances.

`LaneHandshakeProofs` (assumes `LatAssumption`: at least one stage, and `MaxItemsAssumption`).
Conservation alone is not inductive: that an operand arriving at the output is new needs to know
that the stages hold distinct operands. `Safety` adds `InOrder` (of two valid stages the nearer to
the output holds the older operand) and `LeavesInOrder` (all operands in the lane are younger than
all that have left). `IInv == TypeOK /\ Safety`; `InFlightStep` says what one clock does to
the set of operands in the lane. `LaneSafety` and `OrderedDelivery` follow; for
`LaneImplementsDelayLine` the mapping takes stage `i` to `LAT + 1 - i` clocks left, and
`ClockIsTick` shows that a clock of the lane is a tick. `TypeCorrect` is type correctness.

`VFExpLaneProofs` (assumes `OperandsAssumption`: operands are naturals, `NoOperand` is none, and `IdleBitsAssumption`: what the port shows on an idle
clock is a natural). For the first two theorems the arithmetic between the registers
stays unexpanded; what is proved is the timing, for every set of operands and of power-up values. `IInv` says of each
register beside a valid bit that it holds its function of the operand of that stage: `Front` for the stages before the
polynomial, `Polynomial` for the five Horner steps, `Beside` for the pipelines that run along, `Result` for the output; `PolyInStep`
says that the valid bits inside the polynomial agree with those of the lane. Stages that are not valid hold anything, which is
how power-up values stay hidden. `SameHorner` identifies the arithmetic of the pipeline with that of the function.
`ExponentialOfOperand` and `PowerUpHidden` follow. `RegistersInRange` is type correctness, and there the arithmetic is expanded: the range reduction runs on every
clock, also for an operand whose result is overridden and for what belongs to no operand. There the registers keep only the low bits (`SInt`, `Add32`), so for those `Ranges` states the width of `s4_N_int`, while the remainder, formed before the cut, stays small whatever the quotient is
(`RestOfWide`). For an operand that is computed nothing is cut: `LiveExponent` shows `s4_N_int` to be the exact quotient, within -127 and 127. `Ranges` bounds each register by what the stage before can hold (`OperandBounded`, `QuotientBounded`,
`ExponentBounded`, `RestBounded` of `ArithmeticProofs`), down to a remainder of at most half of ln 2.

`ArithmeticProofs` (assumes nothing) has the lemmas about `ExpArith`, `ConvArith` and `BenchCommon`, for every operand.
`LaneQuantizes` and `CQuantizes` bring the round-and-pack logic of the lane and that of the C function to one form, `CodeOf`.
`CodeIsNearest` splits a mantissa into the units that are kept and the rest: the halfway patterns on either side of a code are
those at which the rest is half a unit (`NormalNearest`, `SubnormalNearest`). `WidenedExactly` and `Decoders` say that E4M3 widens to BF16
without loss, `PairPacked` that the product of an E2M1 and an E4M3 number has at most six significant bits and an exponent sum within
range. `SpecialValues` goes through the table of special cases: the flags that can be up together, and that the largest of their results is the one meant (`SelectedIs`, `LargestIs`). `PolyBounded` bounds the Horner steps one by one, with the rounding of each,
and `LowestExponent` shows that the polynomial is at least 1 where the exponent is lowest, so that `ReconstructsInRange` holds without a clamp.
Three more facts about the exponential compare results, so bounds on each are not enough. `ResultsOfOperandsGrow` (monotonicity): while the exponent of two stays, the
polynomial grows at least half as fast as the remainder (`PolyGrows`, from one bound per Horner step on how far two chains part, `StepClose`), and from one fixed-point
operand to the next the remainder grows by 80 units, more than all rounding. Where the exponent steps up the polynomial has to fall by half at most. At the ends of the
range, `PolyAtHigh` and `PolyAtLow`, it falls by slightly more, since it is cut off after the fifth power; but there two operands in a row are 2^14 units apart (`FixedMoves`), which outweighs that.
Closer operands occur only below 1/4, where the exponent is 0 (`SmallOperands`). `ComputedOrdered` adds the joints with the special results. `NearOne` (slope): with a small
operand the remainder is 128 times the fixed-point operand to within 46 units, and `LinearTerm` and `QuadraticTerm` leave r^2/2 to within 760 units of what the polynomial adds to 1 + r.
`ExpDoubles` (doubling) needs a bound as tight as the statement, so the error of the polynomial cannot be estimated term by term against exp itself; the
proof compares two polynomials instead. Doubling the operand doubles the fixed-point operand to within one unit (`FixedTwice`, `OperandTwice`), so the remainder of x is
h * ln2/2 + w and that of 2x is 2w to within 300 units, where h in {-1, 0, 1} is the step between the exponents of two (`QuotientTwice`, `RestTwice`). Each Horner chain is
followed as a polynomial in the powers of w with coefficients in units of 2^-30 (`FormStep`, `PolyForm`), around 0, around either half of ln 2, and for 2w (`FormsGiven`);
the square of such a chain is again one (`PowersCross`, `TailBounded`, `SquareForm`, `SquaresGiven`). The coefficients of the two sides agree closely enough
for the square to be 2^h times the second polynomial (`SquareAround`), and `SquarePacks` carries that through the truncation of the mantissas and the
places of their leading ones.
Powers of two and ranges with large ends are opaque there (`Pow`, `Within`), as the provers enumerate them otherwise.

`FunctionalUnitProofs` (assumes `RangeAssumption`: the patterns the producer walks through are 16 bits wide). One invariant per lane (`NarrowInv`, `WidenInv`,
`DequantInv`) says that beside a valid bit each register holds its function of the operand of that stage; `SweepInv` that the result shown is that of the operand
shown. With `ArithmeticProofs` the invariants of the runs follow: `LaneMirrorsC`, `LaneRoundsToNearest`, `LaneWidensExactly`, `LaneMultipliesExactly`,
`ClampsNeverFire`, `SpecialOperands`, `ReconstructsOperands`, `SlopeIsOne`, `SquareIsDouble`, and the action property as `ResultsMonotone`. The lemmas named `Same...` identify the arithmetic inside an `INSTANCE` with that of `ArithmeticProofs`.

The same module extends `QuantizeBlock` too, on the same arithmetic, and proves it (assuming `BlockAssumption`, `GrainAssumption` and `ValuesAssumption`) for blocks of any even length
with elements on any grid, however fine, of at most 4000 units of 2^-10 (3.9; the benches generate K and V within 0.5); the run has blocks of two elements. `BlockInv` says that the maximum covers the elements seen (`MaxCovers`),
that the scale is that of the maximum (`ScaleFits`) and what the bytes stored so far hold (`BytesHold`). `BlockErrorBounded` and `OrderIsKept` follow with three facts of
`ArithmeticProofs`: the number of thresholds reached, which the code counts, grows with the magnitude (`CodeIsSteps`, `DecodedOrder`); what is decoded is off by one
scale at most, except above six scales, by the excess (`DecodedNear`); and the scale byte is at most a rounding to BF16 and one to E4M3 below a sixth of the maximum, so that
the maximum is at most seven scales, or six scales and 6 + 3/32 units where the byte is subnormal or 0 (`QuotientIs`, `CodeValue`, `CodeAbove`, `ScaleIsFor`). Six units are six times half a subnormal step; the 3/32 come from the two roundings in a row:
a maximum of 30 + 6/64 units has the quotient 5 + 1/64, which BF16 rounds to the tie 5 and E4M3 to even, 4, so six scales are 24 units.

`OnlineSoftmaxProofs` (assumes `ShapeAssumption`, `ScoresAssumption`).
`Inv == TypeOK /\ MaxOfSeen /\ ExactWeights /\ NearMaxKept`. `ExactWeights` needs the running maximum
to be the maximum of the rows seen, and `NearMaxKept` needs it to rise only: a row within the
limit of the new maximum was within the limit of the old. `TimesFacts`, `TimesOne` and `PlusFacts` state what
scaling and adding do to a sum. `TypeCorrect`, `RunningMax`, `WeightsExact`, `NoNearRowLost` and
`DenominatorNotZero` follow. `ImplementsPromise` has one more hypothesis, `Fits`: that the two register
groups cover the head dimension exactly. It is what the run `head_dim_128` violates.

`NativeSoftmaxProofs` (assumes `ShapeAssumption`: a strip fits a vector group, and `StripsAssumption`:
the number of rows is a multiple of the strip). `IInv` is the conjunction of the three properties, `TypeOK` and one invariant per
loop (`HeadInv`, `QkInv`, `MaxInv`, `QuantInv`, `PvInv`) that says how far the loop has come. The loop for the maximum
advances by the length granted for sixteen while each strip asks for all that remain: `StripIsLong` shows that
a strip is never shorter than the stride. The weight loop compares with zero only: `StripFits` shows that it
meets zero. `PointersInside`, `MaxComplete`, `SumComplete` and `WeightsFresh` follow.

`TwoPassKernelProofs` (assumes `ShapeAssumption`) has three layers, each with one more hypothesis about the sizes.
`ScoresRight` needs `Strips` (the head dimension is a whole number of strips, a strip fits a vector group): `IInv` says that
the rows before the current one have their scores (`ScoresSoFar`) and that within a dot product the lanes hold the dimensions before `d`,
each once (`DotSoFar`); `StripGranted` shows that `vsetvl` grants at least the stride. `RowsAddedOnce` needs
`OneStripGroups` (besides, vector groups of one strip, as with VLEN 256, and bounded scores): `WInv` adds that exponentials, sum and FP8
weights are those of the rows so far and that each element of the output holds, as a bag, exactly the rows that FP8
keeps, up to the row or, before `d`, including it. `KeptGrows` and `AddOnce` say what one more row does to such a bag.
`ImplementsPromise` needs `WholeRows` (besides, the sequence length is a whole number of strips): `RInv` adds that
the maximum covers the strips so far and that heads to come have no result; `StoreIsProduce` shows that `Store` is `Produce` of `Attention`, every
other action a stutter. That `CHOOSE` finds the maximum of an arbitrary bounded set of scores (`LargestFacts`) rests on
the well-foundedness of the naturals. The TLC run has a sequence length that is not a whole number of strips, which the proof of
the refinement leaves out.

`TypeCorrect` is type correctness under `WholeRows`, from the same invariants.

`KernelVariantsProofs` (assumes `ShapeAssumption`: a head dimension of whole chunks and an even block size). `RowsFound` covers all
fifteen kernels and needs one hypothesis, `RegisterIsBlock`: a vector register takes exactly one block, as with VLEN 256. `PlacesAgree` is the
core: the byte, the nibble and the scale a kernel computes for element `d` of a row are those at which the packing loop wrote
it; `ElementSplit`, `HalfSplit`, `LineFacts` and `DivisionUnique` carry its `\div` and `%`. `RowsDecoded` is not inductive: `IInv`
adds `Layout` (the sizes of the arrays), `Phases` (which loop runs, for which kernel) and `Filled`, which says which rows each array holds
(those `Before` the current one while a loop fills it, all of them, as `Held`, in the loops that read) and that an array made
row by row has its full size from the first row on (`Grown`). One lemma per action follows, with the contents
of the arrays apart (`PackRowPacks`, `FillPackedPacks`, `UnpackRowUnpacks`) from the step of the invariant.

`HeadsComplete` needs the same hypothesis and the invariant `Outputs` beside `IInv`: the weights are those of this head (`WeightsReady`), the output row holds the
rows, or the dimensions, so far (`OutputSoFar`), and the streaming stub has kept a set of rows that contains every row within reach of the running
maximum (`StreamSoFar`). A rescaling that drops rows drops them from the accumulator and from the sum (`RescaledAddends`, `RescaledWeights`). That a
head has a largest score rests on the well-foundedness of the naturals (`LargestExists`).
`TrafficCounted` needs no hypothesis: it rests on `ShapeInv`, the part of `IInv` that does not speak of values, and on `Counted`, which gives the number of loads of
each byte as a function of the row or, in the kernels that walk a column (`OnceEach`), of the dimension reached; with a column, `Clamp` counts how many elements of a byte or a
block lie before that dimension. `TypeCorrect` needs no hypothesis either.

Only model-checked: `DemandsMet` and `SilentOnly` of the vector configuration. That model has no constants and finitely many states, so TLC exhausts it
and a proof would add no case.
Liveness (`EventuallyPresented`, `Terminates`) is outside what the prover handles; so is induction over data.

## 6. Findings

- `vfexp_tiny`: the shift amount of the fixed-point conversion keeps five bits
  (`VFExpLane.scala:147`), so it wraps for operands below 2^-31 in magnitude, whose exponential is then far from 1; the header
  claims a relative error below 2^-16 for all operands that are not special.
- `largest_maps_to_six`: the scale of a block is rounded to E4M3 before it is used, so the largest
  element need not get the code of 6, and a block of small elements gets scale byte 0; the comment in `bench_fa_common.h` says it does.
- `head_dim_128`: the streaming BF16 kernel covers 64 dimensions at VLEN 256, and the README of the
  benches sweeps it over head dimensions 64 and 128.

Smaller disagreements have no run, as no behaviour of the models depends on them: a
comment in `exo_schedule_fa.c` says the exponential lane takes FP32 input while `VFExpLane.scala` takes
BF16; the header of `bench_fa_mixed_rvv_native_dq.c` announces the native exponential while the
code calls `expf` (and says so further down); a comment in `microbench-mo2/bench_nvfp4.c:94` gives the exponent
field of the scale bytes as 4 to 10 while the bytes 0x20 to 0x5f have 4 to 11; and the all-units kernel and the streaming
stub dequantise 64 elements of a row only, while `microbench-fa/README.md` sweeps the variants over head dimensions 64 and 128.

## 7. Not modelled

- `paper/exo_schedule_fa.py` and the macros of the generated file that its one procedure does not call: the script
  rewrites loops at generation time; what it produced is modelled.
- The second copies of the decode tables in `microbench-mo2/bench_nvfp4.c`; those of `bench_fa_common.h` are modelled.
- The input generators and plain reinterpretations of `bench_fa_common.h`.
- `microbench-j4`: straight-line tests of single instructions on a simulator outside the repository.
- Accumulated rounding of floating-point sums in the kernels: real arithmetic on symbolic exponentials stands for it.
- Vector groups wider than one strip in the two-pass kernel and the variants: their loops advance by the
  length of an earlier `vsetvl(16)` and would work on a strip twice; the benches run with VLEN 256.
- Strips inside a dot product, a softmax or a row update in `KernelVariants`, where they are one step; `TwoPassKernel` and
  `NativeSoftmax` have them for the two kernels whose loops are the least regular.
- Emission, synthesis and build scripts, simulator hooks: no state.
