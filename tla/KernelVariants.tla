--------------------------- MODULE KernelVariants ---------------------------
(***************************************************************************)
(* The path of the keys and values through fifteen kernels: main stores    *)
(* every row, for most of them as bytes of two NVFP4 nibbles and scale     *)
(* bytes, and each kernel finds its elements again with address arithmetic *)
(* of its own.  In microbench-fa and microbench-fa-exo:                    *)
(*   "bf16"       bench_fa_bf16.c, the scalar baseline                     *)
(*   "bf16_rvv"   bench_fa_bf16_rvv.c, the vector baseline                 *)
(*   "mixed"      bench_fa_mixed.c, scalar, nibble by nibble               *)
(*   "native"     bench_fa_mixed_rvv_native.c, chunks of four blocks       *)
(*                through the registers v0 .. v3                           *)
(*   "allfu"      bench_fa_mixed_rvv_native_allfu.c, one such chunk        *)
(*   "native_dq"  bench_fa_mixed_rvv_native_dq.c, block by block           *)
(*   "exo"        exo_schedule_fa.c, fed by bench_fa_exo.c, which unpacks  *)
(*                the nibbles into words before the kernel starts          *)
(*   "stub", "stub2", "rvv_stub", "streaming_stub"                         *)
(*                bench_fa_mixed_<name>.c, cheap arithmetic in the place   *)
(*                of the functional units, same memory traffic             *)
(* and in microbench-mo2, dot products with the keys only:                 *)
(*   "fp16", "nvfp4", "nvfp4_stub", "nvfp4_stub2"                          *)
(*                bench_<name>.c                                           *)
(*                                                                         *)
(* A nibble is the element <<t, h, s, d>> it encodes, t being "K" or "V";  *)
(* a scale byte is the block <<t, h, s, blk>> it scales; a dequantised     *)
(* element is a pair of both, without a scale where none is multiplied.    *)
(* Sums and weights are symbolic as in TwoPassKernel: a weight is {x} for  *)
(* exp(x) and {} for zero.  Indices count from 0 as in the code.           *)
(*                                                                         *)
(* A definition marked as faulty stands for a slip in the one after it.    *)
(***************************************************************************)
EXTENDS Integers, FiniteSets, Vsetvl

CONSTANTS
  N_HEADS, SEQ_LEN,
  HeadDims,           \* the head dimensions the benches are built for
  BLOCK,              \* NVFP4_BLOCK, 16; also the strip of the Exo kernel
  VLMAX,              \* elements of an e16 m1 (e32 m2) vector group
  Scores, ExpMin, Fp8Min, MInit,
  TruncatedKept       \* the x for which (int)(448 * exp(x)) & 0xff is not 0

\* chunks * 64 = HEAD_DIM, as the comment on dequant_64elt_chunk demands.
\* A VLMAX above 16, where the loops that advance by vsetvl(16) overlap, is
\* not modelled: the benches run with VLEN = 256.
ASSUME ShapeAssumption ==
  /\ N_HEADS \in Nat \ {0} /\ SEQ_LEN \in Nat \ {0}
  /\ BLOCK \in Nat \ {0} /\ BLOCK % 2 = 0 /\ VLMAX \in 1 .. BLOCK
  /\ \A n \in HeadDims : n \in Nat \ {0} /\ n % (4 * BLOCK) = 0
ASSUME ScoresAssumption ==
  /\ Scores \subseteq Int /\ ExpMin \in Nat /\ Fp8Min \in 0 .. ExpMin
  /\ TruncatedKept \subseteq Int /\ 0 \in TruncatedKept
  /\ MInit \in Int /\ \A x \in Scores : MInit < x

VARIABLES
  kernel, HEAD_DIM,   \* the program that was built
  score,              \* input: the scaled dot product of every head and row
  pk, sc,             \* K_pk and V_pk, K_sc and V_sc; K_packed and scales
  words, scales,      \* K and V of the baselines; K_nvfp4 and V_nvfp4, K_scale
                      \* and V_scale of bench_fa_exo
  loads,              \* how often each packed and each scale byte was loaded
  pc, h, s,
  row,                \* K_fp32_row and V_fp32_row (registers where there are none)
  S, max_s, P_fp32, sum_p, P_fp8,
  O_fp32, O

input  == <<kernel, HEAD_DIM, score>>
memory == <<pk, sc>>
exo    == <<words, scales>>
softm  == <<max_s, P_fp32, sum_p, P_fp8>>
vars == <<input, memory, exo, loads, pc, h, s, row, S, softm, O_fp32, O>>

Heads   == 0 .. N_HEADS - 1
Rows    == 0 .. SEQ_LEN - 1
Dims    == 0 .. HEAD_DIM - 1
Tensors == {"K", "V"}

bytes_per_row  == HEAD_DIM \div 2
blocks_per_row == HEAD_DIM \div BLOCK

Baseline  == kernel \in {"bf16", "bf16_rvv", "fp16"}
DotOnly   == kernel \in {"fp16", "nvfp4", "nvfp4_stub", "nvfp4_stub2"}
ScalarPv  == kernel \in {"bf16", "mixed", "stub", "stub2"}
OneChunk  == kernel \in {"exo", "allfu", "streaming_stub"}
Stored    == IF DotOnly THEN {"K"} ELSE Tensors

\* The scale byte is multiplied into the element, or only loaded, which an
\* asm volatile statement with the byte as operand enforces.
ScaleApplied == kernel \in {"mixed", "native", "allfu", "native_dq", "stub", "nvfp4", "nvfp4_stub"}
ScalePinned  == kernel \in {"stub2", "rvv_stub", "streaming_stub", "nvfp4_stub2"}

Nothing  == <<>>                  \* memory that was never written
Garbage  == MInit - 1             \* a score that is not the dot product
NoResult == [num |-> [d \in {} |-> {}], den |-> {}]

\* "streaming_stub" and "allfu" are taken at one chunk: with more dimensions
\* the first computes half of them (as OnlineSoftmax shows of its model) and
\* the second converts the first chunk only.
Init ==
  /\ kernel \in {"bf16", "bf16_rvv", "mixed", "native", "allfu", "native_dq", "exo",
                 "stub", "stub2", "rvv_stub", "streaming_stub",
                 "fp16", "nvfp4", "nvfp4_stub", "nvfp4_stub2"}
  /\ kernel = "exo" => SEQ_LEN % BLOCK = 0                        \* EXO_ASSUME
  /\ HEAD_DIM \in IF OneChunk THEN HeadDims \cap {4 * BLOCK} ELSE HeadDims
  /\ score \in [Heads -> [Rows -> Scores]]
  /\ pk = [t \in Tensors |-> [a \in 0 .. N_HEADS * SEQ_LEN * bytes_per_row - 1 |-> Nothing]]
  /\ sc = [t \in Tensors |-> [a \in 0 .. N_HEADS * SEQ_LEN * blocks_per_row - 1 |-> Nothing]]
  /\ words = Nothing /\ scales = Nothing
  /\ loads = [t \in Tensors |-> [byte  |-> [a \in DOMAIN pk[t] |-> 0],
                                 scale |-> [a \in DOMAIN sc[t] |-> 0]]]
  /\ pc = "pack" /\ h = 0 /\ s = 0
  /\ row = [t \in Tensors |-> [d \in Dims |-> Nothing]]
  /\ S = [i \in Rows |-> Garbage]
  /\ max_s = MInit /\ sum_p = {}
  /\ P_fp32 = [i \in Rows |-> {}] /\ P_fp8 = [i \in Rows |-> {}]
  /\ O_fp32 = [d \in Dims |-> {}]
  /\ O = [k \in Heads |-> NoResult]

-----------------------------------------------------------------------------
\* main: the row (h, s) of K and of V is stored, by the baselines as it is,
\* by the others packed block by block.
RowBase(per_row) == (h * SEQ_LEN + s) * per_row

\* The loops over the rows of all heads.
NextRow(next) ==
  IF s + 1 < SEQ_LEN THEN s' = s + 1 /\ UNCHANGED <<h, pc>>
  ELSE /\ s' = 0
       /\ IF h + 1 < N_HEADS THEN h' = h + 1 /\ UNCHANGED pc ELSE h' = 0 /\ pc' = next

\* The array `old` of each tensor, 0 .. n - 1, with [lo, lo + len) renewed.
Renewed(old, n, lo, len, new(_, _)) ==
  [x \in Stored \X (0 .. n - 1) |->
     IF x[2] \in lo .. lo + len - 1 THEN new(x[1], x[2] - lo)
     ELSE IF old = Nothing THEN Nothing ELSE old[x]]

StoreRow ==
  /\ pc = "pack" /\ Baseline
  /\ LET Element(t, d) == <<t, h, s, d>>
     IN  words' = Renewed(words, N_HEADS * SEQ_LEN * HEAD_DIM, RowBase(HEAD_DIM), HEAD_DIM, Element)
  /\ NextRow("k_row")
  /\ UNCHANGED <<input, memory, scales, loads, row, S, softm, O_fp32, O>>

PackRow ==
  /\ pc = "pack" /\ ~Baseline /\ ~DotOnly
  /\ pk' = [t \in Tensors |-> [a \in DOMAIN pk[t] |->
       LET byte == a - RowBase(bytes_per_row)
           blk  == byte \div (BLOCK \div 2)
           d    == blk * BLOCK + 2 * (byte % (BLOCK \div 2))
       IN  IF byte \in 0 .. bytes_per_row - 1
           THEN <<<<t, h, s, d>>, <<t, h, s, d + 1>>>> ELSE pk[t][a]]]
  /\ sc' = [t \in Tensors |-> [a \in DOMAIN sc[t] |->
       LET blk == a - RowBase(blocks_per_row)
       IN  IF blk \in 0 .. blocks_per_row - 1 THEN <<t, h, s, blk>> ELSE sc[t][a]]]
  /\ NextRow(CASE kernel = "exo" -> "unpack"
               [] kernel = "streaming_stub" -> "stream"
               [] OTHER -> "k_row")
  /\ UNCHANGED <<input, exo, loads, row, S, softm, O_fp32, O>>

\* The dot-product benches fill K_packed and scales from the first byte to
\* the last: element n of K is nibble n.
FillPacked ==
  /\ pc = "pack" /\ DotOnly /\ ~Baseline
  /\ LET Element(n) == <<"K", n \div (SEQ_LEN * HEAD_DIM), (n \div HEAD_DIM) % SEQ_LEN, n % HEAD_DIM>>
         Block(n) == LET e == Element(n * BLOCK) IN <<"K", e[2], e[3], e[4] \div BLOCK>>
     IN  /\ pk' = [pk EXCEPT !["K"] = [a \in DOMAIN @ |-> <<Element(2 * a), Element(2 * a + 1)>>]]
         /\ sc' = [sc EXCEPT !["K"] = [a \in DOMAIN @ |-> Block(a)]]
  /\ pc' = "k_row"
  /\ UNCHANGED <<input, exo, loads, h, s, row, S, softm, O_fp32, O>>

\* bench_fa_exo: bytes to words, low nibble first, and scale bytes to numbers.
Word(t, b, i) == pk[t][RowBase(bytes_per_row) + b][i + 1]

UnpackRow ==
  /\ pc = "unpack"
  /\ LET width == blocks_per_row * BLOCK
         Nibble(t, j) == Word(t, (j \div BLOCK) * (BLOCK \div 2) + (j % BLOCK) \div 2, j % 2)
         Scale(t, blk) == sc[t][RowBase(blocks_per_row) + blk]
     IN  /\ words' = Renewed(words, N_HEADS * SEQ_LEN * width, RowBase(width), width, Nibble)
         /\ scales' = Renewed(scales, N_HEADS * SEQ_LEN * blocks_per_row,
                              RowBase(blocks_per_row), blocks_per_row, Scale)
  /\ NextRow("k_row")
  /\ UNCHANGED <<input, memory, loads, row, S, softm, O_fp32, O>>

-----------------------------------------------------------------------------
\* Where each kernel looks for element d of the packed row (h, s): the byte,
\* its half, and the scale byte.
Place(byte, half, scale) == [byte |-> byte, half |-> half, scale |-> scale]

\* The start of the row: kh_pk, kh_sc and the offset of the row in them.
PackedBase == h * SEQ_LEN * bytes_per_row + s * bytes_per_row
ScaleBase  == h * SEQ_LEN * blocks_per_row + s * blocks_per_row

\* Byte b of block blk holds the elements 16 * blk + 2 * b and the next one.
BlockPlace(d) ==
  LET blk == d \div BLOCK
      b   == (d - blk * BLOCK) \div 2
  IN  Place(PackedBase + blk * (BLOCK \div 2) + b, (d - blk * BLOCK) % 2, ScaleBase + blk)

MixedPlace(d)       == BlockPlace(d)
NativeDqPlace(d)    == BlockPlace(d)
StubPlace(d)        == BlockPlace(d)
Stub2Place(d)       == BlockPlace(d)
RvvStubPlace(d)     == BlockPlace(d)
StreamingPlace(d)   == BlockPlace(d)
Nvfp4Place(d)       == BlockPlace(d)
Nvfp4StubPlace(d)   == BlockPlace(d)
Nvfp4Stub2Place(d)  == BlockPlace(d)

\* Chunks of four blocks.
\* faulty: the scale pointer does not advance with the chunk
ScaleOfChunkStuck(c, k) == ScaleBase + k
ScaleOfChunk(c, k) == ScaleBase + c * 4 + k

NativePlace(d) ==
  LET c == d \div (4 * BLOCK)
      j == d % (4 * BLOCK)
  IN  Place(PackedBase + c * 2 * BLOCK + (j \div BLOCK) * (BLOCK \div 2) + (j % BLOCK) \div 2,
            j % 2, ScaleOfChunk(c, j \div BLOCK))

\* One chunk, and the scales s0 .. s3 of its blocks.
AllfuPlace(d) ==
  LET p == BlockPlace(d) IN Place(p.byte, p.half, ScaleBase + (d \div BLOCK))

RowPlace(d) ==
  CASE kernel = "mixed"          -> MixedPlace(d)
    [] kernel = "native"         -> NativePlace(d)
    [] kernel = "allfu"          -> AllfuPlace(d)
    [] kernel = "native_dq"      -> NativeDqPlace(d)
    [] kernel = "stub"           -> StubPlace(d)
    [] kernel = "stub2"          -> Stub2Place(d)
    [] kernel = "rvv_stub"       -> RvvStubPlace(d)
    [] kernel = "streaming_stub" -> StreamingPlace(d)
    [] kernel = "nvfp4"          -> Nvfp4Place(d)
    [] kernel = "nvfp4_stub"     -> Nvfp4StubPlace(d)
    [] kernel = "nvfp4_stub2"    -> Nvfp4Stub2Place(d)

\* The same for element d of row i of V in the kernels that go dimension by
\* dimension.
PvPlace(i, d) ==
  LET blk == d \div BLOCK
      b   == (d - blk * BLOCK) \div 2
      line == h * SEQ_LEN + i
  IN  Place(line * bytes_per_row + blk * (BLOCK \div 2) + b, (d - blk * BLOCK) % 2,
            line * blocks_per_row + blk)

NibbleAt(t, p)  == pk[t][p.byte][p.half + 1]
ScaleAt(t, p)   == IF ScaleApplied THEN sc[t][p.scale] ELSE Nothing
ElementAt(t, p) == <<NibbleAt(t, p), ScaleAt(t, p)>>

\* Loads of the packed memory.  One that nothing uses does not survive the
\* compiler.
\* faulty: no statement keeps the loads of scale bytes
ScaleLoadedIfUsed == ScaleApplied
ScaleLoaded == ScaleApplied \/ ScalePinned

\* `visits` maps the iterations of a loop to addresses.
Bump(counts, visits) ==
  [a \in DOMAIN counts |-> counts[a] + Cardinality({n \in DOMAIN visits : visits[n] = a})]
Load(t, bytes, scale_bytes) ==
  [byte  |-> Bump(loads[t].byte, bytes),
   scale |-> IF ScaleLoaded THEN Bump(loads[t].scale, scale_bytes) ELSE loads[t].scale]

\* A row: each byte once for its two nibbles, each scale byte once.
RowLoads(t) ==
  Load(t, [n \in 0 .. bytes_per_row - 1 |-> RowPlace(2 * n).byte],
          [n \in 0 .. blocks_per_row - 1 |-> RowPlace(n * BLOCK).scale])

\* A dimension of V: byte and scale byte again in every row.
PvLoads(d) ==
  Load("V", [i \in Rows |-> PvPlace(i, d).byte], [i \in Rows |-> PvPlace(i, d).scale])

-----------------------------------------------------------------------------
\* The ways to read row (h, s): the set of contents that the row
\* can have afterwards, one for every vector length that may be granted.

\* The baselines load it.
Bf16Row(t) == {[d \in Dims |-> <<words[<<t, h * SEQ_LEN * HEAD_DIM + s * HEAD_DIM + d>>], Nothing>>]}

\* Scalar loops.
ScalarRow(t) == {[d \in Dims |-> ElementAt(t, RowPlace(d))]}

\* 64 nibbles go to v0 .. v3 (VLMAX of them to each register), are converted,
\* and the first 16 of each register are widened, scaled with the scale of
\* one block and stored.  Elements past the length granted for the
\* conversion are whatever the registers held.
FourRegisters(t) ==
  {[d \in Dims |->
     LET first == d - (d % (4 * BLOCK))             \* of the chunk
         k == (d - first) \div BLOCK                \* the register v_k
         lane == d % BLOCK
         j == k * VLMAX + lane
     IN  IF lane >= vl16 THEN row[t][d]
         ELSE <<IF j < vl64 THEN NibbleAt(t, RowPlace(first + j)) ELSE Nothing,
                ScaleAt(t, RowPlace(d))>>] :
     vl64 \in VLengths(4 * BLOCK, 4 * VLMAX), vl16 \in VLengths(BLOCK, VLMAX)}

\* One block after the other through the buffers nibbles and bf16_buf.
NativeDqRow(t) ==
  {[d \in Dims |-> IF d % BLOCK >= vl THEN row[t][d] ELSE ElementAt(t, RowPlace(d))] :
     vl \in VLengths(BLOCK, VLMAX)}

\* Four blocks of words, the strides of the generated code.
ExoRow(t) ==
  {[d \in Dims |->
     LET kblk == d \div BLOCK
     IN  IF kblk >= 4 \/ d % BLOCK >= vl THEN row[t][d]
         ELSE <<words[<<t, h * (SEQ_LEN * 4 * BLOCK) + s * (4 * BLOCK) + kblk * BLOCK + (d % BLOCK)>>],
                scales[<<t, h * (SEQ_LEN * 4) + s * 4 + kblk>>]>>] :
     vl \in VLengths(BLOCK, VLMAX)}

Dequantised(t) ==
  CASE Baseline                     -> Bf16Row(t)
    [] kernel \in {"native", "allfu"} -> FourRegisters(t)
    [] kernel = "native_dq"         -> NativeDqRow(t)
    [] kernel = "exo"               -> ExoRow(t)
    [] OTHER                        -> ScalarRow(t)

Packed == ~Baseline /\ kernel # "exo"
Loads(t) == IF Packed THEN [loads EXCEPT ![t] = RowLoads(t)] ELSE loads

\* Row (i, k) of t as it ought to be.
TrueRow(t, i, k) ==
  [d \in Dims |-> <<<<t, i, k, d>>,
     IF ScaleApplied \/ kernel = "exo" THEN <<t, i, k, d \div BLOCK>> ELSE Nothing>>]
Dot(r, i, k) == IF r = TrueRow("K", i, k) THEN score[i][k] ELSE Garbage

-----------------------------------------------------------------------------
\* A row of K, and its dot product with q.
KRow ==
  /\ pc = "k_row" /\ h < N_HEADS /\ s < SEQ_LEN
  /\ \E r \in Dequantised("K") :
       /\ row' = [row EXCEPT !["K"] = r]
       /\ S' = [S EXCEPT ![s] = Dot(r, h, s)]
  /\ loads' = Loads("K")
  /\ s' = s + 1
  /\ UNCHANGED <<input, memory, exo, pc, h, softm, O_fp32, O>>

\* The dot-product benches: S is outh, a part of out.
NextDotHead ==
  /\ pc = "k_row" /\ h < N_HEADS /\ s = SEQ_LEN /\ DotOnly
  /\ O' = [O EXCEPT ![h] = [num |-> S, den |-> {}]]
  /\ h' = h + 1 /\ s' = 0
  /\ UNCHANGED <<input, memory, exo, loads, pc, row, S, softm, O_fp32>>

\* Exponentials of score differences.  expf and vfexp.v underflow; fu_expf of
\* the stubs clamps its exponent instead, and only that of the streaming stub
\* has a guard.
Diff == {a - b : a, b \in Scores \cup {MInit, Garbage}}
Expf == [x \in Diff |-> IF x < -ExpMin THEN {} ELSE {x}]
fu_expf == [x \in Diff |-> {x}]
fu_expf_guarded == [x \in Diff |-> IF x < -ExpMin THEN {} ELSE {x}]

LargestOf(nums) == CHOOSE m \in nums : \A n \in nums : n <= m

\* faulty: the operands are swapped
ShiftedSwapped(i) == max_s' - S[i]
Shifted(i) == S[i] - max_s'

\* Maximum over `rows` (and `init`), exponentials, sum, and the weights in
\* their eight-bit format: in P_fp8 an x stands for what the kernel's
\* conversion makes of exp(x), which is zero except for the x in `kept`.
SoftmaxOver(rows, init, exp, kept) ==
  /\ pc = "k_row" /\ h < N_HEADS /\ s = SEQ_LEN
  /\ max_s' = LargestOf({S[i] : i \in rows} \cup init)
  /\ P_fp32' = [i \in Rows |-> IF i \in rows THEN exp[Shifted(i)] ELSE P_fp32[i]]
  /\ sum_p' = UNION {{<<i, x>> : x \in P_fp32'[i]} : i \in rows}
  /\ P_fp8' = [i \in Rows |-> P_fp32'[i] \cap kept]
  /\ O_fp32' = [d \in Dims |-> {}]
  /\ s' = 0
  /\ pc' = IF ScalarPv THEN "pv_dim" ELSE "v_row"
  /\ UNCHANGED <<input, memory, exo, loads, h, row, S, O>>

\* The baselines and the Exo kernel, which goes over seq_len / 16 strips of
\* sixteen, have no FP8 stage.
FP32Weights == Baseline \/ kernel = "exo"
NoFp8 == {}
StripRows == 0 .. (SEQ_LEN \div BLOCK) * BLOCK - 1

Bf16Softmax     == kernel = "bf16" /\ SoftmaxOver(Rows, {}, Expf, NoFp8)
Bf16RvvSoftmax  == kernel = "bf16_rvv" /\ SoftmaxOver(Rows, {MInit}, Expf, NoFp8)
ExoSoftmax      == kernel = "exo" /\ SoftmaxOver(StripRows, {MInit}, Expf, NoFp8)

\* The factor 448 that scales the weights, and that the stubs divide by too,
\* is left out.
Fp8Kept == {x \in Diff : x >= -Fp8Min}
MixedSoftmax    == kernel = "mixed" /\ SoftmaxOver(Rows, {}, Expf, Fp8Kept)
NativeVecSoftmax == kernel = "native" /\ SoftmaxOver(Rows, {MInit}, Expf, Fp8Kept)
AllfuSoftmax    == kernel = "allfu" /\ SoftmaxOver(Rows, {MInit}, Expf, Fp8Kept)

\* Weights cut to integers: scaled first, then to the low eight bits ("stub",
\* where exp(0) becomes 448 - 256), or unscaled, so that exp(0) = 1 alone
\* survives.
StubSoftmax     == kernel = "stub" /\ SoftmaxOver(Rows, {}, fu_expf, TruncatedKept)
Stub2Softmax    == kernel = "stub2" /\ SoftmaxOver(Rows, {}, fu_expf, {0})
RvvStubSoftmax  == kernel = "rvv_stub" /\ SoftmaxOver(Rows, {MInit}, fu_expf, {0})
NativeDqSoftmax == kernel = "native_dq" /\ SoftmaxOver(Rows, {MInit}, Expf, {0})

Softmax ==
  \/ Bf16Softmax \/ Bf16RvvSoftmax \/ ExoSoftmax
  \/ MixedSoftmax \/ NativeVecSoftmax \/ AllfuSoftmax
  \/ StubSoftmax \/ Stub2Softmax \/ RvvStubSoftmax \/ NativeDqSoftmax

\* The weight of row i in P V.
Weight(i) == IF FP32Weights THEN P_fp32[i] ELSE P_fp8[i]

\* A sum is the set of its addends.  An addend it already holds would be in it
\* twice: what such a sum is worth is not kept.
Plus(sum, addends) == IF sum \cap addends = {} THEN sum \cup addends ELSE {}

\* faulty: the row of K is still in the buffer
AddendOfK(r) == row["K"]
Addend(r) == r

\* A row of V, and its weighted addition to the output row, for the kernels
\* that go row by row.
VRow ==
  /\ pc = "v_row" /\ s < SEQ_LEN
  /\ \E r \in Dequantised("V") :
       /\ row' = [row EXCEPT !["V"] = r]
       /\ O_fp32' = [d \in Dims |->
            Plus(O_fp32[d], {<<Addend(r)[d], x>> : x \in Weight(s)})]
  /\ loads' = Loads("V")
  /\ s' = s + 1
  /\ UNCHANGED <<input, memory, exo, pc, h, S, softm, O>>

\* One dimension of the output over all rows of V, in the scalar kernels: the
\* loop counter s is the dimension here.
PvDim ==
  /\ pc = "pv_dim" /\ s < HEAD_DIM
  /\ LET v(i) == IF Baseline THEN <<words[<<"V", (h * SEQ_LEN + i) * HEAD_DIM + s>>], Nothing>>
                 ELSE ElementAt("V", PvPlace(i, s))
     IN  O_fp32' = [O_fp32 EXCEPT ![s] = UNION {{<<v(i), x>> : x \in Weight(i)} : i \in Rows}]
  /\ loads' = IF Packed THEN [loads EXCEPT !["V"] = PvLoads(s)] ELSE loads
  /\ s' = s + 1
  /\ UNCHANGED <<input, memory, exo, pc, h, row, S, softm, O>>

\* The output row is stored; the Exo kernel, which has accumulated in it,
\* leaves it undivided: its sum dies with l_state.
FinishHead ==
  /\ \/ pc = "v_row" /\ s = SEQ_LEN
     \/ pc = "pv_dim" /\ s = HEAD_DIM
  /\ O' = [O EXCEPT ![h] = [num |-> O_fp32, den |-> IF kernel = "exo" THEN {} ELSE sum_p]]
  /\ h' = h + 1 /\ s' = 0 /\ pc' = "k_row"
  /\ UNCHANGED <<input, memory, exo, loads, row, S, softm, O_fp32>>

-----------------------------------------------------------------------------
\* The streaming stub: a row of K and a row of V at a time, max_s is M,
\* sum_p is S and O_fp32 is VKQ.  Old weights are rescaled by ms.
Rescaled(sum, ms) == {<<w[1], w[2] + m>> : w \in sum, m \in ms}

StreamRow ==
  /\ pc = "stream" /\ h < N_HEADS /\ s < SEQ_LEN
  /\ \E k \in Dequantised("K"), v \in Dequantised("V") :
       LET x  == Dot(k, h, s)
           ms == IF x > max_s THEN fu_expf_guarded[max_s - x] ELSE {0}
           vs == IF x > max_s THEN {0} ELSE fu_expf_guarded[x - max_s]
       IN  /\ row' = [K |-> k, V |-> v]
           /\ max_s' = LargestOf({x, max_s})
           /\ O_fp32' = [d \in Dims |->
                Plus(Rescaled(O_fp32[d], ms), {<<v[d], y>> : y \in vs})]
           /\ sum_p' = Plus(Rescaled(sum_p, ms), {<<s, y>> : y \in vs})
  /\ loads' = [t \in Tensors |-> RowLoads(t)]
  /\ s' = s + 1
  /\ UNCHANGED <<input, memory, exo, pc, h, S, P_fp32, P_fp8, O>>

\* Divide, store, and start the next head.
StreamFinish ==
  /\ pc = "stream" /\ h < N_HEADS /\ s = SEQ_LEN
  /\ O' = [O EXCEPT ![h] = [num |-> O_fp32, den |-> sum_p]]
  /\ max_s' = MInit /\ sum_p' = {} /\ O_fp32' = [d \in Dims |-> {}]
  /\ h' = h + 1 /\ s' = 0
  /\ UNCHANGED <<input, memory, exo, loads, pc, row, S, P_fp32, P_fp8>>

Next ==
  \/ StoreRow \/ PackRow \/ FillPacked \/ UnpackRow
  \/ KRow \/ NextDotHead \/ Softmax \/ VRow \/ PvDim \/ FinishHead
  \/ StreamRow \/ StreamFinish

Spec == Init /\ [][Next]_vars

-----------------------------------------------------------------------------
\* Weights lie in the range of the exponential and of their format; a score is
\* the dot product of its row or marked as garbage.
TypeOK ==
  /\ pc \in {"pack", "unpack", "k_row", "v_row", "pv_dim", "stream"}
  /\ h \in 0 .. N_HEADS /\ s \in 0 .. SEQ_LEN + HEAD_DIM
  /\ S \in [Rows -> Scores \cup {Garbage}]
  /\ \A i \in Rows : \A x \in P_fp32[i] :
       x <= 0 /\ (kernel \in {"stub", "stub2", "rvv_stub"} \/ x >= -ExpMin)
  /\ \A i \in Rows : P_fp8[i] \subseteq P_fp32[i]

\* Writer and readers of the packed layout agree although each computes its
\* addresses for itself: whatever route a row has taken (one scalar loop,
\* chunks through four registers, blocks through a buffer, words unpacked in
\* advance), each position holds its own element under the scale of its own
\* block, for keys and for values, in every head.
RowsDecoded ==
  /\ pc = "k_row" /\ h < N_HEADS => \A i \in 0 .. s - 1 : S[i] = score[h][i]
  /\ pc \in {"k_row", "stream"} /\ h < N_HEADS /\ s > 0 => row["K"] = TrueRow("K", h, s - 1)
  /\ pc \in {"v_row", "stream"} /\ h < N_HEADS /\ s > 0 => row["V"] = TrueRow("V", h, s - 1)

\* A finished head holds in every dimension the value of every row that the
\* format of its weights can represent (with truncated weights: that the
\* truncation leaves), each with its weight of exp(s - max), and is divided by
\* the whole sum; the Exo kernel alone leaves the division to its caller.
\* The streaming stub may besides keep rows out of reach of the maximum,
\* in sum and output alike.  The dot-product benches have every score.
HeadComplete ==
  \A k \in Heads : O[k] # NoResult =>
    LET m == LargestOf({score[k][i] : i \in Rows})
        x(i) == score[k][i] - m
        weighed == {i \in Rows :
          CASE FP32Weights \/ kernel = "streaming_stub" -> x(i) >= -ExpMin
            [] kernel = "stub" -> x(i) \in TruncatedKept
            [] kernel \in {"native_dq", "stub2", "rvv_stub"} -> x(i) = 0
            [] OTHER -> x(i) >= -Fp8Min}
        summed == CASE kernel = "exo" -> {}
                    [] kernel \in {"stub", "stub2", "rvv_stub"} -> Rows
                    [] OTHER -> {i \in Rows : x(i) >= -ExpMin}
        Holds(num, den) ==
          /\ \A d \in Dims : O[k].num[d] = {<<TrueRow("V", k, i)[d], x(i)>> : i \in num}
          /\ O[k].den = {<<i, x(i)>> : i \in den}
    IN  CASE DotOnly -> O[k].num = score[k]
          [] kernel = "streaming_stub" ->
               \E kept \in SUBSET Rows : weighed \subseteq kept /\ Holds(kept, kept)
          [] OTHER -> Holds(weighed, summed)

\* The stubs stand for the kernels they time because they move the same
\* bytes ("memory pattern is preserved verbatim"): between heads, every
\* packed byte and every scale byte of the heads done so far has been loaded
\* exactly once, and of V in the kernels that go dimension by dimension twice
\* and once per element of the block; nothing of the heads to come.
Traffic ==
  Packed /\ pc \in {"k_row", "stream"} /\ s = 0 =>
    \A t \in Stored :
      LET again == t = "V" /\ ScalarPv
          Done(a, per_row) == a < h * SEQ_LEN * per_row
      IN  /\ \A a \in DOMAIN pk[t] : loads[t].byte[a] =
               IF Done(a, bytes_per_row) THEN IF again THEN 2 ELSE 1 ELSE 0
          /\ \A a \in DOMAIN sc[t] : loads[t].scale[a] =
               IF Done(a, blocks_per_row) THEN IF again THEN BLOCK ELSE 1 ELSE 0
=============================================================================
