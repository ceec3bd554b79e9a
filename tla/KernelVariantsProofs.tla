------------------------ MODULE KernelVariantsProofs ------------------------
(***************************************************************************)
(* Proofs about the packed layout and its readers, for every number of     *)
(* heads and rows, every head dimension of whole chunks and every block    *)
(* size (what depends on the vector length provided that a register holds  *)
(* exactly one block), and about what the kernels make of the rows: the    *)
(* weights and the outputs, the loads of the packed memory, and the types  *)
(* of the variables.                                                       *)
(***************************************************************************)
EXTENDS KernelVariants, FiniteSetTheorems, WellFoundedInduction, TLAPS

-----------------------------------------------------------------------------
\* Quotients, remainders and addresses.

LEMMA Division ==
  ASSUME NEW a \in Nat, NEW b \in Nat \ {0}
  PROVE  a \div b \in Nat /\ a % b \in 0 .. b - 1 /\ a = (a \div b) * b + (a % b)
  OBVIOUS

LEMMA DivisionUnique ==
  ASSUME NEW b \in Nat \ {0}, NEW q \in Nat, NEW r \in 0 .. b - 1
  PROVE  (q * b + r) \div b = q /\ (q * b + r) % b = r
  OBVIOUS

\* Item o of line r lies in an array of n lines.
LEMMA InArray ==
  ASSUME NEW p \in Nat, NEW o \in 0 .. p - 1, NEW r \in Nat, NEW n \in Nat, r + 1 <= n
  PROVE  r * p + o \in 0 .. n * p - 1
<1>1. r * p + p <= n * p /\ r * p \in Nat /\ n * p \in Nat
  OBVIOUS
<1>2. QED
  BY <1>1

\* An item of an earlier line lies before a line.
LEMMA EarlierLine ==
  ASSUME NEW p \in Nat, NEW o \in 0 .. p - 1, NEW r \in Nat, NEW n \in Nat, r + 1 <= n
  PROVE  r * p + o < n * p
  BY InArray

LEMMA ItemTimes ==
  ASSUME NEW r \in Nat, NEW p \in Nat, NEW o \in Nat, NEW z \in Nat
  PROVE  (r * p + o) * z = r * (p * z) + o * z
  OBVIOUS

\* A line is row i of head k.
Line(k, i) == k * SEQ_LEN + i

LEMMA LineFacts ==
  ASSUME NEW k \in Heads, NEW i \in Rows
  PROVE  Line(k, i) \in Nat /\ Line(k, i) + 1 <= N_HEADS * SEQ_LEN
<1>1. k * SEQ_LEN + SEQ_LEN <= N_HEADS * SEQ_LEN /\ k * SEQ_LEN \in Nat
  BY ShapeAssumption DEF Heads
<1>2. N_HEADS * SEQ_LEN \in Nat
  BY ShapeAssumption
<1>3. QED
  BY <1>1, <1>2, ShapeAssumption DEF Line, Rows

LEMMA LinesInOrder ==
  ASSUME NEW k \in Heads, NEW i \in Rows, NEW m \in Heads, NEW j \in Rows,
         k < m \/ (k = m /\ i < j)
  PROVE  Line(k, i) + 1 <= Line(m, j)
<1>1. CASE k < m
  <2>1. k * SEQ_LEN + SEQ_LEN <= m * SEQ_LEN /\ k * SEQ_LEN \in Nat /\ m * SEQ_LEN \in Nat
    BY <1>1, ShapeAssumption DEF Heads
  <2>2. QED
    BY <2>1, ShapeAssumption DEF Line, Rows
<1>2. CASE k = m /\ i < j
  BY <1>2, ShapeAssumption DEF Line, Rows, Heads
<1>3. QED
  BY <1>1, <1>2

\* The sizes of a row.
Sized == HEAD_DIM \in HeadDims

LEMMA RowSizes ==
  ASSUME Sized
  PROVE  /\ BLOCK \div 2 \in Nat \ {0} /\ BLOCK = 2 * (BLOCK \div 2)
         /\ HEAD_DIM \in Nat \ {0}
         /\ bytes_per_row \in Nat \ {0} /\ HEAD_DIM = 2 * bytes_per_row
         /\ blocks_per_row \in Nat \ {0} /\ HEAD_DIM = blocks_per_row * BLOCK
         /\ HEAD_DIM \div (4 * BLOCK) \in Nat
         /\ blocks_per_row = 4 * (HEAD_DIM \div (4 * BLOCK))
<1>1. BLOCK \in Nat \ {0} /\ BLOCK % 2 = 0 /\ HEAD_DIM \in Nat \ {0}
      /\ HEAD_DIM % (4 * BLOCK) = 0
  BY ShapeAssumption DEF Sized
<1>2. BLOCK = (BLOCK \div 2) * 2 /\ BLOCK \div 2 \in Nat \ {0}
  BY <1>1
<1> DEFINE c == HEAD_DIM \div (4 * BLOCK)
           m == BLOCK \div 2
<1>3. c \in Nat /\ HEAD_DIM = c * (4 * BLOCK)
  <2>1. 4 * BLOCK \in Nat \ {0} /\ HEAD_DIM \in Nat
    BY <1>1
  <2>2. c \in Nat /\ HEAD_DIM = c * (4 * BLOCK) + (HEAD_DIM % (4 * BLOCK))
    BY <2>1, Division
  <2>3. c * (4 * BLOCK) \in Nat
    BY <2>1, <2>2
  <2>4. QED
    BY <1>1, <2>2, <2>3
<1>4. HEAD_DIM = (4 * c) * BLOCK + 0 /\ 4 * c \in Nat
  BY <1>1, <1>3
<1>5. blocks_per_row = 4 * c
  BY <1>1, <1>4, DivisionUnique DEF blocks_per_row
<1>6. m \in Nat /\ BLOCK = m * 2
  BY <1>2
<1>7. (4 * c) * BLOCK = ((4 * c) * m) * 2 /\ (4 * c) * m \in Nat
  BY <1>3, <1>6
<1>8. bytes_per_row = (4 * c) * m
  BY <1>4, <1>7 DEF bytes_per_row
<1>9. HEAD_DIM = 2 * bytes_per_row
  BY <1>4, <1>7, <1>8
<1>10. QED
  BY <1>1, <1>2, <1>3, <1>4, <1>5, <1>7, <1>8, <1>9

\* An element in its block and its block in its chunk.
LEMMA ElementSplit ==
  ASSUME Sized, NEW d \in Dims
  PROVE  LET c == d \div (4 * BLOCK)
             j == d % (4 * BLOCK)
             e == j \div BLOCK
             r == d % BLOCK
         IN  /\ c \in Nat /\ j \in 0 .. 4 * BLOCK - 1 /\ e \in 0 .. 3 /\ r \in 0 .. BLOCK - 1
             /\ j % BLOCK = r /\ j = e * BLOCK + r
             /\ d \div BLOCK = 4 * c + e /\ d = (d \div BLOCK) * BLOCK + r
             /\ d \div BLOCK \in 0 .. blocks_per_row - 1
             /\ d - j \in Nat /\ d - (d - j) = j
<1> DEFINE c == d \div (4 * BLOCK)
           j == d % (4 * BLOCK)
           e == j \div BLOCK
           r == j % BLOCK
<1> HIDE DEF c, j, e, r
<1>1. BLOCK \in Nat \ {0} /\ 4 * BLOCK \in Nat \ {0} /\ d \in Nat /\ d < HEAD_DIM
  BY RowSizes, ShapeAssumption DEF Dims
<1>2. c \in Nat /\ j \in 0 .. 4 * BLOCK - 1 /\ d = c * (4 * BLOCK) + j
  BY <1>1, Division DEF c, j
<1>3. e \in Nat /\ r \in 0 .. BLOCK - 1 /\ j = e * BLOCK + r
  <2>1. j \in Nat
    BY <1>1, <1>2
  <2>2. QED
    BY <1>1, <2>1, Division DEF e, r
<1>4. e <= 3
  <2>1. SUFFICES ASSUME 4 <= e PROVE FALSE
    BY <1>3
  <2>2. 4 * BLOCK <= e * BLOCK /\ e * BLOCK \in Nat
    BY <1>1, <1>3, <2>1
  <2>3. QED
    BY <1>1, <1>2, <1>3, <2>2
<1>5. d = (4 * c + e) * BLOCK + r /\ 4 * c + e \in Nat
  BY <1>1, <1>2, <1>3
<1>6. d \div BLOCK = 4 * c + e /\ d % BLOCK = r
  BY <1>1, <1>3, <1>5, DivisionUnique
<1>7. 4 * c + e < blocks_per_row
  <2>1. SUFFICES ASSUME blocks_per_row <= 4 * c + e PROVE FALSE
    BY <1>5, RowSizes
  <2>2. blocks_per_row * BLOCK <= (4 * c + e) * BLOCK /\ (4 * c + e) * BLOCK \in Nat
    BY <1>1, <1>5, <2>1, RowSizes
  <2>3. QED
    BY <1>1, <1>3, <1>5, <2>2, RowSizes
<1>8. c * (4 * BLOCK) \in Nat
  BY <1>1, <1>2
<1>9. d - j \in Nat /\ d - (d - j) = j
  BY <1>1, <1>2, <1>8
<1>10. /\ c \in Nat /\ j \in 0 .. 4 * BLOCK - 1 /\ e \in 0 .. 3
       /\ d % BLOCK \in 0 .. BLOCK - 1
       /\ r = d % BLOCK /\ j = e * BLOCK + (d % BLOCK)
       /\ d \div BLOCK = 4 * c + e /\ d = (d \div BLOCK) * BLOCK + (d % BLOCK)
       /\ d \div BLOCK \in 0 .. blocks_per_row - 1
       /\ d - j \in Nat /\ d - (d - j) = j
  <2>1. e \in 0 .. 3
    BY <1>3, <1>4
  <2>2. 4 * c + e \in 0 .. blocks_per_row - 1
    BY <1>5, <1>7, RowSizes
  <2>3. QED
    BY <1>2, <1>3, <1>5, <1>6, <1>9, <2>1, <2>2
<1>11. QED
  BY <1>10, Zenon DEF c, j, e, r

\* Byte and half of an element, counted from the start of its block.
LEMMA HalfSplit ==
  ASSUME Sized, NEW q \in Nat, NEW r \in 0 .. BLOCK - 1
  PROVE  /\ (q * BLOCK + r) \div 2 = q * (BLOCK \div 2) + (r \div 2)
         /\ (q * BLOCK + r) % 2 = r % 2
<1> DEFINE m == BLOCK \div 2
           half == r \div 2
           bit == r % 2
<1> HIDE DEF m, half, bit
<1>1. m \in Nat /\ BLOCK = m * 2
  BY RowSizes DEF m
<1>2. q * BLOCK = (q * m) * 2 /\ q * m \in Nat
  BY <1>1
<1>3. r \in Nat /\ half \in Nat /\ bit \in 0 .. 2 - 1 /\ r = half * 2 + bit
  BY ShapeAssumption, Division DEF half, bit
<1>4. q * BLOCK + r = (q * m + half) * 2 + bit /\ q * m + half \in Nat
  BY <1>1, <1>2, <1>3
<1>5. (q * BLOCK + r) \div 2 = q * m + half /\ (q * BLOCK + r) % 2 = bit
  <2> DEFINE n == q * m + half
  <2> HIDE DEF n
  <2>1. n \in Nat
    BY <1>4 DEF n
  <2>2. (n * 2 + bit) \div 2 = n /\ (n * 2 + bit) % 2 = bit
    BY <1>3, <2>1, DivisionUnique
  <2>3. QED
    BY <1>4, <2>2 DEF n
<1>6. QED
  BY <1>5 DEF m, half, bit

-----------------------------------------------------------------------------
\* Where main writes an element, and that every kernel looks for it there.

Kernels ==
  {"bf16", "bf16_rvv", "mixed", "native", "allfu", "native_dq", "exo",
   "stub", "stub2", "rvv_stub", "streaming_stub",
   "fp16", "nvfp4", "nvfp4_stub", "nvfp4_stub2"}

WrittenAt(k, i, d) ==
  Place(Line(k, i) * bytes_per_row + (d \div 2), d % 2,
        Line(k, i) * blocks_per_row + (d \div BLOCK))

LEMMA BaseFacts ==
  ASSUME NEW k \in Heads, NEW i \in Rows, NEW p \in Nat
  PROVE  k * SEQ_LEN * p + i * p = Line(k, i) * p /\ Line(k, i) * p \in Nat
  BY ShapeAssumption DEF Line, Heads, Rows

LEMMA PlacesAgree ==
  ASSUME Sized, kernel \in Kernels, ~Baseline, kernel # "exo",
         h \in Heads, s \in Rows, NEW d \in Dims
  PROVE  RowPlace(d) = WrittenAt(h, s, d)
<1> DEFINE c == d \div (4 * BLOCK)
           j == d % (4 * BLOCK)
           e == j \div BLOCK
           r == d % BLOCK
           q == d \div BLOCK
           m == BLOCK \div 2
<1> HIDE DEF c, j, e, r, q, m
<1>1. /\ PackedBase = Line(h, s) * bytes_per_row /\ PackedBase \in Nat
      /\ ScaleBase = Line(h, s) * blocks_per_row /\ ScaleBase \in Nat
  BY BaseFacts, RowSizes DEF PackedBase, ScaleBase
<1>2. /\ c \in Nat /\ e \in 0 .. 3 /\ r \in 0 .. BLOCK - 1 /\ q \in Nat /\ m \in Nat
      /\ j % BLOCK = r /\ q = 4 * c + e /\ d = q * BLOCK + r /\ d \in Nat
      /\ BLOCK = 2 * m /\ j = e * BLOCK + r
  BY ElementSplit, RowSizes DEF Dims, c, j, e, r, q, m
<1>3. /\ d \div 2 = q * m + (r \div 2) /\ d % 2 = r % 2 /\ j % 2 = r % 2
      /\ r \div 2 \in Nat /\ q * m \in Nat
  <2>1. e \in Nat /\ r \in Nat
    BY <1>2, ShapeAssumption
  <2>2. d \div 2 = q * m + (r \div 2) /\ d % 2 = r % 2
    BY <1>2, HalfSplit DEF m
  <2>3. j % 2 = r % 2
    BY <1>2, <2>1, HalfSplit
  <2>4. r \div 2 \in Nat /\ q * m \in Nat
    BY <1>2, <2>1
  <2>5. QED
    BY <2>2, <2>3, <2>4
<1>4. d - q * BLOCK = r
  <2>1. q * BLOCK \in Nat
    BY <1>2
  <2>2. QED
    BY <1>2, <2>1
<1>5. BlockPlace(d) = WrittenAt(h, s, d)
  <2>1. PackedBase + q * m + (r \div 2) = PackedBase + (d \div 2)
    BY <1>1, <1>3
  <2>2. QED
    BY <1>1, <1>3, <1>4, <2>1 DEF BlockPlace, WrittenAt, q, m
<1>6. NativePlace(d) = WrittenAt(h, s, d)
  <2>1. c * 2 * BLOCK + e * m = q * m /\ c * 2 * BLOCK \in Nat /\ e * m \in Nat
    <3>1. c * 2 * BLOCK = (4 * c) * m /\ (4 * c) * m \in Nat
      BY <1>2
    <3>2. (4 * c + e) * m = (4 * c) * m + e * m /\ e * m \in Nat
      BY <1>2
    <3>3. QED
      BY <1>2, <3>1, <3>2
  <2>2. PackedBase + c * 2 * BLOCK + e * m + (r \div 2) = PackedBase + (d \div 2)
    BY <1>1, <1>3, <2>1
  <2>3. ScaleOfChunk(c, e) = ScaleBase + q
    BY <1>1, <1>2 DEF ScaleOfChunk
  <2>4. NativePlace(d) = Place(PackedBase + c * 2 * BLOCK + e * m + (r \div 2), j % 2,
                               ScaleOfChunk(c, e))
    BY <1>2 DEF NativePlace, c, e, j, m
  <2>5. QED
    BY <1>1, <1>3, <2>2, <2>3, <2>4 DEF WrittenAt, q
<1>7. AllfuPlace(d) = WrittenAt(h, s, d)
  BY <1>1, <1>5 DEF AllfuPlace, WrittenAt, Place, q
<1>8. QED
  BY <1>5, <1>6, <1>7 DEF RowPlace, Kernels, Baseline, MixedPlace, NativeDqPlace, StubPlace,
     Stub2Place, RvvStubPlace, StreamingPlace, Nvfp4Place, Nvfp4StubPlace, Nvfp4Stub2Place

-----------------------------------------------------------------------------
\* What the memory holds.

RowStored(t, k, i) ==
  \A d \in Dims : words[<<t, Line(k, i) * HEAD_DIM + d>>] = <<t, k, i, d>>
RowPacked(t, k, i) ==
  /\ \A b \in 0 .. bytes_per_row - 1 : pk[t][Line(k, i) * bytes_per_row + b]
       = <<<<t, k, i, 2 * b>>, <<t, k, i, 2 * b + 1>>>>
  /\ \A b \in 0 .. blocks_per_row - 1 : sc[t][Line(k, i) * blocks_per_row + b] = <<t, k, i, b>>
RowUnpacked(t, k, i) ==
  /\ RowStored(t, k, i)
  /\ \A b \in 0 .. blocks_per_row - 1 :
       scales[<<t, Line(k, i) * blocks_per_row + b>>] = <<t, k, i, b>>

\* The rows before (h, s).
Before(k, i) == k < h \/ (k = h /\ i < s)

\* Reading the packed row back.
LEMMA PackedElement ==
  ASSUME Sized, kernel \in Kernels, ~Baseline, kernel # "exo",
         NEW t, h \in Heads, s \in Rows, RowPacked(t, h, s), NEW d \in Dims
  PROVE  ElementAt(t, RowPlace(d)) = TrueRow(t, h, s)[d]
<1> DEFINE a == d \div 2
           z == d % 2
           q == d \div BLOCK
<1> HIDE DEF a, z, q
<1>1. /\ a \in 0 .. bytes_per_row - 1 /\ z \in {0, 1} /\ d = 2 * a + z
      /\ q \in 0 .. blocks_per_row - 1
  <2>1. d \in Nat /\ d < 2 * bytes_per_row /\ bytes_per_row \in Nat
    BY RowSizes DEF Dims
  <2>2. a \in Nat /\ z \in 0 .. 2 - 1 /\ d = a * 2 + z
    BY <2>1, Division DEF a, z
  <2>3. q \in 0 .. blocks_per_row - 1
    BY ElementSplit DEF q
  <2>4. QED
    BY <2>1, <2>2, <2>3
<1>2. RowPlace(d) = Place(Line(h, s) * bytes_per_row + a, z, Line(h, s) * blocks_per_row + q)
  BY PlacesAgree DEF WrittenAt, a, z, q
<1>3. NibbleAt(t, RowPlace(d)) = <<t, h, s, d>>
  <2>1. pk[t][Line(h, s) * bytes_per_row + a] = <<<<t, h, s, 2 * a>>, <<t, h, s, 2 * a + 1>>>>
    BY <1>1 DEF RowPacked
  <2>2. NibbleAt(t, RowPlace(d)) = pk[t][Line(h, s) * bytes_per_row + a][z + 1]
    BY <1>2 DEF NibbleAt, Place
  <2>3. CASE z = 0
    BY <1>1, <2>1, <2>2, <2>3
  <2>4. CASE z = 1
    BY <1>1, <2>1, <2>2, <2>4
  <2>5. QED
    BY <1>1, <2>3, <2>4
<1>4. sc[t][RowPlace(d).scale] = <<t, h, s, q>>
  BY <1>1, <1>2 DEF RowPacked, Place
<1>5. QED
  BY <1>3, <1>4 DEF ElementAt, ScaleAt, TrueRow, q

\* A register takes one block (VLEN 256 and blocks of sixteen).
RegisterIsBlock == VLMAX = BLOCK

LEMMA LengthsGranted ==
  ASSUME RegisterIsBlock
  PROVE  VLengths(BLOCK, VLMAX) = {BLOCK} /\ VLengths(4 * BLOCK, 4 * VLMAX) = {4 * BLOCK}
  BY ShapeAssumption DEF RegisterIsBlock, VLengths

\* Every route through the registers ends in the row.
LEMMA RowDecoded ==
  ASSUME RegisterIsBlock, Sized, kernel \in Kernels, OneChunk => HEAD_DIM = 4 * BLOCK,
         NEW t \in Stored, h \in Heads, s \in Rows,
         Baseline => RowStored(t, h, s),
         ~Baseline => RowPacked(t, h, s),
         kernel = "exo" => RowUnpacked(t, h, s),
         NEW r \in Dequantised(t)
  PROVE  r = TrueRow(t, h, s)
<1>1. CASE Baseline
  <2>1. kernel # "exo" /\ ~ScaleApplied
    BY <1>1 DEF Baseline, ScaleApplied
  <2>2. h * SEQ_LEN * HEAD_DIM + s * HEAD_DIM = Line(h, s) * HEAD_DIM
    BY BaseFacts, RowSizes
  <2>3. r = [d \in Dims |-> <<words[<<t, h * SEQ_LEN * HEAD_DIM + s * HEAD_DIM + d>>], Nothing>>]
    <3>1. ~(kernel \in {"native", "allfu"}) /\ kernel # "native_dq" /\ kernel # "exo"
      BY <1>1 DEF Baseline
    <3>2. r \in Bf16Row(t)
      BY <1>1, <3>1 DEF Dequantised
    <3>3. QED
      BY <3>2, Zenon DEF Bf16Row
  <2>4. \A d \in Dims : words[<<t, h * SEQ_LEN * HEAD_DIM + s * HEAD_DIM + d>>] = <<t, h, s, d>>
    BY <1>1, <2>2 DEF RowStored
  <2>5. QED
    BY <2>1, <2>3, <2>4 DEF TrueRow
<1>2. CASE ~Baseline /\ kernel # "exo"
  <2>1. \A d \in Dims : ElementAt(t, RowPlace(d)) = TrueRow(t, h, s)[d]
    BY <1>2, PackedElement
  <2>2. [d \in Dims |-> ElementAt(t, RowPlace(d))] = TrueRow(t, h, s)
    BY <2>1 DEF TrueRow
  <2>3. CASE kernel \in {"native", "allfu"}
    <3>1. ASSUME NEW d \in Dims
          PROVE  LET first == d - (d % (4 * BLOCK))
                     k == (d - first) \div BLOCK
                     lane == d % BLOCK
                     j == k * VLMAX + lane
                 IN  lane < BLOCK /\ j < 4 * BLOCK /\ first + j = d
      <4> DEFINE j == d % (4 * BLOCK)
                 e == j \div BLOCK
                 lane == d % BLOCK
      <4> HIDE DEF j, e, lane
      <4>1. /\ lane \in 0 .. BLOCK - 1 /\ j \in 0 .. 4 * BLOCK - 1 /\ j = e * BLOCK + lane
            /\ d - j \in Nat /\ d - (d - j) = j /\ d \in Nat
        BY ElementSplit DEF j, e, lane, Dims
      <4>2. lane < BLOCK /\ e * VLMAX + lane < 4 * BLOCK /\ (d - j) + (e * VLMAX + lane) = d
        BY <4>1, ShapeAssumption DEF RegisterIsBlock
      <4>3. QED
        BY <4>1, <4>2, Zenon DEF j, e, lane
    <3>2. r \in FourRegisters(t)
      BY <1>2, <2>3 DEF Dequantised
    <3>3. PICK vl64 \in {4 * BLOCK}, vl16 \in {BLOCK} :
            r = [d \in Dims |->
                  LET first == d - (d % (4 * BLOCK))
                      k == (d - first) \div BLOCK
                      lane == d % BLOCK
                      j == k * VLMAX + lane
                  IN  IF lane >= vl16 THEN row[t][d]
                      ELSE <<IF j < vl64 THEN NibbleAt(t, RowPlace(first + j)) ELSE Nothing,
                             ScaleAt(t, RowPlace(d))>>]
      BY <3>2, LengthsGranted DEF FourRegisters
    <3>4. ASSUME NEW d \in Dims PROVE r[d] = ElementAt(t, RowPlace(d))
      <4> DEFINE first == d - (d % (4 * BLOCK))
                 k == (d - first) \div BLOCK
                 lane == d % BLOCK
                 j == k * VLMAX + lane
      <4>1. r[d] = IF lane >= vl16 THEN row[t][d]
                   ELSE <<IF j < vl64 THEN NibbleAt(t, RowPlace(first + j)) ELSE Nothing,
                          ScaleAt(t, RowPlace(d))>>
        BY <3>3, Zenon
      <4>2. lane < BLOCK /\ j < 4 * BLOCK /\ first + j = d
        BY <3>1, Zenon
      <4>3. lane \in Nat
        BY ElementSplit
      <4> HIDE DEF first, k, lane, j
      <4>4. ~(lane >= vl16) /\ j < vl64
        BY <3>3, <4>2, <4>3, ShapeAssumption
      <4>5. QED
        BY <4>1, <4>2, <4>4 DEF ElementAt
    <3>5. r = [d \in Dims |-> ElementAt(t, RowPlace(d))]
      BY <3>3, <3>4, Zenon
    <3>6. QED
      BY <2>2, <3>5
  <2>4. CASE kernel = "native_dq"
    <3>1. \A d \in Dims : ~(d % BLOCK >= BLOCK)
      BY ElementSplit, ShapeAssumption
    <3>2. r = [d \in Dims |-> ElementAt(t, RowPlace(d))]
      BY <1>2, <2>4, <3>1, LengthsGranted DEF Dequantised, NativeDqRow
    <3>3. QED
      BY <2>2, <3>2
  <2>5. CASE kernel \notin {"native", "allfu", "native_dq"}
    BY <1>2, <2>2, <2>5 DEF Dequantised, ScalarRow
  <2>6. QED
    BY <2>3, <2>4, <2>5
<1>3. CASE kernel = "exo"
  <2>1. ~Baseline /\ HEAD_DIM = 4 * BLOCK /\ ~ScaleApplied
    BY <1>3 DEF Baseline, OneChunk, ScaleApplied
  <2>2. blocks_per_row = 4
    <3>1. HEAD_DIM = 4 * BLOCK + 0 /\ BLOCK \in Nat \ {0}
      BY <2>1, ShapeAssumption
    <3>2. QED
      BY <3>1, DivisionUnique DEF blocks_per_row
  <2>3. ASSUME NEW d \in Dims
        PROVE  LET kblk == d \div BLOCK
                   wide == 4 * BLOCK
               IN  /\ ~(kblk >= 4 \/ d % BLOCK >= BLOCK)
                   /\ words[<<t, h * (SEQ_LEN * 4 * BLOCK) + s * (4 * BLOCK)
                                   + kblk * BLOCK + (d % BLOCK)>>] = <<t, h, s, d>>
                   /\ scales[<<t, h * (SEQ_LEN * 4) + s * 4 + kblk>>] = <<t, h, s, kblk>>
    <3> DEFINE kblk == d \div BLOCK
               lane == d % BLOCK
    <3> HIDE DEF kblk, lane
    <3>1. kblk \in 0 .. 3 /\ lane \in 0 .. BLOCK - 1 /\ d = kblk * BLOCK + lane /\ d \in Nat
      BY <2>2, ElementSplit DEF kblk, lane, Dims
    <3>2. h * (SEQ_LEN * 4 * BLOCK) + s * (4 * BLOCK) + kblk * BLOCK + lane
            = Line(h, s) * HEAD_DIM + d
      <4>1. h * SEQ_LEN * HEAD_DIM + s * HEAD_DIM = Line(h, s) * HEAD_DIM
            /\ Line(h, s) * HEAD_DIM \in Nat
        BY BaseFacts, RowSizes
      <4>2. h * (SEQ_LEN * 4 * BLOCK) = h * SEQ_LEN * HEAD_DIM
            /\ h * SEQ_LEN * HEAD_DIM \in Nat /\ s * HEAD_DIM \in Nat
        BY <2>1, ShapeAssumption DEF Heads, Rows
      <4>3. kblk * BLOCK \in Nat /\ s * (4 * BLOCK) = s * HEAD_DIM
        BY <2>1, <3>1, ShapeAssumption
      <4>4. QED
        BY <3>1, <4>1, <4>2, <4>3
    <3>3. h * (SEQ_LEN * 4) + s * 4 + kblk = Line(h, s) * blocks_per_row + kblk
      BY <2>2, <3>1, ShapeAssumption DEF Line, Heads, Rows
    <3>4. /\ ~(kblk >= 4 \/ lane >= BLOCK)
          /\ words[<<t, h * (SEQ_LEN * 4 * BLOCK) + s * (4 * BLOCK) + kblk * BLOCK + lane>>]
               = <<t, h, s, d>>
          /\ scales[<<t, h * (SEQ_LEN * 4) + s * 4 + kblk>>] = <<t, h, s, kblk>>
      BY <1>3, <2>2, <3>1, <3>2, <3>3, ShapeAssumption DEF RowUnpacked, RowStored
    <3>5. QED
      BY <3>4, Zenon DEF kblk, lane
  <2>4. QED
    BY <1>3, <2>1, <2>3, LengthsGranted DEF Dequantised, ExoRow, TrueRow
<1>4. QED
  BY <1>1, <1>2, <1>3

-----------------------------------------------------------------------------
\* The invariant.

Layout ==
  /\ kernel \in Kernels /\ Sized /\ (OneChunk => HEAD_DIM = 4 * BLOCK)
  /\ pk = [t \in Tensors |-> [a \in 0 .. N_HEADS * SEQ_LEN * bytes_per_row - 1 |-> pk[t][a]]]
  /\ sc = [t \in Tensors |-> [a \in 0 .. N_HEADS * SEQ_LEN * blocks_per_row - 1 |-> sc[t][a]]]
  /\ S = [i \in Rows |-> S[i]]
  /\ row = [t \in Tensors |-> row[t]]

\* Where the kernels are in each part of the program.
Phases ==
  /\ pc \in {"pack", "unpack", "k_row", "v_row", "pv_dim", "stream"}
  /\ pc \in {"pack", "unpack"} => h \in Heads /\ s \in Rows
  /\ pc = "pack" /\ ~Baseline => words = Nothing /\ scales = Nothing
  /\ pc = "pack" /\ ~Baseline /\ DotOnly => h = 0 /\ s = 0
  /\ pc = "unpack" => kernel = "exo"
  /\ pc \in {"k_row", "stream"} => h \in 0 .. N_HEADS /\ s \in 0 .. SEQ_LEN
  /\ pc \in {"v_row", "pv_dim"} => h \in Heads /\ s \in Nat
  /\ pc \in {"v_row", "pv_dim", "stream"} => ~DotOnly

\* An array that grows row by row is empty before the first one.
Grown(array, per_row) ==
  (h = 0 /\ s = 0) \/ array = [x \in Stored \X (0 .. N_HEADS * SEQ_LEN * per_row - 1) |-> array[x]]

Held(t, k, i) ==
  /\ Baseline => RowStored(t, k, i)
  /\ ~Baseline => RowPacked(t, k, i)
  /\ kernel = "exo" => RowUnpacked(t, k, i)

Filled ==
  /\ pc = "pack" /\ Baseline =>
       Grown(words, HEAD_DIM)
       /\ \A t \in Stored, k \in Heads, i \in Rows : Before(k, i) => RowStored(t, k, i)
  /\ pc = "pack" /\ ~Baseline /\ ~DotOnly =>
       \A t \in Stored, k \in Heads, i \in Rows : Before(k, i) => RowPacked(t, k, i)
  /\ pc = "unpack" =>
       /\ Grown(words, HEAD_DIM) /\ Grown(scales, blocks_per_row)
       /\ \A t \in Stored, k \in Heads, i \in Rows :
            RowPacked(t, k, i) /\ (Before(k, i) => RowUnpacked(t, k, i))
  /\ pc \notin {"pack", "unpack"} =>
       \A t \in Stored, k \in Heads, i \in Rows : Held(t, k, i)

IInv == Layout /\ Phases /\ Filled /\ RowsDecoded

\* Initially nothing is stored.
LEMMA InitInv == Init => IInv
<1> SUFFICES ASSUME Init PROVE IInv
  OBVIOUS
<1>1. h = 0 /\ s = 0 /\ pc = "pack" /\ 0 \in Heads /\ 0 \in Rows
  BY ShapeAssumption DEF Init, Heads, Rows
<1>2. Layout
  BY DEF Init, Layout, Kernels, Sized
<1>3. Phases
  BY <1>1 DEF Init, Phases
<1>4. \A k \in Heads, i \in Rows : ~Before(k, i)
  BY <1>1 DEF Before, Heads, Rows
<1>5. Filled
  BY <1>1, <1>4 DEF Filled, Grown
<1>6. QED
  BY <1>1, <1>2, <1>3, <1>5 DEF IInv, RowsDecoded

-----------------------------------------------------------------------------
\* Filling the memory.

\* A loop over the rows of all heads comes to each of them.
LEMMA NextRowCovers ==
  ASSUME h \in Heads, s \in Rows, NEW next, NextRow(next), next # pc
  PROVE  /\ pc' = pc => /\ h' \in Heads /\ s' \in Rows /\ ~(h' = 0 /\ s' = 0)
                        /\ \A k \in Heads, i \in Rows :
                             Before(k, i)' => Before(k, i) \/ (k = h /\ i = s)
         /\ pc' # pc => /\ pc' = next /\ h' = 0 /\ s' = 0
                        /\ \A k \in Heads, i \in Rows : Before(k, i) \/ (k = h /\ i = s)
<1>1. CASE s + 1 < SEQ_LEN
  BY <1>1, ShapeAssumption DEF NextRow, Before, Heads, Rows
<1>2. CASE ~(s + 1 < SEQ_LEN) /\ h + 1 < N_HEADS
  BY <1>2, ShapeAssumption DEF NextRow, Before, Heads, Rows
<1>3. CASE ~(s + 1 < SEQ_LEN) /\ ~(h + 1 < N_HEADS)
  BY <1>3, ShapeAssumption DEF NextRow, Before, Heads, Rows
<1>4. QED
  BY <1>1, <1>2, <1>3

\* The items of the current row, and those of an earlier one, in an array of
\* p items per row.
LEMMA RowItems ==
  ASSUME h \in Heads, s \in Rows, NEW p \in Nat, NEW k \in Heads, NEW i \in Rows,
         Before(k, i) \/ (k = h /\ i = s), NEW o \in 0 .. p - 1
  PROVE  /\ Line(k, i) * p + o \in 0 .. N_HEADS * SEQ_LEN * p - 1
         /\ Line(k, i) * p + o \in Nat
         /\ RowBase(p) = Line(h, s) * p /\ RowBase(p) \in Nat
         /\ k = h /\ i = s => Line(k, i) * p + o - RowBase(p) = o
         /\ Before(k, i) => Line(k, i) * p + o < RowBase(p)
<1>1. /\ Line(k, i) \in Nat /\ Line(k, i) + 1 <= N_HEADS * SEQ_LEN
      /\ N_HEADS * SEQ_LEN \in Nat /\ Line(h, s) \in Nat
  BY LineFacts, ShapeAssumption
<1>2. Line(k, i) * p + o \in 0 .. N_HEADS * SEQ_LEN * p - 1 /\ Line(k, i) * p + o \in Nat
  <2>1. Line(k, i) * p \in Nat /\ o \in Nat
    BY <1>1
  <2>2. QED
    BY <1>1, <2>1, InArray
<1>3. RowBase(p) = Line(h, s) * p /\ RowBase(p) \in Nat
  BY <1>1 DEF RowBase, Line
<1>4. ASSUME Before(k, i) PROVE Line(k, i) * p + o < RowBase(p)
  <2>1. Line(k, i) + 1 <= Line(h, s)
    BY <1>4, LinesInOrder DEF Before
  <2>2. QED
    BY <1>1, <1>3, <2>1, EarlierLine
<1>5. QED
  BY <1>2, <1>3, <1>4

\* An array with elements is not empty.
LEMMA ArrayIsSomething ==
  ASSUME NEW D, NEW y \in D, NEW f, f = [x \in D |-> f[x]]
  PROVE  f # Nothing
<1>1. DOMAIN f = D
  OBVIOUS
<1>2. DOMAIN Nothing = {}
  BY DEF Nothing
<1>3. QED
  BY <1>1, <1>2

\* A baseline stores a row.
LEMMA StoreRowInv ==
  ASSUME IInv, StoreRow
  PROVE  IInv'
<1> DEFINE n == N_HEADS * SEQ_LEN * HEAD_DIM
           new == [x \in Stored \X (0 .. n - 1) |->
                     IF x[2] \in RowBase(HEAD_DIM) .. RowBase(HEAD_DIM) + HEAD_DIM - 1
                     THEN <<x[1], h, s, x[2] - RowBase(HEAD_DIM)>>
                     ELSE IF words = Nothing THEN Nothing ELSE words[x]]
<1>1. /\ pc = "pack" /\ Baseline /\ h \in Heads /\ s \in Rows /\ NextRow("k_row")
      /\ UNCHANGED <<kernel, HEAD_DIM, pk, sc, scales, S, row>>
      /\ Grown(words, HEAD_DIM)
      /\ \A t \in Stored, k \in Heads, i \in Rows : Before(k, i) => RowStored(t, k, i)
  BY DEF StoreRow, IInv, Phases, Filled, input, memory
<1>2. words' = new
  BY DEF StoreRow, Renewed
<1> HIDE DEF n
<1>3. HEAD_DIM \in Nat \ {0} /\ HEAD_DIM - 1 \in Nat
  BY RowSizes DEF IInv, Layout
<1>4. ASSUME NEW t \in Stored, NEW k \in Heads, NEW i \in Rows,
             Before(k, i) \/ (k = h /\ i = s), NEW d \in Dims
      PROVE  words'[<<t, Line(k, i) * HEAD_DIM + d>>] = <<t, k, i, d>>
  <2> DEFINE a == Line(k, i) * HEAD_DIM + d
  <2>1. /\ a \in 0 .. n - 1 /\ a \in Nat /\ RowBase(HEAD_DIM) \in Nat
        /\ k = h /\ i = s => a - RowBase(HEAD_DIM) = d
        /\ Before(k, i) => a < RowBase(HEAD_DIM)
    BY <1>1, <1>3, <1>4, RowItems DEF n, Dims
  <2> HIDE DEF a
  <2>2. <<t, a>> \in Stored \X (0 .. n - 1)
    BY <2>1
  <2>3. words'[<<t, a>>] = IF a \in RowBase(HEAD_DIM) .. RowBase(HEAD_DIM) + HEAD_DIM - 1
                           THEN <<t, h, s, a - RowBase(HEAD_DIM)>>
                           ELSE IF words = Nothing THEN Nothing ELSE words[<<t, a>>]
    BY <1>2, <2>2
  <2>4. ASSUME k = h /\ i = s PROVE words'[<<t, a>>] = <<t, k, i, d>>
    BY <1>3, <2>1, <2>3, <2>4 DEF Dims
  <2>5. ASSUME Before(k, i) PROVE words'[<<t, a>>] = <<t, k, i, d>>
    <3>1. words[<<t, a>>] = <<t, k, i, d>>
      BY <1>1, <2>5 DEF RowStored, a
    <3>2. ~(h = 0 /\ s = 0)
      BY <2>5 DEF Before, Heads, Rows
    <3>3. words = [x \in Stored \X (0 .. n - 1) |-> words[x]]
      BY <1>1, <3>2 DEF Grown, n
    <3>4. words # Nothing
      BY <2>2, <3>3, ArrayIsSomething
    <3>5. QED
      BY <2>1, <2>3, <2>5, <3>1, <3>4
  <2>6. QED
    BY <1>4, <2>4, <2>5 DEF a
<1>5. ASSUME NEW t \in Stored, NEW k \in Heads, NEW i \in Rows,
             Before(k, i) \/ (k = h /\ i = s)
      PROVE  RowStored(t, k, i)'
  BY <1>1, <1>4, <1>5 DEF RowStored, Line, Dims
<1>6. words' = [x \in Stored \X (0 .. n - 1) |-> words'[x]]
  BY <1>2
<1>7. Stored' = Stored /\ Baseline' /\ n' = n /\ kernel' # "exo" /\ DotOnly' = DotOnly
  BY <1>1 DEF Stored, DotOnly, Baseline, n
<1>8. Layout'
  BY <1>1 DEF IInv, Layout, Sized, OneChunk, bytes_per_row, blocks_per_row
<1>9. CASE pc' = pc
  <2>1. /\ h' \in Heads /\ s' \in Rows
        /\ \A k \in Heads, i \in Rows : Before(k, i)' => Before(k, i) \/ (k = h /\ i = s)
    BY <1>1, <1>9, NextRowCovers
  <2>2. Phases'
    BY <1>1, <1>7, <1>9, <2>1 DEF Phases
  <2>3. Grown(words, HEAD_DIM)'
    BY <1>1, <1>6, <1>7 DEF Grown, n
  <2>4. Filled'
    BY <1>1, <1>5, <1>7, <1>9, <2>1, <2>3 DEF Filled
  <2>5. QED
    BY <1>1, <1>8, <1>9, <2>2, <2>4 DEF IInv, RowsDecoded
<1>10. CASE pc' # pc
  <2>1. /\ pc' = "k_row" /\ h' = 0 /\ s' = 0
        /\ \A k \in Heads, i \in Rows : Before(k, i) \/ (k = h /\ i = s)
    BY <1>1, <1>10, NextRowCovers
  <2>2. Phases'
    BY <2>1, ShapeAssumption DEF Phases
  <2>3. Filled'
    BY <1>5, <1>7, <2>1 DEF Filled, Held
  <2>4. RowsDecoded'
    BY <2>1 DEF RowsDecoded
  <2>5. QED
    BY <1>8, <2>2, <2>3, <2>4 DEF IInv
<1>11. QED
  BY <1>9, <1>10

\* Byte b of a row, as main counts it by blocks, holds nibble 2 * b.
LEMMA PackedPair ==
  ASSUME Sized, NEW b \in Nat
  PROVE  (b \div (BLOCK \div 2)) * BLOCK + 2 * (b % (BLOCK \div 2)) = 2 * b
<1> DEFINE m == BLOCK \div 2
           q == b \div m
           r == b % m
<1> HIDE DEF m, q, r
<1>1. m \in Nat \ {0} /\ BLOCK = 2 * m
  BY RowSizes DEF m
<1>2. q \in Nat /\ r \in 0 .. m - 1 /\ b = q * m + r
  BY <1>1, Division DEF q, r
<1>3. q * BLOCK = 2 * (q * m) /\ q * m \in Nat
  BY <1>1, <1>2
<1>4. q * BLOCK + 2 * r = 2 * b
  BY <1>1, <1>2, <1>3
<1>5. QED
  BY <1>4 DEF m, q, r

\* The memory after PackRow: the current row and those before it.
LEMMA PackRowPacks ==
  ASSUME IInv, PackRow, NEW t \in Tensors, NEW k \in Heads, NEW i \in Rows,
         Before(k, i) => RowPacked(t, k, i), Before(k, i) \/ (k = h /\ i = s)
  PROVE  RowPacked(t, k, i)'
<1> DEFINE m == BLOCK \div 2
<1>1. /\ Sized /\ h \in Heads /\ s \in Rows /\ HEAD_DIM' = HEAD_DIM
      /\ pk = [u \in Tensors |-> [a \in 0 .. N_HEADS * SEQ_LEN * bytes_per_row - 1 |-> pk[u][a]]]
      /\ sc = [u \in Tensors |-> [a \in 0 .. N_HEADS * SEQ_LEN * blocks_per_row - 1 |-> sc[u][a]]]
  BY DEF PackRow, IInv, Layout, Phases, input
<1>2. bytes_per_row \in Nat \ {0} /\ blocks_per_row \in Nat \ {0}
  BY <1>1, RowSizes
<1>3. ASSUME NEW b \in 0 .. bytes_per_row - 1
      PROVE  pk'[t][Line(k, i) * bytes_per_row + b] = <<<<t, k, i, 2 * b>>, <<t, k, i, 2 * b + 1>>>>
  <2> DEFINE a == Line(k, i) * bytes_per_row + b
             base == RowBase(bytes_per_row)
             d == ((a - base) \div m) * BLOCK + 2 * ((a - base) % m)
  <2>1. /\ a \in DOMAIN pk[t] /\ a \in Nat /\ base \in Nat
        /\ k = h /\ i = s => a - base = b
        /\ Before(k, i) => a < base
    BY <1>1, <1>2, RowItems
  <2>2. pk'[t][a] = IF a - base \in 0 .. bytes_per_row - 1
                    THEN <<<<t, h, s, d>>, <<t, h, s, d + 1>>>> ELSE pk[t][a]
    BY <2>1 DEF PackRow
  <2>3. a - base = b => d = 2 * b
    BY <1>1, PackedPair
  <2> HIDE DEF a, base, d
  <2>4. ASSUME k = h, i = s
        PROVE  pk'[t][a] = <<<<t, k, i, 2 * b>>, <<t, k, i, 2 * b + 1>>>>
    BY <2>1, <2>2, <2>3, <2>4
  <2>5. ASSUME Before(k, i)
        PROVE  pk'[t][a] = <<<<t, k, i, 2 * b>>, <<t, k, i, 2 * b + 1>>>>
    <3>1. pk[t][a] = <<<<t, k, i, 2 * b>>, <<t, k, i, 2 * b + 1>>>>
      BY <2>5 DEF RowPacked, a
    <3>2. ~(a - base \in 0 .. bytes_per_row - 1)
      BY <2>1, <2>5
    <3>3. QED
      BY <2>2, <3>1, <3>2
  <2>6. QED
    BY <2>4, <2>5 DEF a
<1>4. ASSUME NEW b \in 0 .. blocks_per_row - 1
      PROVE  sc'[t][Line(k, i) * blocks_per_row + b] = <<t, k, i, b>>
  <2> DEFINE a == Line(k, i) * blocks_per_row + b
             base == RowBase(blocks_per_row)
  <2>1. /\ a \in DOMAIN sc[t] /\ a \in Nat /\ base \in Nat
        /\ k = h /\ i = s => a - base = b
        /\ Before(k, i) => a < base
    BY <1>1, <1>2, RowItems
  <2>2. sc'[t][a] = IF a - base \in 0 .. blocks_per_row - 1
                    THEN <<t, h, s, a - base>> ELSE sc[t][a]
    BY <2>1 DEF PackRow
  <2> HIDE DEF a, base
  <2>3. ASSUME k = h, i = s PROVE sc'[t][a] = <<t, k, i, b>>
    BY <2>1, <2>2, <2>3
  <2>4. ASSUME Before(k, i) PROVE sc'[t][a] = <<t, k, i, b>>
    <3>1. sc[t][a] = <<t, k, i, b>>
      BY <2>4 DEF RowPacked, a
    <3>2. ~(a - base \in 0 .. blocks_per_row - 1)
      BY <2>1, <2>4
    <3>3. QED
      BY <2>2, <3>1, <3>2
  <2>5. QED
    BY <2>3, <2>4 DEF a
<1>5. QED
  BY <1>1, <1>3, <1>4 DEF RowPacked, Line, bytes_per_row, blocks_per_row

\* main packs a row.
LEMMA PackRowInv ==
  ASSUME IInv, PackRow
  PROVE  IInv'
<1> DEFINE after == CASE kernel = "exo" -> "unpack"
                      [] kernel = "streaming_stub" -> "stream"
                      [] OTHER -> "k_row"
<1>1. /\ pc = "pack" /\ ~Baseline /\ ~DotOnly /\ h \in Heads /\ s \in Rows
      /\ NextRow(after) /\ after # pc
      /\ UNCHANGED <<kernel, HEAD_DIM, words, scales, S, row>>
      /\ words = Nothing /\ scales = Nothing
      /\ \A t \in Stored, k \in Heads, i \in Rows : Before(k, i) => RowPacked(t, k, i)
  BY DEF PackRow, IInv, Phases, Filled, input, exo
<1>2. \/ after = "unpack" /\ kernel = "exo"
      \/ after \in {"stream", "k_row"} /\ kernel # "exo"
  <2>1. CASE kernel = "exo"
    BY <2>1
  <2>2. CASE kernel = "streaming_stub"
    BY <2>2
  <2>3. CASE kernel # "exo" /\ kernel # "streaming_stub"
    BY <2>3
  <2>4. QED
    BY <2>1, <2>2, <2>3
<1> HIDE DEF after
<1>3. Stored = Tensors /\ Stored' = Stored /\ Baseline' = Baseline /\ DotOnly' = DotOnly
  BY <1>1 DEF Stored, DotOnly, Baseline
<1>4. ASSUME NEW t \in Stored, NEW k \in Heads, NEW i \in Rows,
             Before(k, i) \/ (k = h /\ i = s)
      PROVE  RowPacked(t, k, i)'
  BY <1>1, <1>3, <1>4, PackRowPacks
<1>5. Layout'
  <2>1. /\ pk' = [t \in Tensors |-> [a \in DOMAIN pk[t] |-> pk'[t][a]]]
        /\ sc' = [t \in Tensors |-> [a \in DOMAIN sc[t] |-> sc'[t][a]]]
    BY DEF PackRow
  <2>2. \A t \in Tensors : /\ DOMAIN pk[t] = 0 .. N_HEADS * SEQ_LEN * bytes_per_row - 1
                           /\ DOMAIN sc[t] = 0 .. N_HEADS * SEQ_LEN * blocks_per_row - 1
    BY DEF IInv, Layout
  <2>3. QED
    BY <1>1, <2>1, <2>2 DEF IInv, Layout, Sized, OneChunk, bytes_per_row, blocks_per_row
<1>6. CASE pc' = pc
  <2>1. /\ h' \in Heads /\ s' \in Rows
        /\ \A k \in Heads, i \in Rows : Before(k, i)' => Before(k, i) \/ (k = h /\ i = s)
    BY <1>1, <1>6, NextRowCovers
  <2>2. Phases'
    BY <1>1, <1>3, <1>6, <2>1 DEF Phases
  <2>3. Filled'
    BY <1>1, <1>3, <1>4, <1>6, <2>1 DEF Filled
  <2>4. QED
    BY <1>1, <1>5, <1>6, <2>2, <2>3 DEF IInv, RowsDecoded
<1>7. CASE pc' # pc
  <2>1. /\ pc' = after /\ h' = 0 /\ s' = 0
        /\ \A k \in Heads, i \in Rows : Before(k, i) \/ (k = h /\ i = s)
        /\ 0 \in Heads /\ 0 \in Rows
    BY <1>1, <1>7, NextRowCovers, ShapeAssumption DEF Heads, Rows
  <2>2. Phases'
    BY <1>1, <1>2, <1>3, <2>1, ShapeAssumption DEF Phases
  <2>3. \A k \in Heads, i \in Rows : ~Before(k, i)'
    BY <2>1 DEF Before, Heads, Rows
  <2>4. Filled'
    BY <1>1, <1>2, <1>3, <1>4, <2>1, <2>3 DEF Filled, Held, Grown
  <2>5. RowsDecoded'
    BY <2>1 DEF RowsDecoded
  <2>6. QED
    BY <1>5, <2>2, <2>4, <2>5 DEF IInv
<1>8. QED
  BY <1>6, <1>7

\* The dot-product benches fill the memory at once: nibble n is element n.
LEMMA FillPackedPacks ==
  ASSUME IInv, FillPacked, NEW k \in Heads, NEW i \in Rows
  PROVE  RowPacked("K", k, i)'
<1> DEFINE Element(n) ==
             <<"K", n \div (SEQ_LEN * HEAD_DIM), (n \div HEAD_DIM) % SEQ_LEN, n % HEAD_DIM>>
<1>1. /\ Sized /\ HEAD_DIM' = HEAD_DIM
      /\ pk = [u \in Tensors |-> [a \in 0 .. N_HEADS * SEQ_LEN * bytes_per_row - 1 |-> pk[u][a]]]
      /\ sc = [u \in Tensors |-> [a \in 0 .. N_HEADS * SEQ_LEN * blocks_per_row - 1 |-> sc[u][a]]]
  BY DEF FillPacked, IInv, Layout, input
<1>2. /\ bytes_per_row \in Nat \ {0} /\ blocks_per_row \in Nat \ {0} /\ HEAD_DIM \in Nat \ {0}
      /\ HEAD_DIM = 2 * bytes_per_row /\ HEAD_DIM = blocks_per_row * BLOCK
  BY <1>1, RowSizes
<1>3. Line(k, i) \in Nat /\ Line(k, i) + 1 <= N_HEADS * SEQ_LEN /\ N_HEADS * SEQ_LEN \in Nat
  BY LineFacts, ShapeAssumption
<1>4. ASSUME NEW d \in 0 .. HEAD_DIM - 1
      PROVE  Element(Line(k, i) * HEAD_DIM + d) = <<"K", k, i, d>>
  <2> DEFINE n == Line(k, i) * HEAD_DIM + d
  <2>1. n \div HEAD_DIM = Line(k, i) /\ n % HEAD_DIM = d
    BY <1>2, <1>3, DivisionUnique
  <2>2. Line(k, i) % SEQ_LEN = i
    BY ShapeAssumption, DivisionUnique DEF Line, Heads, Rows
  <2>3. n \div (SEQ_LEN * HEAD_DIM) = k
    <3> DEFINE w == SEQ_LEN * HEAD_DIM
               o == i * HEAD_DIM + d
    <3>1. w \in Nat \ {0} /\ n = k * w + o
      BY <1>2, ShapeAssumption DEF Line, Heads, Rows
    <3>2. i \in Nat /\ i + 1 <= SEQ_LEN /\ SEQ_LEN \in Nat
      BY ShapeAssumption DEF Rows
    <3>3. o \in 0 .. w - 1
      BY <1>2, <3>2, InArray
    <3>4. k \in Nat
      BY ShapeAssumption DEF Heads
    <3> HIDE DEF w, o, n
    <3>5. (k * w + o) \div w = k
      BY <3>1, <3>3, <3>4, DivisionUnique
    <3>6. n \div w = k
      BY <3>1, <3>5
    <3>7. QED
      BY <3>6 DEF w
  <2>4. QED
    BY <2>1, <2>2, <2>3
<1> HIDE DEF Element
<1>5. ASSUME NEW b \in 0 .. bytes_per_row - 1
      PROVE  pk'["K"][Line(k, i) * bytes_per_row + b]
               = <<<<"K", k, i, 2 * b>>, <<"K", k, i, 2 * b + 1>>>>
  <2> DEFINE a == Line(k, i) * bytes_per_row + b
  <2>1. a \in 0 .. N_HEADS * SEQ_LEN * bytes_per_row - 1
    BY <1>2, <1>3, InArray
  <2>2. a \in DOMAIN pk["K"] /\ "K" \in DOMAIN pk
    BY <1>1, <2>1 DEF Tensors
  <2>3. 2 * a = Line(k, i) * HEAD_DIM + 2 * b /\ 2 * a + 1 = Line(k, i) * HEAD_DIM + (2 * b + 1)
    <3>1. Line(k, i) * HEAD_DIM = 2 * (Line(k, i) * bytes_per_row)
          /\ Line(k, i) * bytes_per_row \in Nat
      BY <1>2, <1>3
    <3>2. QED
      BY <1>2, <3>1
  <2>4. 2 * b \in 0 .. HEAD_DIM - 1 /\ 2 * b + 1 \in 0 .. HEAD_DIM - 1
    BY <1>2
  <2> HIDE DEF a
  <2>5. pk'["K"][a] = <<Element(2 * a), Element(2 * a + 1)>>
    BY <2>2 DEF FillPacked, Element
  <2>6. QED
    BY <1>4, <2>3, <2>4, <2>5 DEF a
<1>6. ASSUME NEW b \in 0 .. blocks_per_row - 1
      PROVE  sc'["K"][Line(k, i) * blocks_per_row + b] = <<"K", k, i, b>>
  <2> DEFINE a == Line(k, i) * blocks_per_row + b
             e == Element(a * BLOCK)
  <2>1. a \in 0 .. N_HEADS * SEQ_LEN * blocks_per_row - 1
    BY <1>2, <1>3, InArray
  <2>2. a \in DOMAIN sc["K"] /\ "K" \in DOMAIN sc
    BY <1>1, <2>1 DEF Tensors
  <2>3. a * BLOCK = Line(k, i) * HEAD_DIM + b * BLOCK
    <3>1. b \in Nat /\ BLOCK \in Nat
      BY <1>2, ShapeAssumption
    <3>2. a * BLOCK = Line(k, i) * (blocks_per_row * BLOCK) + b * BLOCK
      BY <1>2, <1>3, <3>1, ItemTimes
    <3>3. QED
      BY <1>2, <3>2
  <2>4. b * BLOCK \in 0 .. HEAD_DIM - 1
    <3>1. b \in Nat /\ b + 1 <= blocks_per_row /\ 0 \in 0 .. BLOCK - 1
      BY <1>2, ShapeAssumption
    <3>2. b * BLOCK + 0 \in 0 .. blocks_per_row * BLOCK - 1
      BY <1>2, <3>1, InArray, ShapeAssumption
    <3>3. b * BLOCK \in Nat
      BY <3>1, ShapeAssumption
    <3>4. QED
      BY <1>2, <3>2, <3>3
  <2>5. (b * BLOCK) \div BLOCK = b
    BY <1>2, ShapeAssumption
  <2>6. e = <<"K", k, i, b * BLOCK>>
    BY <1>4, <2>3, <2>4
  <2>7. sc'["K"][a] = <<"K", e[2], e[3], e[4] \div BLOCK>>
    BY <2>2 DEF FillPacked, Element
  <2> HIDE DEF a, e
  <2>8. QED
    BY <2>5, <2>6, <2>7 DEF a
<1>7. QED
  BY <1>1, <1>5, <1>6 DEF RowPacked, Line, bytes_per_row, blocks_per_row

LEMMA FillPackedInv ==
  ASSUME IInv, FillPacked
  PROVE  IInv'
<1>1. /\ pc = "pack" /\ pc' = "k_row" /\ ~Baseline /\ DotOnly /\ h = 0 /\ s = 0
      /\ UNCHANGED <<kernel, HEAD_DIM, words, scales, S, row, h, s>>
  BY DEF FillPacked, IInv, Phases, input, exo
<1>2. Stored' = {"K"} /\ ~Baseline' /\ kernel' # "exo"
  BY <1>1 DEF Stored, DotOnly, Baseline
<1>3. Layout'
  <2>1. /\ pk' = [t \in DOMAIN pk |-> [a \in DOMAIN pk[t] |-> pk'[t][a]]]
        /\ sc' = [t \in DOMAIN sc |-> [a \in DOMAIN sc[t] |-> sc'[t][a]]]
    BY DEF FillPacked, IInv, Layout
  <2>2. /\ DOMAIN pk = Tensors /\ DOMAIN sc = Tensors
        /\ \A t \in Tensors : /\ DOMAIN pk[t] = 0 .. N_HEADS * SEQ_LEN * bytes_per_row - 1
                              /\ DOMAIN sc[t] = 0 .. N_HEADS * SEQ_LEN * blocks_per_row - 1
    BY DEF IInv, Layout
  <2>3. QED
    BY <1>1, <2>1, <2>2 DEF IInv, Layout, Sized, OneChunk, bytes_per_row, blocks_per_row
<1>4. Phases'
  BY <1>1, ShapeAssumption DEF Phases
<1>5. Filled'
  BY <1>1, <1>2, FillPackedPacks DEF Filled, Held
<1>6. RowsDecoded'
  BY <1>1 DEF RowsDecoded
<1>7. QED
  BY <1>3, <1>4, <1>5, <1>6 DEF IInv

\* Nibble j of a packed row, as bench_fa_exo unpacks it.
LEMMA UnpackedNibble ==
  ASSUME Sized, h \in Heads, s \in Rows, NEW t, RowPacked(t, h, s), NEW j \in Dims
  PROVE  Word(t, (j \div BLOCK) * (BLOCK \div 2) + (j % BLOCK) \div 2, j % 2) = <<t, h, s, j>>
<1> DEFINE q == j \div BLOCK
           r == j % BLOCK
           b == q * (BLOCK \div 2) + (r \div 2)
           z == j % 2
<1> HIDE DEF q, r, z
<1>1. q \in Nat /\ r \in 0 .. BLOCK - 1 /\ j = q * BLOCK + r /\ j \in Nat /\ j < HEAD_DIM
  BY ElementSplit, RowSizes DEF q, r, Dims
<1>2. b = j \div 2
  BY <1>1, HalfSplit
<1> HIDE DEF b
<1>3. b \in Nat /\ z \in 0 .. 2 - 1 /\ j = b * 2 + z
  <2>1. j \in Nat
    BY <1>1
  <2>2. j \div 2 \in Nat /\ j % 2 \in 0 .. 2 - 1 /\ j = (j \div 2) * 2 + (j % 2)
    BY <2>1, Division
  <2>3. QED
    BY <1>2, <2>2 DEF z
<1>4. b \in 0 .. bytes_per_row - 1 /\ z \in {0, 1}
  BY <1>1, <1>3, RowSizes
<1>5. RowBase(bytes_per_row) + b = Line(h, s) * bytes_per_row + b
  BY DEF RowBase, Line
<1>6. pk[t][Line(h, s) * bytes_per_row + b] = <<<<t, h, s, 2 * b>>, <<t, h, s, 2 * b + 1>>>>
  BY <1>4 DEF RowPacked
<1>7. Word(t, b, z) = <<t, h, s, j>>
  <2>1. CASE z = 0
    BY <1>3, <1>5, <1>6, <2>1 DEF Word
  <2>2. CASE z = 1
    BY <1>3, <1>5, <1>6, <2>2 DEF Word
  <2>3. QED
    BY <1>4, <2>1, <2>2
<1>8. QED
  BY <1>7 DEF b, q, r, z

\* The memory after UnpackRow: the current row and those before it.
LEMMA UnpackRowUnpacks ==
  ASSUME IInv, UnpackRow, NEW t \in Stored, NEW k \in Heads, NEW i \in Rows,
         Before(k, i) \/ (k = h /\ i = s)
  PROVE  RowUnpacked(t, k, i)'
<1>1. /\ pc = "unpack" /\ Sized /\ h \in Heads /\ s \in Rows
      /\ HEAD_DIM' = HEAD_DIM
      /\ Grown(words, HEAD_DIM) /\ Grown(scales, blocks_per_row)
      /\ RowPacked(t, h, s) /\ (Before(k, i) => RowUnpacked(t, k, i))
  BY DEF UnpackRow, IInv, Layout, Phases, Filled, input
<1>2. /\ HEAD_DIM \in Nat \ {0} /\ blocks_per_row \in Nat \ {0}
      /\ blocks_per_row * BLOCK = HEAD_DIM
  BY <1>1, RowSizes
<1>3. ASSUME NEW d \in Dims
      PROVE  words'[<<t, Line(k, i) * HEAD_DIM + d>>] = <<t, k, i, d>>
  <2> DEFINE n == N_HEADS * SEQ_LEN * HEAD_DIM
             a == Line(k, i) * HEAD_DIM + d
             base == RowBase(HEAD_DIM)
             Nibble(j) == Word(t, (j \div BLOCK) * (BLOCK \div 2) + (j % BLOCK) \div 2, j % 2)
  <2>1. /\ a \in 0 .. n - 1 /\ a \in Nat /\ base \in Nat
        /\ k = h /\ i = s => a - base = d
        /\ Before(k, i) => a < base
    BY <1>1, <1>2, RowItems DEF Dims
  <2>2. <<t, a>> \in Stored \X (0 .. n - 1)
    BY <2>1
  <2>3. words'[<<t, a>>] = IF a \in base .. base + HEAD_DIM - 1 THEN Nibble(a - base)
                           ELSE IF words = Nothing THEN Nothing ELSE words[<<t, a>>]
    BY <1>2, <2>2 DEF UnpackRow, Renewed
  <2>4. Nibble(d) = <<t, h, s, d>>
    BY <1>1, UnpackedNibble
  <2> HIDE DEF a, base, n, Nibble
  <2>5. ASSUME k = h, i = s PROVE words'[<<t, a>>] = <<t, k, i, d>>
    BY <1>2, <2>1, <2>3, <2>4, <2>5 DEF Dims
  <2>6. ASSUME Before(k, i) PROVE words'[<<t, a>>] = <<t, k, i, d>>
    <3>1. words[<<t, a>>] = <<t, k, i, d>>
      BY <1>1, <2>6 DEF RowUnpacked, RowStored, a
    <3>2. ~(h = 0 /\ s = 0)
      BY <2>6 DEF Before, Heads, Rows
    <3>3. words = [x \in Stored \X (0 .. n - 1) |-> words[x]]
      BY <1>1, <3>2 DEF Grown, n
    <3>4. words # Nothing
      BY <2>2, <3>3, ArrayIsSomething
    <3>5. QED
      BY <2>1, <2>3, <2>6, <3>1, <3>4
  <2>7. QED
    BY <2>5, <2>6 DEF a
<1>4. ASSUME NEW b \in 0 .. blocks_per_row - 1
      PROVE  scales'[<<t, Line(k, i) * blocks_per_row + b>>] = <<t, k, i, b>>
  <2> DEFINE n == N_HEADS * SEQ_LEN * blocks_per_row
             a == Line(k, i) * blocks_per_row + b
             base == RowBase(blocks_per_row)
  <2>1. /\ a \in 0 .. n - 1 /\ a \in Nat /\ base \in Nat
        /\ base = Line(h, s) * blocks_per_row
        /\ k = h /\ i = s => a - base = b
        /\ Before(k, i) => a < base
    BY <1>1, <1>2, RowItems
  <2>2. <<t, a>> \in Stored \X (0 .. n - 1)
    BY <2>1
  <2>3. scales'[<<t, a>>] = IF a \in base .. base + blocks_per_row - 1
                            THEN sc[t][base + (a - base)]
                            ELSE IF scales = Nothing THEN Nothing ELSE scales[<<t, a>>]
    BY <2>2 DEF UnpackRow, Renewed
  <2>4. sc[t][base + b] = <<t, h, s, b>>
    BY <1>1, <2>1 DEF RowPacked
  <2> HIDE DEF a, base, n
  <2>5. ASSUME k = h, i = s PROVE scales'[<<t, a>>] = <<t, k, i, b>>
    BY <1>2, <2>1, <2>3, <2>4, <2>5
  <2>6. ASSUME Before(k, i) PROVE scales'[<<t, a>>] = <<t, k, i, b>>
    <3>1. scales[<<t, a>>] = <<t, k, i, b>>
      BY <1>1, <2>6 DEF RowUnpacked, a
    <3>2. ~(h = 0 /\ s = 0)
      BY <2>6 DEF Before, Heads, Rows
    <3>3. scales = [x \in Stored \X (0 .. n - 1) |-> scales[x]]
      BY <1>1, <3>2 DEF Grown, n
    <3>4. scales # Nothing
      BY <2>2, <3>3, ArrayIsSomething
    <3>5. QED
      BY <2>1, <2>3, <2>6, <3>1, <3>4
  <2>7. QED
    BY <2>5, <2>6 DEF a
<1>5. QED
  BY <1>1, <1>3, <1>4 DEF RowUnpacked, RowStored, Line, Dims, blocks_per_row

\* bench_fa_exo unpacks a row.
LEMMA UnpackRowInv ==
  ASSUME IInv, UnpackRow
  PROVE  IInv'
<1>1. /\ pc = "unpack" /\ kernel = "exo" /\ h \in Heads /\ s \in Rows /\ NextRow("k_row")
      /\ UNCHANGED <<kernel, HEAD_DIM, pk, sc, S, row>>
      /\ Sized
      /\ \A t \in Stored, k \in Heads, i \in Rows : RowPacked(t, k, i)
  BY DEF UnpackRow, IInv, Layout, Phases, Filled, input, memory
<1>2. /\ Stored' = Stored /\ ~Baseline /\ ~Baseline' /\ ~DotOnly /\ ~DotOnly'
      /\ blocks_per_row' = blocks_per_row
      /\ blocks_per_row * BLOCK = HEAD_DIM
  BY <1>1, RowSizes DEF Stored, DotOnly, Baseline, blocks_per_row
<1>3. ASSUME NEW t \in Stored, NEW k \in Heads, NEW i \in Rows
      PROVE  /\ RowPacked(t, k, i)'
             /\ Before(k, i) \/ (k = h /\ i = s) => RowUnpacked(t, k, i)'
  <2>1. RowPacked(t, k, i)'
    BY <1>1 DEF RowPacked, bytes_per_row, blocks_per_row, Line
  <2>2. QED
    BY <2>1, UnpackRowUnpacks
<1>4. /\ words' = [x \in Stored \X (0 .. N_HEADS * SEQ_LEN * HEAD_DIM - 1) |-> words'[x]]
      /\ scales' = [x \in Stored \X (0 .. N_HEADS * SEQ_LEN * blocks_per_row - 1) |-> scales'[x]]
  BY <1>2 DEF UnpackRow, Renewed
<1>5. Layout'
  BY <1>1 DEF IInv, Layout, Sized, OneChunk, bytes_per_row, blocks_per_row
<1>6. CASE pc' = pc
  <2>1. /\ h' \in Heads /\ s' \in Rows
        /\ \A k \in Heads, i \in Rows : Before(k, i)' => Before(k, i) \/ (k = h /\ i = s)
    BY <1>1, <1>6, NextRowCovers
  <2>2. Phases'
    BY <1>1, <1>6, <2>1 DEF Phases
  <2>3. Grown(words, HEAD_DIM)' /\ Grown(scales, blocks_per_row)'
    BY <1>1, <1>2, <1>4 DEF Grown
  <2>4. Filled'
    BY <1>1, <1>2, <1>3, <1>6, <2>1, <2>3 DEF Filled
  <2>5. QED
    BY <1>1, <1>5, <1>6, <2>2, <2>4 DEF IInv, RowsDecoded
<1>7. CASE pc' # pc
  <2>1. /\ pc' = "k_row" /\ h' = 0 /\ s' = 0
        /\ \A k \in Heads, i \in Rows : Before(k, i) \/ (k = h /\ i = s)
    BY <1>1, <1>7, NextRowCovers
  <2>2. Phases'
    BY <2>1, ShapeAssumption DEF Phases
  <2>3. Filled'
    BY <1>2, <1>3, <2>1 DEF Filled, Held
  <2>4. RowsDecoded'
    BY <2>1 DEF RowsDecoded
  <2>5. QED
    BY <1>5, <2>2, <2>3, <2>4 DEF IInv
<1>8. QED
  BY <1>6, <1>7

-----------------------------------------------------------------------------
\* The work of the kernels, with the memory as it is.

\* Reading keeps what is held.
LEMMA WorkHolds ==
  ASSUME Layout, Filled, pc \notin {"pack", "unpack"}, pc' \notin {"pack", "unpack"},
         UNCHANGED <<input, memory, exo>>,
         S' = [i \in Rows |-> S'[i]], row' = [t \in Tensors |-> row'[t]]
  PROVE  Layout' /\ Filled'
<1>1. UNCHANGED <<kernel, HEAD_DIM, pk, sc, words, scales>>
  BY DEF input, memory, exo
<1>2. Layout'
  BY <1>1 DEF Layout, Sized, OneChunk, bytes_per_row, blocks_per_row
<1>3. Stored' = Stored
  BY <1>1 DEF Stored, DotOnly
<1>4. ASSUME NEW t \in Stored, NEW k \in Heads, NEW i \in Rows
      PROVE  Held(t, k, i)'
  <2>1. Held(t, k, i)
    BY DEF Filled
  <2>2. QED
    BY <1>1, <2>1 DEF Held, RowStored, RowPacked, RowUnpacked, Baseline, Line, Dims,
       bytes_per_row, blocks_per_row
<1>5. Filled'
  BY <1>3, <1>4 DEF Filled
<1>6. QED
  BY <1>2, <1>5

\* The shape of the state does not depend on what is read.
LEMMA WorkKept ==
  ASSUME Layout, Phases, Filled, KRow \/ VRow \/ StreamRow
  PROVE  /\ Layout' /\ Phases' /\ Filled'
         /\ s' = s + 1 /\ h \in Heads /\ s \in Rows /\ UNCHANGED <<input, memory, exo, pc, h>>
         /\ S' = [i \in Rows |-> S'[i]] /\ row' = [t \in Tensors |-> row'[t]]
<1>1. /\ pc \in {"k_row", "v_row", "stream"} /\ s' = s + 1 /\ h \in Heads /\ s \in Rows
      /\ UNCHANGED <<input, memory, exo, pc, h>> /\ (pc # "k_row" => ~DotOnly)
  <2>1. CASE KRow
    BY <2>1, ShapeAssumption DEF KRow, Phases, Heads, Rows
  <2>2. CASE VRow
    BY <2>2, ShapeAssumption DEF VRow, Phases, Rows
  <2>3. CASE StreamRow
    BY <2>3, ShapeAssumption DEF StreamRow, Phases, Heads, Rows
  <2>4. QED
    BY <2>1, <2>2, <2>3
<1>2. S' = [i \in Rows |-> S'[i]] /\ row' = [t \in Tensors |-> row'[t]]
  <2>1. /\ \/ UNCHANGED S
           \/ \E x : S' = [S EXCEPT ![s] = x]
        /\ \/ \E t, r : row' = [row EXCEPT ![t] = r]
           \/ \E k, v : row' = [K |-> k, V |-> v]
    BY DEF KRow, VRow, StreamRow
  <2>2. QED
    BY <2>1 DEF Layout, Tensors
<1>3. Layout' /\ Filled'
  BY <1>1, <1>2, WorkHolds
<1>4. Phases'
  BY <1>1, ShapeAssumption DEF Phases, Heads, Rows, DotOnly, input
<1>5. QED
  BY <1>1, <1>2, <1>3, <1>4

\* What a kernel reads at (h, s) is the row.
LEMMA WorkDecodes ==
  ASSUME RegisterIsBlock, IInv, pc \notin {"pack", "unpack"}, h \in Heads, s \in Rows,
         NEW t \in Stored, NEW r \in Dequantised(t)
  PROVE  r = TrueRow(t, h, s)
<1>1. Held(t, h, s)
  BY DEF IInv, Filled
<1>2. QED
  BY <1>1, RowDecoded DEF IInv, Layout, Held

LEMMA KRowInv ==
  ASSUME RegisterIsBlock, IInv, KRow
  PROVE  IInv'
<1>1. /\ Layout' /\ Phases' /\ Filled' /\ s' = s + 1 /\ h \in Heads /\ s \in Rows
      /\ UNCHANGED <<input, memory, exo, pc, h>>
  BY WorkKept DEF IInv
<1>2. PICK r \in Dequantised("K") :
        /\ row' = [row EXCEPT !["K"] = r] /\ S' = [S EXCEPT ![s] = Dot(r, h, s)]
  BY DEF KRow
<1>3. "K" \in Stored /\ pc = "k_row"
  BY DEF Stored, Tensors, KRow
<1>4. r = TrueRow("K", h, s)
  BY <1>1, <1>2, <1>3, WorkDecodes
<1>5. /\ S = [i \in Rows |-> S[i]] /\ row = [t \in Tensors |-> row[t]]
  BY DEF IInv, Layout
<1>6. S'[s] = score[h][s] /\ \A i \in 0 .. s - 1 : S'[i] = S[i]
  BY <1>1, <1>2, <1>4, <1>5, ShapeAssumption DEF Dot, Rows
<1>7. row'["K"] = TrueRow("K", h, s)
  BY <1>2, <1>4, <1>5 DEF Tensors
<1>8. RowsDecoded'
  <2>1. s \in Nat /\ h < N_HEADS
    BY <1>1, ShapeAssumption DEF Rows, Heads
  <2>2. \A i \in 0 .. s - 1 : S[i] = score[h][i]
    BY <1>3, <2>1 DEF IInv, RowsDecoded
  <2>3. \A i \in 0 .. s' - 1 : S'[i] = score'[h'][i]
    BY <1>1, <1>6, <2>1, <2>2 DEF input
  <2>4. (row["K"] = TrueRow("K", h, s - 1))'
    BY <1>1, <1>7, <2>1 DEF TrueRow, Dims, ScaleApplied, input
  <2>5. QED
    BY <1>1, <1>3, <2>3, <2>4 DEF RowsDecoded
<1>9. QED
  BY <1>1, <1>8 DEF IInv

LEMMA VRowInv ==
  ASSUME RegisterIsBlock, IInv, VRow
  PROVE  IInv'
<1>1. /\ Layout' /\ Phases' /\ Filled' /\ s' = s + 1 /\ h \in Heads /\ s \in Rows
      /\ UNCHANGED <<input, memory, exo, pc, h>>
  BY WorkKept DEF IInv
<1>2. PICK r \in Dequantised("V") : row' = [row EXCEPT !["V"] = r]
  BY DEF VRow
<1>3. "V" \in Stored /\ pc = "v_row"
  BY DEF Stored, Tensors, VRow, IInv, Phases
<1>4. r = TrueRow("V", h, s) /\ row = [t \in Tensors |-> row[t]]
  BY <1>1, <1>2, <1>3, WorkDecodes DEF IInv, Layout
<1>5. (row["V"] = TrueRow("V", h, s - 1))'
  BY <1>1, <1>2, <1>4 DEF TrueRow, Dims, ScaleApplied, input, Tensors, Rows
<1>6. QED
  BY <1>1, <1>3, <1>5 DEF IInv, RowsDecoded

LEMMA StreamRowInv ==
  ASSUME RegisterIsBlock, IInv, StreamRow
  PROVE  IInv'
<1>1. /\ Layout' /\ Phases' /\ Filled' /\ s' = s + 1 /\ h \in Heads /\ s \in Rows
      /\ UNCHANGED <<input, memory, exo, pc, h>>
  BY WorkKept DEF IInv
<1>2. PICK k \in Dequantised("K"), v \in Dequantised("V") : row' = [K |-> k, V |-> v]
  BY DEF StreamRow
<1>3. "K" \in Stored /\ "V" \in Stored /\ pc = "stream"
  BY DEF Stored, Tensors, StreamRow, IInv, Phases
<1>4. k = TrueRow("K", h, s) /\ v = TrueRow("V", h, s)
  BY <1>1, <1>2, <1>3, WorkDecodes
<1>5. (row["K"] = TrueRow("K", h, s - 1))' /\ (row["V"] = TrueRow("V", h, s - 1))'
  BY <1>1, <1>2, <1>4 DEF TrueRow, Dims, ScaleApplied, input, Rows
<1>6. QED
  BY <1>1, <1>3, <1>5 DEF IInv, RowsDecoded

\* A softmax leaves the rows alone and begins with V.
LEMMA SoftmaxFacts ==
  ASSUME Softmax
  PROVE  /\ pc = "k_row" /\ h < N_HEADS /\ s' = 0 /\ pc' \in {"v_row", "pv_dim"}
         /\ UNCHANGED <<input, memory, exo, h, row, S>> /\ ~DotOnly
<1>1. PICK rows, init, exp, kept : SoftmaxOver(rows, init, exp, kept)
  BY DEF Softmax, Bf16Softmax, Bf16RvvSoftmax, ExoSoftmax, MixedSoftmax, NativeVecSoftmax,
     AllfuSoftmax, StubSoftmax, Stub2Softmax, RvvStubSoftmax, NativeDqSoftmax
<1>2. ~DotOnly
  BY DEF Softmax, Bf16Softmax, Bf16RvvSoftmax, ExoSoftmax, MixedSoftmax, NativeVecSoftmax,
     AllfuSoftmax, StubSoftmax, Stub2Softmax, RvvStubSoftmax, NativeDqSoftmax, DotOnly
<1>3. QED
  BY <1>1, <1>2 DEF SoftmaxOver

\* The steps between the rows.
LEMMA BetweenRowsInv ==
  ASSUME Layout, Phases, Filled, NextDotHead \/ Softmax \/ PvDim \/ FinishHead \/ StreamFinish
  PROVE  IInv'
<1>1. UNCHANGED <<input, memory, exo, row, S>>
  BY SoftmaxFacts DEF NextDotHead, PvDim, FinishHead, StreamFinish
<1>2. DotOnly' = DotOnly
  BY <1>1 DEF DotOnly, input
<1>3. S' = [i \in Rows |-> S'[i]] /\ row' = [t \in Tensors |-> row'[t]]
  BY <1>1 DEF Layout
<1>4. CASE NextDotHead \/ FinishHead \/ StreamFinish
  <2>1. /\ pc \in {"k_row", "v_row", "pv_dim", "stream"}
        /\ pc' \in {"k_row", "stream"} /\ (pc' = "stream" => pc = "stream")
        /\ h \in Heads /\ h' = h + 1 /\ s' = 0
    BY <1>4, ShapeAssumption DEF NextDotHead, FinishHead, StreamFinish, Phases, Heads
  <2>2. Layout' /\ Filled'
    BY <1>1, <1>3, <2>1, WorkHolds
  <2>3. Phases'
    BY <1>2, <2>1, ShapeAssumption DEF Phases, Heads
  <2>4. RowsDecoded'
    BY <2>1 DEF RowsDecoded
  <2>5. QED
    BY <2>2, <2>3, <2>4 DEF IInv
<1>5. CASE Softmax
  <2>1. /\ pc = "k_row" /\ h \in Heads /\ h' = h /\ s' = 0 /\ pc' \in {"v_row", "pv_dim"}
        /\ ~DotOnly
    BY <1>5, SoftmaxFacts, ShapeAssumption DEF Phases, Heads
  <2>2. Layout' /\ Filled'
    BY <1>1, <1>3, <2>1, WorkHolds
  <2>3. Phases'
    BY <1>2, <2>1 DEF Phases
  <2>4. RowsDecoded'
    BY <2>1 DEF RowsDecoded
  <2>5. QED
    BY <2>2, <2>3, <2>4 DEF IInv
<1>6. CASE PvDim
  <2>1. pc = "pv_dim" /\ pc' = pc /\ h' = h /\ s' = s + 1 /\ h \in Heads /\ s \in Nat /\ ~DotOnly
    BY <1>6 DEF PvDim, Phases
  <2>2. Layout' /\ Filled'
    BY <1>1, <1>3, <2>1, WorkHolds
  <2>3. Phases'
    BY <1>2, <2>1 DEF Phases
  <2>4. RowsDecoded'
    BY <2>1 DEF RowsDecoded
  <2>5. QED
    BY <2>2, <2>3, <2>4 DEF IInv
<1>7. QED
  BY <1>4, <1>5, <1>6

LEMMA StutterInv ==
  ASSUME UNCHANGED vars
  PROVE  /\ Layout => Layout'
         /\ Phases => Phases'
         /\ Filled => Filled'
         /\ RowsDecoded => RowsDecoded'
<1>1. UNCHANGED <<kernel, HEAD_DIM, score, pk, sc, words, scales, pc, h, s, row, S>>
  BY DEF vars, input, memory, exo
<1>2. (Layout => Layout') /\ (Phases => Phases') /\ (RowsDecoded => RowsDecoded')
  BY <1>1 DEF Layout, Phases, RowsDecoded, Sized, OneChunk, DotOnly, Baseline,
     TrueRow, Dims, ScaleApplied, bytes_per_row, blocks_per_row
<1>3. Filled => Filled'
  BY <1>1 DEF Filled, Held, Grown, RowStored, RowPacked, RowUnpacked, Before, Line,
     Stored, DotOnly, Baseline, Dims, bytes_per_row, blocks_per_row
<1>4. QED
  BY <1>2, <1>3

\* What holds whatever the registers take.
ShapeInv == Layout /\ Phases /\ Filled

LEMMA StepShape ==
  ASSUME ShapeInv, [Next]_vars
  PROVE  ShapeInv'
<1>1. CASE StoreRow \/ PackRow \/ FillPacked \/ UnpackRow
  <2>1. pc \in {"pack", "unpack"}
    BY <1>1 DEF StoreRow, PackRow, FillPacked, UnpackRow
  <2>2. IInv
    BY <2>1 DEF IInv, ShapeInv, RowsDecoded
  <2>3. IInv'
    BY <1>1, <2>2, StoreRowInv, PackRowInv, FillPackedInv, UnpackRowInv
  <2>4. QED
    BY <2>3 DEF IInv, ShapeInv
<1>2. CASE KRow \/ VRow \/ StreamRow
  BY <1>2, WorkKept DEF ShapeInv
<1>3. CASE NextDotHead \/ Softmax \/ PvDim \/ FinishHead \/ StreamFinish
  BY <1>3, BetweenRowsInv DEF ShapeInv, IInv
<1>4. CASE UNCHANGED vars
  BY <1>4, StutterInv DEF ShapeInv
<1>5. QED
  BY <1>1, <1>2, <1>3, <1>4 DEF Next

LEMMA StepInv ==
  ASSUME RegisterIsBlock, IInv, [Next]_vars
  PROVE  IInv'
<1>1. CASE StoreRow \/ PackRow \/ FillPacked \/ UnpackRow
  BY <1>1, StoreRowInv, PackRowInv, FillPackedInv, UnpackRowInv
<1>2. CASE KRow \/ VRow \/ StreamRow
  BY <1>2, KRowInv, VRowInv, StreamRowInv
<1>3. CASE NextDotHead \/ Softmax \/ PvDim \/ FinishHead \/ StreamFinish
  BY <1>3, BetweenRowsInv DEF IInv
<1>4. CASE UNCHANGED vars
  BY <1>4, StutterInv DEF IInv
<1>5. QED
  BY <1>1, <1>2, <1>3, <1>4 DEF Next

\* Every kernel that reads the packed layout, or the rows or words made of
\* it, finds each element of each row of each head in its place, under the
\* scale of its own block: for any number of heads and rows, any even block
\* size and any head dimension of whole chunks, if a vector register takes
\* one block.
THEOREM RowsFound ==
  ASSUME RegisterIsBlock
  PROVE  Spec => []RowsDecoded
<1>1. IInv /\ [Next]_vars => IInv'
  BY StepInv
<1>2. IInv => RowsDecoded
  BY DEF IInv
<1>3. QED
  BY InitInv, <1>1, <1>2, PTL DEF Spec

-----------------------------------------------------------------------------
(***************************************************************************)
(* What the kernels make of the rows: the weights and the output of every  *)
(* head, the loads of the packed memory, and the types of the variables.   *)
(***************************************************************************)
\* The invariant of the outputs.

\* The largest score of a head, and the exponent of a row.
Peak(k)     == LargestOf({score[k][i] : i \in Rows})
Below(k, i) == score[k][i] - Peak(k)

Weighed(k) ==
  {i \in Rows :
     CASE FP32Weights \/ kernel = "streaming_stub" -> Below(k, i) >= -ExpMin
       [] kernel = "stub" -> Below(k, i) \in TruncatedKept
       [] kernel \in {"native_dq", "stub2", "rvv_stub"} -> Below(k, i) = 0
       [] OTHER -> Below(k, i) >= -Fp8Min}
Summed(k) ==
  CASE kernel = "exo" -> {}
    [] kernel \in {"stub", "stub2", "rvv_stub"} -> Rows
    [] OTHER -> {i \in Rows : Below(k, i) >= -ExpMin}

\* The addends of dimension d, and those of the sum, for a set of rows whose
\* exponents are relative to m.
Addends(k, rows, m, d) == {<<TrueRow("V", k, i)[d], score[k][i] - m>> : i \in rows}
Weights(k, rows, m)    == {<<i, score[k][i] - m>> : i \in rows}

Holds(k, num, den) ==
  /\ \A d \in Dims : O[k].num[d] = Addends(k, num, Peak(k), d)
  /\ O[k].den = Weights(k, den, Peak(k))
Complete(k) ==
  CASE DotOnly -> O[k].num = score[k]
    [] kernel = "streaming_stub" ->
         \E kept \in SUBSET Rows : Weighed(k) \subseteq kept /\ Holds(k, kept, kept)
    [] OTHER -> Holds(k, Weighed(k), Summed(k))

\* Which kernel runs which loop, and how far it counts.
Loops ==
  /\ kernel = "exo" => SEQ_LEN % BLOCK = 0
  /\ score \in [Heads -> [Rows -> Scores]]
  /\ O_fp32 = [d \in Dims |-> O_fp32[d]] /\ O = [k \in Heads |-> O[k]]
  /\ pc = "v_row" => ~ScalarPv /\ s <= SEQ_LEN
  /\ pc = "pv_dim" => ScalarPv /\ s <= HEAD_DIM
  /\ pc = "stream" => kernel = "streaming_stub"
  /\ pc \in {"v_row", "pv_dim"} => kernel # "streaming_stub"

\* After the softmax of a head.
WeightsReady ==
  pc \in {"v_row", "pv_dim"} =>
    /\ \A i \in Rows : Weight(i) = IF i \in Weighed(h) THEN {Below(h, i)} ELSE {}
    /\ kernel # "exo" => sum_p = Weights(h, Summed(h), Peak(h))

\* The output row holds the rows so far, or the dimensions so far.
OutputSoFar ==
  /\ pc = "v_row" => \A d \in Dims :
       O_fp32[d] = Addends(h, {i \in Weighed(h) : i < s}, Peak(h), d)
  /\ pc = "pv_dim" => \A d \in Dims :
       d < s => O_fp32[d] = Addends(h, Weighed(h), Peak(h), d)

\* The streaming stub: the running maximum, and the rows it has kept.
StreamKept(kept) ==
  /\ \A i \in 0 .. s - 1 : score[h][i] - max_s >= -ExpMin => i \in kept
  /\ \A d \in Dims : O_fp32[d] = Addends(h, kept, max_s, d)
  /\ sum_p = Weights(h, kept, max_s)
StreamSoFar ==
  /\ pc = "pack" => max_s = MInit /\ sum_p = {} /\ \A d \in Dims : O_fp32[d] = {}
  /\ pc = "stream" /\ h < N_HEADS =>
       /\ s = 0 => max_s = MInit
       /\ s > 0 => /\ \E i \in 0 .. s - 1 : max_s = score[h][i]
                   /\ \A i \in 0 .. s - 1 : score[h][i] <= max_s
       /\ \E kept \in SUBSET (0 .. s - 1) : StreamKept(kept)

Outputs ==
  Loops /\ WeightsReady /\ OutputSoFar /\ StreamSoFar
    /\ \A k \in Heads : O[k] # NoResult => Complete(k)

-----------------------------------------------------------------------------
\* The invariant of the loads.

\* So many of the q elements of item b lie before element n.
Clamp(n, q, b) == IF n <= q * b THEN 0 ELSE IF q * b + q <= n THEN q ELSE n - q * b

\* Of the items of p to a line, those of the first n lines were loaded.
Lines == N_HEADS * SEQ_LEN
Once(counts, n, p) == counts = [a \in 0 .. Lines * p - 1 |-> IF a < n * p THEN 1 ELSE 0]

\* Item by item for each of its q elements: all heads before k, and in head k
\* the elements before n.
OnceEach(k, counts, n, p, q) ==
  counts = [a \in 0 .. Lines * p - 1 |->
    IF a < k * SEQ_LEN * p THEN q
    ELSE IF a < (k + 1) * SEQ_LEN * p THEN Clamp(n, q, a % p) ELSE 0]

LinesOfK == CASE pc = "pack" -> 0
              [] pc \in {"k_row", "stream"} -> h * SEQ_LEN + s
              [] OTHER -> (h + 1) * SEQ_LEN
LinesOfV == CASE pc = "pack" -> 0
              [] pc = "k_row" -> h * SEQ_LEN
              [] OTHER -> h * SEQ_LEN + s
DimsOfV == IF pc = "pv_dim" THEN s ELSE 0

LoadsOf(t, lines) ==
  Once(loads[t].byte, lines, bytes_per_row) /\ Once(loads[t].scale, lines, blocks_per_row)

Counted ==
  /\ loads = [t \in Tensors |-> loads[t]]
  /\ Packed =>
       /\ LoadsOf("K", LinesOfK)
       /\ pc = "pack" => LoadsOf("V", 0)
       /\ pc # "pack" /\ ~DotOnly /\ ~ScalarPv => LoadsOf("V", LinesOfV)
       /\ pc # "pack" /\ ~DotOnly /\ ScalarPv =>
            /\ OnceEach(h, loads["V"].byte, DimsOfV, bytes_per_row, 2)
            /\ OnceEach(h, loads["V"].scale, DimsOfV, blocks_per_row, BLOCK)

-----------------------------------------------------------------------------
\* Largest scores.

LEMMA LargestIs ==
  ASSUME NEW T \in SUBSET Int, NEW m \in T, \A x \in T : x <= m
  PROVE  LargestOf(T) = m
<1>1. \A y \in T : (\A x \in T : x <= y) => y = m
  <2> TAKE y \in T
  <2> HAVE \A x \in T : x <= y
  <2>1. m <= y /\ y <= m /\ m \in Int /\ y \in Int
    OBVIOUS
  <2>2. QED
    BY <2>1
<1>2. QED
  BY <1>1 DEF LargestOf

\* A finite sequence of integers has a largest one: otherwise there would be
\* a shortest prefix without.
LEMMA LargestExists ==
  ASSUME NEW n \in Nat \ {0}, NEW f, \A i \in 0 .. n - 1 : f[i] \in Int
  PROVE  \E j \in 0 .. n - 1 : \A i \in 0 .. n - 1 : f[i] <= f[j]
<1> DEFINE Has(k) == \E j \in 0 .. k - 1 : \A i \in 0 .. k - 1 : f[i] <= f[j]
           bad == {k \in 1 .. n : ~Has(k)}
           R == OpToRel(<, Nat)
<1>1. SUFFICES ASSUME bad # {} PROVE FALSE
  <2>1. n \in 1 .. n
    OBVIOUS
  <2>2. QED
    BY <2>1
<1>2. bad \subseteq Nat
  OBVIOUS
<1>3. PICK k \in bad : \A y \in bad : ~(<<y, k>> \in R)
  BY <1>1, <1>2, NatLessThanWellFounded, WFMin
<1>4. k \in 1 .. n /\ ~Has(k) /\ \A y \in bad : ~(y < k)
  BY <1>2, <1>3 DEF OpToRel
<1> HIDE DEF bad, R
<1>5. CASE k = 1
  <2>1. 0 .. k - 1 = {0} /\ f[0] \in Int
    BY <1>5
  <2>2. QED
    BY <1>4, <2>1
<1>6. CASE k > 1
  <2>1. k - 1 \in 1 .. n /\ k - 1 < k
    BY <1>4, <1>6
  <2>2. Has(k - 1)
    BY <1>4, <2>1 DEF bad
  <2>3. PICK j \in 0 .. (k - 1) - 1 : \A i \in 0 .. (k - 1) - 1 : f[i] <= f[j]
    BY <2>2
  <2>4. /\ j \in 0 .. k - 1 /\ k - 1 \in 0 .. k - 1 /\ f[j] \in Int /\ f[k - 1] \in Int
        /\ \A i \in 0 .. k - 1 : i = k - 1 \/ i \in 0 .. (k - 1) - 1
        /\ \A i \in 0 .. k - 1 : f[i] \in Int
    BY <1>4, <1>6, <2>3
  <2>5. CASE f[k - 1] <= f[j]
    <3>1. \A i \in 0 .. k - 1 : f[i] <= f[j]
      BY <2>3, <2>4, <2>5
    <3>2. QED
      BY <1>4, <2>4, <3>1
  <2>6. CASE f[j] <= f[k - 1]
    <3>1. \A i \in 0 .. k - 1 : f[i] <= f[k - 1]
      BY <2>3, <2>4, <2>6
    <3>2. QED
      BY <1>4, <2>4, <3>1
  <2>7. QED
    BY <2>4, <2>5, <2>6
<1>7. QED
  BY <1>4, <1>5, <1>6

LEMMA PeakFacts ==
  ASSUME score \in [Heads -> [Rows -> Scores]], NEW k \in Heads
  PROVE  /\ Peak(k) \in Scores /\ Peak(k) \in Int
         /\ \E j \in Rows : Peak(k) = score[k][j]
         /\ \A i \in Rows : /\ score[k][i] \in Int /\ score[k][i] \in Scores
                            /\ score[k][i] <= Peak(k)
                            /\ Below(k, i) \in Int /\ Below(k, i) <= 0
<1>1. \A i \in Rows : score[k][i] \in Scores /\ score[k][i] \in Int
  BY ScoresAssumption
<1>2. PICK j \in Rows : \A i \in Rows : score[k][i] <= score[k][j]
  BY <1>1, ShapeAssumption, LargestExists DEF Rows
<1>3. Peak(k) = score[k][j]
  <2> DEFINE T == {score[k][i] : i \in Rows}
  <2>1. T \in SUBSET Int /\ score[k][j] \in T /\ \A x \in T : x <= score[k][j]
    BY <1>1, <1>2
  <2>2. QED
    BY <2>1, LargestIs DEF Peak
<1>4. QED
  BY <1>1, <1>2, <1>3 DEF Below

-----------------------------------------------------------------------------
\* The outputs.

\* What is defined from the inputs alone stays.
LEMMA InputKept ==
  ASSUME UNCHANGED input
  PROVE  /\ Dims' = Dims /\ DotOnly' = DotOnly /\ ScalarPv' = ScalarPv
         /\ FP32Weights' = FP32Weights /\ Stored' = Stored /\ Packed' = Packed
         /\ bytes_per_row' = bytes_per_row /\ blocks_per_row' = blocks_per_row
         /\ \A k : Peak(k)' = Peak(k) /\ Weighed(k)' = Weighed(k) /\ Summed(k)' = Summed(k)
         /\ \A k, i : Below(k, i)' = Below(k, i)
         /\ \A t, k, i : TrueRow(t, k, i)' = TrueRow(t, k, i)
         /\ \A k, rows, m, d : Addends(k, rows, m, d)' = Addends(k, rows, m, d)
         /\ \A k, rows, m : Weights(k, rows, m)' = Weights(k, rows, m)
  BY DEF input, Dims, DotOnly, ScalarPv, FP32Weights, Baseline, Stored, Packed, Peak, Weighed,
     Summed, Below, TrueRow, ScaleApplied, Addends, Weights, bytes_per_row, blocks_per_row

LEMMA CompleteKept ==
  ASSUME UNCHANGED input, NEW k, O'[k] = O[k]
  PROVE  Complete(k)' = Complete(k)
<1>1. \A num, den : Holds(k, num, den)' = Holds(k, num, den)
  BY InputKept DEF Holds
<1>2. kernel' = kernel /\ score' = score /\ DotOnly' = DotOnly /\ Weighed(k)' = Weighed(k)
      /\ Summed(k)' = Summed(k)
  BY InputKept DEF input
<1>3. Holds(k, Weighed(k), Summed(k))' = Holds(k, Weighed(k), Summed(k))
  BY <1>2, InputKept DEF Holds
<1>4. (\E kept \in SUBSET Rows : Weighed(k) \subseteq kept /\ Holds(k, kept, kept))'
        = (\E kept \in SUBSET Rows : Weighed(k) \subseteq kept /\ Holds(k, kept, kept))
  BY <1>1, <1>2
<1>5. QED
  BY <1>2, <1>3, <1>4 DEF Complete

\* HeadComplete, in the terms used here.
LEMMA CompleteHeads ==
  HeadComplete <=> \A k \in Heads : O[k] # NoResult => Complete(k)
  BY DEF HeadComplete, Complete, Holds, Addends, Weights, Weighed, Summed, Below, Peak

LEMMA InitOutputs == Init => Outputs
<1> SUFFICES ASSUME Init PROVE Outputs
  OBVIOUS
<1>1. pc = "pack" /\ max_s = MInit /\ sum_p = {} /\ O_fp32 = [d \in Dims |-> {}]
      /\ O = [k \in Heads |-> NoResult]
  BY DEF Init
<1>2. Loops
  BY <1>1 DEF Init, Loops
<1>3. WeightsReady /\ OutputSoFar /\ StreamSoFar
  BY <1>1 DEF WeightsReady, OutputSoFar, StreamSoFar
<1>4. QED
  BY <1>1, <1>2, <1>3 DEF Outputs

\* A step that leaves the results alone leaves their completeness alone.
LEMMA ResultsKept ==
  ASSUME Outputs, UNCHANGED <<input, O>>
  PROVE  \A k \in Heads : O'[k] # NoResult => Complete(k)'
  BY CompleteKept DEF Outputs

\* Filling the memory.
LEMMA FillingOutputs ==
  ASSUME IInv, Outputs, StoreRow \/ PackRow \/ FillPacked \/ UnpackRow
  PROVE  Outputs'
<1>1. UNCHANGED <<input, softm, O_fp32, O>>
  BY DEF StoreRow, PackRow, FillPacked, UnpackRow
<1>2. /\ pc \in {"pack", "unpack"} /\ pc' \in {"pack", "unpack", "k_row", "stream"}
      /\ pc' = "pack" => pc = "pack"
      /\ pc' = "stream" => pc = "pack" /\ kernel = "streaming_stub" /\ s' = 0
  <2>1. CASE StoreRow
    BY <2>1 DEF StoreRow, NextRow
  <2>2. CASE PackRow
    BY <2>2 DEF PackRow, NextRow
  <2>3. CASE FillPacked
    BY <2>3 DEF FillPacked
  <2>4. CASE UnpackRow
    BY <2>4 DEF UnpackRow, NextRow
  <2>5. QED
    BY <2>1, <2>2, <2>3, <2>4
<1>3. Loops'
  BY <1>1, <1>2 DEF Outputs, Loops, input, Dims
<1>4. WeightsReady' /\ OutputSoFar'
  BY <1>2 DEF WeightsReady, OutputSoFar
<1>5. StreamSoFar'
  <2>1. pc' \in {"pack", "stream"} => max_s' = MInit /\ sum_p' = {} /\ \A d \in Dims : O_fp32'[d] = {}
    BY <1>1, <1>2 DEF Outputs, StreamSoFar, softm
  <2>2. ASSUME pc' = "stream"
        PROVE  s' = 0 /\ {} \in SUBSET (0 .. s' - 1) /\ StreamKept({})'
    <3>1. s' = 0 /\ \A i \in 0 .. s' - 1 : FALSE
      BY <1>2, <2>2
    <3>2. \A d \in Dims' : O_fp32'[d] = Addends(h, {}, max_s, d)'
      BY <1>1, <2>1, <2>2, InputKept DEF Addends
    <3>3. sum_p' = Weights(h, {}, max_s)'
      BY <2>1, <2>2 DEF Weights
    <3>4. QED
      BY <3>1, <3>2, <3>3 DEF StreamKept
  <2>3. QED
    BY <1>1, <2>1, <2>2, InputKept DEF StreamSoFar
<1>6. QED
  BY <1>1, <1>3, <1>4, <1>5, ResultsKept DEF Outputs

LEMMA KRowOutputs ==
  ASSUME Outputs, KRow
  PROVE  Outputs'
<1>1. UNCHANGED <<input, pc, h, O_fp32, O>> /\ pc = "k_row"
  BY DEF KRow
<1>2. Loops'
  BY <1>1 DEF Outputs, Loops, input, Dims
<1>3. WeightsReady' /\ OutputSoFar' /\ StreamSoFar'
  BY <1>1 DEF WeightsReady, OutputSoFar, StreamSoFar
<1>4. QED
  BY <1>1, <1>2, <1>3, ResultsKept DEF Outputs

LEMMA NextDotHeadOutputs ==
  ASSUME IInv, Outputs, NextDotHead
  PROVE  Outputs'
<1>1. /\ UNCHANGED <<input, pc, O_fp32>> /\ pc = "k_row" /\ DotOnly
      /\ h < N_HEADS /\ s = SEQ_LEN /\ O' = [O EXCEPT ![h] = [num |-> S, den |-> {}]]
  BY DEF NextDotHead
<1>2. h \in Heads
  BY <1>1, ShapeAssumption DEF IInv, Phases, Heads
<1>3. S = score[h]
  <2>1. \A i \in Rows : S[i] = score[h][i]
    BY <1>1 DEF IInv, RowsDecoded, Rows
  <2>2. S = [i \in Rows |-> S[i]] /\ score[h] = [i \in Rows |-> score[h][i]]
    BY <1>2 DEF IInv, Layout, Outputs, Loops
  <2>3. QED
    BY <2>1, <2>2
<1>4. Loops'
  BY <1>1 DEF Outputs, Loops, input, Dims
<1>5. WeightsReady' /\ OutputSoFar' /\ StreamSoFar'
  BY <1>1 DEF WeightsReady, OutputSoFar, StreamSoFar
<1>6. ASSUME NEW k \in Heads, O'[k] # NoResult PROVE Complete(k)'
  <2>1. CASE k = h
    <3>1. O'[k].num = score'[k] /\ DotOnly'
      BY <1>1, <1>2, <1>3, <2>1, InputKept DEF Outputs, Loops, input
    <3>2. QED
      BY <3>1 DEF Complete, DotOnly
  <2>2. CASE k # h
    <3>1. O'[k] = O[k]
      BY <1>1, <2>2 DEF Outputs, Loops
    <3>2. QED
      BY <1>1, <1>6, <3>1, CompleteKept DEF Outputs
  <2>3. QED
    BY <2>1, <2>2
<1>7. QED
  BY <1>4, <1>5, <1>6 DEF Outputs

-----------------------------------------------------------------------------
\* The softmax of a head.

LEMMA SoftmaxValues ==
  ASSUME IInv, Outputs, NEW init \in SUBSET {MInit}, NEW exp, NEW kept,
         SoftmaxOver(Rows, init, exp, kept)
  PROVE  /\ h \in Heads /\ s' = 0 /\ pc' = (IF ScalarPv THEN "pv_dim" ELSE "v_row")
         /\ UNCHANGED <<input, h, O>> /\ O_fp32' = [d \in Dims |-> {}]
         /\ max_s' = Peak(h)
         /\ \A i \in Rows : /\ Below(h, i) \in Diff
                            /\ P_fp32'[i] = exp[Below(h, i)]
                            /\ P_fp8'[i] = P_fp32'[i] \cap kept
<1>1. /\ pc = "k_row" /\ h < N_HEADS /\ s = SEQ_LEN /\ s' = 0
      /\ max_s' = LargestOf({S[i] : i \in Rows} \cup init)
      /\ P_fp32' = [i \in Rows |-> exp[Shifted(i)]]
      /\ P_fp8' = [i \in Rows |-> P_fp32'[i] \cap kept]
      /\ O_fp32' = [d \in Dims |-> {}]
      /\ pc' = (IF ScalarPv THEN "pv_dim" ELSE "v_row")
      /\ UNCHANGED <<input, h, O>>
  BY DEF SoftmaxOver
<1>2. h \in Heads
  BY <1>1, ShapeAssumption DEF IInv, Phases, Heads
<1>3. \A i \in Rows : S[i] = score[h][i]
  BY <1>1 DEF IInv, RowsDecoded, Rows
<1>4. /\ Peak(h) \in Scores /\ Peak(h) \in Int
      /\ \E j \in Rows : Peak(h) = score[h][j]
      /\ \A i \in Rows : score[h][i] \in Int /\ score[h][i] \in Scores /\ score[h][i] <= Peak(h)
  BY <1>2, PeakFacts DEF Outputs, Loops
<1>5. max_s' = Peak(h)
  <2> DEFINE T == {S[i] : i \in Rows} \cup init
  <2>1. MInit \in Int /\ MInit <= Peak(h)
    BY <1>4, ScoresAssumption
  <2>2. T \in SUBSET Int /\ Peak(h) \in T /\ \A x \in T : x <= Peak(h)
    BY <1>3, <1>4, <2>1
  <2>3. LargestOf(T) = Peak(h)
    BY <2>2, LargestIs
  <2>4. QED
    BY <1>1, <2>3
<1>6. \A i \in Rows : Shifted(i) = Below(h, i) /\ Below(h, i) \in Diff
  BY <1>3, <1>4, <1>5 DEF Shifted, Below, Diff
<1>7. \A i \in Rows : P_fp32'[i] = exp[Below(h, i)]
  BY <1>1, <1>6
<1>8. QED
  BY <1>1, <1>2, <1>5, <1>6, <1>7

\* The sum holds the rows whose exponential is not zero.
LEMMA SoftmaxSum ==
  ASSUME NEW init, NEW exp, NEW kept, SoftmaxOver(Rows, init, exp, kept),
         NEW k, NEW rows \in SUBSET Rows,
         \A i \in Rows : P_fp32'[i] = IF i \in rows THEN {Below(k, i)} ELSE {}
  PROVE  sum_p' = Weights(k, rows, Peak(k))
<1>1. sum_p' = UNION {{<<i, x>> : x \in P_fp32'[i]} : i \in Rows}
  BY DEF SoftmaxOver
<1>2. ASSUME NEW w \in sum_p' PROVE w \in Weights(k, rows, Peak(k))
  <2>1. PICK i \in Rows : w \in {<<i, x>> : x \in P_fp32'[i]}
    BY <1>1
  <2>2. PICK x \in P_fp32'[i] : w = <<i, x>>
    BY <2>1
  <2>3. i \in rows /\ x = Below(k, i)
    BY <2>2
  <2>4. QED
    BY <2>2, <2>3 DEF Weights, Below
<1>3. ASSUME NEW w \in Weights(k, rows, Peak(k)) PROVE w \in sum_p'
  <2>1. PICK i \in rows : w = <<i, Below(k, i)>>
    BY DEF Weights, Below
  <2>2. i \in Rows /\ Below(k, i) \in P_fp32'[i]
    BY <2>1
  <2>3. w \in {<<i, x>> : x \in P_fp32'[i]}
    BY <2>1, <2>2
  <2>4. QED
    BY <1>1, <2>2, <2>3
<1>4. QED
  BY <1>2, <1>3

\* Which rows have a weight, by the exponential and the format of the kernel.
LEMMA ExpValues ==
  ASSUME score \in [Heads -> [Rows -> Scores]], NEW k \in Heads, NEW i \in Rows,
         Below(k, i) \in Diff
  PROVE  LET x == Below(k, i)
         IN  /\ Expf[x] = IF x >= -ExpMin THEN {x} ELSE {}
             /\ fu_expf[x] = {x}
             /\ Expf[x] \cap Fp8Kept = IF x >= -Fp8Min THEN {x} ELSE {}
             /\ Expf[x] \cap {0} = IF x = 0 THEN {x} ELSE {}
             /\ fu_expf[x] \cap {0} = IF x = 0 THEN {x} ELSE {}
             /\ fu_expf[x] \cap TruncatedKept = IF x \in TruncatedKept THEN {x} ELSE {}
<1> DEFINE x == Below(k, i)
<1>1. x \in Int /\ x \in Diff
  BY PeakFacts
<1> HIDE DEF x
<1>2. ExpMin \in Nat /\ Fp8Min \in 0 .. ExpMin
  BY ScoresAssumption
<1>3. Expf[x] = IF x >= -ExpMin THEN {x} ELSE {}
  BY <1>1, <1>2 DEF Expf
<1>4. fu_expf[x] = {x}
  BY <1>1 DEF fu_expf
<1>5. x \in Fp8Kept <=> x >= -Fp8Min
  BY <1>1 DEF Fp8Kept
<1>6. x >= -Fp8Min => x >= -ExpMin
  BY <1>1, <1>2
<1>7. x = 0 => x >= -ExpMin
  BY <1>1, <1>2
<1>8. QED
  BY <1>3, <1>4, <1>5, <1>6, <1>7 DEF x

\* The strips of the Exo kernel are all rows.
LEMMA AllStrips ==
  ASSUME Loops
  PROVE  StripRows = Rows \/ kernel # "exo"
<1>1. ASSUME kernel = "exo" PROVE StripRows = Rows
  <2>1. SEQ_LEN \in Nat /\ BLOCK \in Nat \ {0} /\ SEQ_LEN % BLOCK = 0
    BY <1>1, ShapeAssumption DEF Loops
  <2>2. SEQ_LEN = (SEQ_LEN \div BLOCK) * BLOCK + (SEQ_LEN % BLOCK) /\ SEQ_LEN \div BLOCK \in Nat
    BY <2>1, Division
  <2>3. SEQ_LEN = (SEQ_LEN \div BLOCK) * BLOCK
    BY <2>1, <2>2
  <2>4. QED
    BY <2>3 DEF StripRows, Rows
<1>2. QED
  BY <1>1

\* Whatever the kernel, the weights are those of the rows it can represent.
LEMMA SoftmaxOutputs ==
  ASSUME IInv, Outputs, Softmax
  PROVE  Outputs'
<1> DEFINE X(i) == Below(h, i)
           near == {i \in Rows : X(i) >= -ExpMin}
<1>1. StripRows = Rows \/ kernel # "exo"
  BY AllStrips DEF Outputs
<1>2. PICK init, exp, kept :
        /\ init \in SUBSET {MInit}
        /\ SoftmaxOver(Rows, init, exp, kept)
        /\ kernel \notin {"streaming_stub"}
        /\ CASE FP32Weights -> exp = Expf
             [] kernel = "stub" -> exp = fu_expf /\ kept = TruncatedKept
             [] kernel \in {"stub2", "rvv_stub"} -> exp = fu_expf /\ kept = {0}
             [] kernel = "native_dq" -> exp = Expf /\ kept = {0}
             [] OTHER -> exp = Expf /\ kept = Fp8Kept
  <2>1. CASE Bf16Softmax \/ Bf16RvvSoftmax \/ ExoSoftmax
    BY <1>1, <2>1 DEF Bf16Softmax, Bf16RvvSoftmax, ExoSoftmax, FP32Weights, Baseline
  <2>2. CASE MixedSoftmax \/ NativeVecSoftmax \/ AllfuSoftmax
    BY <2>2 DEF MixedSoftmax, NativeVecSoftmax, AllfuSoftmax, FP32Weights, Baseline
  <2>3. CASE StubSoftmax \/ Stub2Softmax \/ RvvStubSoftmax \/ NativeDqSoftmax
    BY <2>3 DEF StubSoftmax, Stub2Softmax, RvvStubSoftmax, NativeDqSoftmax, FP32Weights, Baseline
  <2>4. QED
    BY <2>1, <2>2, <2>3 DEF Softmax
<1>3. /\ h \in Heads /\ s' = 0 /\ pc' = (IF ScalarPv THEN "pv_dim" ELSE "v_row")
      /\ UNCHANGED <<input, h, O>> /\ O_fp32' = [d \in Dims |-> {}]
      /\ \A i \in Rows : /\ Below(h, i) \in Diff
                         /\ P_fp32'[i] = exp[Below(h, i)]
                         /\ P_fp8'[i] = P_fp32'[i] \cap kept
  BY <1>2, SoftmaxValues
<1>4. \A i \in Rows :
        /\ Expf[X(i)] = IF X(i) >= -ExpMin THEN {X(i)} ELSE {}
        /\ fu_expf[X(i)] = {X(i)}
        /\ Expf[X(i)] \cap Fp8Kept = IF X(i) >= -Fp8Min THEN {X(i)} ELSE {}
        /\ Expf[X(i)] \cap {0} = IF X(i) = 0 THEN {X(i)} ELSE {}
        /\ fu_expf[X(i)] \cap {0} = IF X(i) = 0 THEN {X(i)} ELSE {}
        /\ fu_expf[X(i)] \cap TruncatedKept = IF X(i) \in TruncatedKept THEN {X(i)} ELSE {}
  BY <1>3, ExpValues DEF Outputs, Loops
<1>5. FP32Weights => kernel \notin {"stub", "stub2", "rvv_stub", "native_dq"}
  BY DEF FP32Weights, Baseline
<1>6. \A i \in Rows : Weight(i)' = IF i \in Weighed(h) THEN {X(i)} ELSE {}
  <2> TAKE i \in Rows
  <2>1. Weight(i)' = IF FP32Weights THEN exp[X(i)] ELSE exp[X(i)] \cap kept
    <3>1. FP32Weights' = FP32Weights
      BY <1>3, InputKept
    <3>2. QED
      BY <1>3, <3>1 DEF Weight
  <2> HIDE DEF X
  <2>2. i \in Weighed(h) <=> CASE FP32Weights -> X(i) >= -ExpMin
                               [] kernel = "stub" -> X(i) \in TruncatedKept
                               [] kernel \in {"native_dq", "stub2", "rvv_stub"} -> X(i) = 0
                               [] OTHER -> X(i) >= -Fp8Min
    BY <1>2, <1>5 DEF Weighed, X
  <2>3. CASE FP32Weights
    BY <1>2, <1>4, <1>5, <2>1, <2>2, <2>3
  <2>4. CASE kernel = "stub"
    BY <1>2, <1>4, <1>5, <2>1, <2>2, <2>4
  <2>5. CASE kernel \in {"stub2", "rvv_stub"}
    BY <1>2, <1>4, <1>5, <2>1, <2>2, <2>5
  <2>6. CASE kernel = "native_dq"
    BY <1>2, <1>4, <1>5, <2>1, <2>2, <2>6
  <2>7. CASE ~FP32Weights /\ kernel \notin {"stub", "stub2", "rvv_stub", "native_dq"}
    BY <1>2, <1>4, <2>1, <2>2, <2>7
  <2>8. QED
    BY <2>3, <2>4, <2>5, <2>6, <2>7
<1>7. kernel # "exo" => sum_p' = Weights(h, Summed(h), Peak(h))
  <2> SUFFICES ASSUME kernel # "exo" PROVE sum_p' = Weights(h, Summed(h), Peak(h))
    OBVIOUS
  <2>1. CASE kernel \in {"stub", "stub2", "rvv_stub"}
    <3>1. exp = fu_expf /\ Summed(h) = Rows
      BY <1>2, <1>5, <2>1 DEF Summed
    <3>2. \A i \in Rows : P_fp32'[i] = IF i \in Rows THEN {Below(h, i)} ELSE {}
      BY <1>3, <1>4, <3>1
    <3>3. QED
      BY <1>2, <3>1, <3>2, SoftmaxSum
  <2>2. CASE kernel \notin {"stub", "stub2", "rvv_stub"}
    <3>1. exp = Expf /\ Summed(h) = near
      BY <1>2, <1>5, <2>2 DEF Summed
    <3>2. \A i \in Rows : P_fp32'[i] = IF i \in near THEN {Below(h, i)} ELSE {}
      BY <1>3, <1>4, <3>1
    <3>3. near \in SUBSET Rows
      OBVIOUS
    <3> HIDE DEF near
    <3>4. QED
      BY <1>2, <3>1, <3>2, <3>3, SoftmaxSum
  <2>3. QED
    BY <2>1, <2>2
<1>8. WeightsReady'
  BY <1>3, <1>6, <1>7, InputKept DEF WeightsReady, input
<1>9. Loops'
  BY <1>2, <1>3, InputKept, RowSizes, ShapeAssumption DEF Outputs, Loops, input, IInv, Layout
<1>10. OutputSoFar'
  <2>1. \A d \in Dims : O_fp32'[d] = {}
    BY <1>3
  <2>2. {i \in Weighed(h) : i < s}' = {}
    <3>1. Weighed(h)' = Weighed(h) /\ Weighed(h) \subseteq Rows
      BY <1>3, InputKept DEF Weighed
    <3>2. QED
      BY <1>3, <3>1, InputKept DEF Rows
  <2>3. \A d \in Dims : Addends(h, {i \in Weighed(h) : i < s}, Peak(h), d)' = {}
    BY <2>2 DEF Addends
  <2>4. \A d \in Dims : ~(d < s')
    BY <1>3 DEF Dims
  <2>5. QED
    BY <1>3, <2>1, <2>3, <2>4, InputKept DEF OutputSoFar
<1>11. StreamSoFar'
  BY <1>3 DEF StreamSoFar
<1>12. QED
  BY <1>3, <1>8, <1>9, <1>10, <1>11, ResultsKept DEF Outputs

-----------------------------------------------------------------------------
\* The weighted rows.

\* The addends of one more row.
LEMMA AddendsGrow ==
  ASSUME NEW k, NEW rows, NEW i, NEW m, NEW d
  PROVE  Addends(k, rows \cup {i}, m, d)
           = Addends(k, rows, m, d) \cup {<<TrueRow("V", k, i)[d], score[k][i] - m>>}
  BY DEF Addends

\* An element of another row is another addend, so nothing is added twice.
LEMMA AddendsApart ==
  ASSUME NEW k, NEW rows, NEW i, i \notin rows, NEW m, NEW d \in Dims, NEW exps
  PROVE  Addends(k, rows, m, d) \cap {<<TrueRow("V", k, i)[d], y>> : y \in exps} = {}
<1> SUFFICES ASSUME NEW j \in rows, NEW y \in exps,
                    <<TrueRow("V", k, j)[d], score[k][j] - m>> = <<TrueRow("V", k, i)[d], y>>
             PROVE  FALSE
  BY DEF Addends
<1> DEFINE Under(n) == IF ScaleApplied \/ kernel = "exo" THEN <<"V", k, n, d \div BLOCK>> ELSE Nothing
<1>1. \A n : TrueRow("V", k, n)[d] = <<<<"V", k, n, d>>, Under(n)>>
  BY DEF TrueRow
<1> HIDE DEF Under
<1>2. TrueRow("V", k, j)[d] = TrueRow("V", k, i)[d]
  OBVIOUS
<1>3. <<"V", k, j, d>> = <<"V", k, i, d>>
  BY <1>1, <1>2
<1>4. j = i
  BY <1>3
<1>5. QED
  BY <1>4

LEMMA WeightsApart ==
  ASSUME NEW k, NEW rows, NEW i, i \notin rows, NEW m, NEW exps
  PROVE  Weights(k, rows, m) \cap {<<i, y>> : y \in exps} = {}
  BY DEF Weights

LEMMA VRowOutputs ==
  ASSUME RegisterIsBlock, IInv, Outputs, VRow
  PROVE  Outputs'
<1>1. /\ pc = "v_row" /\ s < SEQ_LEN /\ s' = s + 1 /\ h \in Heads /\ s \in Rows /\ s \in Nat
      /\ UNCHANGED <<input, pc, h, softm, O>> /\ ~DotOnly
  BY ShapeAssumption DEF VRow, IInv, Phases, Rows
<1>2. PICK r \in Dequantised("V") :
        O_fp32' = [d \in Dims |-> Plus(O_fp32[d], {<<Addend(r)[d], x>> : x \in Weight(s)})]
  BY DEF VRow
<1>3. r = TrueRow("V", h, s)
  <2>1. "V" \in Stored
    BY <1>1 DEF Stored, Tensors
  <2>2. QED
    BY <1>1, <1>2, <2>1, WorkDecodes
<1>4. Weight(s) = IF s \in Weighed(h) THEN {Below(h, s)} ELSE {}
  BY <1>1 DEF Outputs, WeightsReady
<1> DEFINE sofar == {i \in Weighed(h) : i < s}
           next == {i \in Weighed(h) : i < s + 1}
<1>5. next = IF s \in Weighed(h) THEN sofar \cup {s} ELSE sofar
  <2>1. \A i \in Weighed(h) : i \in Int
    BY DEF Weighed, Rows
  <2>2. \A i \in Weighed(h) : i < s + 1 <=> i < s \/ i = s
    BY <1>1, <2>1
  <2>3. QED
    BY <2>2
<1>6. \A d \in Dims : O_fp32'[d] = Addends(h, next, Peak(h), d)
  <2> TAKE d \in Dims
  <2> HIDE DEF sofar, next
  <2>1. O_fp32[d] = Addends(h, sofar, Peak(h), d)
    BY <1>1 DEF Outputs, OutputSoFar, sofar
  <2>2. O_fp32'[d] = O_fp32[d] \cup {<<TrueRow("V", h, s)[d], x>> : x \in Weight(s)}
    <3>1. O_fp32'[d] = Plus(O_fp32[d], {<<TrueRow("V", h, s)[d], x>> : x \in Weight(s)})
      BY <1>2, <1>3 DEF Addend
    <3>2. s \notin sofar
      BY <1>1 DEF sofar
    <3>3. Addends(h, sofar, Peak(h), d) \cap {<<TrueRow("V", h, s)[d], x>> : x \in Weight(s)} = {}
      BY <3>2, AddendsApart
    <3>4. QED
      BY <2>1, <3>1, <3>3 DEF Plus
  <2>3. CASE s \in Weighed(h)
    <3>1. {<<TrueRow("V", h, s)[d], x>> : x \in Weight(s)}
            = {<<TrueRow("V", h, s)[d], score[h][s] - Peak(h)>>}
      BY <1>4, <2>3 DEF Below
    <3>2. next = sofar \cup {s}
      BY <1>5, <2>3
    <3>3. Addends(h, sofar \cup {s}, Peak(h), d)
            = Addends(h, sofar, Peak(h), d) \cup {<<TrueRow("V", h, s)[d], score[h][s] - Peak(h)>>}
      BY AddendsGrow
    <3>4. QED
      BY <2>1, <2>2, <3>1, <3>2, <3>3, Zenon
  <2>4. CASE s \notin Weighed(h)
    BY <1>4, <1>5, <2>1, <2>2, <2>4
  <2>5. QED
    BY <2>3, <2>4
<1>7. Loops'
  BY <1>1, <1>2, InputKept, ShapeAssumption DEF Outputs, Loops, input
<1>8. WeightsReady'
  <2>1. \A i \in Rows : Weight(i)' = Weight(i)
    BY <1>1, InputKept DEF Weight, softm
  <2>2. QED
    BY <1>1, <2>1, InputKept DEF Outputs, WeightsReady, softm, input
<1>9. OutputSoFar'
  BY <1>1, <1>6, InputKept DEF OutputSoFar
<1>10. StreamSoFar'
  BY <1>1 DEF StreamSoFar
<1>11. QED
  BY <1>1, <1>7, <1>8, <1>9, <1>10, ResultsKept DEF Outputs

\* Going dimension by dimension, a kernel looks where the element was written.
LEMMA PvPlaces ==
  ASSUME Sized, h \in Heads, NEW d \in Dims, NEW i \in Rows
  PROVE  LET a == d \div 2
             z == d % 2
             q == d \div BLOCK
         IN  /\ a \in 0 .. bytes_per_row - 1 /\ z \in {0, 1} /\ d = 2 * a + z
             /\ q \in 0 .. blocks_per_row - 1
             /\ PvPlace(i, d) = Place(Line(h, i) * bytes_per_row + a, z,
                                      Line(h, i) * blocks_per_row + q)
<1> DEFINE a == d \div 2
           z == d % 2
           q == d \div BLOCK
           r == d % BLOCK
           m == BLOCK \div 2
<1> HIDE DEF a, z, q, r, m
<1>2. /\ a \in 0 .. bytes_per_row - 1 /\ z \in {0, 1} /\ d = 2 * a + z
      /\ q \in 0 .. blocks_per_row - 1 /\ d - q * BLOCK = r
      /\ q * m + (r \div 2) = a /\ r % 2 = z
      /\ q * m \in Nat /\ r \div 2 \in Nat
  <2>1. d \in Nat /\ d < 2 * bytes_per_row /\ bytes_per_row \in Nat
    BY RowSizes DEF Dims
  <2>2. a \in Nat /\ z \in 0 .. 2 - 1 /\ d = a * 2 + z
    BY <2>1, Division DEF a, z
  <2>3. q \in 0 .. blocks_per_row - 1 /\ r \in 0 .. BLOCK - 1 /\ d = q * BLOCK + r
    BY ElementSplit DEF q, r
  <2>4. q \in Nat /\ m \in Nat /\ q * m \in Nat /\ r \in Nat /\ q * BLOCK \in Nat
    BY <2>3, RowSizes, ShapeAssumption DEF m
  <2>5. a = q * m + (r \div 2) /\ z = r % 2
    BY <2>3, <2>4, HalfSplit DEF a, z, m
  <2>6. r \div 2 \in Nat /\ d - q * BLOCK = r
    BY <2>1, <2>3, <2>4
  <2>7. QED
    BY <2>1, <2>2, <2>3, <2>4, <2>5, <2>6
<1>3. PvPlace(i, d) = Place(Line(h, i) * bytes_per_row + a, z, Line(h, i) * blocks_per_row + q)
  <2>1. Line(h, i) \in Nat /\ Line(h, i) * bytes_per_row \in Nat
    BY LineFacts, RowSizes
  <2>2. Line(h, i) * bytes_per_row + q * m + (r \div 2) = Line(h, i) * bytes_per_row + a
    BY <1>2, <2>1
  <2>3. PvPlace(i, d) = Place(Line(h, i) * bytes_per_row + q * m + ((d - q * BLOCK) \div 2),
                              (d - q * BLOCK) % 2, Line(h, i) * blocks_per_row + q)
    BY DEF PvPlace, Line, q, m
  <2>4. QED
    BY <1>2, <2>2, <2>3
<1>4. QED
  BY <1>2, <1>3 DEF a, z, q

\* It finds the element of every row there.
LEMMA PvElement ==
  ASSUME IInv, Outputs, pc = "pv_dim", h \in Heads, NEW d \in Dims, NEW i \in Rows
  PROVE  /\ Baseline => words[<<"V", (h * SEQ_LEN + i) * HEAD_DIM + d>>] = TrueRow("V", h, i)[d][1]
                        /\ TrueRow("V", h, i)[d][2] = Nothing
         /\ ~Baseline => ElementAt("V", PvPlace(i, d)) = TrueRow("V", h, i)[d]
<1>1. /\ ~DotOnly /\ ScalarPv /\ kernel # "exo" /\ Sized /\ kernel \in Kernels /\ Held("V", h, i)
  BY DEF IInv, Layout, Phases, Filled, Outputs, Loops, ScalarPv, Stored, Tensors
<1> DEFINE a == d \div 2
           z == d % 2
           q == d \div BLOCK
<1>2. /\ a \in 0 .. bytes_per_row - 1 /\ z \in {0, 1} /\ d = 2 * a + z
      /\ q \in 0 .. blocks_per_row - 1
  BY <1>1, PvPlaces
<1>3. PvPlace(i, d) = Place(Line(h, i) * bytes_per_row + a, z, Line(h, i) * blocks_per_row + q)
  BY <1>1, PvPlaces
<1> HIDE DEF a, z, q
<1>4. ASSUME ~Baseline PROVE ElementAt("V", PvPlace(i, d)) = TrueRow("V", h, i)[d]
  <2>1. RowPacked("V", h, i)
    BY <1>1, <1>4 DEF Held
  <2>2. NibbleAt("V", PvPlace(i, d)) = <<"V", h, i, d>>
    <3>1. pk["V"][Line(h, i) * bytes_per_row + a] = <<<<"V", h, i, 2 * a>>, <<"V", h, i, 2 * a + 1>>>>
      BY <1>2, <2>1 DEF RowPacked
    <3>2. NibbleAt("V", PvPlace(i, d)) = pk["V"][Line(h, i) * bytes_per_row + a][z + 1]
      BY <1>3 DEF NibbleAt, Place
    <3>3. CASE z = 0
      BY <1>2, <3>1, <3>2, <3>3
    <3>4. CASE z = 1
      BY <1>2, <3>1, <3>2, <3>4
    <3>5. QED
      BY <1>2, <3>3, <3>4
  <2>3. sc["V"][PvPlace(i, d).scale] = <<"V", h, i, q>>
    BY <1>2, <1>3, <2>1 DEF RowPacked, Place
  <2>4. QED
    BY <1>1, <2>2, <2>3 DEF ElementAt, ScaleAt, TrueRow, q
<1>5. ASSUME Baseline
      PROVE  /\ words[<<"V", (h * SEQ_LEN + i) * HEAD_DIM + d>>] = TrueRow("V", h, i)[d][1]
             /\ TrueRow("V", h, i)[d][2] = Nothing
  <2>1. RowStored("V", h, i) /\ ~ScaleApplied
    BY <1>1, <1>5 DEF Held, Baseline, ScaleApplied
  <2>2. words[<<"V", (h * SEQ_LEN + i) * HEAD_DIM + d>>] = <<"V", h, i, d>>
    BY <2>1 DEF RowStored, Line
  <2>3. TrueRow("V", h, i)[d] = <<<<"V", h, i, d>>, Nothing>>
    BY <1>1, <2>1 DEF TrueRow
  <2>4. QED
    BY <2>2, <2>3
<1>6. QED
  BY <1>4, <1>5

LEMMA PvDimOutputs ==
  ASSUME IInv, Outputs, PvDim
  PROVE  Outputs'
<1> DEFINE v(i) == IF Baseline THEN <<words[<<"V", (h * SEQ_LEN + i) * HEAD_DIM + s>>], Nothing>>
                   ELSE ElementAt("V", PvPlace(i, s))
           sum == UNION {{<<v(i), x>> : x \in Weight(i)} : i \in Rows}
<1>1. /\ pc = "pv_dim" /\ s < HEAD_DIM /\ s' = s + 1 /\ h \in Heads /\ s \in Dims /\ s \in Nat
      /\ HEAD_DIM \in Nat
      /\ UNCHANGED <<input, pc, h, softm, O>> /\ O_fp32' = [O_fp32 EXCEPT ![s] = sum]
  BY RowSizes DEF PvDim, IInv, Phases, Layout, Dims
<1>2. \A i \in Rows : Weight(i) = IF i \in Weighed(h) THEN {Below(h, i)} ELSE {}
  BY <1>1 DEF Outputs, WeightsReady
<1>3. \A i \in Rows : v(i) = TrueRow("V", h, i)[s]
  <2> TAKE i \in Rows
  <2>1. CASE Baseline
    <3>1. TrueRow("V", h, i)[s] = <<TrueRow("V", h, i)[s][1], TrueRow("V", h, i)[s][2]>>
      BY <1>1 DEF TrueRow
    <3>2. QED
      BY <1>1, <2>1, <3>1, PvElement
  <2>2. CASE ~Baseline
    BY <1>1, <2>2, PvElement
  <2>3. QED
    BY <2>1, <2>2
<1>4. sum = Addends(h, Weighed(h), Peak(h), s)
  <2> HIDE DEF v
  <2>1. ASSUME NEW e \in sum PROVE e \in Addends(h, Weighed(h), Peak(h), s)
    <3>1. PICK i \in Rows : e \in {<<v(i), x>> : x \in Weight(i)}
      OBVIOUS
    <3>2. PICK x \in Weight(i) : e = <<v(i), x>>
      BY <3>1
    <3>3. i \in Weighed(h) /\ x = Below(h, i)
      BY <1>2, <3>2
    <3>4. QED
      BY <1>3, <3>2, <3>3 DEF Addends, Below
  <2>2. ASSUME NEW e \in Addends(h, Weighed(h), Peak(h), s) PROVE e \in sum
    <3>1. PICK i \in Weighed(h) : e = <<TrueRow("V", h, i)[s], Below(h, i)>>
      BY DEF Addends, Below
    <3>2. i \in Rows
      BY DEF Weighed
    <3>3. Below(h, i) \in Weight(i)
      BY <1>2, <3>2
    <3>4. e \in {<<v(i), x>> : x \in Weight(i)}
      BY <1>3, <3>1, <3>2, <3>3
    <3>5. QED
      BY <3>2, <3>4
  <2>3. QED
    BY <2>1, <2>2
<1> HIDE DEF sum
<1>5. O_fp32' = [d \in Dims |-> IF d = s THEN Addends(h, Weighed(h), Peak(h), d) ELSE O_fp32[d]]
  <2>1. O_fp32 = [d \in Dims |-> O_fp32[d]]
    BY DEF Outputs, Loops
  <2>2. QED
    BY <1>1, <1>4, <2>1
<1>6. Loops'
  <2>1. O_fp32' = [d \in Dims |-> O_fp32'[d]]
    BY <1>5
  <2>2. QED
    BY <1>1, <2>1, InputKept DEF Outputs, Loops, input
<1>7. WeightsReady'
  <2>1. \A i \in Rows : Weight(i)' = Weight(i)
    BY <1>1, InputKept DEF Weight, softm
  <2>2. QED
    BY <1>1, <2>1, InputKept DEF Outputs, WeightsReady, softm, input
<1>8. OutputSoFar'
  <2>1. \A d \in Dims : d < s' => O_fp32'[d] = Addends(h, Weighed(h), Peak(h), d)
    <3> TAKE d \in Dims
    <3> HAVE d < s'
    <3>1. d = s \/ d < s
      BY <1>1 DEF Dims
    <3>2. d < s => O_fp32[d] = Addends(h, Weighed(h), Peak(h), d)
      BY <1>1 DEF Outputs, OutputSoFar
    <3>3. QED
      BY <1>5, <3>1, <3>2
  <2>2. QED
    BY <1>1, <2>1, InputKept DEF OutputSoFar
<1>9. StreamSoFar'
  BY <1>1 DEF StreamSoFar
<1>10. QED
  BY <1>1, <1>6, <1>7, <1>8, <1>9, ResultsKept DEF Outputs

LEMMA FinishHeadOutputs ==
  ASSUME IInv, Outputs, FinishHead
  PROVE  Outputs'
<1>1. /\ \/ pc = "v_row" /\ s = SEQ_LEN
         \/ pc = "pv_dim" /\ s = HEAD_DIM
      /\ pc' = "k_row" /\ h \in Heads /\ UNCHANGED <<input, O_fp32>>
      /\ O' = [O EXCEPT ![h] = [num |-> O_fp32, den |-> IF kernel = "exo" THEN {} ELSE sum_p]]
  <2>1. pc \in {"v_row", "pv_dim"}
    BY DEF FinishHead
  <2>2. h \in Heads
    BY <2>1 DEF IInv, Phases
  <2>3. QED
    BY <2>2 DEF FinishHead
<1>2. \A d \in Dims : O_fp32[d] = Addends(h, Weighed(h), Peak(h), d)
  <2> TAKE d \in Dims
  <2>1. CASE pc = "v_row" /\ s = SEQ_LEN
    <3>1. {i \in Weighed(h) : i < s} = Weighed(h)
      BY <2>1, ShapeAssumption DEF Weighed, Rows
    <3>2. QED
      BY <2>1, <3>1 DEF Outputs, OutputSoFar
  <2>2. CASE pc = "pv_dim" /\ s = HEAD_DIM
    <3>1. d < s
      BY <2>2, RowSizes DEF Dims, IInv, Layout
    <3>2. QED
      BY <2>2, <3>1 DEF Outputs, OutputSoFar
  <2>3. QED
    BY <1>1, <2>1, <2>2
<1>3. (IF kernel = "exo" THEN {} ELSE sum_p) = Weights(h, Summed(h), Peak(h))
  <2>1. CASE kernel = "exo"
    BY <2>1 DEF Weights, Summed
  <2>2. CASE kernel # "exo"
    BY <1>1, <2>2 DEF Outputs, WeightsReady
  <2>3. QED
    BY <2>1, <2>2
<1>4. kernel # "streaming_stub" /\ ~DotOnly
  BY <1>1 DEF IInv, Phases, Outputs, Loops
<1>5. ASSUME NEW k \in Heads, O'[k] # NoResult PROVE Complete(k)'
  <2>1. CASE k = h
    <3>1. O'[k] = [num |-> O_fp32, den |-> IF kernel = "exo" THEN {} ELSE sum_p]
      BY <1>1, <2>1 DEF Outputs, Loops
    <3>2. O'[k].den = Weights(h, Summed(h), Peak(h)) /\ O'[k].num = O_fp32
      BY <1>3, <3>1
    <3>3. Holds(k, Weighed(k), Summed(k))'
      BY <1>1, <1>2, <2>1, <3>2, InputKept DEF Holds
    <3>4. kernel' # "streaming_stub" /\ ~DotOnly'
      BY <1>1, <1>4, InputKept DEF input
    <3>5. QED
      BY <3>3, <3>4 DEF Complete
  <2>2. CASE k # h
    <3>1. O'[k] = O[k]
      BY <1>1, <2>2 DEF Outputs, Loops
    <3>2. QED
      BY <1>1, <1>5, <3>1, CompleteKept DEF Outputs
  <2>3. QED
    BY <2>1, <2>2
<1>6. Loops'
  BY <1>1, InputKept DEF Outputs, Loops, input
<1>7. WeightsReady' /\ OutputSoFar' /\ StreamSoFar'
  BY <1>1 DEF WeightsReady, OutputSoFar, StreamSoFar
<1>8. QED
  BY <1>5, <1>6, <1>7 DEF Outputs

-----------------------------------------------------------------------------
\* The streaming stub.

\* A new maximum shifts all exponents, or drops all rows.
LEMMA RescaledAddends ==
  ASSUME NEW k, NEW rows, NEW m \in Int, NEW n \in Int, NEW d,
         \A i \in rows : score[k][i] \in Int
  PROVE  Rescaled(Addends(k, rows, m, d), {m - n}) = Addends(k, rows, n, d)
<1>1. ASSUME NEW e \in Rescaled(Addends(k, rows, m, d), {m - n})
      PROVE  e \in Addends(k, rows, n, d)
  <2>1. PICK w \in Addends(k, rows, m, d), y \in {m - n} : e = <<w[1], w[2] + y>>
    BY DEF Rescaled
  <2>2. PICK i \in rows : w = <<TrueRow("V", k, i)[d], score[k][i] - m>>
    BY DEF Addends
  <2>3. e = <<TrueRow("V", k, i)[d], (score[k][i] - m) + (m - n)>>
    BY <2>1, <2>2
  <2>4. (score[k][i] - m) + (m - n) = score[k][i] - n
    BY <2>2
  <2>5. QED
    BY <2>2, <2>3, <2>4 DEF Addends
<1>2. ASSUME NEW e \in Addends(k, rows, n, d)
      PROVE  e \in Rescaled(Addends(k, rows, m, d), {m - n})
  <2>1. PICK i \in rows : e = <<TrueRow("V", k, i)[d], score[k][i] - n>>
    BY DEF Addends
  <2> DEFINE w == <<TrueRow("V", k, i)[d], score[k][i] - m>>
  <2>2. w \in Addends(k, rows, m, d)
    BY <2>1 DEF Addends
  <2>3. (score[k][i] - m) + (m - n) = score[k][i] - n
    BY <2>1
  <2>4. e = <<w[1], w[2] + (m - n)>>
    BY <2>1, <2>3
  <2> HIDE DEF w
  <2>5. QED
    BY <2>2, <2>4 DEF Rescaled
<1>3. QED
  BY <1>1, <1>2

LEMMA RescaledWeights ==
  ASSUME NEW k, NEW rows, NEW m \in Int, NEW n \in Int,
         \A i \in rows : score[k][i] \in Int
  PROVE  Rescaled(Weights(k, rows, m), {m - n}) = Weights(k, rows, n)
<1>1. ASSUME NEW e \in Rescaled(Weights(k, rows, m), {m - n})
      PROVE  e \in Weights(k, rows, n)
  <2>1. PICK w \in Weights(k, rows, m), y \in {m - n} : e = <<w[1], w[2] + y>>
    BY DEF Rescaled
  <2>2. PICK i \in rows : w = <<i, score[k][i] - m>>
    BY DEF Weights
  <2>3. e = <<i, (score[k][i] - m) + (m - n)>>
    BY <2>1, <2>2
  <2>4. (score[k][i] - m) + (m - n) = score[k][i] - n
    BY <2>2
  <2>5. QED
    BY <2>2, <2>3, <2>4 DEF Weights
<1>2. ASSUME NEW e \in Weights(k, rows, n)
      PROVE  e \in Rescaled(Weights(k, rows, m), {m - n})
  <2>1. PICK i \in rows : e = <<i, score[k][i] - n>>
    BY DEF Weights
  <2> DEFINE w == <<i, score[k][i] - m>>
  <2>2. w \in Weights(k, rows, m)
    BY <2>1 DEF Weights
  <2>3. (score[k][i] - m) + (m - n) = score[k][i] - n
    BY <2>1
  <2>4. e = <<w[1], w[2] + (m - n)>>
    BY <2>1, <2>3
  <2> HIDE DEF w
  <2>5. QED
    BY <2>2, <2>4 DEF Rescaled
<1>3. QED
  BY <1>1, <1>2

LEMMA RescaledNothing ==
  ASSUME NEW sum
  PROVE  Rescaled(sum, {}) = {}
  BY DEF Rescaled

\* The factors of a step: the rows kept so far are shifted to the new maximum
\* or dropped, the new row is added or is out of reach.
Drop(x)  == x > max_s /\ max_s - x < -ExpMin
Miss(x)  == x <= max_s /\ x - max_s < -ExpMin
Top(x)   == IF x > max_s THEN x ELSE max_s
Factors(x)  == IF Drop(x) THEN {} ELSE {max_s - Top(x)}
Exponents(x) == IF Miss(x) THEN {} ELSE {x - Top(x)}
NewAddends(k, i, d, x) == {<<TrueRow("V", k, i)[d], y>> : y \in Exponents(x)}
NewWeights(i, x)       == {<<i, y>> : y \in Exponents(x)}
KeptNext(rows, x, i) == (IF Drop(x) THEN {} ELSE rows) \cup (IF Miss(x) THEN {} ELSE {i})

LEMMA StreamFactors ==
  ASSUME NEW x \in Scores, max_s \in Scores \cup {MInit}
  PROVE  /\ (IF x > max_s THEN fu_expf_guarded[max_s - x] ELSE {0})
              = Factors(x)
         /\ (IF x > max_s THEN {0} ELSE fu_expf_guarded[x - max_s])
              = Exponents(x)
         /\ LargestOf({x, max_s}) = Top(x) /\ Top(x) \in Int /\ max_s \in Int /\ x \in Int
<1>1. x \in Int /\ max_s \in Int /\ ExpMin \in Nat
  BY ScoresAssumption
<1>2. max_s - x \in Diff /\ x - max_s \in Diff
  BY DEF Diff
<1>3. /\ fu_expf_guarded[max_s - x] = IF max_s - x < -ExpMin THEN {} ELSE {max_s - x}
      /\ fu_expf_guarded[x - max_s] = IF x - max_s < -ExpMin THEN {} ELSE {x - max_s}
  BY <1>2 DEF fu_expf_guarded
<1>4. LargestOf({x, max_s}) = Top(x)
  <2> DEFINE T == {x, max_s}
  <2>1. T \in SUBSET Int /\ Top(x) \in T /\ \A y \in T : y <= Top(x)
    BY <1>1 DEF Top
  <2>2. QED
    BY <2>1, LargestIs
<1>5. CASE x > max_s
  BY <1>1, <1>3, <1>4, <1>5 DEF Top, Drop, Miss, Factors, Exponents
<1>6. CASE ~(x > max_s)
  BY <1>1, <1>3, <1>4, <1>6 DEF Top, Drop, Miss, Factors, Exponents
<1>7. QED
  BY <1>5, <1>6

\* One row of the stream, for the addends of a dimension and for the sum.
LEMMA StreamAddends ==
  ASSUME NEW k, NEW rows \in SUBSET Rows, NEW i \in Rows, NEW x, x = score[k][i],
         \A j \in Rows : score[k][j] \in Scores,
         i \notin rows, max_s \in Scores \cup {MInit}
  PROVE  /\ \A d \in Dims : Plus(Rescaled(Addends(k, rows, max_s, d), Factors(x)), NewAddends(k, i, d, x))
                            = Addends(k, KeptNext(rows, x, i), Top(x), d)
         /\ Plus(Rescaled(Weights(k, rows, max_s), Factors(x)), NewWeights(i, x))
              = Weights(k, KeptNext(rows, x, i), Top(x))
<1> DEFINE keep == IF Drop(x) THEN {} ELSE rows
           add  == IF Miss(x) THEN {} ELSE {i}
           n    == Top(x)
<1>1. n \in Int /\ max_s \in Int /\ \A j \in rows : score[k][j] \in Int
  BY StreamFactors, ScoresAssumption
<1>2. \A d : Rescaled(Addends(k, rows, max_s, d), Factors(x)) = Addends(k, keep, n, d)
  <2> TAKE d
  <2>1. CASE Drop(x)
    <3>1. Addends(k, {}, n, d) = {}
      BY DEF Addends
    <3>2. QED
      BY <2>1, <3>1, RescaledNothing DEF Factors
  <2>2. CASE ~Drop(x)
    <3>1. Rescaled(Addends(k, rows, max_s, d), {max_s - n}) = Addends(k, rows, n, d)
      BY <1>1, RescaledAddends
    <3>2. QED
      BY <2>2, <3>1 DEF Factors
  <2>3. QED
    BY <2>1, <2>2
<1>3. Rescaled(Weights(k, rows, max_s), Factors(x)) = Weights(k, keep, n)
  <2>1. CASE Drop(x)
    <3>1. Weights(k, {}, n) = {}
      BY DEF Weights
    <3>2. QED
      BY <2>1, <3>1, RescaledNothing DEF Factors
  <2>2. CASE ~Drop(x)
    <3>1. Rescaled(Weights(k, rows, max_s), {max_s - n}) = Weights(k, rows, n)
      BY <1>1, RescaledWeights
    <3>2. QED
      BY <2>2, <3>1 DEF Factors
  <2>3. QED
    BY <2>1, <2>2
<1>4. \A d : NewAddends(k, i, d, x) = Addends(k, add, n, d)
  BY DEF Addends, NewAddends, Exponents
<1>5. NewWeights(i, x) = Weights(k, add, n)
  BY DEF Weights, NewWeights, Exponents
<1>6. KeptNext(rows, x, i) = keep \cup add /\ i \notin keep
  BY DEF KeptNext
<1> HIDE DEF n, keep, add
<1>apart. /\ \A d \in Dims : Addends(k, keep, n, d) \cap NewAddends(k, i, d, x) = {}
          /\ Weights(k, keep, n) \cap NewWeights(i, x) = {}
  BY <1>6, AddendsApart, WeightsApart DEF NewAddends, NewWeights
<1>7. \A d : Addends(k, keep, n, d) \cup Addends(k, add, n, d) = Addends(k, keep \cup add, n, d)
  BY DEF Addends
<1>8. Weights(k, keep, n) \cup Weights(k, add, n) = Weights(k, keep \cup add, n)
  BY DEF Weights
<1>9. QED
  <2>1. \A d \in Dims : Plus(Addends(k, keep, n, d), NewAddends(k, i, d, x)) = Addends(k, keep \cup add, n, d)
    BY <1>4, <1>7, <1>apart DEF Plus
  <2>2. Plus(Weights(k, keep, n), NewWeights(i, x)) = Weights(k, keep \cup add, n)
    BY <1>5, <1>8, <1>apart DEF Plus
  <2>3. QED
    BY <1>2, <1>3, <1>6, <2>1, <2>2 DEF n

\* Dropped rows are out of reach, and so is the row missed.
LEMMA StreamReach ==
  ASSUME NEW kept \in SUBSET (0 .. s - 1), s \in Rows,
         \A j \in Rows : score[h][j] \in Scores,
         max_s \in Scores \cup {MInit},
         \A i \in 0 .. s - 1 : score[h][i] <= max_s,
         \A i \in 0 .. s - 1 : score[h][i] - max_s >= -ExpMin => i \in kept
  PROVE  LET x    == score[h][s]
             next == KeptNext(kept, x, s)
         IN  /\ next \in SUBSET (0 .. s)
             /\ \A i \in 0 .. s : score[h][i] <= Top(x)
             /\ \A i \in 0 .. s : score[h][i] - Top(x) >= -ExpMin => i \in next
<1> DEFINE x    == score[h][s]
           next == KeptNext(kept, x, s)
<1>1. /\ s \in Nat /\ max_s \in Int /\ ExpMin \in Nat /\ x \in Int
      /\ \A i \in 0 .. s : score[h][i] \in Int
  <2>1. s \in Nat /\ \A i \in 0 .. s : i \in Rows
    BY ShapeAssumption DEF Rows
  <2>2. \A j \in Rows : score[h][j] \in Int
    BY ScoresAssumption
  <2>3. max_s \in Int /\ ExpMin \in Nat
    BY ScoresAssumption
  <2>4. QED
    BY <2>1, <2>2, <2>3
<1>2. ASSUME NEW i \in 0 .. s
      PROVE  score[h][i] <= Top(x) /\ (score[h][i] - Top(x) >= -ExpMin => i \in next)
  <2>1. CASE i = s
    BY <1>1, <2>1 DEF Top, Miss, KeptNext
  <2>2. CASE i # s
    <3>1. i \in 0 .. s - 1 /\ score[h][i] \in Int
      BY <1>1, <2>2
    <3>2. score[h][i] <= max_s /\ (score[h][i] - max_s >= -ExpMin => i \in kept)
      BY <3>1
    <3>3. CASE x > max_s
      BY <1>1, <3>1, <3>2, <3>3 DEF Top, Drop, KeptNext
    <3>4. CASE ~(x > max_s)
      BY <1>1, <3>1, <3>2, <3>4 DEF Top, Drop, KeptNext
    <3>5. QED
      BY <3>3, <3>4
  <2>3. QED
    BY <2>1, <2>2
<1>3. next \in SUBSET (0 .. s)
  <2>1. \A i \in kept : i \in 0 .. s - 1
    OBVIOUS
  <2>2. s \in 0 .. s /\ \A i \in 0 .. s - 1 : i \in 0 .. s
    BY <1>1
  <2>3. QED
    BY <2>1, <2>2 DEF KeptNext
<1>4. QED
  BY <1>2, <1>3

LEMMA StreamRowOutputs ==
  ASSUME RegisterIsBlock, IInv, Outputs, StreamRow
  PROVE  Outputs'
<1>1. /\ pc = "stream" /\ s' = s + 1 /\ h \in Heads /\ h < N_HEADS /\ s \in Rows /\ s \in Nat
      /\ UNCHANGED <<input, pc, h, O>> /\ ~DotOnly /\ kernel = "streaming_stub"
  BY ShapeAssumption DEF StreamRow, IInv, Phases, Heads, Rows, Outputs, Loops
<1> DEFINE x  == score[h][s]
           ms == IF x > max_s THEN fu_expf_guarded[max_s - x] ELSE {0}
           vs == IF x > max_s THEN {0} ELSE fu_expf_guarded[x - max_s]
<1>2. /\ max_s' = LargestOf({x, max_s})
      /\ O_fp32' = [d \in Dims |-> Plus(Rescaled(O_fp32[d], ms),
                                          {<<TrueRow("V", h, s)[d], y>> : y \in vs})]
      /\ sum_p' = Plus(Rescaled(sum_p, ms), {<<s, y>> : y \in vs})
  <2>1. PICK k \in Dequantised("K"), v \in Dequantised("V") :
          LET X == Dot(k, h, s)
              MS == IF X > max_s THEN fu_expf_guarded[max_s - X] ELSE {0}
              VS == IF X > max_s THEN {0} ELSE fu_expf_guarded[X - max_s]
          IN  /\ max_s' = LargestOf({X, max_s})
              /\ O_fp32' = [d \in Dims |-> Plus(Rescaled(O_fp32[d], MS), {<<v[d], y>> : y \in VS})]
              /\ sum_p' = Plus(Rescaled(sum_p, MS), {<<s, y>> : y \in VS})
    BY DEF StreamRow
  <2>2. "K" \in Stored /\ "V" \in Stored
    BY <1>1 DEF Stored, Tensors
  <2>3. k = TrueRow("K", h, s) /\ v = TrueRow("V", h, s)
    BY <1>1, <2>1, <2>2, WorkDecodes
  <2>4. Dot(k, h, s) = x
    BY <2>3 DEF Dot
  <2>5. QED
    BY <2>1, <2>3, <2>4
<1> HIDE DEF ms, vs
<1>3. /\ \A j \in Rows : score[h][j] \in Scores
      /\ max_s \in Scores \cup {MInit}
      /\ \A i \in 0 .. s - 1 : score[h][i] <= max_s
      /\ \A i \in 0 .. s - 1 : i \in Rows
  <2>1. \A j \in Rows : score[h][j] \in Scores
    BY <1>1 DEF Outputs, Loops
  <2>2. \A i \in 0 .. s - 1 : i \in Rows
    BY <1>1, ShapeAssumption DEF Rows
  <2>3. s = 0 => max_s = MInit /\ \A i \in 0 .. s - 1 : FALSE
    BY <1>1 DEF Outputs, StreamSoFar
  <2>4. s > 0 => /\ \E i \in 0 .. s - 1 : max_s = score[h][i]
                 /\ \A i \in 0 .. s - 1 : score[h][i] <= max_s
    BY <1>1 DEF Outputs, StreamSoFar
  <2>5. s = 0 \/ s > 0
    BY <1>1
  <2>6. QED
    BY <2>1, <2>2, <2>3, <2>4, <2>5
<1>4. PICK kept \in SUBSET (0 .. s - 1) : StreamKept(kept)
  BY <1>1 DEF Outputs, StreamSoFar
<1> DEFINE next == KeptNext(kept, x, s)
<1>5. kept \in SUBSET Rows /\ x \in Scores
  BY <1>1, <1>3, <1>4
<1>6. /\ ms = Factors(x) /\ vs = Exponents(x)
      /\ max_s' = Top(x) /\ Top(x) \in Int
  BY <1>2, <1>3, <1>5, StreamFactors DEF ms, vs
<1>7. /\ \A d \in Dims : O_fp32'[d] = Addends(h, next, Top(x), d)
      /\ sum_p' = Weights(h, next, Top(x))
  <2> HIDE DEF x
  <2>1. /\ \A d \in Dims : Plus(Rescaled(Addends(h, kept, max_s, d), Factors(x)), NewAddends(h, s, d, x))
                           = Addends(h, next, Top(x), d)
        /\ Plus(Rescaled(Weights(h, kept, max_s), Factors(x)), NewWeights(s, x))
             = Weights(h, next, Top(x))
    <3>1. x = score[h][s] /\ s \notin kept
      BY <1>1, <1>4 DEF x
    <3>2. QED
      BY <1>1, <1>3, <1>5, <3>1, StreamAddends
  <2>2. ASSUME NEW d \in Dims PROVE O_fp32'[d] = Addends(h, next, Top(x), d)
    <3>1. O_fp32[d] = Addends(h, kept, max_s, d)
      BY <1>4 DEF StreamKept
    <3>2. O_fp32'[d] = Plus(Rescaled(O_fp32[d], ms), {<<TrueRow("V", h, s)[d], y>> : y \in vs})
      BY <1>2
    <3>3. QED
      BY <1>6, <2>1, <3>1, <3>2 DEF NewAddends
  <2>3. sum_p' = Weights(h, next, Top(x))
    <3>1. sum_p = Weights(h, kept, max_s)
      BY <1>4 DEF StreamKept
    <3>2. QED
      BY <1>2, <1>6, <2>1, <3>1 DEF NewWeights
  <2>4. QED
    BY <2>2, <2>3
<1>8. /\ next \in SUBSET (0 .. s)
      /\ \A i \in 0 .. s : score[h][i] <= Top(x)
      /\ \A i \in 0 .. s : score[h][i] - Top(x) >= -ExpMin => i \in next
  <2>1. \A i \in 0 .. s - 1 : score[h][i] - max_s >= -ExpMin => i \in kept
    BY <1>4 DEF StreamKept
  <2>2. QED
    BY <1>1, <1>3, <1>4, <2>1, StreamReach
<1>9. \E i \in 0 .. s : Top(x) = score[h][i]
  <2>1. CASE x > max_s
    BY <1>1, <2>1 DEF Top
  <2>2. CASE ~(x > max_s)
    <3>1. s # 0
      BY <1>1, <1>5, <2>2, ScoresAssumption DEF Outputs, StreamSoFar
    <3>2. PICK i \in 0 .. s - 1 : max_s = score[h][i]
      BY <1>1, <3>1 DEF Outputs, StreamSoFar
    <3>3. i \in 0 .. s
      BY <1>1
    <3>4. QED
      BY <2>2, <3>2, <3>3 DEF Top
  <2>3. QED
    BY <2>1, <2>2
<1>10. StreamSoFar'
  <2>1. s' > 0 /\ s' # 0 /\ s' - 1 = s
    BY <1>1
  <2>2. PICK rows, m : rows = next /\ m = Top(x)
    OBVIOUS
  <2>3. StreamKept(rows)'
    <3>1. \A d \in Dims' : O_fp32'[d] = Addends(h, rows, m, d)'
      BY <1>1, <1>7, <2>2, InputKept
    <3>2. sum_p' = Weights(h, rows, m)'
      BY <1>1, <1>7, <2>2, InputKept
    <3>3. max_s' = m /\ score' = score /\ h' = h
      BY <1>1, <1>6, <2>2 DEF input
    <3>4. \A i \in 0 .. s' - 1 : score'[h'][i] - max_s' >= -ExpMin => i \in rows
      BY <1>8, <2>1, <2>2, <3>3
    <3>5. QED
      BY <1>1, <3>1, <3>2, <3>3, <3>4 DEF StreamKept, Addends, Weights
  <2>4. rows \in SUBSET (0 .. s' - 1)
    BY <1>8, <2>1, <2>2
  <2>5. \E i \in 0 .. s' - 1 : max_s' = score'[h'][i]
    BY <1>1, <1>6, <1>9, <2>1 DEF input
  <2>6. \A i \in 0 .. s' - 1 : score'[h'][i] <= max_s'
    BY <1>1, <1>6, <1>8, <2>1 DEF input
  <2>7. QED
    BY <1>1, <2>1, <2>3, <2>4, <2>5, <2>6 DEF StreamSoFar
<1>11. Loops'
  BY <1>1, <1>2, InputKept DEF Outputs, Loops, input
<1>12. WeightsReady' /\ OutputSoFar'
  BY <1>1 DEF WeightsReady, OutputSoFar
<1>13. QED
  BY <1>1, <1>10, <1>11, <1>12, ResultsKept DEF Outputs

LEMMA StreamFinishOutputs ==
  ASSUME IInv, Outputs, StreamFinish
  PROVE  Outputs'
<1>1. /\ pc = "stream" /\ h < N_HEADS /\ s = SEQ_LEN /\ h \in Heads /\ kernel = "streaming_stub"
      /\ UNCHANGED <<input, pc>> /\ s' = 0 /\ ~DotOnly
      /\ O' = [O EXCEPT ![h] = [num |-> O_fp32, den |-> sum_p]]
      /\ max_s' = MInit /\ sum_p' = {} /\ O_fp32' = [d \in Dims |-> {}]
  BY ShapeAssumption DEF StreamFinish, IInv, Phases, Heads, Outputs, Loops
<1>2. PICK kept \in SUBSET (0 .. s - 1) : StreamKept(kept)
  BY <1>1 DEF Outputs, StreamSoFar
<1>3. 0 .. s - 1 = Rows /\ s > 0
  BY <1>1, ShapeAssumption DEF Rows
<1>4. max_s = Peak(h)
  <2> DEFINE T == {score[h][i] : i \in Rows}
  <2>1. \A i \in Rows : score[h][i] \in Int
    BY <1>1, PeakFacts DEF Outputs, Loops
  <2>2. (\E i \in Rows : max_s = score[h][i]) /\ \A i \in Rows : score[h][i] <= max_s
    BY <1>1, <1>3 DEF Outputs, StreamSoFar
  <2>3. T \in SUBSET Int /\ max_s \in T /\ \A y \in T : y <= max_s
    BY <2>1, <2>2
  <2>4. LargestOf(T) = max_s
    BY <2>3, LargestIs
  <2>5. QED
    BY <2>4 DEF Peak
<1>5. Weighed(h) \subseteq kept
  BY <1>1, <1>2, <1>3, <1>4 DEF Weighed, StreamKept, Below
<1>6. ASSUME NEW k \in Heads, O'[k] # NoResult PROVE Complete(k)'
  <2>1. CASE k = h
    <3>1. O'[k] = [num |-> O_fp32, den |-> sum_p]
      BY <1>1, <2>1 DEF Outputs, Loops
    <3>2. \A d \in Dims : O'[k].num[d] = Addends(k, kept, Peak(k), d)
      BY <1>2, <1>4, <2>1, <3>1 DEF StreamKept
    <3>3. O'[k].den = Weights(k, kept, Peak(k))
      BY <1>2, <1>4, <2>1, <3>1 DEF StreamKept
    <3>4. Holds(k, kept, kept)'
      BY <1>1, <3>2, <3>3, InputKept DEF Holds
    <3>5. kept \in SUBSET Rows /\ Weighed(k)' \subseteq kept
      BY <1>1, <1>3, <1>5, <2>1, InputKept
    <3>6. kernel' = "streaming_stub" /\ ~DotOnly'
      BY <1>1, InputKept DEF input
    <3>7. QED
      BY <3>4, <3>5, <3>6 DEF Complete
  <2>2. CASE k # h
    <3>1. O'[k] = O[k]
      BY <1>1, <2>2 DEF Outputs, Loops
    <3>2. QED
      BY <1>1, <1>6, <3>1, CompleteKept DEF Outputs
  <2>3. QED
    BY <2>1, <2>2
<1>7. Loops'
  BY <1>1, InputKept DEF Outputs, Loops, input
<1>8. WeightsReady' /\ OutputSoFar'
  BY <1>1 DEF WeightsReady, OutputSoFar
<1>9. StreamSoFar'
  <2>1. s' = 0 /\ \A i \in 0 .. s' - 1 : FALSE
    BY <1>1
  <2>2. StreamKept({})'
    <3>1. \A d \in Dims' : O_fp32'[d] = Addends(h, {}, max_s, d)'
      BY <1>1, InputKept DEF Addends
    <3>2. sum_p' = Weights(h, {}, max_s)'
      BY <1>1 DEF Weights
    <3>3. QED
      BY <2>1, <3>1, <3>2 DEF StreamKept
  <2>3. {} \in SUBSET (0 .. s' - 1)
    OBVIOUS
  <2>4. QED
    BY <1>1, <2>1, <2>2, <2>3 DEF StreamSoFar
<1>10. QED
  BY <1>6, <1>7, <1>8, <1>9 DEF Outputs

LEMMA StutterOutputs ==
  ASSUME Outputs, UNCHANGED vars
  PROVE  Outputs'
<1>1. UNCHANGED <<input, O>>
  BY DEF vars
<1>2. UNCHANGED <<kernel, HEAD_DIM, score, pc, h, s, max_s, P_fp32, sum_p, P_fp8, O_fp32>>
  BY DEF vars, input, softm
<1>3. Loops'
  BY <1>1, <1>2, InputKept DEF Outputs, Loops
<1>4. WeightsReady'
  <2>1. \A i : Weight(i)' = Weight(i)
    BY <1>1, <1>2, InputKept DEF Weight
  <2>2. QED
    BY <1>1, <1>2, <2>1, InputKept DEF Outputs, WeightsReady
<1>5. OutputSoFar'
  BY <1>1, <1>2, InputKept DEF Outputs, OutputSoFar
<1>6. StreamSoFar'
  <2>1. \A kept : StreamKept(kept) => StreamKept(kept)'
    BY <1>1, <1>2, InputKept DEF StreamKept
  <2>2. QED
    BY <1>1, <1>2, <2>1, InputKept DEF Outputs, StreamSoFar
<1>7. QED
  BY <1>1, <1>3, <1>4, <1>5, <1>6, ResultsKept DEF Outputs

\* Every kernel completes the heads it claims to have done: at any number of
\* heads and rows, each output element gathers exactly the rows whose weight
\* the kernel's format can represent, each once and under its true exponent,
\* and the divisor is the whole sum (none in the Exo kernel), if a vector
\* register takes one block.
THEOREM HeadsComplete ==
  ASSUME RegisterIsBlock
  PROVE  Spec => []HeadComplete
<1>1. Init => IInv /\ Outputs
  BY InitInv, InitOutputs
<1>2. IInv /\ Outputs /\ [Next]_vars => IInv' /\ Outputs'
  <2> SUFFICES ASSUME IInv, Outputs, [Next]_vars PROVE IInv' /\ Outputs'
    OBVIOUS
  <2>1. IInv'
    BY StepInv
  <2>2. CASE StoreRow \/ PackRow \/ FillPacked \/ UnpackRow
    BY <2>1, <2>2, FillingOutputs
  <2>3. CASE KRow \/ VRow \/ StreamRow
    BY <2>1, <2>3, KRowOutputs, VRowOutputs, StreamRowOutputs
  <2>4. CASE NextDotHead \/ Softmax \/ PvDim \/ FinishHead \/ StreamFinish
    BY <2>1, <2>4, NextDotHeadOutputs, SoftmaxOutputs, PvDimOutputs, FinishHeadOutputs,
       StreamFinishOutputs
  <2>5. CASE UNCHANGED vars
    BY <2>1, <2>5, StutterOutputs
  <2>6. QED
    BY <2>2, <2>3, <2>4, <2>5 DEF Next
<1>3. Outputs => HeadComplete
  BY CompleteHeads DEF Outputs
<1>4. QED
  BY <1>1, <1>2, <1>3, PTL DEF Spec

-----------------------------------------------------------------------------
\* The loads.

\* Which kernel runs which loop needs the shape of the state only.
LEMMA InitLoops == Init => Loops
  BY DEF Init, Loops

LEMMA StepLoops ==
  ASSUME ShapeInv, Loops, [Next]_vars
  PROVE  Loops'
<1>1. UNCHANGED input
  BY SoftmaxFacts DEF Next, StoreRow, PackRow, FillPacked, UnpackRow, KRow, NextDotHead, VRow,
     PvDim, FinishHead, StreamRow, StreamFinish, vars
<1>2. /\ kernel' = kernel /\ HEAD_DIM' = HEAD_DIM /\ score' = score
      /\ Dims' = Dims /\ ScalarPv' = ScalarPv
  BY <1>1, InputKept DEF input
<1>3. /\ O_fp32' = [d \in Dims |-> O_fp32'[d]] /\ O' = [k \in Heads |-> O'[k]]
  <2>1. /\ \/ UNCHANGED O_fp32
           \/ \E d, x : O_fp32' = [O_fp32 EXCEPT ![d] = x]
           \/ O_fp32' = [d \in Dims |-> O_fp32'[d]]
        /\ UNCHANGED O \/ \E x : O' = [O EXCEPT ![h] = x]
    <3>1. CASE Softmax
      <4>1. PICK rows, init, exp, kept : SoftmaxOver(rows, init, exp, kept)
        BY <3>1 DEF Softmax, Bf16Softmax, Bf16RvvSoftmax, ExoSoftmax, MixedSoftmax,
           NativeVecSoftmax, AllfuSoftmax, StubSoftmax, Stub2Softmax, RvvStubSoftmax,
           NativeDqSoftmax
      <4>2. QED
        BY <4>1 DEF SoftmaxOver
    <3>2. CASE StoreRow \/ PackRow \/ FillPacked \/ UnpackRow
      BY <3>2 DEF StoreRow, PackRow, FillPacked, UnpackRow
    <3>3. CASE KRow \/ NextDotHead \/ FinishHead \/ PvDim
      BY <3>3 DEF KRow, NextDotHead, FinishHead, PvDim
    <3>4. CASE VRow
      BY <3>4 DEF VRow
    <3>5. CASE StreamRow
      BY <3>5 DEF StreamRow
    <3>6. CASE StreamFinish \/ UNCHANGED vars
      BY <3>6 DEF StreamFinish, vars
    <3>7. QED
      BY <3>1, <3>2, <3>3, <3>4, <3>5, <3>6 DEF Next
  <2>2. QED
    BY <2>1 DEF Loops
<1>4. /\ pc' = "v_row" => ~ScalarPv /\ s' <= SEQ_LEN
      /\ pc' = "pv_dim" => ScalarPv /\ s' <= HEAD_DIM
      /\ pc' = "stream" => kernel = "streaming_stub"
      /\ pc' \in {"v_row", "pv_dim"} => kernel # "streaming_stub"
  <2>1. CASE StoreRow \/ PackRow \/ FillPacked \/ UnpackRow
    BY <2>1 DEF StoreRow, PackRow, FillPacked, UnpackRow, NextRow
  <2>2. CASE KRow \/ StreamRow \/ UNCHANGED vars
    BY <2>2 DEF KRow, StreamRow, vars, Loops
  <2>3. CASE NextDotHead \/ FinishHead \/ StreamFinish
    BY <2>3 DEF NextDotHead, FinishHead, StreamFinish, Loops
  <2>4. CASE VRow
    BY <2>4, ShapeAssumption DEF VRow, Loops, ShapeInv, Phases
  <2>5. CASE PvDim
    BY <2>5, RowSizes DEF PvDim, Loops, ShapeInv, Phases, Layout
  <2>6. CASE Softmax
    <3>1. PICK rows, init, exp, kept : SoftmaxOver(rows, init, exp, kept)
      BY <2>6 DEF Softmax, Bf16Softmax, Bf16RvvSoftmax, ExoSoftmax, MixedSoftmax,
         NativeVecSoftmax, AllfuSoftmax, StubSoftmax, Stub2Softmax, RvvStubSoftmax,
         NativeDqSoftmax
    <3>2. s' = 0 /\ pc' = (IF ScalarPv THEN "pv_dim" ELSE "v_row")
      BY <3>1 DEF SoftmaxOver
    <3>3. kernel # "streaming_stub"
      BY <2>6 DEF Softmax, Bf16Softmax, Bf16RvvSoftmax, ExoSoftmax, MixedSoftmax,
         NativeVecSoftmax, AllfuSoftmax, StubSoftmax, Stub2Softmax, RvvStubSoftmax,
         NativeDqSoftmax
    <3>4. SEQ_LEN \in Nat /\ HEAD_DIM \in Nat
      BY ShapeAssumption, RowSizes DEF ShapeInv, Layout
    <3>5. QED
      BY <3>2, <3>3, <3>4
  <2>7. QED
    BY <2>1, <2>2, <2>3, <2>4, <2>5, <2>6 DEF Next
<1>5. QED
  BY <1>2, <1>3, <1>4 DEF Loops

Hits(visits, a) == {m \in DOMAIN visits : visits[m] = a}

\* A loop over the items of line r loads each of them once more.
VisitsLine(visits, r, p) ==
  DOMAIN visits = 0 .. p - 1 /\ \A m \in 0 .. p - 1 : visits[m] = r * p + m

LEMMA BumpLine ==
  ASSUME NEW p \in Nat \ {0}, NEW r \in Nat, r + 1 <= Lines, Lines \in Nat,
         NEW counts, Once(counts, r, p), NEW visits, VisitsLine(visits, r, p)
  PROVE  Once(Bump(counts, visits), r + 1, p)
<1> DEFINE n == Lines
<1> HIDE DEF n
<1>1. r * p \in Nat /\ n * p \in Nat /\ (r + 1) * p = r * p + p /\ r + 1 <= n
  BY DEF n
<1>2. counts = [a \in 0 .. n * p - 1 |-> IF a < r * p THEN 1 ELSE 0]
  BY DEF Once, n
<1>3. DOMAIN visits = 0 .. p - 1 /\ \A m \in 0 .. p - 1 : visits[m] = r * p + m
  BY DEF VisitsLine
<1>4. ASSUME NEW a \in 0 .. n * p - 1
      PROVE  counts[a] + Cardinality({m \in DOMAIN visits : visits[m] = a})
               = IF a < (r + 1) * p THEN 1 ELSE 0
  <2> DEFINE hits == {m \in DOMAIN visits : visits[m] = a}
  <2>1. a \in Nat /\ counts[a] = IF a < r * p THEN 1 ELSE 0
    BY <1>1, <1>2
  <2>2. CASE r * p <= a /\ a < r * p + p
    <3>1. ASSUME NEW m \in 0 .. p - 1 PROVE visits[m] = a <=> m = a - r * p
      <4>1. visits[m] = r * p + m /\ m \in Int /\ r * p \in Int /\ a \in Int
        BY <1>1, <1>3, <2>1
      <4>2. QED
        BY <4>1
    <3>2. a - r * p \in 0 .. p - 1
      BY <1>1, <2>1, <2>2
    <3>3. hits = {a - r * p}
      BY <1>3, <3>1, <3>2
    <3>4. Cardinality(hits) = 1
      BY <3>3, FS_Singleton
    <3>5. QED
      BY <1>1, <2>1, <2>2, <3>4
  <2>3. CASE ~(r * p <= a /\ a < r * p + p)
    <3>1. hits = {}
      BY <1>1, <1>3, <2>1, <2>3
    <3>2. Cardinality(hits) = 0
      BY <3>1, FS_EmptySet
    <3>3. QED
      BY <1>1, <2>1, <2>3, <3>2
  <2>4. QED
    BY <2>2, <2>3
<1>5. Bump(counts, visits) = [a \in 0 .. n * p - 1 |->
        counts[a] + Cardinality({m \in DOMAIN visits : visits[m] = a})]
  BY <1>2 DEF Bump
<1>6. QED
  BY <1>4, <1>5 DEF Once, n

\* A loop over n lines from line b loads item x of each.
VisitsColumn(visits, b, n, x, p) ==
  DOMAIN visits = 0 .. n - 1 /\ \A i \in 0 .. n - 1 : visits[i] = (b + i) * p + x

LEMMA ColumnVisits ==
  ASSUME NEW p \in Nat \ {0}, NEW b \in Nat, NEW n \in Nat, NEW x \in 0 .. p - 1, NEW a \in Nat,
         NEW visits, VisitsColumn(visits, b, n, x, p)
  PROVE  Cardinality(Hits(visits, a))
           = IF b * p <= a /\ a < (b + n) * p /\ a % p = x THEN 1 ELSE 0
<1> DEFINE q == a \div p
           hits == Hits(visits, a)
<1>1. q \in Nat /\ a % p \in 0 .. p - 1 /\ a = q * p + (a % p)
  BY Division
<1>2. ASSUME NEW i \in 0 .. n - 1
      PROVE  (b + i) * p + x = a <=> b + i = q /\ x = a % p
  <2>1. b + i \in Nat
    OBVIOUS
  <2>2. ((b + i) * p + x) \div p = b + i /\ ((b + i) * p + x) % p = x
    BY <2>1, DivisionUnique
  <2>3. (b + i) * p + x = a => b + i = q /\ x = a % p
    BY <2>2
  <2>4. QED
    BY <1>1, <2>3
<1>3. b * p <= a <=> b <= q
  <2> HIDE DEF q
  <2>1. b <= q => b * p <= q * p /\ q * p \in Nat /\ b * p \in Nat
    BY <1>1
  <2>2. q + 1 <= b => (q + 1) * p <= b * p /\ (q + 1) * p = q * p + p
    BY <1>1
  <2>3. q * p \in Nat /\ b * p \in Nat
    BY <1>1
  <2>4. QED
    BY <1>1, <2>1, <2>2, <2>3
<1>4. a < (b + n) * p <=> q < b + n
  <2> HIDE DEF q
  <2>1. PICK top \in Nat : top = b + n
    OBVIOUS
  <2>2. top <= q => top * p <= q * p
    BY <1>1
  <2>3. q + 1 <= top => (q + 1) * p <= top * p /\ (q + 1) * p = q * p + p
    BY <1>1
  <2>4. q * p \in Nat /\ top * p \in Nat
    BY <1>1
  <2>5. a < top * p <=> q < top
    BY <1>1, <2>2, <2>3, <2>4
  <2>6. QED
    BY <2>1, <2>5
<1>5. \A i : i \in hits <=> i \in 0 .. n - 1 /\ b + i = q /\ x = a % p
  BY <1>2 DEF Hits, VisitsColumn
<1> HIDE DEF q, hits
<1>6. CASE b <= q /\ q < b + n /\ a % p = x
  <2>1. hits = {q - b}
    <3>1. q - b \in 0 .. n - 1 /\ b + (q - b) = q
      BY <1>1, <1>6
    <3>2. \A i \in 0 .. n - 1 : b + i = q => i = q - b
      BY <1>1
    <3>3. QED
      BY <1>5, <1>6, <3>1, <3>2
  <2>2. Cardinality(hits) = 1
    BY <2>1, FS_Singleton
  <2>3. QED
    BY <1>3, <1>4, <1>6, <2>2 DEF hits
<1>7. CASE ~(b <= q /\ q < b + n /\ a % p = x)
  <2>1. hits = {}
    BY <1>1, <1>5, <1>7
  <2>2. Cardinality(hits) = 0
    BY <2>1, FS_EmptySet
  <2>3. QED
    BY <1>3, <1>4, <1>7, <2>2 DEF hits
<1>8. QED
  BY <1>6, <1>7

\* One more of the elements lies before n + 1: element n, in item n \div q.
LEMMA ClampNext ==
  ASSUME NEW q \in Nat \ {0}, NEW b \in Nat, NEW n \in Nat
  PROVE  Clamp(n + 1, q, b) = Clamp(n, q, b) + (IF b = n \div q THEN 1 ELSE 0)
<1> DEFINE c == n \div q
<1>1. c \in Nat /\ n % q \in 0 .. q - 1 /\ n = c * q + (n % q)
  BY Division
<1>2. PICK z \in Nat : z = q * b
  OBVIOUS
<1> HIDE DEF c
<1>3. c * q \in Nat
  BY <1>1
<1>4. CASE b = c
  <2>1. z = c * q
    BY <1>1, <1>2, <1>4
  <2>2. QED
    BY <1>1, <1>2, <1>3, <1>4, <2>1 DEF Clamp, c
<1>5. CASE b < c
  <2>1. (b + 1) * q <= c * q /\ (b + 1) * q = z + q
    BY <1>1, <1>2, <1>5
  <2>2. QED
    BY <1>1, <1>2, <1>3, <1>5, <2>1 DEF Clamp, c
<1>6. CASE c < b
  <2>1. (c + 1) * q <= b * q /\ (c + 1) * q = c * q + q /\ b * q = z
    BY <1>1, <1>2, <1>6
  <2>2. QED
    BY <1>1, <1>2, <1>3, <1>6, <2>1 DEF Clamp, c
<1>7. QED
  BY <1>1, <1>4, <1>5, <1>6

LEMMA ClampEnds ==
  ASSUME NEW q \in Nat \ {0}, NEW p \in Nat, NEW b \in 0 .. p - 1
  PROVE  Clamp(0, q, b) = 0 /\ Clamp(q * p, q, b) = q
<1>1. q * b \in Nat /\ (q * b <= 0 => q * b = 0)
  OBVIOUS
<1>2. (b + 1) * q <= p * q /\ (b + 1) * q = q * b + q /\ p * q = q * p /\ q * p \in Nat
  OBVIOUS
<1>3. QED
  BY <1>1, <1>2 DEF Clamp

\* The loads of a row, whatever kernel addresses them, are those of its line.
LEMMA RowVisits ==
  ASSUME ShapeInv, Packed, h \in Heads, s \in Rows
  PROVE  /\ \A n \in 0 .. bytes_per_row - 1 :
              RowPlace(2 * n).byte = Line(h, s) * bytes_per_row + n
         /\ \A n \in 0 .. blocks_per_row - 1 :
              RowPlace(n * BLOCK).scale = Line(h, s) * blocks_per_row + n
<1>1. Sized /\ kernel \in Kernels /\ ~Baseline /\ kernel # "exo"
  BY DEF ShapeInv, Layout, Packed
<1>2. /\ HEAD_DIM \in Nat /\ bytes_per_row \in Nat /\ HEAD_DIM = 2 * bytes_per_row
      /\ blocks_per_row \in Nat /\ HEAD_DIM = blocks_per_row * BLOCK /\ BLOCK \in Nat \ {0}
  BY <1>1, RowSizes, ShapeAssumption
<1>3. ASSUME NEW n \in 0 .. bytes_per_row - 1
      PROVE  RowPlace(2 * n).byte = Line(h, s) * bytes_per_row + n
  <2>1. 2 * n \in Dims /\ (2 * n) \div 2 = n
    BY <1>2 DEF Dims
  <2>2. RowPlace(2 * n) = WrittenAt(h, s, 2 * n)
    BY <1>1, <2>1, PlacesAgree
  <2>3. QED
    BY <2>1, <2>2 DEF WrittenAt, Place
<1>4. ASSUME NEW n \in 0 .. blocks_per_row - 1
      PROVE  RowPlace(n * BLOCK).scale = Line(h, s) * blocks_per_row + n
  <2>1. n * BLOCK \in Dims
    <3>1. n \in Nat /\ (n + 1) * BLOCK <= blocks_per_row * BLOCK /\ n * BLOCK \in Nat
          /\ (n + 1) * BLOCK = n * BLOCK + BLOCK
      BY <1>2
    <3>2. QED
      BY <1>2, <3>1 DEF Dims
  <2>2. (n * BLOCK) \div BLOCK = n
    <3>1. (n * BLOCK + 0) \div BLOCK = n
      BY <1>2, DivisionUnique
    <3>2. n * BLOCK + 0 = n * BLOCK
      BY <1>2
    <3>3. QED
      BY <3>1, <3>2
  <2>3. RowPlace(n * BLOCK) = WrittenAt(h, s, n * BLOCK)
    BY <1>1, <2>1, PlacesAgree
  <2>4. QED
    BY <2>2, <2>3 DEF WrittenAt, Place
<1>5. QED
  BY <1>3, <1>4

\* Every packed byte a kernel loads comes with the scale byte of its block.
LEMMA ScalesToo ==
  ASSUME ShapeInv, Packed
  PROVE  ScaleLoaded
  BY DEF ShapeInv, Layout, Packed, Kernels, Baseline, ScaleLoaded, ScaleApplied, ScalePinned

LEMMA SizesOfLines ==
  ASSUME ShapeInv
  PROVE  /\ bytes_per_row \in Nat \ {0} /\ blocks_per_row \in Nat \ {0} /\ Lines \in Nat
         /\ \A k \in Heads, i \in Rows : Line(k, i) \in Nat /\ Line(k, i) + 1 <= Lines
<1>1. Sized
  BY DEF ShapeInv, Layout
<1>2. bytes_per_row \in Nat \ {0} /\ blocks_per_row \in Nat \ {0}
  BY <1>1, RowSizes
<1>3. \A k \in Heads, i \in Rows : Line(k, i) \in Nat /\ Line(k, i) + 1 <= Lines
  BY LineFacts DEF Lines
<1>4. Lines \in Nat
  BY ShapeAssumption DEF Lines
<1>5. QED
  BY <1>2, <1>3, <1>4

LEMMA RowLoadsOnce ==
  ASSUME ShapeInv, Packed, h \in Heads, s \in Rows, NEW t, LoadsOf(t, Line(h, s))
  PROVE  /\ Once(RowLoads(t).byte, Line(h, s) + 1, bytes_per_row)
         /\ Once(RowLoads(t).scale, Line(h, s) + 1, blocks_per_row)
<1>1. /\ Line(h, s) \in Nat /\ Line(h, s) + 1 <= Lines /\ Lines \in Nat
      /\ bytes_per_row \in Nat \ {0} /\ blocks_per_row \in Nat \ {0}
  BY SizesOfLines
<1>2. PICK bytes, scale_bytes :
        /\ bytes = [n \in 0 .. bytes_per_row - 1 |-> RowPlace(2 * n).byte]
        /\ scale_bytes = [n \in 0 .. blocks_per_row - 1 |-> RowPlace(n * BLOCK).scale]
  OBVIOUS
<1>3. /\ VisitsLine(bytes, Line(h, s), bytes_per_row)
      /\ VisitsLine(scale_bytes, Line(h, s), blocks_per_row)
  BY <1>2, RowVisits DEF VisitsLine
<1>4. RowLoads(t) = [byte |-> Bump(loads[t].byte, bytes), scale |-> Bump(loads[t].scale, scale_bytes)]
  BY <1>2, ScalesToo DEF RowLoads, Load
<1>5. Once(Bump(loads[t].byte, bytes), Line(h, s) + 1, bytes_per_row)
  BY <1>1, <1>3, BumpLine DEF LoadsOf
<1>6. Once(Bump(loads[t].scale, scale_bytes), Line(h, s) + 1, blocks_per_row)
  BY <1>1, <1>3, BumpLine DEF LoadsOf
<1>7. QED
  BY <1>4, <1>5, <1>6

\* A loop over the rows of V loads item d \div q of each line for element d.
LEMMA BumpColumn ==
  ASSUME NEW p \in Nat \ {0}, NEW q \in Nat \ {0}, NEW d \in Nat, d \div q \in 0 .. p - 1,
         h \in Heads, NEW counts, OnceEach(h, counts, d, p, q),
         NEW visits, VisitsColumn(visits, h * SEQ_LEN, SEQ_LEN, d \div q, p)
  PROVE  OnceEach(h, Bump(counts, visits), d + 1, p, q)
<1> DEFINE n == Lines
           b == h * SEQ_LEN
           x == d \div q
<1>1. b \in Nat /\ SEQ_LEN \in Nat /\ (h + 1) * SEQ_LEN = b + SEQ_LEN /\ n \in Nat
      /\ x \in 0 .. p - 1
  BY ShapeAssumption DEF Heads, Lines
<1>2. VisitsColumn(visits, b, SEQ_LEN, x, p)
  OBVIOUS
<1>3. counts = [a \in 0 .. n * p - 1 |->
        IF a < b * p THEN q ELSE IF a < (b + SEQ_LEN) * p THEN Clamp(d, q, a % p) ELSE 0]
  BY <1>1 DEF OnceEach
<1> HIDE DEF n, b, x
<1>4. ASSUME NEW a \in 0 .. n * p - 1
      PROVE  counts[a] + Cardinality(Hits(visits, a))
               = IF a < b * p THEN q
                 ELSE IF a < (b + SEQ_LEN) * p THEN Clamp(d + 1, q, a % p) ELSE 0
  <2>1. a \in Nat /\ a % p \in Nat /\ b * p \in Nat /\ (b + SEQ_LEN) * p \in Nat
        /\ b * p <= (b + SEQ_LEN) * p
    BY <1>1
  <2>2. Cardinality(Hits(visits, a))
          = IF b * p <= a /\ a < (b + SEQ_LEN) * p /\ a % p = x THEN 1 ELSE 0
    <3>1. b \in Nat /\ SEQ_LEN \in Nat /\ x \in 0 .. p - 1 /\ a \in Nat
      BY <1>1, <2>1
    <3>2. QED
      BY <1>2, <3>1, ColumnVisits
  <2>3. counts[a] = IF a < b * p THEN q
                    ELSE IF a < (b + SEQ_LEN) * p THEN Clamp(d, q, a % p) ELSE 0
    BY <1>3
  <2>4. Clamp(d + 1, q, a % p) = Clamp(d, q, a % p) + (IF a % p = x THEN 1 ELSE 0)
    BY <2>1, ClampNext DEF x
  <2>5. Clamp(d, q, a % p) \in Int
    <3>1. q * (a % p) \in Nat
      BY <2>1
    <3>2. QED
      BY <3>1 DEF Clamp
  <2>6. QED
    BY <2>1, <2>2, <2>3, <2>4, <2>5
<1>5. Bump(counts, visits) = [a \in 0 .. n * p - 1 |->
        counts[a] + Cardinality(Hits(visits, a))]
  BY <1>3 DEF Bump, Hits
<1>6. Bump(counts, visits) = [a \in 0 .. n * p - 1 |->
        IF a < b * p THEN q
        ELSE IF a < (b + SEQ_LEN) * p THEN Clamp(d + 1, q, a % p) ELSE 0]
  BY <1>4, <1>5
<1>7. QED
  BY <1>1, <1>6 DEF OnceEach, n, b

LEMMA PvLoadsEach ==
  ASSUME ShapeInv, Packed, h \in Heads, s \in Dims,
         OnceEach(h, loads["V"].byte, s, bytes_per_row, 2),
         OnceEach(h, loads["V"].scale, s, blocks_per_row, BLOCK)
  PROVE  /\ OnceEach(h, PvLoads(s).byte, s + 1, bytes_per_row, 2)
         /\ OnceEach(h, PvLoads(s).scale, s + 1, blocks_per_row, BLOCK)
<1>1. Sized /\ s \in Nat /\ BLOCK \in Nat \ {0}
      /\ bytes_per_row \in Nat \ {0} /\ blocks_per_row \in Nat \ {0}
  BY SizesOfLines, ShapeAssumption DEF ShapeInv, Layout, Dims
<1>2. s \div 2 \in 0 .. bytes_per_row - 1 /\ s \div BLOCK \in 0 .. blocks_per_row - 1
  <2>1. 0 \in Rows
    BY ShapeAssumption DEF Rows
  <2>2. QED
    BY <1>1, <2>1, PvPlaces
<1>3. PICK bytes, scale_bytes :
        /\ bytes = [i \in Rows |-> PvPlace(i, s).byte]
        /\ scale_bytes = [i \in Rows |-> PvPlace(i, s).scale]
  OBVIOUS
<1>4. \A i \in Rows : /\ PvPlace(i, s).byte = Line(h, i) * bytes_per_row + (s \div 2)
                      /\ PvPlace(i, s).scale = Line(h, i) * blocks_per_row + (s \div BLOCK)
  BY <1>1, PvPlaces DEF Place
<1>5. /\ VisitsColumn(bytes, h * SEQ_LEN, SEQ_LEN, s \div 2, bytes_per_row)
      /\ VisitsColumn(scale_bytes, h * SEQ_LEN, SEQ_LEN, s \div BLOCK, blocks_per_row)
  BY <1>3, <1>4 DEF VisitsColumn, Rows, Line
<1>6. PvLoads(s) = [byte |-> Bump(loads["V"].byte, bytes), scale |-> Bump(loads["V"].scale, scale_bytes)]
  BY <1>3, ScalesToo DEF PvLoads, Load
<1>7. OnceEach(h, Bump(loads["V"].byte, bytes), s + 1, bytes_per_row, 2)
  <2>1. PICK two \in Nat \ {0} : two = 2
    OBVIOUS
  <2>2. /\ s \div two \in 0 .. bytes_per_row - 1
        /\ VisitsColumn(bytes, h * SEQ_LEN, SEQ_LEN, s \div two, bytes_per_row)
        /\ OnceEach(h, loads["V"].byte, s, bytes_per_row, two)
    BY <1>2, <1>5, <2>1
  <2>3. OnceEach(h, Bump(loads["V"].byte, bytes), s + 1, bytes_per_row, two)
    BY <1>1, <2>2, BumpColumn
  <2>4. QED
    BY <2>1, <2>3
<1>8. OnceEach(h, Bump(loads["V"].scale, scale_bytes), s + 1, blocks_per_row, BLOCK)
  BY <1>1, <1>2, <1>5, BumpColumn
<1>9. QED
  BY <1>6, <1>7, <1>8

\* Before the first head, and from one head to the next.
LEMMA EachStart ==
  ASSUME NEW p \in Nat \ {0}, NEW q \in Nat \ {0}, NEW counts, Once(counts, 0, p)
  PROVE  OnceEach(0, counts, 0, p, q)
<1>1. ASSUME NEW a \in 0 .. Lines * p - 1
      PROVE  (IF a < 0 * p THEN 1 ELSE 0)
               = (IF a < 0 * SEQ_LEN * p THEN q
                  ELSE IF a < (0 + 1) * SEQ_LEN * p THEN Clamp(0, q, a % p) ELSE 0)
  <2>1. Lines * p \in Nat
    BY ShapeAssumption DEF Lines
  <2>2. a \in Nat /\ 0 * p = 0 /\ 0 * SEQ_LEN * p = 0
    BY <2>1, ShapeAssumption
  <2>3. a % p \in 0 .. p - 1
    BY <2>2
  <2>4. Clamp(0, q, a % p) = 0
    BY <2>3, ClampEnds
  <2>5. QED
    BY <2>2, <2>4
<1>2. QED
  BY <1>1 DEF Once, OnceEach

LEMMA EachNext ==
  ASSUME NEW p \in Nat \ {0}, NEW q \in Nat \ {0}, NEW k \in Heads,
         NEW counts, OnceEach(k, counts, q * p, p, q)
  PROVE  OnceEach(k + 1, counts, 0, p, q)
<1>1. ASSUME NEW a \in 0 .. Lines * p - 1
      PROVE  (IF a < k * SEQ_LEN * p THEN q
              ELSE IF a < (k + 1) * SEQ_LEN * p THEN Clamp(q * p, q, a % p) ELSE 0)
               = (IF a < (k + 1) * SEQ_LEN * p THEN q
                  ELSE IF a < (k + 1 + 1) * SEQ_LEN * p THEN Clamp(0, q, a % p) ELSE 0)
  <2>1. Lines * p \in Nat
    BY ShapeAssumption DEF Lines
  <2>2. a \in Nat
    BY <2>1
  <2>3. a % p \in 0 .. p - 1
    BY <2>2
  <2>4. Clamp(0, q, a % p) = 0 /\ Clamp(q * p, q, a % p) = q
    BY <2>3, ClampEnds
  <2>5. k * SEQ_LEN \in Nat /\ (k + 1) * SEQ_LEN = k * SEQ_LEN + SEQ_LEN
    BY ShapeAssumption DEF Heads
  <2>6. PICK z \in Nat, w \in Nat : z = k * SEQ_LEN /\ w = (k + 1) * SEQ_LEN
    BY <2>5, ShapeAssumption
  <2>7. z * p <= w * p /\ z * p \in Nat /\ w * p \in Nat
    BY <2>5, <2>6, ShapeAssumption
  <2>8. QED
    BY <2>2, <2>4, <2>6, <2>7
<1>2. QED
  BY <1>1 DEF OnceEach

LEMMA InitCounted == Init => Counted
<1> SUFFICES ASSUME Init PROVE Counted
  OBVIOUS
<1>1. pc = "pack" /\ Lines \in Nat
  BY ShapeAssumption DEF Init, Lines
<1>2. /\ loads = [t \in Tensors |-> [byte |-> [a \in DOMAIN pk[t] |-> 0],
                                     scale |-> [a \in DOMAIN sc[t] |-> 0]]]
      /\ \A t \in Tensors : /\ DOMAIN pk[t] = 0 .. Lines * bytes_per_row - 1
                            /\ DOMAIN sc[t] = 0 .. Lines * blocks_per_row - 1
  BY DEF Init, Lines
<1>3. bytes_per_row \in Nat \ {0} /\ blocks_per_row \in Nat \ {0}
  BY RowSizes DEF Init, Sized
<1>4. ASSUME NEW t \in Tensors PROVE LoadsOf(t, 0)
  <2>1. /\ loads[t].byte = [a \in 0 .. Lines * bytes_per_row - 1 |-> 0]
        /\ loads[t].scale = [a \in 0 .. Lines * blocks_per_row - 1 |-> 0]
    BY <1>2
  <2>2. /\ \A a \in 0 .. Lines * bytes_per_row - 1 : ~(a < 0 * bytes_per_row)
        /\ \A a \in 0 .. Lines * blocks_per_row - 1 : ~(a < 0 * blocks_per_row)
    BY <1>1, <1>3
  <2>3. QED
    BY <2>1, <2>2 DEF LoadsOf, Once
<1>5. LinesOfK = 0 /\ "K" \in Tensors /\ "V" \in Tensors
  BY <1>1 DEF LinesOfK, Tensors
<1>6. QED
  BY <1>1, <1>2, <1>4, <1>5 DEF Counted

\* What the invariant says of V, when all rows before a head or a line or a
\* dimension are counted.
CountedV ==
  /\ pc = "pack" => LoadsOf("V", 0)
  /\ pc # "pack" /\ ~DotOnly /\ ~ScalarPv => LoadsOf("V", LinesOfV)
  /\ pc # "pack" /\ ~DotOnly /\ ScalarPv =>
       /\ OnceEach(h, loads["V"].byte, DimsOfV, bytes_per_row, 2)
       /\ OnceEach(h, loads["V"].scale, DimsOfV, blocks_per_row, BLOCK)

LEMMA CountedParts ==
  Counted <=> /\ loads = [t \in Tensors |-> loads[t]]
              /\ Packed => LoadsOf("K", LinesOfK) /\ CountedV
  BY DEF Counted, CountedV

\* The loads of a tensor stay while no row of it is read.
LEMMA LoadsKept ==
  ASSUME UNCHANGED input
  PROVE  \A t, n : loads'[t] = loads[t] => (LoadsOf(t, n)' <=> LoadsOf(t, n))
  BY InputKept DEF LoadsOf, Once

LEMMA EachKept ==
  ASSUME UNCHANGED input, loads'["V"] = loads["V"], CountedV,
         pc # "pack", pc' # "pack", h' = h, LinesOfV' = LinesOfV, DimsOfV' = DimsOfV
  PROVE  CountedV'
<1>1. DotOnly' = DotOnly /\ ScalarPv' = ScalarPv /\ bytes_per_row' = bytes_per_row
      /\ blocks_per_row' = blocks_per_row
  BY InputKept
<1>2. ~DotOnly /\ ~ScalarPv => LoadsOf("V", LinesOfV)'
  BY <1>1 DEF CountedV, LoadsOf, Once
<1>3. ~DotOnly /\ ScalarPv =>
        /\ OnceEach(h, loads["V"].byte, DimsOfV, bytes_per_row, 2)'
        /\ OnceEach(h, loads["V"].scale, DimsOfV, blocks_per_row, BLOCK)'
  BY <1>1 DEF CountedV, OnceEach
<1>4. QED
  BY <1>1, <1>2, <1>3 DEF CountedV

LEMMA FillingCounted ==
  ASSUME ShapeInv, Counted, StoreRow \/ PackRow \/ FillPacked \/ UnpackRow
  PROVE  Counted'
<1>1. UNCHANGED <<input, loads>>
  BY DEF StoreRow, PackRow, FillPacked, UnpackRow
<1>2. CASE ~Packed
  BY <1>1, <1>2, InputKept DEF Counted
<1>3. CASE Packed
  <2>1. /\ pc = "pack"
        /\ \/ pc' = "pack"
           \/ pc' \in {"k_row", "stream"} /\ h' = 0 /\ s' = 0
    <3>1. CASE StoreRow \/ UnpackRow
      BY <1>3, <3>1 DEF StoreRow, UnpackRow, Packed, ShapeInv, Phases
    <3>2. CASE PackRow
      BY <1>3, <3>2 DEF PackRow, NextRow, Packed
    <3>3. CASE FillPacked
      BY <3>3 DEF FillPacked, ShapeInv, Phases
    <3>4. QED
      BY <3>1, <3>2, <3>3
  <2>2. LoadsOf("K", 0) /\ LoadsOf("V", 0)
    BY <1>3, <2>1 DEF Counted, LinesOfK
  <2>3. LoadsOf("K", 0)' /\ LoadsOf("V", 0)'
    BY <1>1, <2>2, LoadsKept
  <2>4. CASE pc' = "pack"
    BY <1>1, <2>3, <2>4 DEF Counted, LinesOfK
  <2>5. CASE pc' # "pack"
    <3>1. h' = 0 /\ s' = 0 /\ pc' \in {"k_row", "stream"} /\ 0 * SEQ_LEN = 0
      BY <2>1, <2>5, ShapeAssumption
    <3>2. LinesOfK' = 0 /\ LinesOfV' = 0 /\ DimsOfV' = 0
      BY <3>1 DEF LinesOfK, LinesOfV, DimsOfV
    <3>3. /\ OnceEach(0, loads["V"].byte, 0, bytes_per_row, 2)
          /\ OnceEach(0, loads["V"].scale, 0, blocks_per_row, BLOCK)
      <4>1. /\ Once(loads["V"].byte, 0, bytes_per_row)
            /\ Once(loads["V"].scale, 0, blocks_per_row)
        BY <2>2 DEF LoadsOf
      <4>2. bytes_per_row \in Nat \ {0} /\ blocks_per_row \in Nat \ {0} /\ BLOCK \in Nat \ {0}
            /\ 2 \in Nat \ {0}
        BY SizesOfLines, ShapeAssumption
      <4>3. QED
        BY <4>1, <4>2, EachStart
    <3>4. /\ OnceEach(h, loads["V"].byte, DimsOfV, bytes_per_row, 2)'
          /\ OnceEach(h, loads["V"].scale, DimsOfV, blocks_per_row, BLOCK)'
      BY <1>1, <3>1, <3>2, <3>3, InputKept DEF OnceEach
    <3>5. QED
      BY <1>1, <2>3, <2>5, <3>2, <3>4, CountedParts DEF Counted
  <2>6. QED
    BY <2>4, <2>5
<1>4. QED
  BY <1>2, <1>3

\* The steps of a head that read no packed row, and those between heads.
LEMMA BetweenRowsCounted ==
  ASSUME ShapeInv, Loops, Counted,
         NextDotHead \/ Softmax \/ FinishHead \/ StreamFinish \/ UNCHANGED vars
  PROVE  Counted'
<1>1. UNCHANGED <<input, loads>>
  <2>1. CASE Softmax
    <3>1. PICK rows, init, exp, kept : SoftmaxOver(rows, init, exp, kept)
      BY <2>1 DEF Softmax, Bf16Softmax, Bf16RvvSoftmax, ExoSoftmax, MixedSoftmax,
         NativeVecSoftmax, AllfuSoftmax, StubSoftmax, Stub2Softmax, RvvStubSoftmax,
         NativeDqSoftmax
    <3>2. QED
      BY <3>1 DEF SoftmaxOver
  <2>2. CASE ~Softmax
    BY <2>2 DEF NextDotHead, FinishHead, StreamFinish, vars
  <2>3. QED
    BY <2>1, <2>2
<1>2. CASE ~Packed
  BY <1>1, <1>2, InputKept DEF Counted
<1> SUFFICES ASSUME Packed PROVE Counted'
  BY <1>2
<1>3. /\ Packed' /\ loads' = [t \in Tensors |-> loads'[t]] /\ DotOnly' = DotOnly
      /\ ScalarPv' = ScalarPv /\ LoadsOf("K", LinesOfK) /\ CountedV
  BY <1>1, InputKept, CountedParts
<1>4. ASSUME LinesOfK' = LinesOfK PROVE LoadsOf("K", LinesOfK)'
  BY <1>1, <1>3, <1>4, LoadsKept
<1>5. ASSUME h' = h, pc # "pack", pc' # "pack", LinesOfK' = LinesOfK, LinesOfV' = LinesOfV,
             DimsOfV' = DimsOfV
      PROVE  Counted'
  BY <1>1, <1>3, <1>4, <1>5, EachKept, CountedParts DEF Counted, CountedV
<1>6. SEQ_LEN \in Nat /\ SEQ_LEN # 0
  BY ShapeAssumption
<1>7. CASE Softmax
  <2>1. /\ pc = "k_row" /\ s = SEQ_LEN /\ s' = 0 /\ h' = h /\ pc' \in {"v_row", "pv_dim"}
        /\ h \in Nat
    <3>1. PICK rows, init, exp, kept : SoftmaxOver(rows, init, exp, kept)
      BY <1>7 DEF Softmax, Bf16Softmax, Bf16RvvSoftmax, ExoSoftmax, MixedSoftmax,
         NativeVecSoftmax, AllfuSoftmax, StubSoftmax, Stub2Softmax, RvvStubSoftmax,
         NativeDqSoftmax
    <3>2. QED
      BY <3>1, ShapeAssumption DEF SoftmaxOver, ShapeInv, Phases
  <2>2. h * SEQ_LEN \in Nat /\ (h + 1) * SEQ_LEN = h * SEQ_LEN + SEQ_LEN
    BY <1>6, <2>1
  <2>3. LinesOfK' = LinesOfK /\ LinesOfV' = LinesOfV /\ DimsOfV' = DimsOfV
    BY <2>1, <2>2 DEF LinesOfK, LinesOfV, DimsOfV
  <2>4. QED
    BY <1>5, <2>1, <2>3
<1>8. CASE UNCHANGED vars
  <2>1. UNCHANGED <<pc, h, s>>
    BY <1>8 DEF vars
  <2>2. LinesOfK' = LinesOfK /\ LinesOfV' = LinesOfV /\ DimsOfV' = DimsOfV
    BY <2>1 DEF LinesOfK, LinesOfV, DimsOfV
  <2>3. CASE pc # "pack"
    BY <1>5, <2>1, <2>2, <2>3
  <2>4. CASE pc = "pack"
    <3>1. LoadsOf("V", 0)'
      BY <1>1, <1>3, <2>4, LoadsKept DEF CountedV
    <3>2. QED
      BY <1>3, <1>4, <2>1, <2>2, <2>4, <3>1 DEF Counted
  <2>5. QED
    BY <2>3, <2>4
<1>9. CASE NextDotHead \/ FinishHead \/ StreamFinish
  <2>1. /\ s' = 0 /\ h' = h + 1 /\ h \in Heads /\ h \in Nat
        /\ pc' \in {"k_row", "stream"} /\ (pc' = "stream" <=> pc = "stream")
        /\ \/ pc = "k_row" /\ s = SEQ_LEN /\ DotOnly
           \/ pc \in {"v_row", "stream"} /\ s = SEQ_LEN /\ ~DotOnly
           \/ pc = "pv_dim" /\ s = HEAD_DIM /\ ~DotOnly
    BY <1>9, ShapeAssumption DEF NextDotHead, FinishHead, StreamFinish, ShapeInv, Phases, Heads
  <2>2. /\ h' * SEQ_LEN + s' = (h + 1) * SEQ_LEN /\ h' * SEQ_LEN = (h + 1) * SEQ_LEN
        /\ h * SEQ_LEN + SEQ_LEN = (h + 1) * SEQ_LEN
    BY <1>6, <2>1
  <2>3. LinesOfK' = LinesOfK
    <3>1. LinesOfK' = (h + 1) * SEQ_LEN
      BY <2>1, <2>2 DEF LinesOfK
    <3>2. LinesOfK = (h + 1) * SEQ_LEN
      BY <2>1, <2>2 DEF LinesOfK
    <3>3. QED
      BY <3>1, <3>2
  <2>4. ~DotOnly /\ ~ScalarPv => LoadsOf("V", LinesOfV)'
    <3> SUFFICES ASSUME ~DotOnly, ~ScalarPv PROVE LoadsOf("V", LinesOfV)'
      OBVIOUS
    <3>1. pc # "pv_dim"
      BY DEF Loops
    <3>2. LinesOfV' = LinesOfV
      <4>1. LinesOfV' = (h + 1) * SEQ_LEN
        BY <2>1, <2>2 DEF LinesOfV
      <4>2. LinesOfV = (h + 1) * SEQ_LEN
        BY <2>1, <2>2, <3>1 DEF LinesOfV
      <4>3. QED
        BY <4>1, <4>2
    <3>3. LoadsOf("V", LinesOfV)
      BY <1>3, <2>1 DEF CountedV
    <3>4. QED
      BY <1>1, <3>2, <3>3, LoadsKept
  <2>5. ~DotOnly /\ ScalarPv =>
          /\ OnceEach(h, loads["V"].byte, DimsOfV, bytes_per_row, 2)'
          /\ OnceEach(h, loads["V"].scale, DimsOfV, blocks_per_row, BLOCK)'
    <3> SUFFICES ASSUME ~DotOnly, ScalarPv
                 PROVE  /\ OnceEach(h, loads["V"].byte, DimsOfV, bytes_per_row, 2)'
                        /\ OnceEach(h, loads["V"].scale, DimsOfV, blocks_per_row, BLOCK)'
      OBVIOUS
    <3>1. pc = "pv_dim" /\ s = HEAD_DIM
      BY <2>1 DEF Loops, ScalarPv, DotOnly
    <3>2. /\ OnceEach(h, loads["V"].byte, HEAD_DIM, bytes_per_row, 2)
          /\ OnceEach(h, loads["V"].scale, HEAD_DIM, blocks_per_row, BLOCK)
      BY <1>3, <3>1 DEF CountedV, DimsOfV
    <3>3. /\ bytes_per_row \in Nat \ {0} /\ blocks_per_row \in Nat \ {0} /\ BLOCK \in Nat \ {0}
          /\ HEAD_DIM = 2 * bytes_per_row /\ HEAD_DIM = BLOCK * blocks_per_row
      BY RowSizes, ShapeAssumption DEF ShapeInv, Layout
    <3>4. PICK two \in Nat \ {0} : two = 2
      OBVIOUS
    <3>5. OnceEach(h + 1, loads["V"].byte, 0, bytes_per_row, two)
      BY <2>1, <3>2, <3>3, <3>4, EachNext
    <3>6. OnceEach(h + 1, loads["V"].scale, 0, blocks_per_row, BLOCK)
      BY <2>1, <3>2, <3>3, EachNext
    <3>7. DimsOfV' = 0
      BY <2>1 DEF DimsOfV
    <3>8. QED
      BY <1>1, <2>1, <3>4, <3>5, <3>6, <3>7, InputKept DEF OnceEach
  <2>6. pc' # "pack" /\ LoadsOf("K", LinesOfK)'
    BY <1>4, <2>1, <2>3
  <2>7. QED
    BY <1>3, <2>4, <2>5, <2>6 DEF Counted
<1>10. QED
  BY <1>7, <1>8, <1>9

\* The steps that read.
LEMMA ReadingCounted ==
  ASSUME ShapeInv, Loops, Counted, KRow \/ VRow \/ PvDim \/ StreamRow
  PROVE  Counted'
<1>1. /\ UNCHANGED <<input, pc, h>> /\ s' = s + 1 /\ h \in Heads /\ h \in Nat /\ s \in Nat
      /\ pc \in {"k_row", "v_row", "pv_dim", "stream"} /\ (pc # "pv_dim" => s \in Rows)
  BY ShapeAssumption DEF KRow, VRow, PvDim, StreamRow, ShapeInv, Phases, Heads, Rows
<1>2. SEQ_LEN \in Nat /\ h * SEQ_LEN \in Nat /\ (h + 1) * SEQ_LEN \in Nat
      /\ Line(h, s) = h * SEQ_LEN + s /\ Line(h, s) + 1 = h * SEQ_LEN + (s + 1)
  BY <1>1, ShapeAssumption DEF Line
<1>3. /\ loads = [t \in Tensors |-> loads[t]] /\ "K" \in Tensors /\ "V" \in Tensors
      /\ Packed' = Packed /\ DotOnly' = DotOnly /\ ScalarPv' = ScalarPv
      /\ (Packed => LoadsOf("K", LinesOfK) /\ CountedV)
  BY <1>1, InputKept, CountedParts DEF Tensors
<1>4. loads' = [t \in Tensors |-> loads'[t]]
  <2>1. UNCHANGED loads \/ (\E t, x : loads' = [loads EXCEPT ![t] = x])
        \/ loads' = [t \in Tensors |-> RowLoads(t)]
    BY DEF KRow, VRow, PvDim, StreamRow, Loads
  <2>2. QED
    BY <1>3, <2>1
<1>5. CASE ~Packed
  BY <1>3, <1>4, <1>5 DEF Counted
<1> SUFFICES ASSUME Packed PROVE Counted'
  BY <1>5
<1>6. CASE KRow
  <2>1. pc = "k_row" /\ loads' = [loads EXCEPT !["K"] = RowLoads("K")]
    BY <1>6 DEF KRow, Loads
  <2>2. loads'["K"] = RowLoads("K") /\ loads'["V"] = loads["V"]
    BY <1>3, <2>1
  <2>3. /\ LinesOfK = Line(h, s) /\ LinesOfK' = Line(h, s) + 1
        /\ LinesOfV' = LinesOfV /\ DimsOfV' = DimsOfV
    BY <1>1, <1>2, <2>1 DEF LinesOfK, LinesOfV, DimsOfV
  <2>4. /\ Once(RowLoads("K").byte, Line(h, s) + 1, bytes_per_row)
        /\ Once(RowLoads("K").scale, Line(h, s) + 1, blocks_per_row)
    BY <1>1, <1>3, <2>1, <2>3, RowLoadsOnce
  <2>5. LoadsOf("K", LinesOfK)'
    BY <1>1, <2>2, <2>3, <2>4, InputKept DEF LoadsOf, Once
  <2>6. CountedV'
    BY <1>1, <1>3, <2>1, <2>2, <2>3, EachKept
  <2>7. QED
    BY <1>3, <1>4, <2>5, <2>6 DEF Counted, CountedV
<1>7. CASE VRow
  <2>1. pc = "v_row" /\ loads' = [loads EXCEPT !["V"] = RowLoads("V")]
    BY <1>7 DEF VRow, Loads
  <2>2. loads'["V"] = RowLoads("V") /\ loads'["K"] = loads["K"]
    BY <1>3, <2>1
  <2>3. LinesOfV = Line(h, s) /\ LinesOfV' = Line(h, s) + 1 /\ LinesOfK' = LinesOfK
    BY <1>1, <1>2, <2>1 DEF LinesOfK, LinesOfV
  <2>4. ~ScalarPv /\ ~DotOnly
    BY <2>1 DEF Loops, ShapeInv, Phases
  <2>5. /\ Once(RowLoads("V").byte, Line(h, s) + 1, bytes_per_row)
        /\ Once(RowLoads("V").scale, Line(h, s) + 1, blocks_per_row)
    BY <1>1, <1>3, <2>1, <2>3, <2>4, RowLoadsOnce DEF CountedV
  <2>6. LoadsOf("V", LinesOfV)'
    BY <1>1, <2>2, <2>3, <2>5, InputKept DEF LoadsOf, Once
  <2>7. LoadsOf("K", LinesOfK)'
    BY <1>1, <1>3, <2>2, <2>3, LoadsKept
  <2>8. QED
    BY <1>1, <1>3, <1>4, <2>1, <2>4, <2>6, <2>7 DEF Counted
<1>8. CASE PvDim
  <2>1. pc = "pv_dim" /\ s < HEAD_DIM /\ loads' = [loads EXCEPT !["V"] = PvLoads(s)]
    BY <1>8 DEF PvDim
  <2>2. loads'["V"] = PvLoads(s) /\ loads'["K"] = loads["K"]
    BY <1>3, <2>1
  <2>3. DimsOfV = s /\ DimsOfV' = s + 1 /\ LinesOfK' = LinesOfK
    BY <1>1, <1>2, <2>1 DEF LinesOfK, DimsOfV
  <2>4. ScalarPv /\ ~DotOnly
    BY <2>1 DEF Loops, ShapeInv, Phases
  <2>5. s \in Dims
    BY <1>1, <2>1, RowSizes DEF ShapeInv, Layout, Dims
  <2>6. /\ OnceEach(h, PvLoads(s).byte, s + 1, bytes_per_row, 2)
        /\ OnceEach(h, PvLoads(s).scale, s + 1, blocks_per_row, BLOCK)
    BY <1>1, <1>3, <2>1, <2>3, <2>4, <2>5, PvLoadsEach DEF CountedV
  <2>7. /\ OnceEach(h, loads["V"].byte, DimsOfV, bytes_per_row, 2)'
        /\ OnceEach(h, loads["V"].scale, DimsOfV, blocks_per_row, BLOCK)'
    BY <1>1, <2>2, <2>3, <2>6, InputKept DEF OnceEach
  <2>8. LoadsOf("K", LinesOfK)'
    BY <1>1, <1>3, <2>2, <2>3, LoadsKept
  <2>9. QED
    BY <1>1, <1>3, <1>4, <2>1, <2>4, <2>7, <2>8 DEF Counted
<1>9. CASE StreamRow
  <2>1. pc = "stream" /\ loads' = [t \in Tensors |-> RowLoads(t)]
    BY <1>9 DEF StreamRow
  <2>2. loads'["V"] = RowLoads("V") /\ loads'["K"] = RowLoads("K")
    BY <1>3, <2>1
  <2>3. /\ LinesOfV = Line(h, s) /\ LinesOfV' = Line(h, s) + 1
        /\ LinesOfK = Line(h, s) /\ LinesOfK' = Line(h, s) + 1
    BY <1>1, <1>2, <2>1 DEF LinesOfK, LinesOfV
  <2>4. ~ScalarPv /\ ~DotOnly
    BY <2>1 DEF Loops, ScalarPv, DotOnly
  <2>5. LoadsOf("K", Line(h, s)) /\ LoadsOf("V", Line(h, s))
    BY <1>3, <2>1, <2>3, <2>4 DEF CountedV
  <2>6. \A t \in Tensors :
          LoadsOf(t, Line(h, s)) =>
            /\ Once(RowLoads(t).byte, Line(h, s) + 1, bytes_per_row)
            /\ Once(RowLoads(t).scale, Line(h, s) + 1, blocks_per_row)
    BY <1>1, <2>1, RowLoadsOnce
  <2>7. LoadsOf("V", LinesOfV)' /\ LoadsOf("K", LinesOfK)'
    BY <1>1, <1>3, <2>2, <2>3, <2>5, <2>6, InputKept DEF LoadsOf, Once
  <2>8. QED
    BY <1>1, <1>3, <1>4, <2>1, <2>4, <2>7 DEF Counted
<1>10. QED
  BY <1>6, <1>7, <1>8, <1>9

\* Between heads the counts are those of the memory pattern.
LEMMA CountedTraffic ==
  ASSUME ShapeInv, Loops, Counted
  PROVE  Traffic
<1> SUFFICES ASSUME Packed, pc \in {"k_row", "stream"}, s = 0, NEW t \in Stored
             PROVE  LET again == t = "V" /\ ScalarPv
                        Done(a, per_row) == a < h * SEQ_LEN * per_row
                    IN  /\ \A a \in DOMAIN pk[t] : loads[t].byte[a] =
                             IF Done(a, bytes_per_row) THEN IF again THEN 2 ELSE 1 ELSE 0
                        /\ \A a \in DOMAIN sc[t] : loads[t].scale[a] =
                             IF Done(a, blocks_per_row) THEN IF again THEN BLOCK ELSE 1 ELSE 0
  BY DEF Traffic
<1>1. t \in Tensors /\ (t = "K" \/ (t = "V" /\ ~DotOnly))
  BY DEF Stored, Tensors
<1>2. /\ DOMAIN pk[t] = 0 .. Lines * bytes_per_row - 1
      /\ DOMAIN sc[t] = 0 .. Lines * blocks_per_row - 1
  BY <1>1 DEF ShapeInv, Layout, Lines
<1>3. h * SEQ_LEN + s = h * SEQ_LEN
  BY ShapeAssumption DEF ShapeInv, Phases
<1>4. CASE ~(t = "V" /\ ScalarPv)
  <2>1. LoadsOf(t, h * SEQ_LEN)
    BY <1>1, <1>3, <1>4 DEF Counted, LinesOfK, LinesOfV
  <2>2. QED
    BY <1>2, <1>4, <2>1 DEF LoadsOf, Once
<1>5. CASE t = "V" /\ ScalarPv
  <2>1. /\ OnceEach(h, loads["V"].byte, 0, bytes_per_row, 2)
        /\ OnceEach(h, loads["V"].scale, 0, blocks_per_row, BLOCK)
    BY <1>1, <1>5 DEF Counted, DimsOfV
  <2>2. \A q \in Nat \ {0}, p \in Nat \ {0} : \A a \in 0 .. Lines * p - 1 : Clamp(0, q, a % p) = 0
    <3> TAKE q \in Nat \ {0}, p \in Nat \ {0}
    <3> TAKE a \in 0 .. Lines * p - 1
    <3>1. Lines * p \in Nat
      BY ShapeAssumption DEF Lines
    <3>2. a % p \in 0 .. p - 1
      BY <3>1
    <3>3. QED
      BY <3>2, ClampEnds
  <2>3. /\ \A a \in 0 .. Lines * bytes_per_row - 1 :
             loads["V"].byte[a] = IF a < h * SEQ_LEN * bytes_per_row THEN 2 ELSE 0
        /\ \A a \in 0 .. Lines * blocks_per_row - 1 :
             loads["V"].scale[a] = IF a < h * SEQ_LEN * blocks_per_row THEN BLOCK ELSE 0
    <3>1. /\ \A a \in 0 .. Lines * bytes_per_row - 1 : Clamp(0, 2, a % bytes_per_row) = 0
          /\ \A a \in 0 .. Lines * blocks_per_row - 1 : Clamp(0, BLOCK, a % blocks_per_row) = 0
      BY <2>2, SizesOfLines, ShapeAssumption
    <3>2. QED
      BY <2>1, <3>1 DEF OnceEach
  <2>4. QED
    BY <1>2, <1>5, <2>3
<1>6. QED
  BY <1>4, <1>5

\* The kernels move the same bytes: between heads every packed byte and every
\* scale byte of the heads done has been loaded exactly once (twice, and once
\* per element of the block, where a kernel goes over V dimension by
\* dimension) and nothing of the heads to come, whatever the vector length.
THEOREM TrafficCounted == Spec => []Traffic
<1>1. Init => ShapeInv /\ Loops /\ Counted
  BY InitInv, InitLoops, InitCounted DEF ShapeInv, IInv
<1>2. ShapeInv /\ Loops /\ Counted /\ [Next]_vars => ShapeInv' /\ Loops' /\ Counted'
  <2> SUFFICES ASSUME ShapeInv, Loops, Counted, [Next]_vars
               PROVE  ShapeInv' /\ Loops' /\ Counted'
    OBVIOUS
  <2>1. ShapeInv' /\ Loops'
    BY StepShape, StepLoops
  <2>2. CASE StoreRow \/ PackRow \/ FillPacked \/ UnpackRow
    BY <2>1, <2>2, FillingCounted
  <2>3. CASE KRow \/ VRow \/ PvDim \/ StreamRow
    BY <2>1, <2>3, ReadingCounted
  <2>4. CASE NextDotHead \/ Softmax \/ FinishHead \/ StreamFinish \/ UNCHANGED vars
    BY <2>1, <2>4, BetweenRowsCounted
  <2>5. QED
    BY <2>2, <2>3, <2>4 DEF Next
<1>3. ShapeInv /\ Loops /\ Counted => Traffic
  BY CountedTraffic
<1>4. QED
  BY <1>1, <1>2, <1>3, PTL DEF Spec

-----------------------------------------------------------------------------
\* The types.

ScoresTyped == S \in [Rows -> Scores \cup {Garbage}]
WeightsTyped ==
  /\ \A i \in Rows : \A x \in P_fp32[i] :
       x <= 0 /\ (kernel \in {"stub", "stub2", "rvv_stub"} \/ x >= -ExpMin)
  /\ \A i \in Rows : P_fp8[i] \subseteq P_fp32[i]
TypeInv == ScoresTyped /\ WeightsTyped

\* The maximum that a softmax takes of whatever scores there are.
LEMMA SoftmaxDiffs ==
  ASSUME ScoresTyped, NEW init \in SUBSET {MInit}, NEW exp, NEW kept,
         SoftmaxOver(Rows, init, exp, kept)
  PROVE  /\ UNCHANGED <<kernel, S>>
         /\ \A i \in Rows : /\ P_fp32'[i] = exp[Shifted(i)] /\ P_fp8'[i] \subseteq P_fp32'[i]
                            /\ Shifted(i) \in Diff /\ Shifted(i) \in Int /\ Shifted(i) <= 0
<1> DEFINE T == {S[i] : i \in Rows} \cup init
<1>1. /\ max_s' = LargestOf(T) /\ UNCHANGED <<kernel, S>>
      /\ P_fp32' = [i \in Rows |-> exp[Shifted(i)]]
      /\ P_fp8' = [i \in Rows |-> P_fp32'[i] \cap kept]
  BY DEF SoftmaxOver, input
<1>2. /\ \A i \in Rows : S[i] \in Scores \cup {Garbage} /\ S[i] \in Int
      /\ MInit \in Int
  <2>1. MInit \in Int /\ Garbage \in Int /\ \A x \in Scores \cup {Garbage} : x \in Int
    BY ScoresAssumption DEF Garbage
  <2>2. \A i \in Rows : S[i] \in Scores \cup {Garbage}
    BY DEF ScoresTyped
  <2>3. QED
    BY <2>1, <2>2
<1>3. PICK m \in T : \A x \in T : x <= m
  <2>1. PICK j \in Rows : \A i \in Rows : S[i] <= S[j]
    BY <1>2, ShapeAssumption, LargestExists DEF Rows
  <2> HIDE DEF T
  <2>0. /\ \A x \in T : (\E i \in Rows : x = S[i]) \/ (x = MInit /\ MInit \in init)
        /\ S[j] \in T /\ (MInit \in init => MInit \in T)
    BY DEF T
  <2>2. CASE MInit \in init /\ S[j] <= MInit
    <3>1. MInit \in T /\ \A x \in T : x <= MInit
      BY <1>2, <2>0, <2>1, <2>2
    <3>2. QED
      BY <3>1
  <2>3. CASE ~(MInit \in init /\ S[j] <= MInit)
    <3>1. S[j] \in T /\ \A x \in T : x <= S[j]
      BY <1>2, <2>0, <2>1, <2>3
    <3>2. QED
      BY <3>1
  <2>4. QED
    BY <2>2, <2>3
<1>4. m \in Scores \cup {MInit, Garbage} /\ m \in Int /\ \A i \in Rows : S[i] <= m
  BY <1>2, <1>3
<1>5. max_s' = m
  <2>1. T \in SUBSET Int
    BY <1>2
  <2>2. QED
    BY <1>1, <1>3, <2>1, LargestIs
<1>6. \A i \in Rows : Shifted(i) \in Diff /\ Shifted(i) \in Int /\ Shifted(i) <= 0
  BY <1>2, <1>4, <1>5 DEF Shifted, Diff
<1>7. QED
  BY <1>1, <1>6

LEMMA SoftmaxTyped ==
  ASSUME Loops, TypeInv, Softmax
  PROVE  TypeInv'
<1>1. PICK init, exp, kept :
        /\ init \in SUBSET {MInit}
        /\ SoftmaxOver(Rows, init, exp, kept)
        /\ exp = Expf \/ (exp = fu_expf /\ kernel \in {"stub", "stub2", "rvv_stub"})
  <2>1. StripRows = Rows \/ kernel # "exo"
    BY AllStrips
  <2>2. QED
    BY <2>1 DEF Softmax, Bf16Softmax, Bf16RvvSoftmax, ExoSoftmax, MixedSoftmax,
       NativeVecSoftmax, AllfuSoftmax, StubSoftmax, Stub2Softmax, RvvStubSoftmax, NativeDqSoftmax
<1>2. /\ UNCHANGED <<kernel, S>>
      /\ \A i \in Rows : /\ P_fp32'[i] = exp[Shifted(i)] /\ P_fp8'[i] \subseteq P_fp32'[i]
                         /\ Shifted(i) \in Diff /\ Shifted(i) \in Int /\ Shifted(i) <= 0
  BY <1>1, SoftmaxDiffs DEF TypeInv
<1>3. ASSUME NEW i \in Rows, NEW x \in P_fp32'[i]
      PROVE  x <= 0 /\ (kernel \in {"stub", "stub2", "rvv_stub"} \/ x >= -ExpMin)
  <2>1. x \in exp[Shifted(i)] /\ Shifted(i) \in Diff /\ Shifted(i) \in Int /\ Shifted(i) <= 0
    BY <1>2
  <2>2. ExpMin \in Nat
    BY ScoresAssumption
  <2>3. CASE exp = Expf
    BY <2>1, <2>2, <2>3 DEF Expf
  <2>4. CASE exp = fu_expf /\ kernel \in {"stub", "stub2", "rvv_stub"}
    BY <2>1, <2>4 DEF fu_expf
  <2>5. QED
    BY <1>1, <2>3, <2>4
<1>4. QED
  BY <1>2, <1>3 DEF TypeInv, ScoresTyped, WeightsTyped

\* A step other than a softmax leaves the weights alone, and a score is the
\* input's or marked.
LEMMA OtherTyped ==
  ASSUME ShapeInv, Loops, TypeInv, [Next]_vars, ~Softmax
  PROVE  TypeInv'
<1>1. UNCHANGED <<kernel, P_fp32, P_fp8>>
  BY DEF Next, vars, StoreRow, PackRow, FillPacked, UnpackRow, KRow, NextDotHead, VRow, PvDim,
     FinishHead, StreamRow, StreamFinish, input, softm
<1>2. WeightsTyped'
  BY <1>1 DEF TypeInv, WeightsTyped
<1>3. ScoresTyped'
  <2>1. CASE KRow
    <3>1. PICK r : S' = [S EXCEPT ![s] = Dot(r, h, s)]
      BY <2>1 DEF KRow
    <3>2. h \in Heads /\ s \in Rows
      BY <2>1, ShapeAssumption DEF KRow, ShapeInv, Phases, Heads, Rows
    <3>3. Dot(r, h, s) \in Scores \cup {Garbage}
      BY <3>2 DEF Dot, Loops
    <3>4. QED
      BY <3>1, <3>3 DEF TypeInv, ScoresTyped, Garbage
  <2>2. CASE ~KRow
    <3>1. UNCHANGED S
      BY <2>2 DEF Next, vars, StoreRow, PackRow, FillPacked, UnpackRow, NextDotHead, VRow, PvDim,
         FinishHead, StreamRow, StreamFinish
    <3>2. QED
      BY <3>1 DEF TypeInv, ScoresTyped, Garbage
  <2>3. QED
    BY <2>1, <2>2
<1>4. QED
  BY <1>2, <1>3 DEF TypeInv

\* Type correctness: whatever a vector register holds, the counters stay in
\* range, every score is a dot product of the input or marked as garbage, and
\* no weight exceeds one, underflows its exponential unnoticed or appears in
\* the eight-bit format alone.
THEOREM TypeCorrect == Spec => []TypeOK
<1>1. Init => ShapeInv /\ Loops /\ TypeInv
  <2> SUFFICES ASSUME Init PROVE ShapeInv /\ Loops /\ TypeInv
    OBVIOUS
  <2>1. ShapeInv /\ Loops
    BY InitInv, InitLoops DEF ShapeInv, IInv
  <2>2. TypeInv
    BY DEF Init, TypeInv, ScoresTyped, WeightsTyped, Garbage
  <2>3. QED
    BY <2>1, <2>2
<1>2. ShapeInv /\ Loops /\ TypeInv /\ [Next]_vars => ShapeInv' /\ Loops' /\ TypeInv'
  BY StepShape, StepLoops, SoftmaxTyped, OtherTyped
<1>3. ShapeInv /\ Loops /\ TypeInv => TypeOK
  <2> SUFFICES ASSUME ShapeInv, Loops, TypeInv PROVE TypeOK
    OBVIOUS
  <2>1. HEAD_DIM \in Nat /\ SEQ_LEN \in Nat \ {0} /\ N_HEADS \in Nat \ {0}
    BY RowSizes, ShapeAssumption DEF ShapeInv, Layout
  <2>2. /\ pc \in {"pack", "unpack", "k_row", "v_row", "pv_dim", "stream"}
        /\ h \in 0 .. N_HEADS /\ s \in Nat /\ (s <= SEQ_LEN \/ s <= HEAD_DIM)
    BY <2>1 DEF ShapeInv, Phases, Loops, Heads, Rows
  <2>3. s \in 0 .. SEQ_LEN + HEAD_DIM
    BY <2>1, <2>2 DEF ShapeInv, Phases, Rows
  <2>4. QED
    BY <2>2, <2>3 DEF TypeOK, TypeInv, ScoresTyped, WeightsTyped, ShapeInv, Phases
<1>4. QED
  BY <1>1, <1>2, <1>3, PTL DEF Spec
=============================================================================
