---------------------------- MODULE VtypeTracking ----------------------------
(***************************************************************************)
(* Who sets the vector configuration (vtype and vl) under which each       *)
(* vector instruction of a kernel runs.  Assembler blocks set it           *)
(* themselves; for intrinsics the compiler inserts vsetvli where its own   *)
(* record of the register does not serve the next instruction.  The record *)
(* goes stale when an asm volatile block changes the register: the defect  *)
(* that paper/gcc_bug_report.md describes and paper/gcc_repro reproduces.  *)
(*                                                                         *)
(*   "exo"            exo_schedule_fa.c                                    *)
(*   "native"         bench_fa_mixed_rvv_native.c                          *)
(*   "allfu"          bench_fa_mixed_rvv_native_allfu.c                    *)
(*   "native_dq"      bench_fa_mixed_rvv_native_dq.c                       *)
(*   "minimal"        gcc_repro/minimal.c                                  *)
(*   "minimal_part2"  gcc_repro/minimal_part2.c                            *)
(*                                                                         *)
(* A program is a graph of basic blocks, run as often as the loops like:   *)
(* trip counts are left open.  Only vector instructions are kept; the      *)
(* Makefiles' -fno-tree-vectorize keeps the compiler from adding its own.  *)
(* Lengths are those of VLEN = 256, where sixteen elements of 32 bits fill *)
(* a group of two registers.                                               *)
(*                                                                         *)
(* A definition marked as faulty stands for a slip in the one after it.    *)
(***************************************************************************)
EXTENDS Integers, Sequences, TLC

\* <<SEW, 2 * LMUL, vl>>
E8mf2      == <<8, 1, 16>>
E16m1      == <<16, 2, 16>>
E16m4      == <<16, 8, 64>>
E32m2      == <<32, 4, 16>>
E32m1_one  == <<32, 2, 1>>
Unknown    == <<0, 0, 0>>

SameRatio(c, e) == c[1] * e[2] = e[1] * c[2] /\ c[3] = e[3]

\* An instruction: written in an asm block or an intrinsic of the compiler,
\* and the configuration it is meant for.  Forms: "vsetvli"; "mem", a load or
\* store with its element width in the opcode, for which the register group
\* follows from the ratio of SEW and LMUL; "head", a move of element 0;
\* "reg", everything else.
Instr(by, form, at) == [by |-> by, form |-> form, at |-> at]
Vsetvli(c) == Instr("asm", "vsetvli", c)
Asm(form, c) == Instr("asm", form, c)
Gcc(form, c) == Instr("gcc", form, c)

Serves(c, i) ==
  CASE i.form \in {"vsetvli", "reg"} -> c = i.at
    [] i.form = "mem"  -> SameRatio(c, i.at)
    [] i.form = "head" -> c[1] = i.at[1]

-----------------------------------------------------------------------------
\* The macros and helpers of the kernels.

\* vle16, vfconv.nvfp4.bf16.v, vse16; the same in gcc_repro and native_dq.
\* faulty: the group of four registers of the _M4 macro
SATURN_VFCONV_NVFP4_BF16_wide ==
  <<Vsetvli(E16m4), Asm("mem", E16m4), Asm("reg", E16m4), Asm("mem", E16m4)>>
SATURN_VFCONV_NVFP4_BF16 ==
  <<Vsetvli(E16m1), Asm("mem", E16m1), Asm("reg", E16m1), Asm("mem", E16m1)>>
SATURN_VFCONV_M1 == SATURN_VFCONV_NVFP4_BF16
dequant_block_asm == SATURN_VFCONV_NVFP4_BF16

\* vle32, vfexp.v, vse32
SATURN_VFEXP_F32M2 ==
  <<Vsetvli(E32m2), Asm("mem", E32m2), Asm("reg", E32m2), Asm("mem", E32m2)>>

\* vfmv.v.f of one element, the reduction, vfmv.f.s; vfredmax alike.
saturn_vfredusum_f32m2_helper ==
  <<Gcc("reg", E32m1_one), Gcc("reg", E32m2), Gcc("head", E32m1_one)>>
saturn_vfredmax_f32m2_helper ==
  <<Gcc("reg", E32m1_one), Gcc("reg", E32m2), Gcc("head", E32m1_one)>>

\* vzext.vf2 and vsll
widen == <<Gcc("reg", E32m2), Gcc("reg", E32m2)>>

\* faulty: the vsetvli in front of the widening chain is missing
saturn_bf16_widen_bare == widen
saturn_bf16_widen_f32_m2 == <<Vsetvli(E32m2)>> \o widen

bf16_load_widen == <<Gcc("mem", E16m1)>> \o widen

\* Four blocks: 64 nibbles converted at once, then one configuration for the
\* widening, scaling and storing of all four.
WidenBlock == <<Asm("reg", E32m2), Asm("reg", E32m2), Asm("reg", E32m2), Asm("mem", E32m2)>>
dequant_64elt_chunk ==
  <<Vsetvli(E16m4), Asm("mem", E16m4), Asm("reg", E16m4), Vsetvli(E32m2)>>
    \o WidenBlock \o WidenBlock \o WidenBlock \o WidenBlock
dequant_row_allfu == dequant_64elt_chunk

\* The exponential loop in assembler: before, body, after.  It leaves a vl of
\* one element behind.
vfexp_head == <<Vsetvli(E32m2), Asm("reg", E32m2), Asm("reg", E32m2)>>
vfexp_body ==
  <<Vsetvli(E32m2), Asm("mem", E32m2), Asm("reg", E32m2), Asm("reg", E32m2),
    Asm("mem", E32m2), Asm("reg", E32m2)>>
vfexp_tail == <<Vsetvli(E32m1_one), Asm("head", E32m1_one)>>

\* The body of the FP8 loop in assembler: FP32, BF16, bytes.
quant_body ==
  <<Vsetvli(E32m2), Asm("mem", E32m2), Asm("reg", E32m2),
    Vsetvli(E16m1), Asm("reg", E16m1), Asm("reg", E16m1),
    Vsetvli(E8mf2), Asm("reg", E8mf2), Asm("mem", E8mf2)>>

\* __riscv_vsetvl_e32m2
vsetvl_e32m2 == <<Gcc("vsetvli", E32m2)>>

-----------------------------------------------------------------------------
\* The programs.
Block(code, next) == [code |-> code, next |-> next]

\* Vector work of the loops that the compiler sees whole: a load of Q, the
\* dot product, a row of P V.
LoadQ == <<Gcc("mem", E32m2)>>
dot_body(load_q) == load_q \o <<Gcc("mem", E32m2), Gcc("reg", E32m2)>>
pv_body ==
  <<Gcc("mem", E32m2), Gcc("mem", E32m2), Gcc("reg", E32m2), Gcc("mem", E32m2)>>

\* One block of a row of K or V: load, macro, widen, scale, store.
exo_dequant ==
  <<Gcc("mem", E16m1)>> \o SATURN_VFCONV_NVFP4_BF16 \o saturn_bf16_widen_f32_m2
    \o <<Gcc("reg", E32m2), Gcc("mem", E32m2)>>

fa_kernel_decode_naive ==
  [first |-> Block(exo_dequant, {"first", "qk_init"}),
   qk_init |-> Block(<<Gcc("reg", E32m2)>>, {"qk"}),
   qk  |-> Block(dot_body(LoadQ), {"qk", "score"}),
   score |-> Block(saturn_vfredusum_f32m2_helper, {"first", "max"}),
   max |-> Block(<<Gcc("mem", E32m2)>> \o saturn_vfredmax_f32m2_helper, {"max", "exp"}),
   exp |-> Block(<<Gcc("mem", E32m2), Gcc("reg", E32m2)>> \o SATURN_VFEXP_F32M2
                   \o <<Gcc("mem", E32m2)>> \o saturn_vfredusum_f32m2_helper,
                 {"exp", "v_dequant"}),
   v_dequant |-> Block(exo_dequant, {"v_dequant", "pv"}),
   pv |-> Block(pv_body, {"pv", "v_dequant", "first"})]

\* The benches: how a row is dequantised, how Q is loaded, how the softmax
\* goes on after the maximum.
Kernel(dequant, load_q, exp, softmax) ==
  [first |-> Block(dequant, {"first", "qk_init"}),
   qk_init |-> Block(vsetvl_e32m2 \o <<Gcc("reg", E32m2)>>, {"qk"}),
   qk  |-> Block(vsetvl_e32m2 \o dot_body(load_q), {"qk", "score"}),
   score |-> Block(saturn_vfredusum_f32m2_helper, {"first", "max_init"}),
   max_init |-> Block(vsetvl_e32m2 \o <<Gcc("reg", E32m1_one)>>, {"max"}),
   max |-> Block(vsetvl_e32m2 \o <<Gcc("mem", E32m2), Gcc("reg", E32m2)>>, {"max", exp}),
   v_dequant |-> Block(dequant, {"v_dequant", "pv"}),
   pv |-> Block(vsetvl_e32m2 \o pv_body, {"pv", "v_dequant", "first"})]
    @@ softmax

max_out == <<Gcc("head", E32m1_one)>>
NativeExp(next) ==
  [exp_head |-> Block(max_out \o vfexp_head, {"exp_body"}),
   exp_body |-> Block(vfexp_body, {"exp_body", "exp_tail"}),
   exp_tail |-> Block(vfexp_tail, {next})]

main_native == Kernel(dequant_64elt_chunk, LoadQ, "exp_head", NativeExp("v_dequant"))
main_allfu ==
  Kernel(dequant_row_allfu, LoadQ, "exp_head",
         NativeExp("quant") @@ [quant |-> Block(quant_body, {"quant", "v_dequant"})])
main_native_dq ==
  Kernel(dequant_block_asm \o vsetvl_e32m2 \o bf16_load_widen
           \o <<Gcc("reg", E32m2), Gcc("mem", E32m2)>>,
         bf16_load_widen, "exp", [exp |-> Block(max_out, {"v_dequant"})])

minimal ==
  [first |-> Block(vsetvl_e32m2 \o <<Gcc("mem", E16m1), Gcc("reg", E32m2), Gcc("mem", E32m2)>>,
                   {"first"})]
minimal_part2 ==
  [first |-> Block(SATURN_VFCONV_M1 \o bf16_load_widen \o <<Gcc("mem", E32m2)>>, {"first"})]

Program ==
  [exo |-> fa_kernel_decode_naive, native |-> main_native, allfu |-> main_allfu,
   native_dq |-> main_native_dq, minimal |-> minimal, minimal_part2 |-> minimal_part2]

-----------------------------------------------------------------------------
VARIABLES
  program, gcc,    \* what is compiled, and the version of the compiler
  block, i,        \* the next instruction
  vtype,           \* the register
  assumed,         \* the compiler's record of it at this point
  wrong            \* the forms of instructions run under another configuration

vars == <<program, gcc, block, i, vtype, assumed, wrong>>

Init ==
  /\ program \in DOMAIN Program /\ gcc \in {"13.2", "14.2"}
  /\ block = "first" /\ i = 1
  /\ vtype = Unknown /\ assumed = Unknown
  /\ wrong = {}

Code  == Program[program][block].code
Instruction == Code[i]

\* The configurations that the intrinsics of the program ask for.
Demanded ==
  {e \in {E16m1, E32m2, E32m1_one} :
     \E b \in DOMAIN Program[program] : \E k \in DOMAIN Program[program][b].code :
        LET j == Program[program][b].code[k] IN j.by = "gcc" /\ j.at = e}

\* What the compiler takes to serve an instruction.  GCC 13.2 is content with
\* the ratio even where the element width matters.
SeenToServe(c, j) ==
  IF gcc = "13.2" /\ j.form = "reg" THEN SameRatio(c, j.at) ELSE Serves(c, j)

Run == /\ wrong' = IF Serves(vtype', Instruction) THEN wrong ELSE wrong \cup {Instruction.form}
       /\ i' = i + 1

More(by, forms) == i <= Len(Code) /\ Instruction.by = by /\ Instruction.form \in forms

\* The assembler sets the register.  The compiler, which sees one opaque
\* statement, may or may not forget its record.
AsmVsetvli ==
  /\ More("asm", {"vsetvli"})
  /\ vtype' = Instruction.at /\ assumed' \in {assumed, Unknown}
  /\ i' = i + 1
  /\ UNCHANGED <<program, gcc, block, wrong>>

AsmInstruction ==
  /\ More("asm", {"reg", "mem", "head"})
  /\ UNCHANGED <<program, gcc, block, vtype, assumed>>
  /\ Run

Emit(c) == vtype' = c /\ assumed' = c

\* The explicit intrinsic is emitted or folded into what follows.
GccVsetvl ==
  /\ More("gcc", {"vsetvli"})
  /\ \/ Emit(Instruction.at)
     \/ UNCHANGED <<vtype, assumed>>
  /\ i' = i + 1
  /\ UNCHANGED <<program, gcc, block, wrong>>

\* An intrinsic runs under the recorded configuration if that seems to serve
\* it, or under a new one.
GccInstruction ==
  /\ More("gcc", {"reg", "mem", "head"})
  /\ \/ SeenToServe(assumed, Instruction) /\ UNCHANGED <<vtype, assumed>>
     \/ \E c \in Demanded : SeenToServe(c, Instruction) /\ Emit(c)
  /\ Run
  /\ UNCHANGED <<program, gcc, block>>

\* On to a successor; the compiler may hoist a vsetvli to this place.
Jump ==
  /\ i > Len(Code)
  /\ block' \in Program[program][block].next /\ i' = 1
  /\ \/ UNCHANGED <<vtype, assumed>>
     \/ \E c \in Demanded : Emit(c)
  /\ UNCHANGED <<program, gcc, wrong>>

Next == AsmVsetvli \/ AsmInstruction \/ GccVsetvl \/ GccInstruction \/ Jump

Spec == Init /\ [][Next]_vars

-----------------------------------------------------------------------------
\* The kernels whose authors worked around the compiler run every instruction
\* under the configuration it is written for, on every path through their
\* loops and wherever the compiler places its vsetvli: the native ones with
\* either version of GCC, since Q is widened in advance and no intrinsic but
\* of 32 bits is left; the Exo kernel with GCC 14.2, since the macro in front
\* of its widening chain sets the register that the macro before it has
\* changed behind the compiler's back; and minimal.c with GCC 14.2.
Protected ==
  \/ program \in {"native", "allfu"}
  \/ program \in {"exo", "minimal"} /\ gcc = "14.2"
DemandsMet == Protected => wrong = {}

\* Where the workaround is missing (native_dq, minimal.c with GCC 13.2,
\* minimal_part2.c) the miscompile is silent, as the report says: every load
\* and store, of the assembler and of the compiler, still moves the elements
\* it names into the group it names, since all configurations that can be in
\* force there share one ratio of width to group; only values go wrong.
SilentOnly == "mem" \notin wrong
=============================================================================
