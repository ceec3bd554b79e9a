------------------------------- MODULE Vsetvl -------------------------------
(***************************************************************************)
(* The vector length that vsetvli returns for an application vector length *)
(* avl, as the RISC-V vector specification allows it: between VLMAX and    *)
(* 2 * VLMAX an implementation may split the rest evenly or not.           *)
(***************************************************************************)
EXTENDS Integers

VLengths(avl, VLMAX) ==
  {vl \in 0 .. VLMAX :
     /\ avl <= VLMAX => vl = avl
     /\ VLMAX < avl /\ avl < 2 * VLMAX => avl <= 2 * vl
     /\ 2 * VLMAX <= avl => vl = VLMAX}
=============================================================================
