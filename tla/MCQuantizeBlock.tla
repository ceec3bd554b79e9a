-------------------------- MODULE MCQuantizeBlock --------------------------
(***************************************************************************)
(* Elements in units of 2^-16 (a GRAIN of 64): every small multiple of     *)
(* 2^-10, where the E4M3 scale is zero or subnormal, a grid over the rest  *)
(* of the range [-0.5, 0.5] of the generated K and V, and beside the ties  *)
(* of a subnormal scale the elements between two multiples of 2^-10.       *)
(***************************************************************************)
EXTENDS QuantizeBlock

MCMagnitudes == (0 .. 100) \cup {4 * k + (k % 4) : k \in 25 .. 127} \cup {512}
MCGrid == MCMagnitudes \cup {-v : v \in {3, 17, 40, 99, 117, 300, 512}}
MCBesideTies == {384 * o + j : o \in {1, 3, 5, 7, 9, 11, 13, 15}, j \in {-1, 0, 1, 5, 6, 7}}
MCValues == {64 * v : v \in MCGrid} \cup MCBesideTies \cup {-v : v \in {385, 1923, 1926}}
=============================================================================
