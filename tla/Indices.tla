------------------------------ MODULE Indices -------------------------------
(***************************************************************************)
(* Warps are numbered from 1; wherever the code takes the first warp that  *)
(* satisfies a condition, it takes the least index of a set.               *)
(***************************************************************************)
EXTENDS Integers

Least(S) == CHOOSE x \in S : \A y \in S : x <= y
=============================================================================
