----------------------------- MODULE MCSwapSaga -----------------------------
(***************************************************************************)
(* SwapSaga for TLC: proofs of amount 2 and fee 500 ppk, so that the fee   *)
(* of one and of two inputs is 1 after rounding; b1 and b2 pay out one     *)
(* input, b3 pays out two.                                                 *)
(***************************************************************************)
EXTENDS SwapSaga, TLC

CONSTANTS y1, y2, b1, b2, b3, o1, o2, o3

MCProofAmount == [y \in Y |-> 2]
MCProofFeePpk == [y \in Y |-> 500]
MCOutputAmount == [b \in B |-> IF b = b3 THEN 3 ELSE 1]

\* Operations are interchangeable, and so are y1 and y2, and b1 and b2.
Symmetry ==
    Permutations(Op) \cup Permutations({y1, y2}) \cup Permutations({b1, b2})

=============================================================================
