------------------------------- MODULE MCMelt -------------------------------
(***************************************************************************)
(* Melt for TLC.  Quotes qa and qb have the same invoice, qo is one for an *)
(* offer and reserves 1 sat for the Lightning fee, and qi can be settled   *)
(* internally, as a part of a mint quote of 5 sat; each is for 2 sat.  A   *)
(* proof is worth 4 and costs a fee of 1500 ppk: 2 for one, 3 for both.    *)
(* So the change is nothing, or 3, which takes two messages where there is *)
(* one, or 2.                                                              *)
(***************************************************************************)
EXTENDS Melt, TLC

CONSTANTS qa, qb, qo, qi, y1, y2, b1, b2, o1, o2, o3

MCInvoice == [q \in Quote |-> IF q \in {qa, qb} THEN "shared" ELSE q]
MCQuoteAmount == [q \in Quote |-> 2]
MCWanted == [q \in Internal |-> 5]
MCFeeReserve == [q \in Quote |-> IF q = qo THEN 1 ELSE 0]
MCProofAmount == [y \in Y |-> 4]
MCProofFeePpk == [y \in Y |-> 1500]

\* Requests are interchangeable, and so are proofs, messages, and qa and qb.
Symmetry == Permutations(Op) \cup Permutations(Y) \cup Permutations(B)
                \cup Permutations({qa, qb})

=============================================================================
