----------------------------- MODULE MCKeysets -----------------------------
(***************************************************************************)
(* Keysets for TLC: the mint is started without units, with sat at one of  *)
(* two fees, or with usd as well; rotations may also ask for keysets of    *)
(* one amount.                                                             *)
(***************************************************************************)
EXTENDS Keysets, TLC

CONSTANTS sat, usd, auth, a1, a2

With(fee) == [fee |-> fee, order |-> 2]

MCConfig == {Empty, sat :> With(0), sat :> With(1), (sat :> With(0)) @@ (usd :> With(0))}

Symmetry == Permutations(Admin)

=============================================================================
