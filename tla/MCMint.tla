------------------------------- MODULE MCMint -------------------------------
(***************************************************************************)
(* Mint for TLC.  Mint quote ma of 4 sat is paid over Lightning by pa and  *)
(* issued as c1; mint quote mb of 2 sat is paid by the melt of qb at this  *)
(* mint and issued as c3.  c1 can be swapped for c2, both worth 4: the     *)
(* keyset of c1 has no input fee, so that Solvent is tight, and that of    *)
(* the others has.  Melt quote qa pays 2 sat over Lightning and reserves   *)
(* 1 sat for its fee.  Every melt offers a message for change.             *)
(***************************************************************************)
EXTENDS Mint, TLC

CONSTANTS c1, c2, c3, d1, ma, mb, pa, qa, qb, i1, i2, s1, s2, m1, m2

MCCoinAmount == [c \in Coin |-> IF c = c3 THEN 2 ELSE 4]
MCCoinFeePpk == [c \in Coin |-> IF c = c1 THEN 0 ELSE 1000]
MCMintQuoteAmount == [q \in MintQuote |-> IF q = ma THEN 4 ELSE 2]
MCPaymentQuote == [p \in Payment |-> IF p = pa THEN ma ELSE mb]
MCPaymentMsat == [p \in Payment |-> IF p = pa THEN 4000 ELSE 2000]
MCMeltQuoteAmount == [q \in MeltQuote |-> 2]
MCFeeReserve == [q \in MeltQuote |-> IF q = qa THEN 1 ELSE 0]

\* The requests of one kind are interchangeable.
Symmetry == Permutations(MintOp) \cup Permutations(MeltOp)

MCMintRequests ==
    {[kind |-> "mint", quote |-> q, outputs |-> {c}, verified |-> TRUE]
        : q \in MintQuote, c \in {c1, c3}}
MCSwapRequests ==
    {[inputs |-> {x}, outputs |-> {y}, verified |-> TRUE] : x, y \in Coin}
MCMeltRequests ==
    {[quote |-> q, inputs |-> ys, outputs |-> bs, verified |-> TRUE,
      acceptable |-> TRUE] : q \in MeltQuote, ys \in (SUBSET Coin) \ {{}},
                             bs \in {Change}}

=============================================================================
