---------------------------- MODULE MCMintQuotes ----------------------------
(***************************************************************************)
(* MintQuotes for TLC: a BOLT11 quote of 2 sat that is paid over Lightning *)
(* or internally, and a BOLT12 quote whose payment, with msat that do not  *)
(* make a whole sat, two requests may share.  Message b1 is worth 1 sat,   *)
(* b2 is worth 2.                                                          *)
(***************************************************************************)
EXTENDS MintQuotes, TLC

CONSTANTS q11, q12, b1, b2, p1, p2, p3, o1, o2

MCQuoteAmount == [q \in Quote |-> IF q = q11 THEN 2 ELSE 0]
MCOutputAmount == [b \in B |-> IF b = b2 THEN 2 ELSE 1]
MCPaymentQuote == [p \in Payment |-> IF p \in {p1, p2} THEN q11 ELSE q12]
MCPaymentMsat == [p \in Payment |-> IF p = p3 THEN 2999 ELSE 2000]

=============================================================================
