-------------------------- MODULE MCProofSelection --------------------------
(***************************************************************************)
(* ProofSelection for TLC: wallets of at most MaxHeld proofs of two      *)
(* keysets, of which k2 is active.                                         *)
(***************************************************************************)
EXTENDS ProofSelection

CONSTANTS k1, k2, MaxHeld

\* Among proofs of one amount those of k1 come first, but for the amount 2.
Numbered(a, k, i) ==
    [amount |-> a, keyset |-> k, n |-> IF (k = k1) = (a # 2) THEN i ELSE i + 2]

Pool == {Numbered(a, k, i) : a \in {1, 2, 4, 8}, k \in Keyset, i \in 1 .. 2}

\* Of two proofs that differ in their number only, the first is in the wallet first.
MCWallets ==
    {w \in UNION {kSubset(n, Pool) : n \in 0 .. MaxHeld} :
        \A p \in w, q \in Pool :
            p.amount = q.amount /\ p.keyset = q.keyset /\ q.n < p.n => q \in w}

MCFees ==
    {[k \in Keyset |-> IF k = k1 THEN f[1] ELSE f[2]] :
        f \in {<<0, 0>>, <<1, 1>>, <<0, 500>>, <<1000, 1000>>}}

\* The amounts into which an amount is split add up to it, whatever the target
\* value, and those of split_with_fee are worth the amount after the fee for
\* spending them (evaluated by TLC).
ASSUME SplitsAddUp ==
    \A amount \in Amount :
        /\ \A value \in Amount : Worth(SplitByValue(amount, value)) = amount
        /\ \A ppk \in {0, 1, 100, 500, 1000} :
              LET parts == SplitWithFee(amount, ppk)
              IN  Worth(parts) - DivCeil(ppk * Count(parts)) >= amount

=============================================================================
