------------------------------ MODULE MCWallet ------------------------------
(* Instances of Wallet.                                                    *)
EXTENDS Wallet, TLC

CONSTANTS t1, t2, f1

Symmetry == Permutations(Task)

=============================================================================
