------------------------ MODULE MCSpendingConditions ------------------------
(* Instances of SpendingConditions: one request of every shape that the    *)
(* checks tell apart.                                                      *)
EXTENDS SpendingConditions

CONSTANTS ka, kb, kr, p1, b1, b2, q1

Conditions(pubkeys, num_sigs, locktime, refund_keys, num_sigs_refund, sig_flag) ==
    [pubkeys |-> pubkeys, num_sigs |-> num_sigs, locktime |-> locktime,
     refund_keys |-> refund_keys, num_sigs_refund |-> num_sigs_refund,
     sig_flag |-> sig_flag]

Secret(nonce, kind, data, conditions) ==
    [nonce |-> nonce, kind |-> kind, data |-> data, conditions |-> conditions]

Free == Conditions(NoKeys, 1, Never, NoKeys, 1, "SIG_INPUTS")
TwoOfTwo(refund, n) == Conditions(<<kb>>, 2, 1, refund, n, "SIG_INPUTS")
Expiring(refund, n) == Conditions(NoKeys, 1, 1, refund, n, "SIG_INPUTS")
Twice == Conditions(<<ka, kb>>, 1, Never, NoKeys, 1, "SIG_INPUTS")
All(n) == Conditions(<<kb>>, n, 1, <<kr>>, 1, "SIG_ALL")
Hash(pubkeys, refund) == Conditions(pubkeys, 1, 1, refund, 1, "SIG_INPUTS")

Output(b, amount) == [blinded_secret |-> b, amount |-> amount, keyset_id |-> "k"]

Request(secrets, q) ==
    [secrets |-> secrets, outputs |-> <<Output(b1, 1)>>, quote |-> q]

MCRequests ==
    {Request(<<Secret(1, "p2pk", ka, TwoOfTwo(<<kr>>, 1))>>, NoQuote),
     Request(<<Secret(1, "p2pk", ka, TwoOfTwo(<<kr, kb>>, 2))>>, NoQuote),
     Request(<<Secret(1, "p2pk", ka, Twice)>>, q1),
     Request(<<Secret(1, "p2pk", ka, Expiring(NoKeys, 1)),
               Secret(2, "plain", NoData, Free)>>, NoQuote),
     Request(<<Secret(1, "p2pk", ka, Expiring(<<>>, 1))>>, NoQuote),
     Request(<<Secret(1, "p2pk", ka, Expiring(<<kr>>, 0))>>, NoQuote),
     Request(<<Secret(1, "p2pk", ka, All(1)), Secret(2, "p2pk", ka, All(1))>>, NoQuote),
     Request(<<Secret(1, "p2pk", ka, All(2))>>, q1),
     Request(<<Secret(1, "p2pk", ka, All(1)), Secret(2, "p2pk", kb, All(1))>>, NoQuote),
     Request(<<Secret(1, "htlc", HashOfText(p1), Hash(<<ka>>, <<kr>>))>>, NoQuote),
     Request(<<Secret(1, "htlc", HashOfText(p1), Hash(NoKeys, <<>>))>>, NoQuote),
     Request(<<Secret(1, "htlc", HashOfBytes(p1), Hash(<<ka>>, NoKeys))>>, NoQuote)}

\* Another amount under the same blinded secret, and another blinded secret.
MCOutputs ==
    {<<Output(b1, 1)>>, <<Output(b1, 2)>>, <<Output(b2, 1), Output(b1, 1)>>}

=============================================================================
