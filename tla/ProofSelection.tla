--------------------------- MODULE ProofSelection ---------------------------
(***************************************************************************)
(* How the wallet chooses proofs for an amount, and the arithmetic of the  *)
(* operations that follow: prepare_send and confirm (wallet/send.rs), swap *)
(* and create_swap (wallet/swap.rs), melt_with_metadata                    *)
(* (wallet/melt/melt_bolt11.rs) and the swap of received proofs.  Each     *)
(* behaviour is one operation on one wallet; Wallet.tla has the            *)
(* interleavings of several and the states of the proofs.                  *)
(*                                                                         *)
(* A proof is a record, with a number n that tells proofs of the same      *)
(* amount and keyset apart.  Proofs that a swap returns have the active    *)
(* keyset, so only the number of them of each amount is kept.              *)
(***************************************************************************)
EXTENDS Amounts

CONSTANTS
    Keyset,             \* the keysets of the mint that the wallet has stored
    ActiveKeyset,       \* the active one
    Wallets,            \* the sets of unspent proofs it may start from
    Fees,               \* the functions from keysets to input_fee_ppk
    Amount,             \* the amounts asked for
    Kind,               \* the SendKinds used
    Tolerance,          \* the tolerance of the kinds that have one
    MaxProofs,          \* the max_proofs used: sets of no number, or of one
    TargetProofCount    \* target_proof_count

ASSUME SelectionConstants ==
    /\ ActiveKeyset \in Keyset
    /\ \A f \in Fees : f \in [Keyset -> 0 .. 1000]
    /\ Kind \subseteq {"OnlineExact", "OnlineTolerance",
                       "OfflineExact", "OfflineTolerance"}
    /\ \A m \in MaxProofs : m \subseteq Nat
    /\ \A w \in Wallets : \A p \in w : p.amount \in Denomination
                                       /\ p.keyset \in Keyset

VARIABLES
    wallet,     \* the unspent proofs at the start
    fee_ppk,    \* the fee of every keyset
    request,    \* the operation and its arguments
    pc,         \* how far it has come
    selected,   \* the proofs chosen for it
    to_swap,    \* of these, the ones to exchange first
    to_send,    \* of these, the ones to hand over as they are
    send_fee,   \* the fee that prepare_send adds to the amount
    made,       \* proofs made by the swap that are handed over
    change,     \* proofs made by the swap that stay in the wallet
    paid        \* the fee that the mint has taken

vars == <<wallet, fee_ppk, request, pc, selected, to_swap, to_send, send_fee,
          made, change, paid>>

\* locked is a condition that no stored proof carries already: those that do would
\* be sent first.
Request ==
    [op : {"send"}, amount : Amount, kind : Kind, include_fee : BOOLEAN,
     locked : BOOLEAN, max_proofs : MaxProofs]
    \cup [op : {"swap"}, amount : Amount, kind : {"OnlineExact"},
          include_fee : BOOLEAN, locked : BOOLEAN, max_proofs : {{}}]
    \cup [op : {"melt", "receive"}, amount : Amount, kind : {"OnlineExact"},
          include_fee : {FALSE}, locked : {FALSE}, max_proofs : {{}}]

Offline == {"OfflineExact", "OfflineTolerance"}
Tolerant == {"OnlineTolerance", "OfflineTolerance"}

Init ==
    /\ wallet \in Wallets
    /\ fee_ppk \in Fees
    /\ request \in Request
    /\ pc = "start"
    /\ selected = {} /\ to_swap = {} /\ to_send = {}
    /\ send_fee = 0 /\ paid = 0
    /\ made = NoParts /\ change = NoParts

-----------------------------------------------------------------------------
(* Totals and fees.                                                        *)

Total(S) == MapThenSumSet(LAMBDA p : p.amount, S)

\* calculate_fee, get_proofs_fee
CalculateFee(S) == DivCeil(MapThenSumSet(LAMBDA p : fee_ppk[p.keyset], S))

\* calculate_fee and get_keyset_count_fee for proofs of one keyset
CountFee(k, n) == DivCeil(fee_ppk[k] * n)

\* get_active_keyset: the stored keyset with the lowest fee, active or not
GetActiveKeyset ==
    CHOOSE k \in Keyset : \A l \in Keyset : fee_ppk[k] <= fee_ppk[l]

\* The order of a proof list that was sorted by descending amount.
Sorted(S) ==
    SetToSortSeq(S, LAMBDA p, q : \/ p.amount > q.amount
                                  \/ p.amount = q.amount /\ p.n < q.n)

-----------------------------------------------------------------------------
(* select_proofs.                                                          *)

\* The closure select_proof: a proof of that amount or, unless it must be exact,
\* the smallest one above it.
SelectProof(S, sel, amount, exact) ==
    LET equal == {p \in S \ sel : p.amount = amount}
        over == {p \in S \ sel : p.amount > amount}
    IN  CASE equal # {} -> sel \cup {Head(Sorted(equal))}
          [] equal = {} /\ ~exact /\ over # {} -> sel \cup {Last(Sorted(over))}
          [] OTHER -> sel

\* Two proofs of half the amount, and for each one missing two of a quarter ...
RECURSIVE SelectHalves(_, _, _, _)
SelectHalves(S, sel, target, n) ==
    LET half == target \div 2
        list == Sorted({p \in S \ sel : p.amount = half})
        count == Min({n, Len(list)})
        new == sel \cup Range(SubSeq(list, 1, count))
    IN  CASE half = 0 -> [found |-> FALSE, sel |-> sel]
          [] half # 0 /\ count = n -> [found |-> TRUE, sel |-> new]
          [] OTHER -> SelectHalves(S, new, half, 2 * (n - count))

SelectRemaining(S, sel, amount) ==
    LET halves == SelectHalves(S, sel, amount, 2)
    IN  IF halves.found THEN halves.sel
        ELSE SelectProof(S, halves.sel, amount, FALSE)

\* Mutant: the larger half of the list is kept, whatever it is worth.
SelectLeastAmountOverHalf(list, amount) ==
    SubSeq(list, 1, (Len(list) + 1) \div 2)

RECURSIVE SelectLeastAmountOver(_, _)

\* select_least_amount_over: the first cut of the list of which a side suffices
SelectLeastAmountOver(list, amount) ==
    LET left(i) == SubSeq(list, 1, i)
        right(i) == SubSeq(list, i + 1, Len(list))
        Enough(l) == Total(Range(l)) >= amount
        cuts == {i \in 1 .. Len(list) - 1 : Enough(left(i)) \/ Enough(right(i))}
        i == Min(cuts)
        l == SelectLeastAmountOver(left(i), amount)
        r == SelectLeastAmountOver(right(i), amount)
    IN  CASE cuts = {} -> list
          [] cuts # {} /\ ~Enough(right(i)) -> l
          [] cuts # {} /\ Enough(right(i)) /\ ~Enough(left(i)) -> r
          [] OTHER -> IF Total(Range(l)) < Total(Range(r)) THEN l ELSE r

Ok(S) == [ok |-> TRUE, proofs |-> S]

InsufficientFunds == [ok |-> FALSE, proofs |-> {}]

\* The first pass: each part of the split, once for every keyset in fees.
SelectOptimal(S, sel, amount, fees) ==
    LET parts == FoldLeft(LAMBDA s, k : s \o SplitList(amount), <<>>, SetToSeq(fees))
    IN  FoldLeft(LAMBDA acc, d :
                    LET new == SelectProof(S, acc.sel, d, TRUE)
                    IN  IF new # acc.sel THEN [acc EXCEPT !.sel = new]
                        ELSE [acc EXCEPT !.remaining = Append(@, d)],
                 [sel |-> sel, remaining |-> <<>>], parts)

RECURSIVE SelectProofs(_, _, _, _, _)

\* include_fees; the proofs for the fee are selected with an empty list of keysets.
IncludeFees(amount, S, sel, active) ==
    LET net == Total(sel) - CalculateFee(sel)
        With(more) == IF more.ok THEN Ok(sel \cup more.proofs) ELSE more
    IN  IF net >= amount THEN Ok(sel)
        ELSE With(SelectProofs(amount - net, S \ sel, active, {}, FALSE))

\* The second pass, after the first one has come to [sel, remaining], and the cut
\* to as few proofs as needed.
SelectActive(amount, S, first) ==
    LET Cut(all) ==
            IF first.remaining = <<>> \/ Total(all) = amount \/ Cardinality(all) <= 1
            THEN Ok(all)
            ELSE IF Total(all) < amount THEN InsufficientFunds
            ELSE Ok(Range(SelectLeastAmountOver(Sorted(all), amount)))
    IN  Cut(FoldLeft(LAMBDA sel, d : SelectRemaining(S, sel, d),
                     first.sel, first.remaining))

SelectProofs(amount, S, active, fees, include) ==
    LET inactive == {p \in S : p.keyset \notin active}
        WithFees(r) == IF r.ok /\ include
                       THEN IncludeFees(amount, S, r.proofs, active) ELSE r
    IN  CASE amount = 0 -> Ok({})
          [] amount # 0 /\ Total(S) < amount -> InsufficientFunds
          [] amount \in 1 .. Total(S) /\ Total(inactive) >= amount -> Ok(inactive)
          [] OTHER -> WithFees(SelectActive(amount, S,
                                  SelectOptimal(S, inactive, amount, fees)))

-----------------------------------------------------------------------------
(* swap and create_swap, as far as the mint's answer.                      *)

End(state) ==
    /\ pc' = state
    /\ UNCHANGED <<wallet, fee_ppk, request, selected, to_swap, to_send,
                   send_fee, made, change, paid>>

\* The unspent proofs of the wallet while a swap of inputs is created.
Held(inputs) ==
    CASE request.op = "send" -> wallet \ selected
      [] request.op = "receive" -> {}
      [] OTHER -> wallet \ inputs

ChangeAmount(amount, inputs) == Total(inputs) - (amount + CalculateFee(inputs))

\* What swap hands over: the locked outputs or, without a lock, one output for
\* each part of the amount.
Sent(amount, send, outputs) ==
    IF request.locked THEN send ELSE Common(Split(amount), outputs)

\* The outputs add up to the inputs less the fee, which is what the mint asks for.
Swap(amount, inputs, include, next) ==
    LET redeem == IF include THEN CountFee(ActiveKeyset, Count(Split(amount))) ELSE 0
        rest == ChangeAmount(amount, inputs) - redeem
        held == [d \in Denomination |->
                    Cardinality({p \in Held(inputs) : p.amount = d})]
        values == DetermineSplitTargetValues(rest, AmountsNeeded(held, TargetProofCount))
        send == Split(amount + redeem)
        outputs == Plus(send, SplitByValues(rest, values))
        answer == IF rest < 0 \/ SplitValuesGreater(rest, values) THEN "failed" ELSE next
    IN  /\ pc' = answer
        /\ made' = IF answer = next THEN Sent(amount, send, outputs) ELSE made
        /\ change' = IF answer = next THEN Minus(outputs, made') ELSE change
        /\ paid' = IF answer = next THEN CalculateFee(inputs) ELSE paid
        /\ UNCHANGED <<wallet, fee_ppk, request, selected, to_swap, to_send, send_fee>>

-----------------------------------------------------------------------------
(* send.                                                                   *)

\* prepare_send returns an error, for the selection r.
PrepareSendRefused(r) ==
    LET total == Total(r.proofs)
        fee == IF request.include_fee THEN CalculateFee(r.proofs) ELSE 0
    IN  \/ request.locked /\ request.kind \in Offline
        \/ ~r.ok
        \/ /\ total # request.amount + fee
           /\ \/ request.kind = "OfflineExact"
              \/ request.kind = "OfflineTolerance"
                 /\ total - request.amount > Tolerance

\* For each amount, as many of the proofs as there are parts of it.
Matching(S, parts) ==
    {T \in SUBSET S : \A d \in Denomination :
        Cardinality({p \in T : p.amount = d})
            = Min({parts[d], Cardinality({p \in S : p.amount = d})})}

\* The amounts that prepare_send would hand over, and the fee for spending them.
SendParts ==
    IF request.include_fee
    THEN SplitWithFee(request.amount, fee_ppk[GetActiveKeyset])
    ELSE Split(request.amount)

SendFee ==
    IF request.include_fee THEN CountFee(GetActiveKeyset, Count(SendParts)) ELSE 0

\* The selection is what is to be sent, in no more proofs than allowed.
ExactProofs(S) ==
    /\ Total(S) = request.amount + SendFee
    /\ \A max \in request.max_proofs : Cardinality(S) <= max

\* The proofs of the selection S that are handed over without a swap.
SendAsIs(S) ==
    IF request.locked THEN {{}}
    ELSE IF \/ ExactProofs(S)
            \/ request.kind \in Offline \cup Tolerant
    THEN {S}
    ELSE Matching(S, SendParts)

PrepareSend ==
    /\ pc = "start" /\ request.op = "send"
    /\ \E r \in {SelectProofs(request.amount, wallet, {ActiveKeyset}, Keyset,
                              request.include_fee)} :
          \/ PrepareSendRefused(r) /\ End("failed")
          \/ /\ ~PrepareSendRefused(r)
             /\ selected' = r.proofs
             /\ send_fee' = SendFee
             /\ to_send' \in SendAsIs(r.proofs)
             /\ to_swap' = r.proofs \ to_send'
             /\ pc' = "prepared"
             /\ UNCHANGED <<wallet, fee_ppk, request, made, change, paid>>


\* confirm, as far as the swap; the subtraction of amounts panics below zero.
Confirm ==
    LET amount == request.amount + send_fee - Total(to_send)
    IN  /\ pc = "prepared"
        /\ \/ to_swap = {} /\ End("swapped")
           \/ to_swap # {} /\ amount < 0 /\ End("panicked")
           \/ to_swap # {} /\ amount >= 0 /\ Swap(amount, to_swap, FALSE, "swapped")

HandedOver == Total(to_send) + Worth(made)

\* The rest of confirm, and the test of melt_proofs_with_metadata on its inputs.
Finish ==
    /\ pc = "swapped"
    /\ End(IF HandedOver < request.amount THEN "failed" ELSE "done")

-----------------------------------------------------------------------------
(* The other operations.                                                   *)

\* swap_from_unspent
SwapFromUnspent ==
    /\ pc = "start" /\ request.op = "swap"
    /\ \E r \in {SelectProofs(request.amount, wallet, {ActiveKeyset}, Keyset, TRUE)} :
           IF r.ok THEN Swap(request.amount, r.proofs, request.include_fee, "done")
           ELSE End("failed")

\* receive_proofs, for a token of all the proofs of wallet
Receive ==
    /\ pc = "start" /\ request.op = "receive" /\ wallet # {}
    /\ Swap(0, wallet, FALSE, "done")

\* select_exact_proofs: what to get for the proof p, to melt with the other ones
ExactAmount(S, p) == request.amount - (Total(S \ {p}) + fee_ppk[p.keyset])

ToExchange(S) == {p \in S : \A q \in S : p.amount >= q.amount}

\* melt_with_metadata, as far as the selection; no keyset counts as inactive.
MeltSelect ==
    /\ pc = "start" /\ request.op = "melt"
    /\ \E r \in {SelectProofs(request.amount, wallet, Keyset, Keyset, TRUE)} :
           \/ ~r.ok /\ End("failed")
           \/ /\ r.ok
              /\ selected' = r.proofs
              /\ to_swap' \in IF Total(r.proofs) > request.amount
                              THEN {IF ExactAmount(r.proofs, p) >= 0 THEN {p} ELSE {} :
                                        p \in ToExchange(r.proofs)}
                              ELSE {{}}
              /\ to_send' = r.proofs \ to_swap'
              /\ pc' = IF to_swap' = {} THEN "swapped" ELSE "exchange"
              /\ UNCHANGED <<wallet, fee_ppk, request, send_fee, made, change, paid>>

Exchange ==
    /\ pc = "exchange"
    /\ \E p \in to_swap :
          Swap(ExactAmount(selected, p), {p}, FALSE, "swapped")

Next ==
    \/ PrepareSend \/ Confirm \/ Finish
    \/ SwapFromUnspent \/ Receive
    \/ MeltSelect \/ Exchange

Spec == Init /\ [][Next]_vars

-----------------------------------------------------------------------------
(* Properties.                                                             *)

\* Every variable has its type, and swapped and sent proofs are selected ones.
TypeOK ==
    /\ pc \in {"start", "prepared", "swapped", "exchange", "done", "failed",
               "panicked"}
    /\ selected \subseteq wallet
    /\ to_swap \cup to_send = selected /\ to_swap \cap to_send = {}
    /\ send_fee \in Nat /\ paid \in Nat
    /\ made \in [Denomination -> Nat] /\ change \in [Denomination -> Nat]

\* Proofs that select_proofs returns are worth the amount at least, inactive
\* keysets, fees and the search for larger proofs notwithstanding.
SelectionCovers ==
    selected # {} => Total(selected) >= request.amount


\* Where no keyset has a fee, an online operation succeeds whenever the wallet holds
\* the amount, however the proofs are spread over keysets and amounts and whatever
\* the wallet lacks: the selection finds enough, and the swap that follows can split
\* its change.  A send or a swap then hands over the amount exactly (select_proofs,
\* create_swap, determine_split_target_values).
FeelessSucceeds ==
    /\ pc \in {"done", "failed"}
    /\ request.kind = "OnlineExact"
    /\ Total(wallet) >= request.amount
    /\ \A k \in Keyset : fee_ppk[k] = 0
    => /\ pc = "done"
       /\ request.op \in {"send", "swap"} => HandedOver = request.amount

\* The subtraction in confirm, of what is sent as it is from the amount and the
\* fee, never gets a larger amount to subtract.
NoPanic ==
    pc # "panicked"

=============================================================================
