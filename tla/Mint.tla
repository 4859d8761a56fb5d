-------------------------------- MODULE Mint --------------------------------
(***************************************************************************)
(* The mint as a whole: swaps, mint requests and melts on one database.    *)
(* The tables proof and blind_signature are shared, a start of the mint    *)
(* checks the pending melt quotes and then recovers the swaps, and a melt  *)
(* of the request of a mint quote pays that quote.                         *)
(*                                                                         *)
(* A proof is the unblinded signature on a message, and has its name here: *)
(* the inputs of a request pass verify_inputs if and only if their         *)
(* messages have been signed.  Change has no amount before it is signed;   *)
(* the proofs a wallet makes of it are not spent in this model.            *)
(*                                                                         *)
(* The steps are those of SwapSaga, MintQuotes and Melt, with the failures *)
(* of the constants.  Left out are the requests that are refused without a *)
(* trace: those of swaps and mints, and melts whose proofs have rows.  A   *)
(* melt that is refused later leaves a rollback behind and is a step here. *)
(***************************************************************************)
EXTENDS Naturals, FiniteSets, Functions

CONSTANTS
    Coin,          \* the messages of mint and swap requests, and the proofs
    CoinAmount,    \* [Coin -> Nat]
    CoinFeePpk,    \* [Coin -> Nat]
    Change,        \* the messages for change
    MintQuote, Bolt12, MintQuoteAmount,
    Payment, PaymentQuote, PaymentMsat,
    MeltQuote, NoQuote, Internal, MeltQuoteAmount, FeeReserve,
    MintOp, SwapOp, MeltOp, NoOp,
    MintRequests, SwapRequests, MeltRequests,  \* what wallets may ask for
    MintFaults, SwapFaults, MeltFaults, MaxCrashes

VARIABLES
    proofs, messages,                                \* shared by all
    mint, crashes,                                   \* swap and melt
    sagas, swap_request, swap_pc, announced, queue, current,
    proof_quote, message_quote, change, quote_state, melt_request, attempt,
    melt_requests, melt_pc, total_spent, spawned, checked,
    stored, amount_paid, amount_issued, payments, settled, mint_request,
    mint_pc, seen, due

swap_vars == <<sagas, swap_request, swap_pc, announced, queue, current>>
melt_vars == <<proof_quote, message_quote, change, quote_state, melt_request,
               attempt, melt_requests, melt_pc, total_spent, spawned, checked>>
mint_vars == <<stored, amount_paid, amount_issued, payments, settled,
               mint_request, mint_pc, seen, due>>
vars == <<proofs, messages, mint, crashes, swap_vars, melt_vars, mint_vars>>

Message == Coin \cup Change
OutputAmount == [b \in Message |-> IF b \in Coin THEN CoinAmount[b] ELSE 0]

Swap == INSTANCE SwapSaga WITH
    Y <- Coin, B <- Message, Op <- SwapOp, ProofAmount <- CoinAmount,
    ProofFeePpk <- CoinFeePpk, Faults <- SwapFaults,
    request <- swap_request, pc <- swap_pc

Mints == INSTANCE MintQuotes WITH
    Quote <- MintQuote, QuoteAmount <- MintQuoteAmount, B <- Message,
    Op <- MintOp, Faults <- MintFaults, request <- mint_request, pc <- mint_pc

\* A melt quote has the request of the mint quote that its payment is for.
Melts == INSTANCE Melt WITH
    Quote <- MeltQuote, Invoice <- [q \in MeltQuote |-> q], NoLookup <- {},
    QuoteAmount <- MeltQuoteAmount, Y <- Coin, ProofAmount <- CoinAmount,
    ProofFeePpk <- CoinFeePpk, B <- Message, Op <- MeltOp,
    Wanted <- [q \in Internal |-> MintQuoteAmount[PaymentQuote[q]]],
    Faults <- MeltFaults, request <- melt_requests, pc <- melt_pc,
    minted <- {q \in Internal : Mints!Settled(PaymentQuote[q])}

Init ==
    /\ Mints!Init
    /\ Swap!Init
    /\ Melts!Init

-----------------------------------------------------------------------------
\* verify_inputs: the mint has signed what the inputs are made of.
VerifyInputs(ys) == \A y \in ys : messages[y] = "Signed"

\* A swap that removes a row removes its column quote_id too.
QuoteColumns ==
    /\ proof_quote' = [y \in Coin |-> IF proofs'[y] = "None" THEN NoQuote
                                      ELSE proof_quote[y]]
    /\ message_quote' = [b \in Message |-> IF messages'[b] = "None" THEN NoQuote
                                           ELSE message_quote[b]]
    /\ UNCHANGED <<change, quote_state, melt_request, attempt, melt_requests,
                   melt_pc, total_spent, spawned, checked>>

SwapStep ==
    /\ UNCHANGED mint_vars
    /\ \E op \in SwapOp :
          \/ \E r \in SwapRequests :
                VerifyInputs(r.inputs) /\ Swap!SetupSwap(op, r)
          \/ Swap!Handle(op) \/ Swap!HangUp(op)
    /\ QuoteColumns

MintStep ==
    /\ UNCHANGED <<proofs, mint, crashes, swap_vars, melt_vars>>
    /\ \/ \E p \in Payment : Mints!Pay(p)
       \/ /\ mint = "running" /\ Swap!Unlocked
          /\ \/ \E q \in MintQuote : Mints!GetMintQuote(q)
             \/ \E p \in Payment : Mints!HandlePaymentNotification(p)
             \/ \E op \in MintOp :
                   \/ \E r \in MintRequests :
                         Mints!Settled(r.quote) /\ Mints!Receive(op, r)
                   \/ Mints!BlindSign(op)
                   \/ Mints!Issue(op) \/ Mints!IssueFails(op)

MeltStep ==
    /\ UNCHANGED <<swap_vars, mint_vars>>
    /\ \/ \E op \in MeltOp : Melts!Send(op) \/ Melts!Settle(op)
       \/ /\ Swap!Unlocked
          /\ \/ \E q \in MeltQuote : Melts!GetMeltQuote(q)
             \/ \E op \in MeltOp :
                   \/ \E r \in MeltRequests :
                         /\ VerifyInputs(r.inputs)
                         /\ Melts!Reserve(op, r) \/ Melts!RefuseMelt(op, r)
                   \/ Melts!Handle(op) \/ Melts!HangUp(op)
                   \/ Melts!SpawnedRollback(op)

\* One transaction burns the inputs and pays the mint quote.
SettleInternally ==
    /\ UNCHANGED swap_vars
    /\ Swap!Unlocked
    /\ \E op \in MeltOp, r \in MeltRequests :
          /\ r.quote \in Internal
          /\ VerifyInputs(r.inputs)
          /\ Mints!IncrementAmountPaidOk(r.quote)
          /\ PaymentQuote[r.quote] \in stored
          /\ Mints!IncrementAmountPaid(r.quote)
          /\ settled' = settled \cup {r.quote}
          /\ UNCHANGED <<stored, amount_issued, mint_request, mint_pc, seen, due>>
          /\ Melts!SettleInternally(op, r)

Crash ==
    /\ Swap!Crash
    /\ mint_pc' = [op \in MintOp |->
                      IF mint_pc[op] \in {"checking", "checked", "signed"}
                      THEN "lost" ELSE mint_pc[op]]
    /\ UNCHANGED <<stored, amount_paid, amount_issued, payments, settled,
                   mint_request, seen, due>>
    /\ Melts!Crash

Start ==
    /\ UNCHANGED mint_vars
    /\ \/ Swap!Restart /\ Melts!Restart
       \/ UNCHANGED swap_vars /\ Melts!CheckPendingMeltQuotes
       \/ /\ checked
          /\ \/ \E op \in SwapOp : Swap!RecoverCompensate(op)
             \/ Swap!RecoverDelete
          /\ QuoteColumns
       \/ Swap!RecoveryDone /\ Melts!Serve

Next ==
    SwapStep \/ MintStep \/ MeltStep \/ SettleInternally \/ Crash \/ Start

Spec == Init /\ [][Next]_vars

-----------------------------------------------------------------------------
(* Properties.                                                             *)

Sum(f, S) == SumFunctionOnSet(f, S)

\* The melts that were paid over Lightning.
Paid == {op \in MeltOp : attempt[op] = "paid"
                            /\ melt_requests[op].quote \notin Internal}

\* The proofs that wallets hold or can get back: not burnt, nor held for a
\* payment that was made.
Outstanding ==
    {y \in Coin :
        /\ messages[y] = "Signed"
        /\ proofs[y] # "Spent"
        /\ ~ \E op \in Paid : proof_quote[y] = melt_requests[op].quote}

\* The inputs of a payment that are not, or not only, burnt or held for it:
\* the row was removed, or was that of a swap which has finished.
Released(op) ==
    {y \in melt_requests[op].inputs :
        \/ proofs[y] = "None"
        \/ proof_quote[y] # melt_requests[op].quote
        \/ \E o \in SwapOp : /\ y \in swap_request[o].inputs
                             /\ swap_pc[o] \in Swap!Finalized}


=============================================================================
