----------------------------- MODULE MintQuotes -----------------------------
(***************************************************************************)
(* Minting (crates/cdk/src/mint/issue): a wallet asks for a quote, pays    *)
(* its Lightning request, and trades the paid quote for signatures on      *)
(* blinded messages.  A payment is credited to its quote along three paths *)
(* that race with each other: the event stream of the backend, the check   *)
(* that a request for the quote makes with the backend, and the internal   *)
(* settlement by a melt at this same mint.                                 *)
(*                                                                         *)
(* One step is one database transaction or one call of the backend or the  *)
(* signatory.  Transactions run one at a time: SQLite begins them with     *)
(* BEGIN IMMEDIATE; nothing here is shown for Postgres.  The status        *)
(* notifications of a quote are sent to subscribers only and are left out. *)
(* No step leaves work half done in the database, so a crash is the loss   *)
(* of all the handlers, one after the other.                               *)
(***************************************************************************)
EXTENDS MintDb, FiniteSets, Functions

CONSTANTS
    Quote,          \* the ids of the mint quotes
    Bolt12,         \* those of payment method BOLT12; the others are BOLT11
    QuoteAmount,    \* [Quote -> Nat], the amount of a BOLT11 quote
    B,              \* the blinded messages
    OutputAmount,   \* [B -> Nat], the amount of each blinded message
    Payment,        \* the payment ids
    Internal,       \* those of melts that settle a quote internally
    PaymentQuote,   \* [Payment -> Quote], whose request is paid
    PaymentMsat,    \* [Payment -> Nat], the amount paid, in msat
    Op,             \* the requests for a quote that wallets send
    Faults          \* the kinds of failure that may happen

\* to_unit, from msat, the unit of the backend, to sat, that of the quotes
ToUnit(msat) == msat \div 1000

TotalAmount(bs) == SumFunctionOnSet(OutputAmount, bs)

TotalPaid(ps) ==
    SumFunctionOnSet([p \in Payment |-> ToUnit(PaymentMsat[p])], ps)

ASSUME MintQuoteConstants ==
    /\ IsFiniteSet(B) /\ IsFiniteSet(Payment)
    /\ Bolt12 \subseteq Quote
    /\ QuoteAmount \in [Quote -> Nat]
    /\ OutputAmount \in [B -> Nat]
    /\ Internal \subseteq Payment
    /\ PaymentQuote \in [Payment -> Quote]
    /\ PaymentMsat \in [Payment -> Nat]
    /\ Faults \subseteq {"backend", "sign", "commit", "hang_up"}

\* Lightning settles an invoice once; an offer can be paid again and again.
ASSUME InvoicePaidOnce ==
    \A x, y \in Payment \ Internal :
        PaymentQuote[x] = PaymentQuote[y] /\ x # y
            => PaymentQuote[x] \in Bolt12

VARIABLES
    stored,         \* the quotes that have a row in table mint_quote
    amount_paid,    \* its column of that name
    amount_issued,  \* its column of that name
    payments,       \* the payment ids in table mint_quote_payments
    messages,       \* table blind_signature
    settled,        \* the payments that have been made
    request,        \* the request of a handler
    pc,             \* where the handler is
    seen,           \* the payments the backend reported to the handler
    due             \* history: the payments made when its request arrived

vars == <<stored, amount_paid, amount_issued, payments, messages, settled,
          request, pc, seen, due>>

quotes == <<stored, amount_paid, amount_issued, payments>>

(***************************************************************************)
(* A request: to check a quote, or to mint.  The component verified is the *)
(* outcome of the checks that read only the request, the keysets and the   *)
(* public key of the quote: the signature on the request, the units and    *)
(* the uniqueness of the outputs.                                          *)
(***************************************************************************)
Request ==
    [kind : {"check"}, quote : Quote, outputs : {{}}, verified : {TRUE}]
        \cup [kind : {"mint"}, quote : Quote, outputs : SUBSET B,
              verified : BOOLEAN]

NoRequest == [kind |-> "none"]

(***************************************************************************)
(*   idle       not received yet                                           *)
(*   checking   the backend has reported payments; they are recorded next  *)
(*   checked    of a mint request: the signatory is called next            *)
(*   signed     the issuing transaction is next                            *)
(*   responded, failed, lost   the client has an answer, an error, nothing *)
(***************************************************************************)
PC == {"idle", "checking", "checked", "signed", "responded", "failed", "lost"}

Init ==
    /\ stored = {}
    /\ amount_paid = [q \in Quote |-> 0]
    /\ amount_issued = [q \in Quote |-> 0]
    /\ payments = {}
    /\ messages = [b \in B |-> "None"]
    /\ settled = {}
    /\ request = [op \in Op |-> NoRequest]
    /\ pc = [op \in Op |-> "idle"]
    /\ seen = [op \in Op |-> {}]
    /\ due = [op \in Op |-> {}]

-----------------------------------------------------------------------------
(* The state of a quote, and the statements on it.                         *)

QuoteState(q) ==
    IF amount_paid[q] = 0 /\ amount_issued[q] = 0 THEN "Unpaid"
    ELSE IF amount_paid[q] > amount_issued[q] THEN "Paid" ELSE "Issued"

AmountMintable(q) == amount_paid[q] - amount_issued[q]

\* Mutant: a paid quote is not recognised, only an issued one.
SettledUnlessPaid(q) ==
    q \notin Bolt12 /\ QuoteState(q) = "Issued"

\* A BOLT11 quote takes one payment, a BOLT12 quote any number.
Settled(q) ==
    q \notin Bolt12 /\ QuoteState(q) \in {"Paid", "Issued"}

\* The payments of ps that a transaction has to record for the quote q.
Unrecorded(q, ps) ==
    {p \in ps : PaymentQuote[p] = q /\ p \notin payments /\ PaymentMsat[p] > 0}

(***************************************************************************)
(* increment_mint_quote_amount_paid for one payment; an amount of zero or  *)
(* a payment id that has a row, whatever its quote, is an error.           *)
(***************************************************************************)
IncrementAmountPaidOk(p) ==
    ToUnit(PaymentMsat[p]) > 0 /\ p \notin payments

IncrementAmountPaid(p) ==
    /\ amount_paid' = [amount_paid EXCEPT ![PaymentQuote[p]]
                                        = @ + ToUnit(PaymentMsat[p])]
    /\ payments' = payments \cup {p}

IncrementAmountIssuedOk(q, amount) ==
    amount_issued[q] + amount =< amount_paid[q]

-----------------------------------------------------------------------------
(* The quote, its payment, and the event stream of the backend.            *)

\* get_mint_quote; the request becomes known with the answer.
GetMintQuote(q) ==
    /\ q \notin stored
    /\ stored' = stored \cup {q}
    /\ UNCHANGED <<amount_paid, amount_issued, payments, messages, settled,
                   request, pc, seen, due>>

\* Somebody pays the request of a quote over Lightning.
Pay(p) ==
    /\ p \notin Internal \cup settled
    /\ PaymentQuote[p] \in stored
    /\ settled' = settled \cup {p}
    /\ UNCHANGED <<quotes, messages, request, pc, seen, due>>

(***************************************************************************)
(* The stream reports a payment, perhaps more than once, perhaps never.    *)
(* A payment for a BOLT11 quote that is paid already, one that has a row,  *)
(* and one worth nothing in the unit of the quote change nothing; nor does *)
(* an error, which is logged.                                              *)
(***************************************************************************)
HandlePaymentNotification(p) ==
    /\ p \in settled \ Internal
    /\ ~Settled(PaymentQuote[p])
    /\ IncrementAmountPaidOk(p)
    /\ IncrementAmountPaid(p)
    /\ UNCHANGED <<stored, amount_issued, messages, settled, request, pc, seen,
                   due>>

(***************************************************************************)
(* A melt whose request is that of the quote pays it in the transaction    *)
(* that burns the inputs; the payment id is the id of the melt quote.      *)
(***************************************************************************)
HandleInternalMeltMint(p) ==
    /\ p \in Internal \ settled
    /\ PaymentQuote[p] \in stored
    /\ ~Settled(PaymentQuote[p])
    /\ IncrementAmountPaidOk(p)
    /\ IncrementAmountPaid(p)
    /\ settled' = settled \cup {p}
    /\ UNCHANGED <<stored, amount_issued, messages, request, pc, seen, due>>

-----------------------------------------------------------------------------
(* A request for a quote: check_mint_quote_paid.                           *)

\* The handler ends without an answer, and what it held is dropped.
Leave(op, end) ==
    /\ pc' = [pc EXCEPT ![op] = end]
    /\ request' = [request EXCEPT ![op] = NoRequest]
    /\ seen' = [seen EXCEPT ![op] = {}]
    /\ due' = [due EXCEPT ![op] = {}]
    /\ UNCHANGED <<quotes, messages, settled>>

\* What follows a check that returned Ok.
AfterCheck(r) == IF r.kind = "check" THEN "responded" ELSE "checked"

\* The payments of a quote that the backend knows of.
CheckIncomingPaymentStatus(q) ==
    {p \in settled \ Internal : PaymentQuote[p] = q}

(***************************************************************************)
(* The handler reads the quote.  For a BOLT11 quote that is not paid it    *)
(* asks the backend, and has a transaction to run if there are payments.   *)
(***************************************************************************)
Receive(op, r) ==
    /\ pc[op] = "idle"
    /\ r.quote \in stored
    /\ request' = [request EXCEPT ![op] = r]
    /\ due' = [due EXCEPT ![op] = CheckIncomingPaymentStatus(r.quote)]
    /\ IF r.quote \in Bolt12 \/ Settled(r.quote)
       THEN /\ pc' = [pc EXCEPT ![op] = AfterCheck(r)]
            /\ UNCHANGED seen
       ELSE LET found == CheckIncomingPaymentStatus(r.quote) IN
            /\ seen' = [seen EXCEPT ![op] = found]
            /\ pc' = [pc EXCEPT ![op] = IF found = {} THEN AfterCheck(r)
                                                      ELSE "checking"]
    /\ UNCHANGED <<quotes, messages, settled>>

\* The quote is unknown, or the backend returns an error.
ReceiveFails(op, r) ==
    /\ pc[op] = "idle"
    /\ \/ r.quote \notin stored
       \/ "backend" \in Faults /\ r.quote \notin Bolt12 /\ ~Settled(r.quote)
    /\ Leave(op, "failed")

\* Mutant: the quote is not read again inside the transaction.
CheckMintQuotePaidStale(op) ==
    LET q == request[op].quote
        new == {p \in seen[op] : PaymentMsat[p] > 0}
    IN  /\ pc[op] = "checking"
        /\ \A p \in new : ToUnit(PaymentMsat[p]) > 0
        /\ payments' = payments \cup new
        /\ amount_paid' = [amount_paid EXCEPT ![q] = @ + TotalPaid(new)]
        /\ pc' = [pc EXCEPT ![op] = AfterCheck(request[op])]
        /\ seen' = [seen EXCEPT ![op] = {}]
        /\ UNCHANGED <<stored, amount_issued, messages, settled, request, due>>

(***************************************************************************)
(* The transaction reads the quote again, and unless it has been paid in   *)
(* the meantime records every payment that has no row.                     *)
(***************************************************************************)
CheckMintQuotePaid(op) ==
    LET q == request[op].quote
        new == IF Settled(q) THEN {} ELSE Unrecorded(q, seen[op])
    IN  /\ pc[op] = "checking"
        /\ \A p \in new : IncrementAmountPaidOk(p)
        /\ payments' = payments \cup new
        /\ amount_paid' = [amount_paid EXCEPT ![q] = @ + TotalPaid(new)]
        /\ pc' = [pc EXCEPT ![op] = AfterCheck(request[op])]
        /\ seen' = [seen EXCEPT ![op] = {}]
        /\ UNCHANGED <<stored, amount_issued, messages, settled, request, due>>

\* Mutant: the error of the transaction is logged, and the handler goes on.
CheckMintQuotePaidFailsLogged(op) ==
    /\ pc[op] = "checking"
    /\ "commit" \in Faults
    /\ pc' = [pc EXCEPT ![op] = AfterCheck(request[op])]
    /\ seen' = [seen EXCEPT ![op] = {}]
    /\ UNCHANGED <<quotes, messages, settled, request, due>>

\* A payment worth less than a unit of the quote is an error of the whole.
CheckMintQuotePaidFails(op) ==
    /\ pc[op] = "checking"
    /\ \/ "commit" \in Faults
       \/ /\ ~Settled(request[op].quote)
          /\ \E p \in Unrecorded(request[op].quote, seen[op]) :
                ~IncrementAmountPaidOk(p)
    /\ Leave(op, "failed")

-----------------------------------------------------------------------------
(* The rest of process_mint_request.                                       *)

BlindSign(op) ==
    /\ pc[op] = "checked"
    /\ pc' = [pc EXCEPT ![op] = "signed"]
    /\ UNCHANGED <<quotes, messages, settled, request, seen, due>>

BlindSignFails(op) ==
    /\ "sign" \in Faults
    /\ pc[op] = "checked"
    /\ Leave(op, "failed")

\* Mutant: any part of what is mintable may be taken from a BOLT11 quote.
AmountOkUpTo(q, amount) ==
    amount =< AmountMintable(q)

\* A BOLT11 quote is issued at once and in full, a BOLT12 quote in parts.
AmountOk(q, amount) ==
    IF q \in Bolt12 THEN amount =< AmountMintable(q)
    ELSE QuoteAmount[q] = AmountMintable(q) /\ amount = QuoteAmount[q]

\* verify_outputs, add_blinded_messages and add_blind_signatures
OutputsOk(bs) ==
    /\ \A b \in bs : messages[b] # "Signed"
    /\ AddBlindedMessagesOk(messages, bs)
    /\ AddBlindSignaturesOk(AddBlindedMessages(messages, bs), bs)

\* Mutant: the amounts of the quote were compared before the transaction.
IssueOkStale(r) ==
    /\ QuoteState(r.quote) # "Unpaid"
    /\ r.verified
    /\ OutputsOk(r.outputs)

\* Every check of the issuing transaction, on the quote it reads, passes.
IssueOk(r) ==
    /\ QuoteState(r.quote) = "Paid"
    /\ r.verified
    /\ AmountOk(r.quote, TotalAmount(r.outputs))
    /\ OutputsOk(r.outputs)
    /\ IncrementAmountIssuedOk(r.quote, TotalAmount(r.outputs))

Issue(op) ==
    LET r == request[op] IN
    /\ pc[op] = "signed"
    /\ r.outputs # {}
    /\ IssueOk(r)
    /\ messages' = AddBlindSignatures(AddBlindedMessages(messages, r.outputs),
                                      r.outputs)
    /\ amount_issued' = [amount_issued EXCEPT ![r.quote]
                                            = @ + TotalAmount(r.outputs)]
    /\ pc' = [pc EXCEPT ![op] = "responded"]
    /\ UNCHANGED <<stored, amount_paid, payments, settled, request, seen, due>>

\* A check fails, or the commit does: the transaction is rolled back.
IssueFails(op) ==
    /\ pc[op] = "signed"
    /\ IssueOk(request[op]) =>
          request[op].outputs # {} /\ "commit" \in Faults
    /\ Leave(op, "failed")

\* Without outputs there is no unit to unwrap: the handler panics.
IssuePanics(op) ==
    /\ pc[op] = "signed"
    /\ request[op].outputs = {}
    /\ IssueOk(request[op])
    /\ Leave(op, "lost")

(***************************************************************************)
(* The client hangs up, or the process crashes, before the transaction of  *)
(* the step is committed.                                                  *)
(***************************************************************************)
HangUp(op) ==
    /\ "hang_up" \in Faults
    /\ pc[op] \in {"checking", "checked", "signed"}
    /\ Leave(op, "lost")

-----------------------------------------------------------------------------
Handle(op) ==
    \/ CheckMintQuotePaid(op) \/ CheckMintQuotePaidFails(op)
    \/ BlindSign(op) \/ BlindSignFails(op)
    \/ Issue(op) \/ IssueFails(op) \/ IssuePanics(op)

Next ==
    \/ \E q \in Quote : GetMintQuote(q)
    \/ \E p \in Payment : \/ Pay(p) \/ HandlePaymentNotification(p)
                          \/ HandleInternalMeltMint(p)
    \/ \E op \in Op : \/ \E r \in Request : Receive(op, r) \/ ReceiveFails(op, r)
                      \/ Handle(op) \/ HangUp(op)

Spec == Init /\ [][Next]_vars

-----------------------------------------------------------------------------
(* Properties.                                                             *)

(***************************************************************************)
(* Type correctness of the tables and of the handlers.                     *)
(***************************************************************************)
TypeOK ==
    /\ stored \subseteq Quote
    /\ amount_paid \in [Quote -> Nat]
    /\ amount_issued \in [Quote -> Nat]
    /\ payments \subseteq Payment
    /\ messages \in [B -> {"None", "Signed"}]
    /\ settled \subseteq Payment
    /\ request \in [Op -> Request \cup {NoRequest}]
    /\ pc \in [Op -> PC]
    /\ seen \in [Op -> SUBSET (Payment \ Internal)]
    /\ due \in [Op -> SUBSET Payment]

PaymentsOf(q, ps) == {p \in ps : PaymentQuote[p] = q}

Responded(q) ==
    {op \in Op : /\ pc[op] = "responded"
                 /\ request[op].kind = "mint" /\ request[op].quote = q}

(***************************************************************************)
(* No quote is issued for more than was paid, so that amount_mintable,     *)
(* which subtracts without a check, does not underflow, whatever requests  *)
(* for the same quote and payments of it race.                             *)
(***************************************************************************)
NotOverIssued ==
    \A q \in Quote : amount_issued[q] =< amount_paid[q]

(***************************************************************************)
(* Every payment is credited once, to its own quote, and none that was not *)
(* made, although the stream may repeat it, a check may find it at the     *)
(* same time, and a melt may settle the quote in between.                  *)
(***************************************************************************)
CreditedOnce ==
    /\ payments \subseteq settled
    /\ \A q \in Quote : amount_paid[q] = TotalPaid(PaymentsOf(q, payments))

(***************************************************************************)
(* What has been signed is backed: the signatures handed out for all the   *)
(* quotes are worth what the quotes record as issued.                      *)
(***************************************************************************)
SignedIsIssued ==
    \A q \in Quote :
        amount_issued[q] =
            TotalAmount(UNION {request[op].outputs : op \in Responded(q)})

(***************************************************************************)
(* Ecash is backed by payments: what is signed for a quote is what it      *)
(* records as issued, and that is no more than what was paid               *)
(* (process_mint_request).                                                 *)
(***************************************************************************)
SignedIsPaid == NotOverIssued /\ SignedIsIssued

(***************************************************************************)
(* However many requests race for one BOLT11 quote, at most one gets       *)
(* signatures, for the amount of the quote; and no message is signed for   *)
(* two requests.                                                           *)
(***************************************************************************)
IssuedOnce ==
    /\ \A q \in Quote \ Bolt12 :
          /\ \A op1, op2 \in Responded(q) : op1 = op2
          /\ amount_issued[q] \in {0, QuoteAmount[q]}
    /\ \A q1, q2 \in Quote : \A op1 \in Responded(q1), op2 \in Responded(q2) :
          op1 # op2 => request[op1].outputs \cap request[op2].outputs = {}

(***************************************************************************)
(* A BOLT11 quote takes one payment: none of the three paths adds a second *)
(* to a quote that is paid, which would make its mintable amount differ    *)
(* from its amount for ever.                                               *)
(***************************************************************************)
PaidOnce ==
    \A q \in Quote \ Bolt12 : \A x, y \in PaymentsOf(q, payments) : x = y

(***************************************************************************)
(* A client that checks a BOLT11 quote, or mints from it, after it was     *)
(* paid over Lightning, and gets an answer, finds the quote paid, even if  *)
(* the stream has not reported the payment or the code has dropped the     *)
(* report.  A BOLT12 quote is not covered: check_mint_quote_paid returns   *)
(* without asking the backend.                                             *)
(***************************************************************************)
CheckFindsPayment ==
    \A op \in Op :
        /\ pc[op] = "responded"
        /\ due[op] # {}
        /\ request[op].quote \notin Bolt12
        => QuoteState(request[op].quote) # "Unpaid"

=============================================================================
