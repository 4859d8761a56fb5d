-------------------------------- MODULE Melt --------------------------------
(***************************************************************************)
(* Melting (crates/cdk/src/mint/melt.rs): a wallet hands in proofs, and    *)
(* the mint pays a Lightning request for them.  One transaction reserves   *)
(* the proofs and the quote, then the payment is made, then a second       *)
(* transaction burns the proofs and a third stores the signatures on the   *)
(* change.  A request that a mint quote of this mint waits for is settled  *)
(* without Lightning, in a single transaction.                             *)
(*                                                                         *)
(* Between the transactions a ProofWriter remembers the proofs.  When it   *)
(* is dropped without commit(), it spawns a task that removes them again:  *)
(* so does every early return, every panic, and every client that hangs    *)
(* up.  Without "late_rollback" in Faults that task runs at once; with it, *)
(* it runs whenever the runtime pleases.                                   *)
(*                                                                         *)
(* Transactions run one at a time (SQLite, BEGIN IMMEDIATE).  Lightning is *)
(* the variable attempt: it reports truly what became of one of the        *)
(* payments tried for an invoice, or that it does not know, or an error.   *)
(***************************************************************************)
EXTENDS MintDb, FiniteSets, FiniteSetsExt, Functions

CONSTANTS
    Quote,         \* the ids of the melt quotes
    NoQuote,       \* NULL in a column quote_id
    Invoice,       \* [Quote -> payment hashes]; quotes may share a request
    Internal,      \* the quotes whose request is that of a mint quote here
    NoLookup,      \* the quotes without request_lookup_id (BOLT12 offers)
    QuoteAmount,   \* [Quote -> Nat]
    FeeReserve,    \* [Quote -> Nat]
    Wanted,        \* [Internal -> Nat], the amount of the mint quote, or 0
    Y,             \* the keys of the proofs
    ProofAmount,   \* [Y -> Nat]
    ProofFeePpk,   \* [Y -> Nat], the fee of its keyset, in thousandths
    B,             \* the blinded messages for change
    Op,            \* the melt requests, one for each run of the handler
    NoOp,          \* no row in table melt_request
    Faults,        \* the kinds of failure that may happen
    MaxCrashes     \* bound on the crashes of the process

ASSUME MeltConstants ==
    /\ IsFiniteSet(Y)
    /\ NoQuote \notin Quote
    /\ NoOp \notin Op
    /\ Internal \subseteq Quote
    /\ NoLookup \subseteq Quote
    /\ Invoice \in [Quote -> {Invoice[q] : q \in Quote}]
    /\ \A q1, q2 \in Quote :
          Invoice[q1] = Invoice[q2] => (q1 \in Internal <=> q2 \in Internal)
    /\ QuoteAmount \in [Quote -> Nat]
    /\ FeeReserve \in [Quote -> Nat]
    /\ Wanted \in [Internal -> Nat]
    /\ ProofAmount \in [Y -> Nat]
    /\ ProofFeePpk \in [Y -> Nat]
    /\ Faults \subseteq {"late_rollback", "commit", "check", "rollback",
                         "finalize", "sign", "hang_up"}
    /\ MaxCrashes \in Nat

VARIABLES
    proofs,         \* table proof
    proof_quote,    \* its column quote_id
    messages,       \* table blind_signature
    message_quote,  \* its column quote_id
    change,         \* the value of the signatures on change, by quote
    quote_state,    \* table melt_quote, column state; "None" is no row
    melt_request,   \* table melt_request: the request that wrote the row
    minted,         \* the invoices of mint quotes here that have been paid
    attempt,        \* Lightning: what became of the payment of a request
    request,        \* what a request asks for
    pc,             \* where its handler is
    total_spent,    \* what its payment cost, the Lightning fee included
    spawned,        \* the proofs that a rollback it spawned is to remove
    mint,           \* "running", "down", or "recovering" at start
    checked,        \* at start: the pending quotes have been checked
    crashes         \* bounded by MaxCrashes

rows == <<proofs, proof_quote>>
tables == <<rows, messages, message_quote, change, quote_state, melt_request>>
control == <<mint, checked, crashes>>
vars == <<tables, minted, attempt, request, pc, total_spent, spawned, control>>

(***************************************************************************)
(* The component verified is the outcome of the checks that read only the  *)
(* request, the quote's constants and the keysets: verify_inputs.  The     *)
(* component acceptable is that of the same kind of checks made after the  *)
(* proofs were added: the units, SIG_ALL, verify_outputs but its look at   *)
(* the table.                                                              *)
(***************************************************************************)
Request ==
    [quote : Quote, inputs : (SUBSET Y) \ {{}}, outputs : SUBSET B,
     verified : BOOLEAN, acceptable : BOOLEAN]

NoRequest == [quote |-> NoQuote, inputs |-> {}, outputs |-> {},
              verified |-> FALSE, acceptable |-> FALSE]

(***************************************************************************)
(*   idle        not received yet                                          *)
(*   paying      the first transaction is committed, make_payment is       *)
(*               called and has not answered                               *)
(*   unsure      it answered Unknown or Failed; the check is next          *)
(*   erred       it returned an error; the check is next                   *)
(*   burnt       the proofs are spent; the change is to be signed          *)
(*   responded, failed, lost    the client has an answer, an error, nothing*)
(***************************************************************************)
Paying == {"paying", "unsure", "erred"}

PC == {"idle", "burnt", "responded", "failed", "lost"} \cup Paying

Inputs(op) == request[op].inputs
QuoteOf(op) == request[op].quote

Init ==
    /\ proofs = [y \in Y |-> "None"]
    /\ proof_quote = [y \in Y |-> NoQuote]
    /\ messages = [b \in B |-> "None"]
    /\ message_quote = [b \in B |-> NoQuote]
    /\ change = [q \in Quote |-> 0]
    /\ quote_state = [q \in Quote |-> "None"]
    /\ melt_request = [q \in Quote |-> NoOp]
    /\ minted = {}
    /\ attempt = [op \in Op |-> "none"]
    /\ request = [op \in Op |-> NoRequest]
    /\ pc = [op \in Op |-> "idle"]
    /\ total_spent = [op \in Op |-> 0]
    /\ spawned = [op \in Op |-> {}]
    /\ mint = "running"
    /\ checked = TRUE
    /\ crashes = 0

-----------------------------------------------------------------------------
(* Statements on the melt tables.                                          *)

\* Failed and Unknown are never stored by the callers.
CheckMeltQuoteStateTransition(current, new) ==
    \/ current = "Unpaid" /\ new = "Pending"
    \/ current = "Pending" /\ new \in {"Unpaid", "Paid"}

\* The SELECT leaves out a quote that is in the new state already.
UpdateMeltQuoteStateOk(q, new) ==
    /\ quote_state[q] \notin {"None", new}
    /\ CheckMeltQuoteStateTransition(quote_state[q], new)

\* get_proof_ys_by_quote_id: the rows of all attempts at the quote.
ProofYsByQuoteId(q) == {y \in Y : proof_quote[y] = q}

\* The unsigned rows of a set of quotes.
Unsigned(qs) ==
    {b \in B : message_quote[b] \in qs /\ messages[b] = "Blinded"}

\* delete_melt_request for each of the quotes, after bs have been signed
DeleteMeltRequest(qs, bs) ==
    LET gone == Unsigned(qs) \ bs IN
    /\ messages' = DeleteBlindedMessages(AddBlindSignatures(messages, bs), gone)
    /\ message_quote' = SetAll(message_quote, gone, NoQuote)
    /\ melt_request' = SetAll(melt_request, qs, NoOp)

-----------------------------------------------------------------------------
(* Lightning.                                                              *)

\* get_melt_quote stores a quote.
GetMeltQuote(q) ==
    /\ mint = "running"
    /\ quote_state[q] = "None"
    /\ quote_state' = [quote_state EXCEPT ![q] = "Unpaid"]
    /\ UNCHANGED <<rows, messages, message_quote, change, melt_request, minted,
                   attempt, request, pc, total_spent, spawned, control>>

\* The payments that were tried for an invoice.
Attempts(i) == {op \in Op : attempt[op] # "none" /\ Invoice[QuoteOf(op)] = i}

\* What a backend makes of a payment it looks at.
Status == [none |-> "Unknown", inflight |-> "Pending", paid |-> "Paid",
           failed |-> "Failed"]

(***************************************************************************)
(* What check_outgoing_payment may answer when these payments were tried   *)
(* under the lookup id: a backend looks at one of them, the first that its *)
(* node lists.                                                             *)
(***************************************************************************)
CheckOutgoingPayment(ops) ==
    IF ops = {} THEN {"Unknown"} ELSE {Status[attempt[op]] : op \in ops}

\* An offer is paid by an invoice of its own each time, known to its payer.
PaymentsLike(op) ==
    IF QuoteOf(op) \in NoLookup THEN {op} ELSE Attempts(Invoice[QuoteOf(op)])

\* What the check of a handler may be told.
Reports(op) == CheckOutgoingPayment(PaymentsLike(op))

\* The node sends the payment, unless one for the invoice is under way.
Send(op) ==
    /\ pc[op] = "paying"
    /\ attempt[op] = "none"
    /\ \A o \in PaymentsLike(op) : attempt[o] \notin {"inflight", "paid"}
    /\ attempt' = [attempt EXCEPT ![op] = "inflight"]
    /\ UNCHANGED <<tables, minted, request, pc, total_spent, spawned, control>>

\* It settles or fails, whatever the mint does in the meantime.
Settle(op) ==
    /\ attempt[op] = "inflight"
    /\ \/ /\ attempt' = [attempt EXCEPT ![op] = "paid"]
          /\ \E fee \in 0 .. FeeReserve[QuoteOf(op)] :
                total_spent' = [total_spent EXCEPT ![op]
                                    = QuoteAmount[QuoteOf(op)] + fee]
       \/ attempt' = [attempt EXCEPT ![op] = "failed"] /\ UNCHANGED total_spent
    /\ UNCHANGED <<tables, minted, request, pc, spawned, control>>

\* Somebody else pays the mint quote that a melt could have settled.
MintQuotePaid(q) ==
    /\ q \in Internal
    /\ minted' = minted \cup {Invoice[q]}
    /\ UNCHANGED <<tables, attempt, request, pc, total_spent, spawned, control>>

-----------------------------------------------------------------------------
(* The ProofWriter.                                                        *)

\* The proofs were unknown to the mint before, so they are removed.
Rollback(ys) ==
    IF RemoveProofsOk(proofs, ys)
    THEN /\ proofs' = RemoveProofs(proofs, ys)
         /\ proof_quote' = SetAll(proof_quote, ys, NoQuote)
    ELSE UNCHANGED rows

\* commit(): nothing is undone any more.
CommitProofWriter == UNCHANGED <<rows, spawned>>

DropProofWriter(op, ys) ==
    IF "late_rollback" \in Faults
    THEN spawned' = [spawned EXCEPT ![op] = ys] /\ UNCHANGED rows
    ELSE Rollback(ys) /\ UNCHANGED spawned

\* The spawned task runs: it removes the rows, whosever they are by then.
SpawnedRollback(op) ==
    /\ spawned[op] # {}
    /\ Rollback(spawned[op])
    /\ spawned' = [spawned EXCEPT ![op] = {}]
    /\ UNCHANGED <<messages, message_quote, change, quote_state, melt_request,
                   minted, attempt, request, pc, total_spent, control>>

\* The handler ends; what it did to the rows of its proofs is said apart.
End(op, end) ==
    /\ pc' = [pc EXCEPT ![op] = end]
    /\ UNCHANGED <<messages, message_quote, change, quote_state, melt_request,
                   minted, attempt, request, total_spent, control>>

-----------------------------------------------------------------------------
(* The first transaction.                                                  *)

Total(ys) == SumFunctionOnSet(ProofAmount, ys)

CalculateFee(ys) == (SumFunctionOnSet(ProofFeePpk, ys) + 999) \div 1000

\* Mutant: the fee for the inputs is not asked for.
EnoughWithoutFee(r) ==
    Total(r.inputs) >= QuoteAmount[r.quote] + FeeReserve[r.quote]

\* The wallet pays for the request, the fee reserve and its inputs.
Enough(r) ==
    Total(r.inputs) >= QuoteAmount[r.quote] + FeeReserve[r.quote]
                           + CalculateFee(r.inputs)

\* ProofWriter::add_proofs
WriterAddProofsOk(r) ==
    /\ r.verified
    /\ AddProofsOk(proofs, r.inputs)
    /\ UpdateProofsStatesOk(AddProofs(proofs, r.inputs), r.inputs, "Pending")

\* Mutant: the quote is not looked at again inside the transaction.
VerifyMeltRequestOkStale(r) ==
    /\ quote_state[r.quote] # "None"
    /\ r.acceptable
    /\ Enough(r)
    /\ \A b \in r.outputs : messages[b] # "Signed"
    /\ AddBlindedMessagesOk(messages, r.outputs)

\* The rest of verify_melt_request, and the statements after it.
VerifyMeltRequestOk(r) ==
    /\ UpdateMeltQuoteStateOk(r.quote, "Pending")
    /\ r.acceptable
    /\ Enough(r)
    /\ \A b \in r.outputs : messages[b] # "Signed"
    /\ melt_request[r.quote] = NoOp
    /\ AddBlindedMessagesOk(messages, r.outputs)

(***************************************************************************)
(* handle_internal_melt_mint refuses a BOLT11 mint quote that has been     *)
(* paid, and inputs worth less than a mint quote, which one part of a      *)
(* payment in several parts may be.                                        *)
(***************************************************************************)
InternalOk(r) ==
    r.quote \in Internal =>
        /\ r.quote \notin NoLookup => Invoice[r.quote] \notin minted
        /\ Total(r.inputs) >= Wanted[r.quote]

\* add_proofs and update_proofs_states; the column quote_id is written too.
AddMeltRows(op, r, state) ==
    /\ proofs' = UpdateProofsStates(AddProofs(proofs, r.inputs), r.inputs, state)
    /\ proof_quote' = SetAll(proof_quote, r.inputs, r.quote)

\* The proofs and the quote are reserved; make_payment is called next.
Reserve(op, r) ==
    /\ mint = "running"
    /\ pc[op] = "idle"
    /\ r.quote \notin Internal
    /\ WriterAddProofsOk(r)
    /\ VerifyMeltRequestOk(r)
    /\ AddMeltRows(op, r, "Pending")
    /\ messages' = AddBlindedMessages(messages, r.outputs)
    /\ message_quote' = SetAll(message_quote, r.outputs, r.quote)
    /\ melt_request' = [melt_request EXCEPT ![r.quote] = op]
    /\ quote_state' = [quote_state EXCEPT ![r.quote] = "Pending"]
    /\ request' = [request EXCEPT ![op] = r]
    /\ pc' = [pc EXCEPT ![op] = "paying"]
    /\ UNCHANGED <<change, minted, attempt, total_spent, spawned, control>>

\* A proof has a row, or the request is not even looked up.
RefuseProofs(op, r) ==
    /\ mint = "running"
    /\ pc[op] = "idle"
    /\ ~WriterAddProofsOk(r)
    /\ End(op, "failed")
    /\ CommitProofWriter

(***************************************************************************)
(* A later check fails, or the commit does.  The transaction is rolled     *)
(* back, but the ProofWriter remembers proofs that have no row any more.   *)
(***************************************************************************)
RefuseMelt(op, r) ==
    /\ mint = "running"
    /\ pc[op] = "idle"
    /\ WriterAddProofsOk(r)
    /\ VerifyMeltRequestOk(r) /\ InternalOk(r) => "commit" \in Faults
    /\ End(op, "failed")
    /\ DropProofWriter(op, r.inputs)

-----------------------------------------------------------------------------
(* The answer of make_payment.                                             *)

\* The payment is under way: the proofs stay pending.
PaymentPending(op) ==
    /\ pc[op] = "paying"
    /\ attempt[op] = "inflight"
    /\ End(op, "failed")
    /\ CommitProofWriter

\* Unknown or Failed, which is not believed.
PaymentUnsure(op) ==
    /\ pc[op] = "paying"
    /\ End(op, "unsure")
    /\ CommitProofWriter

InvoiceAlreadyPaid(op) ==
    /\ pc[op] = "paying"
    /\ attempt[op] = "none"
    /\ "Paid" \in Reports(op)
    /\ End(op, "failed")
    /\ DropProofWriter(op, Inputs(op))

\* Any other error; without a lookup id there is nothing to check.
PaymentError(op) ==
    /\ pc[op] = "paying"
    /\ IF QuoteOf(op) \in NoLookup
       THEN End(op, "failed") /\ DropProofWriter(op, Inputs(op))
       ELSE End(op, "erred") /\ CommitProofWriter

(***************************************************************************)
(* The backend is asked.  Paid and Pending leave the proofs pending, any   *)
(* other answer removes them; the quote stays Pending in either case, and  *)
(* so do its melt request and the messages for the change.                 *)
(***************************************************************************)
CheckPaymentState(op) ==
    /\ pc[op] \in {"unsure", "erred"}
    /\ End(op, "failed")
    /\ \E report \in Reports(op) :
          \/ report \in {"Paid", "Pending"} /\ CommitProofWriter
          \/ /\ report \in {"Failed", "Unknown"}
             /\ Rollback(Inputs(op)) /\ UNCHANGED spawned
          \/ "rollback" \in Faults /\ CommitProofWriter

\* The check itself fails: only one of the two places keeps the proofs.
CheckPaymentStateFails(op) ==
    /\ "check" \in Faults
    /\ pc[op] \in {"unsure", "erred"}
    /\ End(op, "failed")
    /\ IF pc[op] = "erred" THEN CommitProofWriter
                           ELSE DropProofWriter(op, Inputs(op))

-----------------------------------------------------------------------------
(* process_melt_request.                                                   *)

ChangeTarget(op, spent) ==
    Total(Inputs(op)) - spent - CalculateFee(Inputs(op))

\* Amount::split, for the default amounts of a keyset
Split(amount) == {p \in {1, 2, 4, 8, 16, 32} : (amount \div p) % 2 = 1}

\* One amount for each message, the largest if there are not enough messages.
ChangeAmounts(amounts, n) ==
    {a \in amounts : Cardinality({b \in amounts : b > a}) < n}

WantsChange(op, spent, outputs) ==
    Total(Inputs(op)) > spent /\ outputs # {}

(***************************************************************************)
(* handle_internal_melt_mint, and process_melt_request in the same         *)
(* transaction.                                                            *)
(***************************************************************************)
SettleInternally(op, r) ==
    LET spent == QuoteAmount[r.quote]
        signs == Total(r.inputs) > spent /\ r.outputs # {}
    IN  /\ mint = "running"
        /\ pc[op] = "idle"
        /\ r.quote \in Internal
        /\ WriterAddProofsOk(r)
        /\ VerifyMeltRequestOk(r)
        /\ InternalOk(r)
        /\ AddMeltRows(op, r, "Spent")
        /\ quote_state' = [quote_state EXCEPT ![r.quote] = "Paid"]
        /\ minted' = minted \cup {Invoice[r.quote]}
        /\ attempt' = [attempt EXCEPT ![op] = "paid"]
        /\ total_spent' = [total_spent EXCEPT ![op] = spent]
        /\ request' = [request EXCEPT ![op] = r]
        /\ IF signs
           THEN /\ messages' = AddBlindedMessages(messages, r.outputs)
                /\ message_quote' = SetAll(message_quote, r.outputs, r.quote)
                /\ melt_request' = [melt_request EXCEPT ![r.quote] = op]
                /\ pc' = [pc EXCEPT ![op] = "burnt"]
           ELSE /\ pc' = [pc EXCEPT ![op] = "responded"]
                /\ UNCHANGED <<messages, message_quote, melt_request>>
        /\ UNCHANGED <<change, spawned, control>>

\* The assertion on the rows included.
ProcessMeltRequestOk(op) ==
    LET q == QuoteOf(op) IN
    /\ ProofYsByQuoteId(q) # {}
    /\ UpdateProofsStatesOk(proofs, ProofYsByQuoteId(q), "Spent")
    /\ UpdateMeltQuoteStateOk(q, "Paid")
    /\ melt_request[q] # NoOp

\* make_payment answered Paid: the rows of the quote are burnt.
ProcessMeltRequest(op) ==
    LET q == QuoteOf(op) IN
    /\ pc[op] = "paying"
    /\ attempt[op] = "paid"
    /\ ProcessMeltRequestOk(op)
    /\ proofs' = UpdateProofsStates(proofs, ProofYsByQuoteId(q), "Spent")
    /\ quote_state' = [quote_state EXCEPT ![q] = "Paid"]
    /\ IF WantsChange(op, total_spent[op], Unsigned({q}))
       THEN /\ pc' = [pc EXCEPT ![op] = "burnt"]
            /\ UNCHANGED <<messages, message_quote, melt_request>>
       ELSE /\ pc' = [pc EXCEPT ![op] = "responded"]
            /\ DeleteMeltRequest({q}, {})
    /\ UNCHANGED <<proof_quote, change, minted, attempt, request, total_spent,
                   spawned, control>>

(***************************************************************************)
(* The begin or a statement returns Err, or the assertion panics: the      *)
(* ProofWriter is dropped.  If only the commit fails, commit() was called  *)
(* before it when there is no change to sign; and the rollback of rows of  *)
(* an earlier attempt, pending before, returns an error.                   *)
(***************************************************************************)
ProcessMeltRequestFails(op) ==
    LET q == QuoteOf(op) IN
    /\ pc[op] = "paying"
    /\ attempt[op] = "paid"
    /\ ProcessMeltRequestOk(op) => "finalize" \in Faults
    /\ End(op, "failed")
    /\ \/ DropProofWriter(op, Inputs(op))
       \/ /\ ProcessMeltRequestOk(op)
          /\ \/ ~WantsChange(op, total_spent[op], Unsigned({q}))
             \/ ProofYsByQuoteId(q) # Inputs(op)
          /\ CommitProofWriter

\* The signatory answers, and the third transaction stores the change.
SignChange(op) ==
    LET q == QuoteOf(op)
        amounts == ChangeAmounts(Split(ChangeTarget(op, total_spent[op])),
                                 Cardinality(Unsigned({q})))
    IN  /\ pc[op] = "burnt"
        /\ \E bs \in SUBSET Unsigned({q}) :
              /\ Cardinality(bs) = Cardinality(amounts)
              /\ AddBlindSignaturesOk(messages, bs)
              /\ DeleteMeltRequest({q}, bs)
        /\ change' = [change EXCEPT ![q] = @ + SumSet(amounts)]
        /\ pc' = [pc EXCEPT ![op] = "responded"]
        /\ UNCHANGED <<rows, quote_state, minted, attempt, request, total_spent,
                       spawned, control>>

\* The dropped ProofWriter cannot remove proofs that are spent.
SignChangeFails(op) ==
    /\ "sign" \in Faults
    /\ pc[op] = "burnt"
    /\ End(op, "failed")
    /\ DropProofWriter(op, Inputs(op))

-----------------------------------------------------------------------------
(* The end of a handler that nobody waits for, crash and start.            *)

HangUp(op) ==
    /\ "hang_up" \in Faults
    /\ pc[op] \in Paying \cup {"burnt"}
    /\ End(op, "lost")
    /\ DropProofWriter(op, Inputs(op))

Crash ==
    /\ mint # "down"
    /\ crashes < MaxCrashes
    /\ mint' = "down"
    /\ pc' = [op \in Op |-> IF pc[op] \in Paying \cup {"burnt"} THEN "lost"
                            ELSE pc[op]]
    /\ spawned' = [op \in Op |-> {}]
    /\ crashes' = crashes + 1
    /\ UNCHANGED <<tables, minted, attempt, request, total_spent, checked>>

Restart ==
    /\ mint = "down"
    /\ mint' = "recovering"
    /\ checked' = FALSE
    /\ UNCHANGED <<tables, minted, attempt, request, pc, total_spent, spawned,
                   crashes>>

PendingMeltQuotes == {q \in Quote \ NoLookup : quote_state[q] = "Pending"}

\* What the backend may answer about each of them.
PendingReports ==
    {report \in [PendingMeltQuotes -> {"Paid", "Pending", "Failed", "Unknown"}] :
        \A q \in PendingMeltQuotes :
            report[q] \in CheckOutgoingPayment(Attempts(Invoice[q]))}

Resolved(report, statuses) == {q \in PendingMeltQuotes : report[q] \in statuses}

\* Mutant: a payment that is in flight is taken for one that was made.
CheckPendingMeltQuotesOptimistic ==
    /\ mint = "recovering"
    /\ ~checked
    /\ \E report \in PendingReports :
          LET paid == Resolved(report, {"Paid", "Pending"})
              unpaid == Resolved(report, {"Failed", "Unknown"})
          IN  /\ quote_state' = SetAll(SetAll(quote_state, paid, "Paid"),
                                       unpaid, "Unpaid")
              /\ DeleteMeltRequest(unpaid, {})
    /\ checked' = TRUE
    /\ UNCHANGED <<rows, change, minted, attempt, request, pc, total_spent,
                   spawned, mint, crashes>>

(***************************************************************************)
(* One transaction, before the mint serves.  A payment that failed makes   *)
(* the quote unpaid, which also deletes its melt request; the proofs are   *)
(* not looked at.  A check that returns an error ends the process again,   *)
(* which changes nothing.                                                  *)
(***************************************************************************)
CheckPendingMeltQuotes ==
    /\ mint = "recovering"
    /\ ~checked
    /\ \E report \in PendingReports :
          LET paid == Resolved(report, {"Paid"})
              unpaid == Resolved(report, {"Failed", "Unknown"})
          IN  /\ quote_state' = SetAll(SetAll(quote_state, paid, "Paid"),
                                       unpaid, "Unpaid")
              /\ DeleteMeltRequest(unpaid, {})
    /\ checked' = TRUE
    /\ UNCHANGED <<rows, change, minted, attempt, request, pc, total_spent,
                   spawned, mint, crashes>>

\* The rest of Mint::start is done.
Serve ==
    /\ mint = "recovering"
    /\ checked
    /\ mint' = "running"
    /\ UNCHANGED <<tables, minted, attempt, request, pc, total_spent, spawned,
                   checked, crashes>>

-----------------------------------------------------------------------------
Receive(op) ==
    \E r \in Request : \/ Reserve(op, r) \/ SettleInternally(op, r)
                       \/ RefuseProofs(op, r) \/ RefuseMelt(op, r)

Handle(op) ==
    \/ PaymentPending(op) \/ PaymentUnsure(op) \/ InvoiceAlreadyPaid(op)
    \/ PaymentError(op) \/ CheckPaymentState(op) \/ CheckPaymentStateFails(op)
    \/ ProcessMeltRequest(op) \/ ProcessMeltRequestFails(op)
    \/ SignChange(op) \/ SignChangeFails(op)

Next ==
    \/ \E q \in Quote : GetMeltQuote(q) \/ MintQuotePaid(q)
    \/ \E op \in Op : \/ Receive(op) \/ Handle(op) \/ HangUp(op)
                      \/ Send(op) \/ Settle(op) \/ SpawnedRollback(op)
    \/ Crash
    \/ Restart \/ CheckPendingMeltQuotes \/ Serve

Spec == Init /\ [][Next]_vars

-----------------------------------------------------------------------------
(* Properties.                                                             *)

(***************************************************************************)
(* Type correctness of the tables, of the handlers and of Lightning.       *)
(***************************************************************************)
TypeOK ==
    /\ proofs \in [Y -> {"None", "Pending", "Spent"}]
    /\ proof_quote \in [Y -> Quote \cup {NoQuote}]
    /\ messages \in [B -> MessageState]
    /\ message_quote \in [B -> Quote \cup {NoQuote}]
    /\ change \in [Quote -> Nat]
    /\ quote_state \in [Quote -> {"None", "Unpaid", "Pending", "Paid"}]
    /\ melt_request \in [Quote -> Op \cup {NoOp}]
    /\ minted \subseteq {Invoice[q] : q \in Internal}
    /\ attempt \in [Op -> {"none", "inflight", "paid", "failed"}]
    /\ request \in [Op -> Request \cup {NoRequest}]
    /\ pc \in [Op -> PC]
    /\ total_spent \in [Op -> Nat]
    /\ spawned \in [Op -> SUBSET Y]
    /\ mint \in {"running", "down", "recovering"}
    /\ checked \in BOOLEAN
    /\ crashes \in 0 .. MaxCrashes

(***************************************************************************)
(* One handler at a time pays for a quote, and while it does the quote is  *)
(* Pending and the stored melt request is its own: process_melt_request    *)
(* computes the change from the amounts of the request that was paid for,  *)
(* whatever refusals, rollbacks, crashes and starts happen in between.     *)
(***************************************************************************)
OnePayer ==
    \A op \in Op : pc[op] \in Paying =>
        /\ quote_state[QuoteOf(op)] = "Pending"
        /\ melt_request[QuoteOf(op)] = op

(***************************************************************************)
(* A quote is not paid twice: a second payment is not begun for a quote    *)
(* while another is in flight or has been made, not even after a start of  *)
(* the mint has made the quote payable again, nor for an offer, which the  *)
(* node would pay as often as it is told to.                               *)
(***************************************************************************)
PaidOnce ==
    \A op1, op2 \in Op :
        /\ attempt[op1] \in {"inflight", "paid"}
        /\ attempt[op2] \in {"inflight", "paid"}
        /\ QuoteOf(op1) = QuoteOf(op2)
        => op1 = op2

(***************************************************************************)
(* The mint does not say that it paid when it did not, and burns proofs    *)
(* only then: a Paid quote has had its request paid, over Lightning or by  *)
(* settling a mint quote here, and a spent proof belongs to a Paid quote.  *)
(***************************************************************************)
BurntForPayment ==
    /\ \A q \in Quote : quote_state[q] = "Paid" =>
          \E op \in Attempts(Invoice[q]) : attempt[op] = "paid"
    /\ \A y \in Y : proofs[y] = "Spent" =>
          proof_quote[y] \in Quote /\ quote_state[proof_quote[y]] = "Paid"

(***************************************************************************)
(* The change is within what the wallet paid: the subtraction that gives   *)
(* its target does not underflow, and the signatures on it, the payment    *)
(* and the fee for the inputs are worth no more than the inputs.           *)
(***************************************************************************)
ChangeWithinInputs ==
    /\ \A op \in Op : pc[op] = "burnt" =>
          Total(Inputs(op)) >= total_spent[op] + CalculateFee(Inputs(op))
    /\ \A q \in Quote : change[q] > 0 =>
          \E op \in Op : /\ QuoteOf(op) = q
                         /\ attempt[op] = "paid"
                         /\ change[q] + total_spent[op]
                               + CalculateFee(Inputs(op)) =< Total(Inputs(op))

(***************************************************************************)
(* A spent proof, a signature on change and the state Paid are for ever,   *)
(* although rollbacks run late and delete_melt_request deletes by quote.   *)
(***************************************************************************)
Permanent ==
    [][/\ \A y \in Y : proofs[y] = "Spent" => proofs'[y] = "Spent"
       /\ \A b \in B : messages[b] = "Signed" => messages'[b] = "Signed"
       /\ \A q \in Quote : quote_state[q] = "Paid" => quote_state'[q] = "Paid"
      ]_vars

=============================================================================
