-------------------------- MODULE MintQuotesProofs --------------------------
(***************************************************************************)
(* Proofs about MintQuotes, for any number of quotes, payments, messages   *)
(* and requests, and for any set of faults.                                *)
(***************************************************************************)
EXTENDS MintQuotes, Sums

(***************************************************************************)
(* The books of a quote: what was paid and what was issued.  A BOLT11      *)
(* quote that has been issued was paid its amount and nothing else, so     *)
(* that no second request finds anything mintable.                         *)
(***************************************************************************)
Books ==
    /\ NotOverIssued
    /\ CreditedOnce
    /\ PaidOnce
    /\ \A p \in payments : ToUnit(PaymentMsat[p]) > 0
    /\ \A q \in Quote \ Bolt12 : amount_issued[q] # 0 =>
          amount_issued[q] = QuoteAmount[q] /\ amount_paid[q] = QuoteAmount[q]

(***************************************************************************)
(* What a handler holds: its request, and payments of its own quote.       *)
(***************************************************************************)
Handlers ==
    \A op \in Op :
        /\ pc[op] \in {"checking", "checked", "signed", "responded"}
              => request[op] \in Request
        /\ pc[op] \in {"checked", "signed"} => request[op].kind = "mint"
        /\ pc[op] = "checking" =>
              \A p \in seen[op] :
                  p \in settled /\ PaymentQuote[p] = request[op].quote

(***************************************************************************)
(* What was handed out: the outputs of an answered request are signed.     *)
(***************************************************************************)
Answers ==
    /\ SignedIsIssued
    /\ IssuedOnce
    /\ \A q \in Quote : \A op \in Responded(q) :
          /\ \A b \in request[op].outputs : messages[b] = "Signed"
          /\ q \notin Bolt12 => amount_issued[q] # 0

(***************************************************************************)
(* The inductive invariant.                                                *)
(***************************************************************************)
MintInv == TypeOK /\ Books /\ Handlers /\ Answers

-----------------------------------------------------------------------------
(***************************************************************************)
(* The amount of a request, and what was paid to a quote, add up.          *)
(***************************************************************************)
LEMMA SumsAdd ==
    /\ \A S, T \in SUBSET B :
          /\ TotalAmount(S) \in Nat
          /\ S \cap T = {} =>
                TotalAmount(S \cup T) = TotalAmount(S) + TotalAmount(T)
    /\ \A S, T \in SUBSET Payment :
          /\ TotalPaid(S) \in Nat
          /\ S \cap T = {} =>
                TotalPaid(S \cup T) = TotalPaid(S) + TotalPaid(T)
    /\ \A p \in Payment : TotalPaid({p}) = ToUnit(PaymentMsat[p])
  <1>1. PICK paid : paid = [p \in Payment |-> ToUnit(PaymentMsat[p])]
    BY Zenon
  <1>2. paid \in [Payment -> Nat]
    BY <1>1, MintQuoteConstants DEF ToUnit
  <1>3. \A S : TotalPaid(S) = SumFunctionOnSet(paid, S)
    BY <1>1, Zenon DEF TotalPaid
  <1>4. ASSUME NEW S \in SUBSET B, NEW T \in SUBSET B
        PROVE  /\ TotalAmount(S) \in Nat
               /\ S \cap T = {} =>
                     TotalAmount(S \cup T) = TotalAmount(S) + TotalAmount(T)
    <2>1. SumFunctionOnSet(OutputAmount, S) \in Nat
      BY MintQuoteConstants, SumType, Zenon
    <2>2. S \cap T = {} => SumFunctionOnSet(OutputAmount, S \cup T)
              = SumFunctionOnSet(OutputAmount, S) + SumFunctionOnSet(OutputAmount, T)
      BY MintQuoteConstants, SumUnion
    <2> QED
      BY <2>1, <2>2, Zenon DEF TotalAmount
  <1>5. ASSUME NEW S \in SUBSET Payment, NEW T \in SUBSET Payment
        PROVE  /\ TotalPaid(S) \in Nat
               /\ S \cap T = {} =>
                     TotalPaid(S \cup T) = TotalPaid(S) + TotalPaid(T)
    <2>1. SumFunctionOnSet(paid, S) \in Nat
      BY <1>2, MintQuoteConstants, SumType, Zenon
    <2>2. S \cap T = {} => SumFunctionOnSet(paid, S \cup T)
              = SumFunctionOnSet(paid, S) + SumFunctionOnSet(paid, T)
      BY <1>2, MintQuoteConstants, SumUnion
    <2> QED
      BY <1>3, <2>1, <2>2, Zenon
  <1>6. ASSUME NEW p \in Payment
        PROVE  TotalPaid({p}) = ToUnit(PaymentMsat[p])
    <2>1. SumFunctionOnSet(paid, {p}) = paid[p]
      BY <1>2, SumSingleton, MintQuoteConstants, Zenon
    <2> QED
      BY <1>1, <1>3, <2>1, Zenon
  <1> QED
    BY <1>4, <1>5, <1>6, Zenon

(***************************************************************************)
(* Nothing is the sum of nothing.                                          *)
(***************************************************************************)
LEMMA EmptySums == TotalPaid({}) = 0 /\ TotalAmount({}) = 0
  <1>1. {} \in SUBSET Payment /\ {} \in SUBSET B
    BY Zenon
  <1>2. TotalPaid({} \cup {}) = TotalPaid({}) + TotalPaid({})
        /\ TotalPaid({}) \in Nat
    BY <1>1, SumsAdd, Zenon
  <1>3. TotalAmount({} \cup {}) = TotalAmount({}) + TotalAmount({})
        /\ TotalAmount({}) \in Nat
    BY <1>1, SumsAdd, Zenon
  <1>4. {} \cup {} = {}
    BY Zenon
  <1>5. \A n \in Nat : n = n + n => n = 0
    OBVIOUS
  <1> QED
    BY <1>2, <1>3, <1>4, <1>5, Zenon

(***************************************************************************)
(* A set of payments is worth at least each of its members.                *)
(***************************************************************************)
LEMMA SumAtLeastMember ==
    ASSUME NEW S \in SUBSET Payment, NEW p \in S
    PROVE  TotalPaid(S) >= ToUnit(PaymentMsat[p])
  <1> DEFINE rest == S \ {p}
  <1>1. rest \in SUBSET Payment /\ {p} \in SUBSET Payment
        /\ rest \cap {p} = {} /\ rest \cup {p} = S /\ p \in Payment
    BY Zenon
  <1>2. TotalPaid(S) = TotalPaid(rest) + TotalPaid({p})
        /\ TotalPaid(rest) \in Nat /\ TotalPaid({p}) \in Nat
    BY <1>1, SumsAdd, Zenon
  <1>3. TotalPaid({p}) = ToUnit(PaymentMsat[p])
    BY <1>1, SumsAdd, Zenon
  <1>4. \A m, n \in Nat : m + n >= n
    OBVIOUS
  <1> QED
    BY <1>2, <1>3, <1>4, Zenon

(***************************************************************************)
(* The unit value of a payment is an amount.                               *)
(***************************************************************************)
LEMMA ToUnitNat == \A p \in Payment : ToUnit(PaymentMsat[p]) \in Nat
  BY MintQuoteConstants DEF ToUnit

-----------------------------------------------------------------------------
(***************************************************************************)
(* Crediting new payments of one quote keeps the books, whichever of the   *)
(* three paths does it: a BOLT11 quote gets one payment at most, and none  *)
(* when it is settled.                                                     *)
(***************************************************************************)
LEMMA CreditKeepsBooks ==
    ASSUME TypeOK, Books,
           NEW q \in Quote, NEW new \in SUBSET Payment,
           \A p \in new : /\ PaymentQuote[p] = q
                          /\ p \notin payments
                          /\ ToUnit(PaymentMsat[p]) > 0
                          /\ p \in settled',
           q \notin Bolt12 => \A x, y \in new : x = y,
           Settled(q) => new = {},
           payments' = payments \cup new,
           amount_paid' = [amount_paid EXCEPT ![q] = @ + TotalPaid(new)],
           amount_issued' = amount_issued,
           settled \subseteq settled'
    PROVE  Books'
  <1> USE DEF TypeOK
  <1>1. TotalPaid(new) \in Nat
    BY SumsAdd, Zenon
  <1>2. \A r \in Quote : /\ amount_paid[r] \in Nat /\ amount_issued[r] \in Nat
                         /\ amount_paid'[r] =
                              IF r = q THEN amount_paid[r] + TotalPaid(new)
                                       ELSE amount_paid[r]
    BY Zenon
  <1>3. NotOverIssued'
    BY <1>1, <1>2 DEF Books, NotOverIssued
  <1>4. CreditedOnce'
    <2>1. payments' \subseteq settled'
      BY Zenon DEF Books, CreditedOnce
    <2>2. ASSUME NEW r \in Quote
          PROVE  amount_paid'[r] = TotalPaid(PaymentsOf(r, payments'))
      <3>1. amount_paid[r] = TotalPaid(PaymentsOf(r, payments))
        BY <2>2, Zenon DEF Books, CreditedOnce
      <3>2. CASE r = q
        <4>1. /\ PaymentsOf(r, payments') = PaymentsOf(r, payments) \cup new
              /\ PaymentsOf(r, payments) \cap new = {}
              /\ PaymentsOf(r, payments) \in SUBSET Payment
          BY <3>2, Zenon DEF PaymentsOf
        <4>2. TotalPaid(PaymentsOf(r, payments) \cup new)
                = TotalPaid(PaymentsOf(r, payments)) + TotalPaid(new)
          BY <4>1, SumsAdd, Zenon
        <4> QED
          BY <1>2, <3>1, <3>2, <4>1, <4>2, Zenon
      <3>3. CASE r # q
        <4>1. PaymentsOf(r, payments') = PaymentsOf(r, payments)
          BY <3>3, Zenon DEF PaymentsOf
        <4> QED
          BY <1>2, <3>1, <3>3, <4>1, Zenon
      <3> QED
        BY <3>2, <3>3, Zenon
    <2> QED
      BY <2>1, <2>2, Zenon DEF CreditedOnce, PaymentsOf
  <1>5. ASSUME q \notin Bolt12, ~Settled(q)
        PROVE  amount_issued[q] = 0 /\ PaymentsOf(q, payments) = {}
    <2>1. amount_paid[q] = 0 /\ amount_issued[q] = 0
      BY <1>2, <1>5, Zenon DEF Settled, QuoteState
    <2>2. TotalPaid(PaymentsOf(q, payments)) = 0
      BY <2>1, Zenon DEF Books, CreditedOnce
    <2>3. ASSUME NEW p \in PaymentsOf(q, payments) PROVE FALSE
      <3>1. PaymentsOf(q, payments) \in SUBSET Payment /\ p \in payments
            /\ p \in Payment
        BY <2>3, Zenon DEF PaymentsOf
      <3>2. TotalPaid(PaymentsOf(q, payments)) >= ToUnit(PaymentMsat[p])
        BY <2>3, <3>1, SumAtLeastMember, Zenon
      <3>3. ToUnit(PaymentMsat[p]) > 0 /\ ToUnit(PaymentMsat[p]) \in Nat
        BY <3>1, ToUnitNat, Zenon DEF Books
      <3> QED
        BY <2>2, <3>2, <3>3
    <2> QED
      BY <2>1, <2>3, Zenon
  <1>6. PaidOnce'
    <2>1. ASSUME NEW r \in Quote \ Bolt12,
                 NEW x \in PaymentsOf(r, payments'),
                 NEW y \in PaymentsOf(r, payments')
          PROVE  x = y
      <3>1. CASE r = q /\ new # {}
        <4>1. PaymentsOf(q, payments) = {}
          BY <1>5, <2>1, <3>1, Zenon
        <4> QED
          BY <2>1, <3>1, <4>1, Zenon DEF PaymentsOf
      <3>2. CASE ~(r = q /\ new # {})
        <4>1. PaymentsOf(r, payments') = PaymentsOf(r, payments)
          BY <3>2, Zenon DEF PaymentsOf
        <4> QED
          BY <2>1, <4>1, Zenon DEF Books, PaidOnce
      <3> QED
        BY <3>1, <3>2, Zenon
    <2> QED
      BY <2>1, Zenon DEF PaidOnce, PaymentsOf
  <1>7. \A p \in payments' : ToUnit(PaymentMsat[p]) > 0
    BY Zenon DEF Books
  <1>8. \A r \in Quote \ Bolt12 : amount_issued'[r] # 0 =>
          amount_issued'[r] = QuoteAmount[r] /\ amount_paid'[r] = QuoteAmount[r]
    <2> SUFFICES ASSUME NEW r \in Quote \ Bolt12, amount_issued[r] # 0
                 PROVE  /\ amount_issued[r] = QuoteAmount[r]
                        /\ amount_paid'[r] = QuoteAmount[r]
      BY Zenon
    <2>1. amount_issued[r] = QuoteAmount[r] /\ amount_paid[r] = QuoteAmount[r]
      BY Zenon DEF Books
    <2>2. r = q => new = {}
      BY <1>5, Zenon
    <2>3. r = q => TotalPaid(new) = 0
      BY <2>2, EmptySums, Zenon
    <2>4. amount_paid'[r] = amount_paid[r]
      BY <1>2, <2>3
    <2> QED
      BY <2>1, <2>4, Zenon
  <1> QED
    BY <1>3, <1>4, <1>6, <1>7, <1>8, Zenon DEF Books

(***************************************************************************)
(* A step that touches neither column of the quotes keeps the books.       *)
(***************************************************************************)
LEMMA BooksUntouched ==
    ASSUME Books, UNCHANGED <<amount_paid, amount_issued, payments>>,
           settled \subseteq settled'
    PROVE  Books'
  BY Zenon DEF Books, NotOverIssued, CreditedOnce, PaidOnce, PaymentsOf

(***************************************************************************)
(* A step that signs nothing keeps what is said about the answers, if the  *)
(* mint requests that are answered stay the same.                          *)
(***************************************************************************)
LEMMA AnswersUntouched ==
    ASSUME Answers, UNCHANGED <<messages, amount_issued>>,
           \A op \in Op :
               LET Answered == pc[op] = "responded" /\ request[op].kind = "mint"
               IN  Answered' = Answered /\ (Answered => request'[op] = request[op])
    PROVE  Answers'
  <1>1. \A q \in Quote : Responded(q)' = Responded(q)
    BY Zenon DEF Responded
  <1>2. \A q \in Quote : \A op \in Responded(q) : request'[op] = request[op]
    BY Zenon DEF Responded
  <1>3. SignedIsIssued'
    <2>1. ASSUME NEW q \in Quote
          PROVE  UNION {request'[op].outputs : op \in Responded(q)'}
                   = UNION {request[op].outputs : op \in Responded(q)}
      BY <1>1, <1>2
    <2> QED
      BY <2>1, Zenon DEF Answers, SignedIsIssued
  <1>4. IssuedOnce'
    BY <1>1, <1>2 DEF Answers, IssuedOnce
  <1>5. \A q \in Quote : \A op \in Responded(q)' :
          /\ \A b \in request'[op].outputs : messages'[b] = "Signed"
          /\ q \notin Bolt12 => amount_issued'[q] # 0
    BY <1>1, <1>2, Zenon DEF Answers
  <1> QED
    BY <1>3, <1>4, <1>5, Zenon DEF Answers

(***************************************************************************)
(* The initial state, an empty database, satisfies the invariant.          *)
(***************************************************************************)
LEMMA MintInit == Init => MintInv
  <1> SUFFICES ASSUME Init PROVE MintInv
    BY Zenon
  <1> USE DEF Init
  <1>1. TypeOK
    BY Zenon DEF TypeOK, PC
  <1>2. \A q \in Quote : PaymentsOf(q, payments) = {}
    BY Zenon DEF PaymentsOf
  <1>3. CreditedOnce
    <2>1. \A q \in Quote : amount_paid[q] = 0
      BY Zenon
    <2>2. payments \subseteq settled
      BY Zenon
    <2> QED
      BY <1>2, <2>1, <2>2, EmptySums, Zenon DEF CreditedOnce
  <1>4. Books
    BY <1>2, <1>3 DEF Books, NotOverIssued, PaidOnce
  <1>5. Handlers
    BY Zenon DEF Handlers
  <1>6. \A q \in Quote : Responded(q) = {}
    BY Zenon DEF Responded
  <1>7. SignedIsIssued
    <2>1. \A q \in Quote : amount_issued[q] = 0
      BY Zenon
    <2>2. \A q \in Quote :
            UNION {request[op].outputs : op \in Responded(q)} = {}
      BY <1>6, Zenon
    <2> QED
      BY <2>1, <2>2, EmptySums, Zenon DEF SignedIsIssued
  <1>8. Answers
    BY <1>6, <1>7, Zenon DEF Answers, IssuedOnce
  <1> QED
    BY <1>1, <1>4, <1>5, <1>8, Zenon DEF MintInv

-----------------------------------------------------------------------------
(***************************************************************************)
(* A new quote, and a payment made over Lightning.                         *)
(***************************************************************************)
LEMMA OutsideSteps ==
    ASSUME MintInv,
           \/ \E q \in Quote : GetMintQuote(q)
           \/ \E p \in Payment : Pay(p)
    PROVE  MintInv'
  <1>1. /\ UNCHANGED <<amount_paid, amount_issued, payments, messages, request,
                       pc, seen, due>>
        /\ settled \subseteq settled'
        /\ stored' \subseteq Quote /\ settled' \subseteq Payment
    BY Zenon DEF GetMintQuote, Pay, quotes, MintInv, TypeOK
  <1>2. TypeOK'
    BY <1>1, Zenon DEF MintInv, TypeOK
  <1>3. Books'
    BY <1>1, BooksUntouched, Zenon DEF MintInv
  <1>4. Handlers'
    BY <1>1, Zenon DEF MintInv, Handlers
  <1>5. Answers'
    BY <1>1, AnswersUntouched, Zenon DEF MintInv
  <1> QED
    BY <1>2, <1>3, <1>4, <1>5, Zenon DEF MintInv

(***************************************************************************)
(* A payment reported by the stream, or made internally by a melt.         *)
(***************************************************************************)
LEMMA CreditSteps ==
    ASSUME MintInv, NEW p \in Payment,
           HandlePaymentNotification(p) \/ HandleInternalMeltMint(p)
    PROVE  MintInv'
  <1>1. /\ UNCHANGED <<stored, amount_issued, messages, request, pc, seen, due>>
        /\ settled \subseteq settled' /\ settled' \subseteq Payment
        /\ p \in settled'
        /\ ~Settled(PaymentQuote[p])
        /\ IncrementAmountPaidOk(p) /\ IncrementAmountPaid(p)
    BY Zenon DEF HandlePaymentNotification, HandleInternalMeltMint, MintInv, TypeOK
  <1>2. PaymentQuote[p] \in Quote /\ ToUnit(PaymentMsat[p]) \in Nat
    BY MintQuoteConstants, ToUnitNat, Zenon
  <1>3. TypeOK'
    BY <1>1, <1>2 DEF MintInv, TypeOK, IncrementAmountPaid
  <1>4. Books'
    <2>1. TotalPaid({p}) = ToUnit(PaymentMsat[p])
      BY SumsAdd, Zenon
    <2>2. amount_paid' = [amount_paid EXCEPT ![PaymentQuote[p]]
                                           = @ + TotalPaid({p})]
      BY <1>1, <2>1, Zenon DEF IncrementAmountPaid
    <2>3. /\ p \notin payments /\ ToUnit(PaymentMsat[p]) > 0
          /\ payments' = payments \cup {p}
      BY <1>1, Zenon DEF IncrementAmountPaidOk, IncrementAmountPaid
    <2>4. {p} \in SUBSET Payment /\ (\A x, y \in {p} : x = y)
      BY Zenon
    <2>5. \A x \in {p} : /\ PaymentQuote[x] = PaymentQuote[p]
                         /\ x \notin payments
                         /\ ToUnit(PaymentMsat[x]) > 0
                         /\ x \in settled'
      BY <1>1, <2>3, Zenon
    <2>6. TypeOK /\ Books /\ amount_issued' = amount_issued
      BY <1>1, Zenon DEF MintInv
    <2> QED
      BY <1>1, <1>2, <2>2, <2>3, <2>4, <2>5, <2>6, CreditKeepsBooks, Zenon
  <1>5. Handlers'
    BY <1>1, Zenon DEF MintInv, Handlers
  <1>6. Answers'
    BY <1>1, AnswersUntouched, Zenon DEF MintInv
  <1> QED
    BY <1>3, <1>4, <1>5, <1>6, Zenon DEF MintInv

(***************************************************************************)
(* A handler that reads its quote and asks the backend.                    *)
(***************************************************************************)
LEMMA ReceiveStep ==
    ASSUME MintInv, NEW op \in Op, NEW r \in Request, Receive(op, r)
    PROVE  MintInv'
  <1> USE DEF MintInv
  <1>1. /\ pc[op] = "idle" /\ UNCHANGED <<quotes, messages, settled>>
        /\ request' = [request EXCEPT ![op] = r]
        /\ due' = [due EXCEPT ![op] = CheckIncomingPaymentStatus(r.quote)]
    BY Zenon DEF Receive
  <1>2. CheckIncomingPaymentStatus(r.quote) \subseteq Payment \ Internal
    BY Zenon DEF CheckIncomingPaymentStatus, TypeOK
  <1>3. /\ \/ seen' = seen
           \/ seen' = [seen EXCEPT ![op] = CheckIncomingPaymentStatus(r.quote)]
        /\ \/ pc' = [pc EXCEPT ![op] = AfterCheck(r)]
           \/ /\ pc' = [pc EXCEPT ![op] = "checking"]
              /\ seen' = [seen EXCEPT ![op]
                                    = CheckIncomingPaymentStatus(r.quote)]
    BY Zenon DEF Receive
  <1>4. \/ AfterCheck(r) = "responded" /\ r.kind = "check"
        \/ AfterCheck(r) = "checked" /\ r.kind = "mint"
    BY Zenon DEF AfterCheck, Request
  <1>5. TypeOK'
    BY <1>1, <1>2, <1>3, <1>4 DEF TypeOK, PC, quotes
  <1>6. Books'
    BY <1>1, BooksUntouched, Zenon DEF quotes
  <1>7. Handlers'
    BY <1>1, <1>3, <1>4 DEF Handlers, TypeOK, CheckIncomingPaymentStatus, quotes
  <1>8. Answers'
    <2>1. pc'[op] = "responded" => request'[op].kind = "check"
      BY <1>1, <1>3, <1>4, Zenon DEF TypeOK
    <2>2. \A o \in Op \ {op} : pc'[o] = pc[o] /\ request'[o] = request[o]
      BY <1>1, <1>3, Zenon DEF TypeOK
    <2> QED
      BY <1>1, <2>1, <2>2, AnswersUntouched, Zenon DEF quotes
  <1> QED
    BY <1>5, <1>6, <1>7, <1>8, Zenon

(***************************************************************************)
(* A handler that ends without an answer.                                  *)
(***************************************************************************)
LEMMA LeaveStep ==
    ASSUME MintInv, NEW op \in Op, NEW end \in {"failed", "lost"},
           pc[op] # "responded", Leave(op, end)
    PROVE  MintInv'
  <1> USE DEF MintInv
  <1>1. TypeOK'
    BY Zenon DEF TypeOK, Leave, PC, quotes
  <1>2. Books'
    BY BooksUntouched, Zenon DEF Leave, quotes
  <1>3. Handlers'
    BY Zenon DEF Handlers, TypeOK, Leave
  <1>4. Answers'
    <2>1. pc'[op] # "responded"
      BY Zenon DEF TypeOK, Leave
    <2>2. \A o \in Op \ {op} : pc'[o] = pc[o] /\ request'[o] = request[o]
      BY Zenon DEF TypeOK, Leave
    <2>3. UNCHANGED <<messages, amount_issued>>
      BY Zenon DEF Leave, quotes
    <2> QED
      BY <2>1, <2>2, <2>3, AnswersUntouched, Zenon
  <1> QED
    BY <1>1, <1>2, <1>3, <1>4, Zenon

(***************************************************************************)
(* The transaction of check_mint_quote_paid.  What it records is payments  *)
(* over Lightning, of which a BOLT11 quote has one.                        *)
(***************************************************************************)
LEMMA CheckStep ==
    ASSUME MintInv, NEW op \in Op, CheckMintQuotePaid(op)
    PROVE  MintInv'
  <1> USE DEF MintInv
  <1> DEFINE q == request[op].quote
             new == IF Settled(q) THEN {} ELSE Unrecorded(q, seen[op])
  <1>1. /\ pc[op] = "checking"
        /\ \A p \in new : IncrementAmountPaidOk(p)
        /\ payments' = payments \cup new
        /\ amount_paid' = [amount_paid EXCEPT ![q] = @ + TotalPaid(new)]
        /\ pc' = [pc EXCEPT ![op] = AfterCheck(request[op])]
        /\ seen' = [seen EXCEPT ![op] = {}]
        /\ UNCHANGED <<stored, amount_issued, messages, settled, request, due>>
    BY Zenon DEF CheckMintQuotePaid
  <1>2. request[op] \in Request /\ q \in Quote
    BY <1>1, Zenon DEF Handlers, Request
  <1>3. /\ new \subseteq seen[op] /\ seen[op] \subseteq Payment \ Internal
        /\ new \in SUBSET Payment
        /\ \A p \in new : PaymentQuote[p] = q /\ p \notin payments
                          /\ p \in settled
    BY <1>1, Zenon DEF Unrecorded, TypeOK, Handlers
  <1>4. \/ AfterCheck(request[op]) = "responded" /\ request[op].kind = "check"
        \/ AfterCheck(request[op]) = "checked" /\ request[op].kind = "mint"
    BY <1>2, Zenon DEF AfterCheck, Request
  <1>5. TotalPaid(new) \in Nat
    BY <1>3, SumsAdd, Zenon
  <1> HIDE DEF new
  <1>6. TypeOK'
    BY <1>1, <1>2, <1>3, <1>4, <1>5 DEF TypeOK, PC
  <1>7. Books'
    <2>1. q \notin Bolt12 => \A x, y \in new : x = y
      BY <1>3, InvoicePaidOnce, Zenon
    <2>2. Settled(q) => new = {}
      BY SMTT(30) DEF new
    <2>3. \A p \in new : /\ PaymentQuote[p] = q
                         /\ p \notin payments
                         /\ ToUnit(PaymentMsat[p]) > 0
                         /\ p \in settled'
      BY <1>1, <1>3, Zenon DEF IncrementAmountPaidOk
    <2>4. settled \subseteq settled' /\ amount_issued' = amount_issued
      BY <1>1, Zenon
    <2>5. TypeOK /\ Books
      BY Zenon
    <2> QED
      BY <1>1, <1>2, <1>3, <2>1, <2>2, <2>3, <2>4, <2>5, CreditKeepsBooks, Zenon
  <1>8. Handlers'
    BY <1>1, <1>2, <1>4, Zenon DEF Handlers, TypeOK
  <1>9. Answers'
    <2>1. pc'[op] = "responded" => request'[op].kind = "check"
      BY <1>1, <1>4, Zenon DEF TypeOK
    <2>2. \A o \in Op \ {op} : pc'[o] = pc[o]
      BY <1>1, Zenon DEF TypeOK
    <2> QED
      BY <1>1, <2>1, <2>2, AnswersUntouched, Zenon
  <1> QED
    BY <1>6, <1>7, <1>8, <1>9, Zenon

(***************************************************************************)
(* The call of the signatory changes nothing but the place of the handler. *)
(***************************************************************************)
LEMMA BlindSignStep ==
    ASSUME MintInv, NEW op \in Op, BlindSign(op)
    PROVE  MintInv'
  <1> USE DEF MintInv
  <1>1. TypeOK'
    BY Zenon DEF TypeOK, BlindSign, PC, quotes
  <1>2. Books'
    BY BooksUntouched, Zenon DEF BlindSign, quotes
  <1>3. Handlers'
    BY Zenon DEF Handlers, TypeOK, BlindSign
  <1>4. Answers'
    <2>1. pc[op] # "responded" /\ pc'[op] # "responded"
      BY Zenon DEF TypeOK, BlindSign
    <2>2. \A o \in Op \ {op} : pc'[o] = pc[o]
      BY Zenon DEF TypeOK, BlindSign
    <2>3. UNCHANGED <<messages, amount_issued, request>>
      BY Zenon DEF BlindSign, quotes
    <2> QED
      BY <2>1, <2>2, <2>3, AnswersUntouched, Zenon
  <1> QED
    BY <1>1, <1>2, <1>3, <1>4, Zenon

(***************************************************************************)
(* The issuing transaction.  Its outputs are new, so that they are not     *)
(* those of an earlier answer; and a BOLT11 quote that it accepts has been *)
(* issued to nobody.                                                       *)
(***************************************************************************)
LEMMA IssueStep ==
    ASSUME MintInv, NEW op \in Op, Issue(op)
    PROVE  MintInv'
  <1> USE DEF MintInv
  <1>0. pc[op] = "signed" /\ request[op] \in Request
        /\ request[op].kind = "mint"
    BY Zenon DEF Issue, Handlers
  <1> PICK q \in Quote, bs \in SUBSET B :
             q = request[op].quote /\ bs = request[op].outputs
    BY <1>0, Zenon DEF Request
  <1>1. /\ pc[op] = "signed" /\ IssueOk(request[op])
        /\ messages' = AddBlindSignatures(AddBlindedMessages(messages, bs), bs)
        /\ amount_issued' = [amount_issued EXCEPT ![q] = @ + TotalAmount(bs)]
        /\ pc' = [pc EXCEPT ![op] = "responded"]
        /\ UNCHANGED <<stored, amount_paid, payments, settled, request, seen,
                       due>>
    BY Zenon DEF Issue
  <1>2. /\ request[op] \in Request /\ request[op].kind = "mint"
        /\ q \in Quote /\ bs \in SUBSET B
    BY <1>0, Zenon
  <1>3. /\ QuoteState(q) = "Paid" /\ AmountOk(q, TotalAmount(bs))
        /\ amount_issued[q] + TotalAmount(bs) =< amount_paid[q]
        /\ \A b \in bs : messages[b] # "Signed"
    <2>1. /\ QuoteState(q) = "Paid" /\ AmountOk(q, TotalAmount(bs))
          /\ OutputsOk(bs) /\ IncrementAmountIssuedOk(q, TotalAmount(bs))
      BY <1>1, Zenon DEF IssueOk
    <2>2. \A b \in bs : messages[b] # "Signed"
      BY <2>1, Zenon DEF OutputsOk
    <2>3. amount_issued[q] + TotalAmount(bs) =< amount_paid[q]
      BY <2>1, Zenon DEF IncrementAmountIssuedOk
    <2> QED
      BY <2>1, <2>2, <2>3, Zenon
  <1>4. TotalAmount(bs) \in Nat
    BY <1>2, SumsAdd, Zenon
  <1>5. /\ messages' \in [B -> {"None", "Signed"}]
        /\ \A b \in bs : messages'[b] = "Signed"
        /\ \A b \in B : messages[b] = "Signed" => messages'[b] = "Signed"
    BY <1>1, <1>2, Zenon DEF TypeOK, AddBlindSignatures, AddBlindedMessages, SetAll
  <1>6. \A r \in Quote : /\ amount_issued[r] \in Nat /\ amount_paid[r] \in Nat
                         /\ amount_issued'[r] =
                              IF r = q THEN amount_issued[r] + TotalAmount(bs)
                                       ELSE amount_issued[r]
    BY <1>1, Zenon DEF TypeOK
  <1>7. TypeOK'
    BY <1>1, <1>2, <1>4, <1>5 DEF TypeOK, PC
  <1>8. q \notin Bolt12 => /\ amount_issued[q] = 0
                           /\ TotalAmount(bs) = QuoteAmount[q]
                           /\ amount_paid[q] = QuoteAmount[q]
                           /\ QuoteAmount[q] # 0
    <2> SUFFICES ASSUME q \notin Bolt12
                 PROVE  /\ amount_issued[q] = 0
                        /\ TotalAmount(bs) = QuoteAmount[q]
                        /\ amount_paid[q] = QuoteAmount[q]
                        /\ QuoteAmount[q] # 0
      BY Zenon
    <2>1. amount_paid[q] > amount_issued[q]
      BY <1>2, <1>3, <1>6, Zenon DEF QuoteState
    <2>2. amount_issued[q] = 0
      BY <1>2, <1>6, <2>1 DEF Books
    <2>3. /\ QuoteAmount[q] = amount_paid[q] - amount_issued[q]
          /\ TotalAmount(bs) = QuoteAmount[q]
      BY <1>3, Zenon DEF AmountOk, AmountMintable
    <2> QED
      BY <1>2, <1>6, <2>1, <2>2, <2>3
  <1>9. Books'
    <2>1. NotOverIssued'
      BY <1>1, <1>3, <1>6 DEF NotOverIssued, Books
    <2>2. CreditedOnce' /\ PaidOnce'
      BY <1>1, Zenon DEF Books, CreditedOnce, PaidOnce, PaymentsOf
    <2>3. \A p \in payments' : ToUnit(PaymentMsat[p]) > 0
      BY <1>1, Zenon DEF Books
    <2>4. ASSUME NEW r \in Quote \ Bolt12, amount_issued'[r] # 0
          PROVE  amount_issued'[r] = QuoteAmount[r]
                 /\ amount_paid'[r] = QuoteAmount[r]
      <3>1. CASE r = q
        <4>1. amount_issued'[r] = 0 + QuoteAmount[q]
              /\ QuoteAmount[q] \in Nat
          BY <1>6, <1>8, <2>4, <3>1, MintQuoteConstants, Zenon
        <4> QED
          BY <1>1, <1>8, <2>4, <3>1, <4>1, SMTT(30)
      <3>2. CASE r # q
        BY <1>1, <1>6, <2>4, <3>2, SMTT(30) DEF Books
      <3> QED
        BY <3>1, <3>2, Zenon
    <2> QED
      BY <2>1, <2>2, <2>3, <2>4, SMTT(30) DEF Books
  <1>10. Handlers'
    <2> SUFFICES ASSUME NEW o \in Op
                 PROVE  /\ pc'[o] \in {"checking", "checked", "signed",
                                       "responded"} => request[o] \in Request
                        /\ pc'[o] \in {"checked", "signed"}
                              => request[o].kind = "mint"
                        /\ pc'[o] = "checking" =>
                              \A p \in seen[o] :
                                  /\ p \in settled
                                  /\ PaymentQuote[p] = request[o].quote
      BY <1>1, Zenon DEF Handlers
    <2>1. pc'[o] = IF o = op THEN "responded" ELSE pc[o]
      BY <1>1, Zenon DEF TypeOK
    <2>2. CASE o = op
      BY <1>2, <2>1, <2>2, Zenon
    <2>3. CASE o # op
      <3>1. pc'[o] = pc[o]
        BY <2>1, <2>3, Zenon
      <3> QED
        BY <3>1, Zenon DEF Handlers
    <2> QED
      BY <2>2, <2>3, Zenon
  <1>11. Answers'
    <2>1. /\ \A r \in Quote \ {q} : Responded(r)' = Responded(r)
          /\ Responded(q)' = Responded(q) \cup {op}
          /\ op \notin Responded(q)
      BY <1>1, <1>2, SMTT(30) DEF Responded, TypeOK
    <2>2. \A r \in Quote : \A o \in Responded(r) : request[o].outputs \cap bs = {}
      BY <1>3, Zenon DEF Answers
    <2>3. q \notin Bolt12 => Responded(q) = {}
      BY <1>2, <1>8, Zenon DEF Answers
    <2>4. SignedIsIssued'
      <3> DEFINE Out(r) == UNION {request[o].outputs : o \in Responded(r)}
      <3>1. \A r \in Quote : amount_issued[r] = TotalAmount(Out(r))
        BY Zenon DEF Answers, SignedIsIssued
      <3>2. Out(q) \in SUBSET B
        <4>1. \A o \in Responded(q) : request[o].outputs \in SUBSET B
          BY ZenonT(30), Zenon DEF Responded, Handlers, Request
        <4> QED
          BY <4>1, Zenon
      <3>3. Out(q)' = Out(q) \cup bs /\ Out(q) \cap bs = {}
        BY <1>1, <1>2, <2>1, <2>2
      <3>4. TotalAmount(Out(q) \cup bs) = TotalAmount(Out(q)) + TotalAmount(bs)
        BY <1>2, <3>2, <3>3, SumsAdd, Zenon
      <3>5. ASSUME NEW r \in Quote \ {q} PROVE Out(r)' = Out(r)
        <4>1. Responded(r)' = Responded(r) /\ request' = request
          BY <1>1, <2>1, <3>5, Zenon
        <4> QED
          BY <4>1, Zenon
      <3>6. \A r \in Quote : amount_issued'[r] = TotalAmount(Out(r)')
        BY <1>2, <1>6, <3>1, <3>3, <3>4, <3>5, Zenon
      <3> QED
        BY <3>6, Zenon DEF SignedIsIssued
    <2>5. IssuedOnce'
      <3>1. ASSUME NEW r \in Quote \ Bolt12
            PROVE  /\ \A o1, o2 \in Responded(r)' : o1 = o2
                   /\ amount_issued'[r] \in {0, QuoteAmount[r]}
        <4>1. \A o1, o2 \in Responded(r) : o1 = o2
          BY <3>1, Zenon DEF Answers, IssuedOnce
        <4>2. \A o1, o2 \in Responded(r)' : o1 = o2
          <5>1. CASE r = q
            <6>1. Responded(r)' = {op}
              BY <2>1, <2>3, <3>1, <5>1, Zenon
            <6> QED
              BY <6>1, Zenon
          <5>2. CASE r # q
            <6>1. Responded(r)' = Responded(r)
              BY <2>1, <3>1, <5>2, Zenon
            <6> QED
              BY <4>1, <6>1, Zenon
          <5> QED
            BY <5>1, <5>2, Zenon
        <4>3. amount_issued'[r] \in {0, QuoteAmount[r]}
          BY <1>9, <3>1, SMTT(30) DEF Books
        <4> QED
          BY <4>2, <4>3, Zenon
      <3>2. ASSUME NEW r1 \in Quote, NEW r2 \in Quote,
                   NEW o1 \in Responded(r1)', NEW o2 \in Responded(r2)',
                   o1 # o2
            PROVE  request'[o1].outputs \cap request'[o2].outputs = {}
        <4>1. o1 # op => o1 \in Responded(r1)
          BY <2>1, <3>2, Zenon
        <4>2. o2 # op => o2 \in Responded(r2)
          BY <2>1, <3>2, Zenon
        <4> QED
          BY <1>1, <2>2, <3>2, <4>1, <4>2, ZenonT(30), Zenon DEF Answers, IssuedOnce
      <3> QED
        BY <3>1, <3>2, Zenon DEF IssuedOnce
    <2>6. ASSUME NEW r \in Quote, NEW o \in Responded(r)'
          PROVE  /\ \A b \in request'[o].outputs : messages'[b] = "Signed"
                 /\ r \notin Bolt12 => amount_issued'[r] # 0
      <3>1. CASE o = op
        <4>1. r = q
          BY <1>1, <2>6, <3>1, ZenonT(30), Zenon DEF Responded
        <4>2. QuoteAmount[q] \in Nat /\ amount_issued'[q] = amount_issued[q]
                                                        + TotalAmount(bs)
          BY <1>2, <1>6, MintQuoteConstants, ZenonT(30), Zenon
        <4>3. q \notin Bolt12 => amount_issued'[q] # 0
          <5>1. \A n \in Nat : n # 0 => 0 + n # 0
            OBVIOUS
          <5> QED
            BY <1>8, <4>2, <5>1, ZenonT(30), Zenon
        <4> QED
          BY <1>1, <1>5, <3>1, <4>1, <4>3, ZenonT(30), Zenon
      <3>2. CASE o # op
        <4>1. o \in Responded(r)
          BY <2>1, <2>6, <3>2, SMTT(30)
        <4>2. request[o].outputs \in SUBSET B
          BY <4>1, ZenonT(30), Zenon DEF Responded, Handlers, Request
        <4>3. amount_issued[r] # 0 => amount_issued'[r] # 0
          BY <1>4, <1>6
        <4> QED
          BY <1>1, <1>5, <4>1, <4>2, <4>3, Zenon DEF Answers
      <3> QED
        BY <3>1, <3>2, Zenon
    <2> QED
      BY <2>4, <2>5, <2>6, SMTT(30) DEF Answers
  <1> QED
    BY <1>7, <1>9, <1>10, <1>11, Zenon

-----------------------------------------------------------------------------
(***************************************************************************)
(* Every step preserves the invariant.                                     *)
(***************************************************************************)
LEMMA MintNext == MintInv /\ [Next]_vars => MintInv'
  <1> SUFFICES ASSUME MintInv, [Next]_vars PROVE MintInv'
    BY Zenon
  <1>1. CASE UNCHANGED vars
    <2>1. TypeOK' /\ Handlers'
      BY <1>1, Zenon DEF MintInv, TypeOK, Handlers, vars
    <2>2. Books'
      BY <1>1, BooksUntouched, Zenon DEF MintInv, vars
    <2>3. Answers'
      BY <1>1, AnswersUntouched, Zenon DEF MintInv, vars
    <2> QED
      BY <2>1, <2>2, <2>3, Zenon DEF MintInv
  <1>2. CASE \/ \E q \in Quote : GetMintQuote(q)
             \/ \E p \in Payment : Pay(p)
    BY <1>2, OutsideSteps, Zenon
  <1>3. ASSUME NEW p \in Payment,
               HandlePaymentNotification(p) \/ HandleInternalMeltMint(p)
        PROVE  MintInv'
    BY <1>3, CreditSteps, Zenon
  <1>4. ASSUME NEW op \in Op, NEW r \in Request, Receive(op, r)
        PROVE  MintInv'
    BY <1>4, ReceiveStep, Zenon
  <1>5. ASSUME NEW op \in Op,
               \/ \E r \in Request : ReceiveFails(op, r)
               \/ CheckMintQuotePaidFails(op) \/ BlindSignFails(op)
               \/ IssueFails(op) \/ IssuePanics(op) \/ HangUp(op)
        PROVE  MintInv'
    <2>1. pc[op] # "responded" /\ \E end \in {"failed", "lost"} : Leave(op, end)
      BY <1>5, Zenon DEF ReceiveFails, CheckMintQuotePaidFails, BlindSignFails,
                  IssueFails, IssuePanics, HangUp
    <2> QED
      BY <1>5, <2>1, LeaveStep, Zenon
  <1>6. ASSUME NEW op \in Op, CheckMintQuotePaid(op) PROVE MintInv'
    BY <1>6, CheckStep, Zenon
  <1>7. ASSUME NEW op \in Op, BlindSign(op) PROVE MintInv'
    BY <1>7, BlindSignStep, Zenon
  <1>8. ASSUME NEW op \in Op, Issue(op) PROVE MintInv'
    BY <1>8, IssueStep, Zenon
  <1> QED
    BY <1>1, <1>2, <1>3, <1>4, <1>5, <1>6, <1>7, <1>8, Zenon DEF Next, Handle

(***************************************************************************)
(* The invariant holds in every reachable state.                           *)
(***************************************************************************)
THEOREM MintInvariant == Spec => []MintInv
  BY MintInit, MintNext, PTL DEF Spec

(***************************************************************************)
(* The tables and the handlers are well typed.                             *)
(***************************************************************************)
THEOREM MintTypeCorrect == Spec => []TypeOK
  <1>1. MintInv => TypeOK
    BY Zenon DEF MintInv
  <1> QED
    BY <1>1, MintInvariant, PTL

(***************************************************************************)
(* However requests and payments race, no quote is issued for more than    *)
(* was paid, and the signatures handed out are worth what was issued       *)
(* (process_mint_request).                                                 *)
(***************************************************************************)
THEOREM NoOverIssue == Spec => []SignedIsPaid
  <1>1. MintInv => SignedIsPaid
    BY Zenon DEF MintInv, Books, Answers, SignedIsPaid
  <1> QED
    BY <1>1, MintInvariant, PTL

(***************************************************************************)
(* Each payment is credited once, whichever of the stream, the check and   *)
(* the melt comes first.                                                   *)
(***************************************************************************)
THEOREM NoDoubleCredit == Spec => []CreditedOnce
  <1>1. MintInv => CreditedOnce
    BY Zenon DEF MintInv, Books
  <1> QED
    BY <1>1, MintInvariant, PTL

(***************************************************************************)
(* A BOLT11 quote is issued to one request at most.                        *)
(***************************************************************************)
THEOREM NoDoubleIssue == Spec => []IssuedOnce
  <1>1. MintInv => IssuedOnce
    BY Zenon DEF MintInv, Answers
  <1> QED
    BY <1>1, MintInvariant, PTL

(***************************************************************************)
(* A BOLT11 quote is paid once.                                            *)
(***************************************************************************)
THEOREM NoDoublePayment == Spec => []PaidOnce
  <1>1. MintInv => PaidOnce
    BY Zenon DEF MintInv, Books
  <1> QED
    BY <1>1, MintInvariant, PTL

-----------------------------------------------------------------------------
(***************************************************************************)
(* The handler of a request that came after a payment of its BOLT11 quote  *)
(* has the payment in hand, to be recorded next, or the quote is credited. *)
(***************************************************************************)
FoundBy(op) ==
    /\ pc[op] \in {"checking", "checked", "signed", "responded"}
    /\ due[op] # {}
    /\ request[op].quote \notin Bolt12
    => \/ amount_paid[request[op].quote] > 0
       \/ pc[op] = "checking" /\ seen[op] = due[op]

Found == \A op \in Op : FoundBy(op)

(***************************************************************************)
(* A BOLT11 quote whose state is Paid or Issued has been credited.         *)
(***************************************************************************)
LEMMA SettledIsCredited ==
    ASSUME MintInv, NEW q \in Quote, Settled(q)
    PROVE  amount_paid[q] > 0
  <1>1. amount_paid[q] \in Nat /\ amount_issued[q] \in Nat
        /\ amount_issued[q] =< amount_paid[q]
    BY Zenon DEF MintInv, TypeOK, Books, NotOverIssued
  <1>2. ~(amount_paid[q] = 0 /\ amount_issued[q] = 0)
    BY DEF Settled, QuoteState
  <1> QED
    BY <1>1, <1>2

(***************************************************************************)
(* A BOLT11 quote that is not settled has no recorded payment.             *)
(***************************************************************************)
LEMMA UnsettledHasNoPayment ==
    ASSUME MintInv, NEW q \in Quote \ Bolt12, ~Settled(q), NEW p \in payments,
           PaymentQuote[p] = q
    PROVE  FALSE
  <1>1. amount_paid[q] \in Nat /\ amount_issued[q] \in Nat
    BY Zenon DEF MintInv, TypeOK
  <1>2. amount_paid[q] = 0
    BY <1>1, Zenon DEF Settled, QuoteState
  <1>3. TotalPaid(PaymentsOf(q, payments)) = 0
    BY <1>2, Zenon DEF MintInv, Books, CreditedOnce
  <1>4. /\ PaymentsOf(q, payments) \in SUBSET Payment
        /\ p \in PaymentsOf(q, payments) /\ p \in Payment
    BY Zenon DEF PaymentsOf, MintInv, TypeOK
  <1>5. TotalPaid(PaymentsOf(q, payments)) >= ToUnit(PaymentMsat[p])
    BY <1>4, SumAtLeastMember, Zenon
  <1>6. ToUnit(PaymentMsat[p]) > 0 /\ ToUnit(PaymentMsat[p]) \in Nat
    BY <1>4, ToUnitNat, Zenon DEF MintInv, Books
  <1> QED
    BY <1>3, <1>5, <1>6

(***************************************************************************)
(* Nothing is taken off what a quote was paid.                             *)
(***************************************************************************)
LEMMA PaidOnlyGrows ==
    ASSUME MintInv, [Next]_vars, NEW q \in Quote
    PROVE  amount_paid'[q] >= amount_paid[q]
  <1>1. amount_paid[q] \in Nat /\ amount_paid \in [Quote -> Nat]
    BY Zenon DEF MintInv, TypeOK
  <1>2. CASE amount_paid' = amount_paid
    BY <1>1, <1>2
  <1>3. ASSUME NEW r \in Quote, NEW n \in Nat,
               amount_paid' = [amount_paid EXCEPT ![r] = @ + n]
        PROVE  amount_paid'[q] >= amount_paid[q]
    BY <1>1, <1>3
  <1>4. ASSUME NEW p \in Payment, IncrementAmountPaid(p)
        PROVE  amount_paid'[q] >= amount_paid[q]
    BY <1>3, <1>4, ToUnitNat, MintQuoteConstants, Zenon DEF IncrementAmountPaid
  <1>5. ASSUME NEW op \in Op, CheckMintQuotePaid(op)
        PROVE  amount_paid'[q] >= amount_paid[q]
    <2> DEFINE r == request[op].quote
               new == IF Settled(r) THEN {} ELSE Unrecorded(r, seen[op])
    <2>1. pc[op] = "checking"
          /\ amount_paid' = [amount_paid EXCEPT ![r] = @ + TotalPaid(new)]
      BY <1>5, Zenon DEF CheckMintQuotePaid
    <2>2. r \in Quote
      BY <2>1, Zenon DEF MintInv, Handlers, Request
    <2>3. new \in SUBSET Payment
      BY Zenon DEF Unrecorded, MintInv, TypeOK
    <2>4. TotalPaid(new) \in Nat
      BY <2>3, SumsAdd, Zenon
    <2> QED
      BY <1>3, <2>1, <2>2, <2>4, Zenon
  <1>6. \/ amount_paid' = amount_paid
        \/ \E p \in Payment : IncrementAmountPaid(p)
        \/ \E op \in Op : CheckMintQuotePaid(op)
    BY Zenon DEF Next, Handle, vars, quotes, GetMintQuote, Pay, Leave, Receive,
                 HandlePaymentNotification, HandleInternalMeltMint,
                 ReceiveFails, CheckMintQuotePaidFails, BlindSign,
                 BlindSignFails, Issue, IssueFails, IssuePanics, HangUp
  <1> QED
    BY <1>2, <1>4, <1>5, <1>6, Zenon

(***************************************************************************)
(* A step that leaves a handler alone, or only moves it on after its       *)
(* check, keeps what is said about it.                                     *)
(***************************************************************************)
LEMMA FoundKept ==
    ASSUME MintInv, [Next]_vars, NEW op \in Op, FoundBy(op),
           UNCHANGED <<request[op], due[op]>>,
           \/ UNCHANGED <<pc[op], seen[op]>>
           \/ pc[op] \in {"checked", "signed"}
    PROVE  FoundBy(op)'
  <1> SUFFICES ASSUME pc'[op] \in {"checking", "checked", "signed", "responded"},
                      due[op] # {}, request[op].quote \notin Bolt12
               PROVE  \/ amount_paid'[request[op].quote] > 0
                      \/ pc'[op] = "checking" /\ seen'[op] = due[op]
    BY Zenon DEF FoundBy
  <1>1. pc[op] \in {"checking", "checked", "signed", "responded"}
    BY Zenon
  <1>2. request[op].quote \in Quote
    BY <1>1, Zenon DEF MintInv, Handlers, Request
  <1>3. CASE amount_paid[request[op].quote] > 0
    <2>1. amount_paid'[request[op].quote] >= amount_paid[request[op].quote]
      BY <1>2, PaidOnlyGrows, Zenon
    <2>2. /\ amount_paid[request[op].quote] \in Nat
          /\ amount_paid'[request[op].quote] \in Nat
      BY <1>2, MintNext, Zenon DEF MintInv, TypeOK
    <2> QED
      BY <1>3, <2>1, <2>2
  <1>4. CASE pc[op] = "checking" /\ seen[op] = due[op]
    BY <1>4 DEF FoundBy
  <1> QED
    BY <1>1, <1>3, <1>4, Zenon DEF FoundBy

(***************************************************************************)
(* A handler that reads its quote: it asks the backend, which knows of the *)
(* payments, unless the quote is credited already.                         *)
(***************************************************************************)
LEMMA FoundReceive ==
    ASSUME MintInv, NEW op \in Op, NEW r \in Request, Receive(op, r)
    PROVE  FoundBy(op)'
  <1> DEFINE found == CheckIncomingPaymentStatus(r.quote)
  <1>1. r.quote \in Quote
    BY Zenon DEF Request
  <1>2. request'[op] = r /\ due'[op] = found /\ amount_paid' = amount_paid
    BY Zenon DEF Receive, MintInv, TypeOK, quotes
  <1>3. CASE r.quote \in Bolt12
    BY <1>2, <1>3, Zenon DEF FoundBy
  <1>4. CASE Settled(r.quote)
    BY <1>1, <1>2, <1>4, SettledIsCredited, Zenon DEF FoundBy
  <1>5. CASE ~(r.quote \in Bolt12 \/ Settled(r.quote))
    <2>1. seen' = [seen EXCEPT ![op] = found]
          /\ pc' = [pc EXCEPT ![op] = IF found = {} THEN AfterCheck(r)
                                                    ELSE "checking"]
      BY <1>5, Zenon DEF Receive
    <2>2. seen'[op] = found /\ (found # {} => pc'[op] = "checking")
      BY <2>1, Zenon DEF MintInv, TypeOK
    <2> QED
      BY <1>2, <2>2, Zenon DEF FoundBy
  <1> QED
    BY <1>3, <1>4, <1>5, Zenon

(***************************************************************************)
(* The transaction of the check: unless the quote has been credited in the *)
(* meantime, none of what the backend reported has a row, so that all of   *)
(* it is recorded.                                                         *)
(***************************************************************************)
LEMMA FoundCheck ==
    ASSUME \A p \in Payment : PaymentMsat[p] > 0,
           MintInv, NEW op \in Op, FoundBy(op), CheckMintQuotePaid(op)
    PROVE  FoundBy(op)'
  <1> DEFINE q == request[op].quote
             new == IF Settled(q) THEN {} ELSE Unrecorded(q, seen[op])
  <1> SUFFICES ASSUME due[op] # {}, q \notin Bolt12
               PROVE  amount_paid'[q] > 0
    BY Zenon DEF FoundBy, CheckMintQuotePaid
  <1>1. /\ pc[op] = "checking"
        /\ \A p \in new : IncrementAmountPaidOk(p)
        /\ amount_paid' = [amount_paid EXCEPT ![q] = @ + TotalPaid(new)]
    BY Zenon DEF CheckMintQuotePaid
  <1>2. q \in Quote
    BY <1>1, Zenon DEF MintInv, Handlers, Request
  <1>3. new \in SUBSET Payment /\ seen[op] \in SUBSET Payment
    BY Zenon DEF Unrecorded, MintInv, TypeOK
  <1>4. TotalPaid(new) \in Nat
    BY <1>3, SumsAdd, Zenon
  <1>5. amount_paid[q] \in Nat /\ amount_paid'[q] = amount_paid[q] + TotalPaid(new)
    BY <1>1, <1>2, Zenon DEF MintInv, TypeOK
  <1>6. CASE amount_paid[q] > 0
    <2> HIDE DEF new
    <2> QED
      BY <1>4, <1>5, <1>6
  <1>7. CASE ~(amount_paid[q] > 0)
    <2>1. ~Settled(q)
      BY <1>2, <1>7, SettledIsCredited, Zenon
    <2>2. seen[op] = due[op]
      BY <1>1, <1>7, Zenon DEF FoundBy
    <2>3. PICK p \in seen[op] : TRUE
      BY <2>2, Zenon
    <2>4. p \in Payment /\ PaymentQuote[p] = q
      BY <1>1, <1>3, <2>3, Zenon DEF MintInv, Handlers
    <2>5. p \notin payments
      BY <1>2, <2>1, <2>4, UnsettledHasNoPayment, Zenon
    <2>6. p \in new
      BY <2>1, <2>3, <2>4, <2>5, Zenon DEF Unrecorded
    <2>7. ToUnit(PaymentMsat[p]) > 0 /\ ToUnit(PaymentMsat[p]) \in Nat
      BY <1>1, <2>4, <2>6, ToUnitNat, Zenon DEF IncrementAmountPaidOk
    <2>8. TotalPaid(new) >= ToUnit(PaymentMsat[p])
      BY <1>3, <2>6, SumAtLeastMember, Zenon
    <2> HIDE DEF new
    <2> QED
      BY <1>4, <1>5, <2>7, <2>8
  <1> QED
    BY <1>6, <1>7, Zenon

(***************************************************************************)
(* Every step keeps it, for every handler.                                 *)
(***************************************************************************)
LEMMA FoundNext ==
    ASSUME \A p \in Payment : PaymentMsat[p] > 0, MintInv, Found, [Next]_vars
    PROVE  Found'
  <1> SUFFICES ASSUME NEW op \in Op PROVE FoundBy(op)'
    BY Zenon DEF Found
  <1>1. FoundBy(op)
    BY Zenon DEF Found
  <1>2. CASE UNCHANGED <<request[op], due[op], pc[op], seen[op]>>
    BY <1>1, <1>2, FoundKept, Zenon
  <1>3. CASE \E r \in Request : Receive(op, r)
    BY <1>3, FoundReceive, Zenon
  <1>4. CASE CheckMintQuotePaid(op)
    BY <1>1, <1>4, FoundCheck, Zenon
  <1>5. CASE BlindSign(op) \/ Issue(op)
    <2>1. /\ pc[op] \in {"checked", "signed"}
          /\ UNCHANGED <<request[op], due[op]>>
      BY <1>5, Zenon DEF BlindSign, Issue
    <2> QED
      BY <1>1, <2>1, FoundKept, Zenon
  <1>6. ASSUME NEW end \in {"failed", "lost"}, Leave(op, end)
        PROVE  FoundBy(op)'
    <2>1. pc'[op] = end
      BY <1>6, Zenon DEF Leave, MintInv, TypeOK
    <2>2. pc'[op] \notin {"checking", "checked", "signed", "responded"}
      BY <2>1
    <2> QED
      BY <2>2, Zenon DEF FoundBy
  <1>7. ASSUME NEW o \in Op \ {op},
               \/ \E r \in Request : Receive(o, r) \/ ReceiveFails(o, r)
               \/ Handle(o) \/ HangUp(o)
        PROVE  UNCHANGED <<request[op], due[op], pc[op], seen[op]>>
    BY <1>7, Zenon DEF Handle, Receive, Leave, ReceiveFails, CheckMintQuotePaid,
                 CheckMintQuotePaidFails, BlindSign, BlindSignFails, Issue,
                 IssueFails, IssuePanics, HangUp, MintInv, TypeOK
  <1>8. \/ UNCHANGED <<request[op], due[op], pc[op], seen[op]>>
        \/ \E o \in Op : \/ \E r \in Request : Receive(o, r) \/ ReceiveFails(o, r)
                         \/ Handle(o) \/ HangUp(o)
    BY Zenon DEF Next, vars, GetMintQuote, Pay, HandlePaymentNotification,
                 HandleInternalMeltMint
  <1>9. CASE \/ \E r \in Request : Receive(op, r) \/ ReceiveFails(op, r)
             \/ Handle(op) \/ HangUp(op)
    <2>1. \/ \E r \in Request : Receive(op, r)
          \/ CheckMintQuotePaid(op) \/ BlindSign(op) \/ Issue(op)
          \/ \E end \in {"failed", "lost"} : Leave(op, end)
      BY <1>9, Zenon DEF Handle, ReceiveFails, CheckMintQuotePaidFails,
                 BlindSignFails, IssueFails, IssuePanics, HangUp
    <2> QED
      BY <1>3, <1>4, <1>5, <1>6, <2>1, Zenon
  <1> QED
    BY <1>2, <1>7, <1>8, <1>9, Zenon

(***************************************************************************)
(* A client that checks a BOLT11 quote after its payment is told of it,    *)
(* whether the stream, a melt or the check itself recorded it              *)
(* (check_mint_quote_paid).  A payment of no msat is none.                 *)
(***************************************************************************)
THEOREM CheckTellsOfPayment ==
    ASSUME \A p \in Payment : PaymentMsat[p] > 0
    PROVE  Spec => []CheckFindsPayment
  <1>1. Init => Found
    <2>1. ASSUME Init, NEW op \in Op PROVE FoundBy(op)
      BY <2>1, Zenon DEF Init, FoundBy
    <2> QED
      BY <2>1, Zenon DEF Found
  <1>2. MintInv /\ Found /\ [Next]_vars => Found'
    BY FoundNext
  <1>3. MintInv /\ Found => CheckFindsPayment
    <2> SUFFICES ASSUME MintInv, Found, NEW op \in Op, pc[op] = "responded",
                        due[op] # {}, request[op].quote \notin Bolt12
                 PROVE  QuoteState(request[op].quote) # "Unpaid"
      BY Zenon DEF CheckFindsPayment
    <2>1. amount_paid[request[op].quote] > 0
      BY DEF Found, FoundBy
    <2> QED
      BY <2>1 DEF QuoteState
  <1> QED
    BY <1>1, <1>2, <1>3, MintInvariant, PTL DEF Spec

=============================================================================
