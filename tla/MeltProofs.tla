----------------------------- MODULE MeltProofs -----------------------------
(***************************************************************************)
(* Proofs about Melt, for any number of quotes, proofs, messages, requests *)
(* and crashes, and for any set of faults.                                 *)
(***************************************************************************)
EXTENDS Melt, Sums

Asked(op) == request[op] \in Request

Busy == Paying \cup {"burnt"}

(***************************************************************************)
(* A handler has its request as soon as it does something, a payment is    *)
(* made for a request only, and no handler runs while the mint does not.   *)
(***************************************************************************)
Handlers ==
    /\ \A op \in Op : pc[op] = "idle" => ~Asked(op)
    /\ \A op \in Op : pc[op] \in Busy => Asked(op)
    /\ \A op \in Op : attempt[op] # "none" => Asked(op)
    /\ mint # "running" => \A op \in Op : pc[op] \notin Busy

(***************************************************************************)
(* What the state of a quote says about its requests.  A quote without a   *)
(* lookup id is never made payable again, so that it has one request; one  *)
(* that is settled internally is Paid by its first one.  A handler that    *)
(* has burnt proofs is the only one to do so for its quote.                *)
(***************************************************************************)
Quotes ==
    /\ \A op \in Op : Asked(op) =>
          /\ QuoteOf(op) \in NoLookup => quote_state[QuoteOf(op)] \in {"Pending", "Paid"}
          /\ QuoteOf(op) \in Internal => quote_state[QuoteOf(op)] = "Paid"
    /\ \A op1, op2 \in Op :
          /\ Asked(op1) /\ Asked(op2)
          /\ QuoteOf(op1) = QuoteOf(op2)
          /\ QuoteOf(op1) \in NoLookup \/ (pc[op1] = "burnt" /\ pc[op2] = "burnt")
          => op1 = op2
    /\ \A op \in Op : pc[op] = "burnt" =>
          /\ quote_state[QuoteOf(op)] = "Paid"
          /\ attempt[op] = "paid"
          /\ change[QuoteOf(op)] = 0

(***************************************************************************)
(* A request was worth its payment when it was accepted, no payment costs  *)
(* more than the reserve, and change is signed for Paid quotes only.       *)
(***************************************************************************)
Funds ==
    /\ \A op \in Op : Asked(op) => Enough(request[op])
    /\ \A op \in Op : attempt[op] = "paid" =>
          total_spent[op] =< QuoteAmount[QuoteOf(op)] + FeeReserve[QuoteOf(op)]
    /\ \A q \in Quote : change[q] > 0 => quote_state[q] = "Paid"

MeltInv ==
    /\ TypeOK /\ Handlers /\ Quotes /\ Funds
    /\ OnePayer /\ PaidOnce /\ BurntForPayment /\ ChangeWithinInputs

(***************************************************************************)
(* What a step never takes back: a spent proof, a signature, a payment.    *)
(***************************************************************************)
Keeps ==
    /\ \A y \in Y : proofs[y] = "Spent" => proofs'[y] = "Spent"
    /\ \A b \in B : messages[b] = "Signed" => messages'[b] = "Signed"
    /\ \A q \in Quote : quote_state[q] = "Paid" => quote_state'[q] = "Paid"

-----------------------------------------------------------------------------
(* The value of change.                                                    *)

Denominations == {1, 2, 4, 8, 16, 32}

(***************************************************************************)
(* The sum of the elements of a set of numbers (SumSet, of FiniteSetsExt)  *)
(* is the sum of the identity over it.                                     *)
(***************************************************************************)
LEMMA SumOfElements ==
    ASSUME NEW D \in SUBSET Nat, NEW S \in SUBSET D
    PROVE  SumSet(S) = SumFunctionOnSet([n \in D |-> n], S)
  <1> DEFINE P(g) == g = [s \in SUBSET S |-> IF s = {} THEN 0
                                             ELSE Pick(s) + g[s \ {Pick(s)}]]
             R(g) == AreSums([n \in D |-> n], SUBSET S, g)
  <1>1. SumSet(S) = (CHOOSE g : P(g))[S]
    BY DEF SumSet, FoldSet, MapThenFoldSet, Pick
  <1>2. SumFunctionOnSet([n \in D |-> n], S) = (CHOOSE g : R(g))[S]
    BY SumDef, Zenon
  <1>3. \A s \in SUBSET S : s # {} => [n \in D |-> n][Pick(s)] = Pick(s)
    BY Zenon DEF Pick
  <1>4. \A g : P(g) <=> R(g)
    BY <1>3, Zenon DEF AreSums
  <1> HIDE DEF P, R
  <1>5. (CHOOSE g : P(g)) = (CHOOSE g : R(g))
    BY <1>4, Zenon
  <1> QED
    BY <1>1, <1>2, <1>5, Zenon

(***************************************************************************)
(* Amount::split writes an amount in binary: any choice of its parts is    *)
(* worth no more than the amount.                                          *)
(***************************************************************************)
LEMMA PartsOfSplit ==
    ASSUME NEW amount \in Nat, NEW parts \in SUBSET Split(amount)
    PROVE  SumSet(parts) \in 0 .. amount
  <1>1. PICK f : f = [n \in Denominations |-> n]
    BY Zenon
  <1>2. /\ f \in [Denominations -> Nat]
        /\ \A x \in Denominations : f[x] = x
    BY <1>1 DEF Denominations
  <1>3. IsFiniteSet(Denominations)
    <2>1. PICK seq : seq = <<1, 2, 4, 8, 16, 32>>
      BY Zenon
    <2>2. seq \in Seq(Denominations) /\ Len(seq) = 6
      BY <2>1 DEF Denominations
    <2>3. \A x \in Denominations : \E i \in 1 .. Len(seq) : seq[i] = x
      BY <2>1, <2>2 DEF Denominations
    <2> QED
      BY <2>2, <2>3, Zenon DEF IsFiniteSet
  <1>4. \A S \in SUBSET Denominations : SumFunctionOnSet(f, S) \in Nat
    BY <1>2, <1>3, SumType, Zenon
  <1>5. ASSUME NEW S \in SUBSET Denominations, NEW x \in Denominations
        PROVE  SumFunctionOnSet(f, S)
                   = (IF x \in S THEN x ELSE 0) + SumFunctionOnSet(f, S \ {x})
    <2>1. CASE x \in S
      <3>1. IsFiniteSet(S)
        BY <1>3, SubsetFinite, Zenon
      <3>2. \A z \in S : SumFunctionOnSet(f, S) = f[z] + SumFunctionOnSet(f, S \ {z})
        BY <1>2, <3>1, SumRemove
      <3> QED
        BY <1>2, <2>1, <3>2, Zenon
    <2>2. CASE x \notin S
      <3>1. S \ {x} = S
        BY <2>2
      <3> QED
        BY <1>4, <2>2, <3>1
    <2> QED
      BY <2>1, <2>2, Zenon
  <1>6. SumFunctionOnSet(f, Split(amount)) \in 0 .. amount
    <2>1. PICK s1 : s1 = Split(amount)
      BY Zenon
    <2>2. PICK s2 : s2 = s1 \ {1}
      BY Zenon
    <2>3. PICK s3 : s3 = s2 \ {2}
      BY Zenon
    <2>4. PICK s4 : s4 = s3 \ {4}
      BY Zenon
    <2>5. PICK s5 : s5 = s4 \ {8}
      BY Zenon
    <2>6. PICK s6 : s6 = s5 \ {16}
      BY Zenon
    <2>7. /\ s1 \in SUBSET Denominations /\ s2 \in SUBSET Denominations
          /\ s3 \in SUBSET Denominations /\ s4 \in SUBSET Denominations
          /\ s5 \in SUBSET Denominations /\ s6 \in SUBSET Denominations
      <3>1. s1 \in SUBSET Denominations
        BY <2>1, Zenon DEF Split, Denominations
      <3> QED
        BY <2>2, <2>3, <2>4, <2>5, <2>6, <3>1, Zenon
    <2>8. s6 \ {32} = {}
      BY <2>2, <2>3, <2>4, <2>5, <2>6, <2>7 DEF Denominations
    <2>9. /\ 1 \in Denominations /\ 2 \in Denominations /\ 4 \in Denominations
          /\ 8 \in Denominations /\ 16 \in Denominations /\ 32 \in Denominations
      BY Zenon DEF Denominations
    <2>10. SumFunctionOnSet(f, s1) = (IF 1 \in s1 THEN 1 ELSE 0) + SumFunctionOnSet(f, s2)
      BY <1>5, <2>2, <2>7, <2>9, Zenon
    <2>11. SumFunctionOnSet(f, s2) = (IF 2 \in s2 THEN 2 ELSE 0) + SumFunctionOnSet(f, s3)
      BY <1>5, <2>3, <2>7, <2>9, Zenon
    <2>12. SumFunctionOnSet(f, s3) = (IF 4 \in s3 THEN 4 ELSE 0) + SumFunctionOnSet(f, s4)
      BY <1>5, <2>4, <2>7, <2>9, Zenon
    <2>13. SumFunctionOnSet(f, s4) = (IF 8 \in s4 THEN 8 ELSE 0) + SumFunctionOnSet(f, s5)
      BY <1>5, <2>5, <2>7, <2>9, Zenon
    <2>14. SumFunctionOnSet(f, s5) = (IF 16 \in s5 THEN 16 ELSE 0) + SumFunctionOnSet(f, s6)
      BY <1>5, <2>6, <2>7, <2>9, Zenon
    <2>15. SumFunctionOnSet(f, s6) = (IF 32 \in s6 THEN 32 ELSE 0) + 0
      <3>1. SumFunctionOnSet(f, s6)
                = (IF 32 \in s6 THEN 32 ELSE 0) + SumFunctionOnSet(f, s6 \ {32})
        BY <1>5, <2>7, <2>9, Zenon
      <3>2. SumFunctionOnSet(f, s6 \ {32}) = 0
        BY <2>8, SumEmpty
      <3> QED
        BY <3>1, <3>2, Zenon
    <2>16. /\ 1 \in s1 => amount % 2 = 1
           /\ 2 \in s2 => (amount \div 2) % 2 = 1
           /\ 4 \in s3 => (amount \div 4) % 2 = 1
           /\ 8 \in s4 => (amount \div 8) % 2 = 1
           /\ 16 \in s5 => (amount \div 16) % 2 = 1
           /\ 32 \in s6 => (amount \div 32) % 2 = 1
      <3>1. \A x \in s1 : (amount \div x) % 2 = 1
        BY <2>1, Zenon DEF Split
      <3>2. /\ 2 \in s2 => 2 \in s1
            /\ 4 \in s3 => 4 \in s1
            /\ 8 \in s4 => 8 \in s1
            /\ 16 \in s5 => 16 \in s1
            /\ 32 \in s6 => 32 \in s1
        BY <2>2, <2>3, <2>4, <2>5, <2>6, Zenon
      <3>3. amount \div 1 = amount
        OBVIOUS
      <3> QED
        BY <3>1, <3>2, <3>3, Zenon
    <2>17. SumFunctionOnSet(f, s1) \in 0 .. amount
      BY <2>10, <2>11, <2>12, <2>13, <2>14, <2>15, <2>16
    <2> QED
      BY <2>1, <2>17, Zenon
  <1>7. parts \in SUBSET Denominations /\ Split(amount) \in SUBSET Denominations
    BY Zenon DEF Split, Denominations
  <1>8. SumFunctionOnSet(f, parts) =< SumFunctionOnSet(f, Split(amount))
    BY <1>2, <1>3, <1>7, SumSubset
  <1>9. SumSet(parts) = SumFunctionOnSet(f, parts)
    <2>1. Denominations \in SUBSET Nat
      BY DEF Denominations
    <2> QED
      BY <1>1, <1>7, <2>1, SumOfElements
  <1> QED
    BY <1>4, <1>6, <1>7, <1>8, <1>9

(***************************************************************************)
(* What the proofs below use of sums.                                      *)
(***************************************************************************)
LEMMA SumsOfChange ==
    \A ys \in SUBSET Y :
        /\ Total(ys) \in Nat /\ CalculateFee(ys) \in Nat
        /\ \A target \in 0 .. Total(ys), bs \in SUBSET B :
              SumSet(ChangeAmounts(Split(target), Cardinality(bs))) \in 0 .. target
  <1> SUFFICES ASSUME NEW ys \in SUBSET Y
               PROVE  /\ Total(ys) \in Nat /\ CalculateFee(ys) \in Nat
                      /\ \A target \in 0 .. Total(ys), bs \in SUBSET B :
                            SumSet(ChangeAmounts(Split(target), Cardinality(bs)))
                                \in 0 .. target
    BY Zenon
  <1>1. Total(ys) \in Nat /\ SumFunctionOnSet(ProofFeePpk, ys) \in Nat
    BY SumType, MeltConstants, Zenon DEF Total
  <1>2. CalculateFee(ys) \in Nat
    BY <1>1 DEF CalculateFee
  <1>3. ASSUME NEW target \in 0 .. Total(ys), NEW bs \in SUBSET B
        PROVE  SumSet(ChangeAmounts(Split(target), Cardinality(bs))) \in 0 .. target
    <2>1. target \in Nat
      BY <1>1
    <2>2. ChangeAmounts(Split(target), Cardinality(bs)) \in SUBSET Split(target)
      BY Zenon DEF ChangeAmounts
    <2> QED
      BY <2>1, <2>2, PartsOfSplit, Zenon
  <1> QED
    BY <1>1, <1>2, <1>3, Zenon

-----------------------------------------------------------------------------
(***************************************************************************)
(* A new mint has no requests, no quotes and no rows.                      *)
(***************************************************************************)
LEMMA MeltInit == Init => MeltInv
  <1> SUFFICES ASSUME Init PROVE MeltInv
    BY Zenon
  <1>1. /\ \A op \in Op : pc[op] = "idle" /\ attempt[op] = "none" /\ ~Asked(op)
        /\ \A q \in Quote : quote_state[q] = "None" /\ change[q] = 0
        /\ \A y \in Y : proofs[y] = "None"
        /\ mint = "running"
    BY MeltConstants, Zenon DEF Init, Asked, Request, NoRequest
  <1>2. TypeOK
    BY MeltConstants DEF Init, TypeOK, PC, MessageState
  <1>3. Handlers /\ Quotes /\ Funds
    BY <1>1 DEF Handlers, Quotes, Funds, Busy, Paying
  <1>4. OnePayer /\ PaidOnce /\ BurntForPayment /\ ChangeWithinInputs
    BY <1>1 DEF OnePayer, PaidOnce, BurntForPayment, ChangeWithinInputs, Paying
  <1> QED
    BY <1>2, <1>3, <1>4, Zenon DEF MeltInv

(***************************************************************************)
(* What the checks of the first transaction establish.  The quote is       *)
(* Unpaid, so nobody is paying for it or has burnt proofs for it, and the  *)
(* rows that are added for the inputs replace none.                        *)
(***************************************************************************)
LEMMA Accepted ==
    ASSUME MeltInv, NEW op \in Op, NEW r \in Request, pc[op] = "idle",
           WriterAddProofsOk(r), VerifyMeltRequestOk(r)
    PROVE  /\ ~Asked(op) /\ attempt[op] = "none"
           /\ r.quote \in Quote /\ r.inputs \in SUBSET Y /\ r.outputs \in SUBSET B
           /\ quote_state[r.quote] = "Unpaid" /\ change[r.quote] = 0
           /\ \A o \in Op : Asked(o) /\ QuoteOf(o) = r.quote =>
                 /\ pc[o] \notin Busy
                 /\ r.quote \notin NoLookup /\ r.quote \notin Internal
           /\ \A y \in r.inputs : proofs[y] = "None"
           /\ \A b \in r.outputs : messages[b] = "None"
           /\ Enough(r)
  <1>1. ~Asked(op) /\ attempt[op] = "none"
    BY Zenon DEF MeltInv, Handlers
  <1>2. r.quote \in Quote /\ r.inputs \in SUBSET Y /\ r.outputs \in SUBSET B
    BY Zenon DEF Request
  <1>3. quote_state[r.quote] = "Unpaid" /\ Enough(r)
    BY Zenon DEF VerifyMeltRequestOk, UpdateMeltQuoteStateOk, CheckMeltQuoteStateTransition
  <1>4. change[r.quote] = 0
    BY <1>2, <1>3 DEF MeltInv, Funds, TypeOK
  <1>5. ASSUME NEW o \in Op, Asked(o), QuoteOf(o) = r.quote
        PROVE  /\ pc[o] \notin Busy
               /\ r.quote \notin NoLookup /\ r.quote \notin Internal
    BY <1>3, <1>5 DEF MeltInv, Quotes, OnePayer, Busy
  <1>6. /\ \A y \in r.inputs : proofs[y] = "None"
        /\ \A b \in r.outputs : messages[b] = "None"
    BY Zenon DEF WriterAddProofsOk, AddProofsOk, VerifyMeltRequestOk, AddBlindedMessagesOk
  <1> QED
    BY <1>1, <1>2, <1>3, <1>4, <1>5, <1>6, Zenon

(***************************************************************************)
(* The rows of spent proofs are left alone, and none is added to them.     *)
(***************************************************************************)
SpentRowsKept ==
    \A y \in Y : /\ proofs'[y] = "Spent" <=> proofs[y] = "Spent"
                 /\ proofs[y] = "Spent" => proof_quote'[y] = proof_quote[y]

RowsTyped ==
    /\ proofs' \in [Y -> {"None", "Pending", "Spent"}]
    /\ proof_quote' \in [Y -> Quote \cup {NoQuote}]

(***************************************************************************)
(* The rows that the first transaction writes.                             *)
(***************************************************************************)
LEMMA AddedRows ==
    ASSUME TypeOK, NEW op, NEW r, NEW state \in {"Pending", "Spent"},
           r.quote \in Quote, r.inputs \in SUBSET Y, AddMeltRows(op, r, state)
    PROVE  /\ RowsTyped
           /\ \A y \in r.inputs : proofs'[y] = state /\ proof_quote'[y] = r.quote
           /\ \A y \in Y \ r.inputs :
                 proofs'[y] = proofs[y] /\ proof_quote'[y] = proof_quote[y]
  <1>1. /\ proofs' = [y \in Y |-> IF y \in r.inputs THEN state ELSE proofs[y]]
        /\ proof_quote' = [y \in Y |-> IF y \in r.inputs THEN r.quote ELSE proof_quote[y]]
    BY Zenon DEF AddMeltRows, UpdateProofsStates, AddProofs, SetAll, TypeOK
  <1> QED
    BY <1>1, Zenon DEF RowsTyped, TypeOK

(***************************************************************************)
(* The messages for the change that the first transaction writes.          *)
(***************************************************************************)
LEMMA AddedMessages ==
    ASSUME TypeOK, NEW bs \in SUBSET B, NEW q \in Quote,
           \A b \in bs : messages[b] = "None",
           messages' = AddBlindedMessages(messages, bs),
           message_quote' = SetAll(message_quote, bs, q)
    PROVE  /\ messages' \in [B -> MessageState]
           /\ message_quote' \in [B -> Quote \cup {NoQuote}]
           /\ \A b \in B : messages[b] = "Signed" => messages'[b] = "Signed"
  BY Zenon DEF TypeOK, AddBlindedMessages, SetAll, MessageState

(***************************************************************************)
(* delete_melt_request keeps the tables typed, and only the rows of melt   *)
(* requests of the given quotes go.                                        *)
(***************************************************************************)
LEMMA DeleteRows ==
    ASSUME TypeOK, NEW qs \in SUBSET Quote, NEW bs \in SUBSET B, DeleteMeltRequest(qs, bs)
    PROVE  /\ messages' \in [B -> MessageState]
           /\ message_quote' \in [B -> Quote \cup {NoQuote}]
           /\ melt_request' \in [Quote -> Op \cup {NoOp}]
           /\ \A q \in Quote \ qs : melt_request'[q] = melt_request[q]
           /\ \A b \in B : messages[b] = "Signed" => messages'[b] = "Signed"
  <1>1. messages' \in [B -> MessageState]
    BY Zenon DEF TypeOK, DeleteMeltRequest, DeleteBlindedMessages, AddBlindSignatures, SetAll,
           MessageState
  <1>2. message_quote' \in [B -> Quote \cup {NoQuote}]
    BY Zenon DEF TypeOK, DeleteMeltRequest, SetAll
  <1>3. /\ melt_request' \in [Quote -> Op \cup {NoOp}]
        /\ \A q \in Quote \ qs : melt_request'[q] = melt_request[q]
    BY Zenon DEF TypeOK, DeleteMeltRequest, SetAll
  <1>4. \A b \in B : messages[b] = "Signed" => messages'[b] = "Signed"
    BY Zenon DEF TypeOK, DeleteMeltRequest, DeleteBlindedMessages, AddBlindSignatures, SetAll
  <1> QED
    BY <1>1, <1>2, <1>3, <1>4, Zenon

(***************************************************************************)
(* The first transaction commits: the quote passes from Unpaid to Pending, *)
(* and its melt request becomes that of the handler.                       *)
(***************************************************************************)
LEMMA ReserveStep ==
    ASSUME MeltInv, NEW op \in Op, NEW r \in Request, Reserve(op, r)
    PROVE  MeltInv' /\ Keeps
  <1>1. /\ change' = change /\ minted' = minted /\ attempt' = attempt
        /\ total_spent' = total_spent /\ spawned' = spawned
        /\ mint' = mint /\ checked' = checked /\ crashes' = crashes
        /\ mint = "running" /\ pc[op] = "idle" /\ r.quote \notin Internal
    BY Zenon DEF Reserve, control
  <1>2. /\ ~Asked(op) /\ attempt[op] = "none"
        /\ r.quote \in Quote /\ r.inputs \in SUBSET Y /\ r.outputs \in SUBSET B
        /\ quote_state[r.quote] = "Unpaid" /\ change[r.quote] = 0
        /\ \A o \in Op : Asked(o) /\ QuoteOf(o) = r.quote =>
              pc[o] \notin Busy /\ r.quote \notin NoLookup
        /\ \A y \in r.inputs : proofs[y] = "None"
        /\ \A b \in r.outputs : messages[b] = "None"
        /\ Enough(r)
    BY Accepted DEF Reserve
  <1>3. RowsTyped /\ SpentRowsKept
    <2>1. TypeOK /\ AddMeltRows(op, r, "Pending")
      BY Zenon DEF MeltInv, Reserve
    <2>2. /\ RowsTyped
          /\ \A y \in r.inputs : proofs'[y] = "Pending"
          /\ \A y \in Y \ r.inputs : proofs'[y] = proofs[y] /\ proof_quote'[y] = proof_quote[y]
      BY <1>2, <2>1, AddedRows
    <2> QED
      BY <1>2, <2>2, Zenon DEF SpentRowsKept
  <1>4. /\ messages' \in [B -> MessageState]
        /\ message_quote' \in [B -> Quote \cup {NoQuote}]
        /\ \A b \in B : messages[b] = "Signed" => messages'[b] = "Signed"
    <2>1. /\ TypeOK
          /\ messages' = AddBlindedMessages(messages, r.outputs)
          /\ message_quote' = SetAll(message_quote, r.outputs, r.quote)
      BY Zenon DEF MeltInv, Reserve
    <2> QED
      BY <1>2, <2>1, AddedMessages, Zenon
  <1>5. /\ quote_state' \in [Quote -> {"None", "Unpaid", "Pending", "Paid"}]
        /\ quote_state'[r.quote] = "Pending"
        /\ \A q \in Quote : q # r.quote => quote_state'[q] = quote_state[q]
    BY <1>2, Zenon DEF MeltInv, TypeOK, Reserve
  <1>6. /\ melt_request' \in [Quote -> Op \cup {NoOp}]
        /\ melt_request'[r.quote] = op
        /\ \A q \in Quote : q # r.quote => melt_request'[q] = melt_request[q]
    BY <1>2, Zenon DEF MeltInv, TypeOK, Reserve
  <1>7. /\ request' \in [Op -> Request \cup {NoRequest}]
        /\ request'[op] = r
        /\ \A o \in Op : o # op => request'[o] = request[o]
    BY Zenon DEF MeltInv, TypeOK, Reserve
  <1>8. /\ pc' \in [Op -> PC]
        /\ pc'[op] = "paying"
        /\ \A o \in Op : o # op => pc'[o] = pc[o]
    BY Zenon DEF MeltInv, TypeOK, Reserve, PC, Paying
  <1>9. TypeOK'
    BY <1>1, <1>3, <1>4, <1>5, <1>6, <1>7, <1>8, Zenon DEF MeltInv, TypeOK, RowsTyped
  <1>10. Handlers'
    BY <1>1, <1>7, <1>8, Zenon DEF MeltInv, Handlers, Asked, Busy, Paying
  <1>11. \A o \in Op : Asked(o) => QuoteOf(o) \in Quote
    BY Zenon DEF Asked, QuoteOf, Request
  <1>12. Quotes'
    <2>1. \A o \in Op : o # op =>
              /\ Asked(o)' <=> Asked(o)
              /\ QuoteOf(o)' = QuoteOf(o)
              /\ pc'[o] = pc[o]
      BY <1>7, <1>8, Zenon DEF Asked, QuoteOf
    <2>2. QuoteOf(op)' = r.quote
      BY <1>7, Zenon DEF QuoteOf
    <2>3. \A o \in Op : pc[o] = "burnt" => Asked(o) /\ QuoteOf(o) # r.quote
      BY <1>2, Zenon DEF MeltInv, Handlers, Busy
    <2>4. (\A o \in Op : Asked(o) =>
              /\ QuoteOf(o) \in NoLookup => quote_state[QuoteOf(o)] \in {"Pending", "Paid"}
              /\ QuoteOf(o) \in Internal => quote_state[QuoteOf(o)] = "Paid")'
      BY <1>1, <1>5, <1>11, <2>1, <2>2, SMTT(30) DEF MeltInv, Quotes
    <2>5. (\A op1, op2 \in Op :
              /\ Asked(op1) /\ Asked(op2)
              /\ QuoteOf(op1) = QuoteOf(op2)
              /\ QuoteOf(op1) \in NoLookup \/ (pc[op1] = "burnt" /\ pc[op2] = "burnt")
              => op1 = op2)'
      BY <1>2, <1>8, <2>1, <2>2, SMTT(30) DEF MeltInv, Quotes
    <2>6. (\A o \in Op : pc[o] = "burnt" =>
              /\ quote_state[QuoteOf(o)] = "Paid"
              /\ attempt[o] = "paid"
              /\ change[QuoteOf(o)] = 0)'
      BY <1>1, <1>5, <1>8, <1>11, <2>1, <2>3, SMTT(30) DEF MeltInv, Quotes
    <2> QED
      BY <2>4, <2>5, <2>6, Zenon DEF Quotes
  <1>13. Funds'
    BY <1>1, <1>2, <1>5, <1>7 DEF MeltInv, Funds, Asked, QuoteOf, Enough
  <1>14. OnePayer'
    <2>1. \A o \in Op : o # op /\ pc'[o] \in Paying =>
              pc[o] \in Paying /\ QuoteOf(o) \in Quote /\ QuoteOf(o) # r.quote
      BY <1>2, <1>8, <1>11, Zenon DEF MeltInv, Handlers, Busy
    <2> QED
      BY <1>5, <1>6, <1>7, <2>1 DEF MeltInv, OnePayer, QuoteOf
  <1>15. PaidOnce'
    BY <1>1, <1>2, <1>7 DEF MeltInv, PaidOnce, QuoteOf
  <1>16. BurntForPayment'
    <2>1. \A o \in Op : attempt[o] # "none" => QuoteOf(o)' = QuoteOf(o)
      BY <1>2, <1>7, Zenon DEF QuoteOf
    <2> QED
      BY <1>1, <1>2, <1>3, <1>5, <2>1 DEF MeltInv, BurntForPayment, Attempts, SpentRowsKept
  <1>17. ChangeWithinInputs'
    BY <1>1, <1>2, <1>7, <1>8 DEF MeltInv, ChangeWithinInputs, QuoteOf, Inputs
  <1>18. Keeps
    BY <1>2, <1>3, <1>4, <1>5, Zenon DEF Keeps, SpentRowsKept
  <1> QED
    BY <1>9, <1>10, <1>12, <1>13, <1>14, <1>15, <1>16, <1>17, <1>18, Zenon DEF MeltInv

(***************************************************************************)
(* A mint quote of this mint is settled: the quote passes from Unpaid to   *)
(* Paid in one transaction, which no other request has been part of.       *)
(***************************************************************************)
LEMMA SettleInternallyStep ==
    ASSUME MeltInv, NEW op \in Op, NEW r \in Request, SettleInternally(op, r)
    PROVE  MeltInv' /\ Keeps
  <1>1. /\ change' = change /\ spawned' = spawned
        /\ mint' = mint /\ checked' = checked /\ crashes' = crashes
        /\ mint = "running" /\ pc[op] = "idle" /\ r.quote \in Internal
    BY Zenon DEF SettleInternally, control
  <1>2. /\ ~Asked(op) /\ attempt[op] = "none"
        /\ r.quote \in Quote /\ r.inputs \in SUBSET Y /\ r.outputs \in SUBSET B
        /\ quote_state[r.quote] = "Unpaid" /\ change[r.quote] = 0
        /\ \A o \in Op : Asked(o) => QuoteOf(o) # r.quote
        /\ \A y \in r.inputs : proofs[y] = "None"
        /\ \A b \in r.outputs : messages[b] = "None"
        /\ Enough(r)
    BY <1>1, Accepted, Zenon DEF SettleInternally
  <1>3. /\ RowsTyped
        /\ \A y \in r.inputs : proofs'[y] = "Spent" /\ proof_quote'[y] = r.quote
        /\ \A y \in Y \ r.inputs : proofs'[y] = proofs[y] /\ proof_quote'[y] = proof_quote[y]
    <2>1. TypeOK /\ AddMeltRows(op, r, "Spent")
      BY Zenon DEF MeltInv, SettleInternally
    <2> QED
      BY <1>2, <2>1, AddedRows
  <1>4. /\ messages' \in [B -> MessageState]
        /\ message_quote' \in [B -> Quote \cup {NoQuote}]
        /\ \A b \in B : messages[b] = "Signed" => messages'[b] = "Signed"
    <2>1. CASE UNCHANGED <<messages, message_quote>>
      BY <2>1, Zenon DEF MeltInv, TypeOK
    <2>2. CASE /\ messages' = AddBlindedMessages(messages, r.outputs)
               /\ message_quote' = SetAll(message_quote, r.outputs, r.quote)
      <3>1. TypeOK
        BY Zenon DEF MeltInv
      <3> QED
        BY <1>2, <2>2, <3>1, AddedMessages, Zenon
    <2> QED
      BY <2>1, <2>2, Zenon DEF SettleInternally
  <1>5. /\ quote_state' \in [Quote -> {"None", "Unpaid", "Pending", "Paid"}]
        /\ quote_state'[r.quote] = "Paid"
        /\ \A q \in Quote : q # r.quote => quote_state'[q] = quote_state[q]
    BY <1>2, Zenon DEF MeltInv, TypeOK, SettleInternally
  <1>6. /\ melt_request' \in [Quote -> Op \cup {NoOp}]
        /\ \A q \in Quote : q # r.quote => melt_request'[q] = melt_request[q]
    BY <1>2 DEF MeltInv, TypeOK, SettleInternally
  <1>7. /\ request' \in [Op -> Request \cup {NoRequest}]
        /\ request'[op] = r
        /\ \A o \in Op : o # op => request'[o] = request[o]
    BY Zenon DEF MeltInv, TypeOK, SettleInternally
  <1>8. /\ pc' \in [Op -> PC]
        /\ pc'[op] \in {"burnt", "responded"}
        /\ \A o \in Op : o # op => pc'[o] = pc[o]
    BY Zenon DEF MeltInv, TypeOK, SettleInternally, PC
  <1>9. /\ attempt' \in [Op -> {"none", "inflight", "paid", "failed"}]
        /\ attempt'[op] = "paid"
        /\ \A o \in Op : o # op => attempt'[o] = attempt[o]
    BY Zenon DEF MeltInv, TypeOK, SettleInternally
  <1>10. /\ total_spent' \in [Op -> Nat]
         /\ total_spent'[op] = QuoteAmount[r.quote]
         /\ \A o \in Op : o # op => total_spent'[o] = total_spent[o]
    <2>1. total_spent' = [total_spent EXCEPT ![op] = QuoteAmount[r.quote]]
      BY Zenon DEF SettleInternally
    <2>2. total_spent \in [Op -> Nat] /\ QuoteAmount[r.quote] \in Nat
      BY <1>2, MeltConstants, Zenon DEF MeltInv, TypeOK
    <2> QED
      BY <2>1, <2>2
  <1>11. minted' \subseteq {Invoice[q] : q \in Internal}
    BY <1>1 DEF MeltInv, TypeOK, SettleInternally
  <1>12. TypeOK'
    BY <1>1, <1>3, <1>4, <1>5, <1>6, <1>7, <1>8, <1>9, <1>10, <1>11, Zenon
       DEF MeltInv, TypeOK, RowsTyped
  <1>13. /\ \A o \in Op : o # op =>
                /\ Asked(o)' <=> Asked(o)
                /\ QuoteOf(o)' = QuoteOf(o)
                /\ Inputs(o)' = Inputs(o)
         /\ QuoteOf(op)' = r.quote /\ Inputs(op)' = r.inputs /\ Asked(op)'
    BY <1>7, Zenon DEF Asked, QuoteOf, Inputs
  <1>14. /\ \A o \in Op : Asked(o) => QuoteOf(o) \in Quote
         /\ \A o \in Op : pc[o] \in Busy \/ attempt[o] # "none" => Asked(o)
    BY Zenon DEF MeltInv, Handlers, Asked, QuoteOf, Request
  <1>15. Handlers'
    BY <1>1, <1>7, <1>8, <1>9, ZenonT(30) DEF MeltInv, Handlers, Asked, Busy, Paying
  <1>16. Quotes'
    <2>1. (\A o \in Op : Asked(o) =>
              /\ QuoteOf(o) \in NoLookup => quote_state[QuoteOf(o)] \in {"Pending", "Paid"}
              /\ QuoteOf(o) \in Internal => quote_state[QuoteOf(o)] = "Paid")'
      BY <1>2, <1>5, <1>13, <1>14, SMTT(30) DEF MeltInv, Quotes
    <2>2. (\A op1, op2 \in Op :
              /\ Asked(op1) /\ Asked(op2)
              /\ QuoteOf(op1) = QuoteOf(op2)
              /\ QuoteOf(op1) \in NoLookup \/ (pc[op1] = "burnt" /\ pc[op2] = "burnt")
              => op1 = op2)'
      BY <1>2, <1>8, <1>13, SMTT(30) DEF MeltInv, Quotes
    <2>3. (\A o \in Op : pc[o] = "burnt" =>
              /\ quote_state[QuoteOf(o)] = "Paid"
              /\ attempt[o] = "paid"
              /\ change[QuoteOf(o)] = 0)'
      BY <1>1, <1>2, <1>5, <1>8, <1>9, <1>13, <1>14 DEF MeltInv, Quotes, Busy
    <2> QED
      BY <2>1, <2>2, <2>3, Zenon DEF Quotes
  <1>17. Funds'
    <2>1. (\A o \in Op : Asked(o) => Enough(request[o]))'
      BY <1>2, <1>7, Zenon DEF MeltInv, Funds, Asked, Enough
    <2>2. (\A o \in Op : attempt[o] = "paid" =>
              total_spent[o] =< QuoteAmount[QuoteOf(o)] + FeeReserve[QuoteOf(o)])'
      BY <1>2, <1>9, <1>10, <1>13, MeltConstants DEF MeltInv, Funds
    <2>3. (\A q \in Quote : change[q] > 0 => quote_state[q] = "Paid")'
      BY <1>1, <1>2, <1>5, Zenon DEF MeltInv, Funds
    <2> QED
      BY <2>1, <2>2, <2>3, Zenon DEF Funds
  <1>18. OnePayer'
    <2>1. \A o \in Op : pc'[o] \in Paying =>
              o # op /\ pc[o] \in Paying /\ QuoteOf(o) \in Quote /\ QuoteOf(o) # r.quote
      BY <1>2, <1>8, <1>14, Zenon DEF Busy, Paying
    <2> QED
      BY <1>5, <1>6, <1>13, <2>1 DEF MeltInv, OnePayer
  <1>19. PaidOnce'
    BY <1>2, <1>9, <1>13, <1>14 DEF MeltInv, PaidOnce
  <1>20. BurntForPayment'
    <2>1. ASSUME NEW q \in Quote, quote_state'[q] = "Paid"
          PROVE  \E o \in Op : /\ attempt'[o] = "paid"
                               /\ Invoice[QuoteOf(o)'] = Invoice[q]
      <3>1. CASE q = r.quote
        BY <1>9, <1>13, <3>1, Zenon
      <3>2. CASE q # r.quote
        <4>1. PICK o \in Op : attempt[o] = "paid" /\ Invoice[QuoteOf(o)] = Invoice[q]
          BY <1>5, <2>1, <3>2, Zenon DEF MeltInv, BurntForPayment, Attempts
        <4>2. o # op
          BY <1>2, <4>1, Zenon
        <4> QED
          BY <1>9, <1>13, <4>1, <4>2, Zenon
      <3> QED
        BY <3>1, <3>2, Zenon
    <2>2. (\A y \in Y : proofs[y] = "Spent" =>
              proof_quote[y] \in Quote /\ quote_state[proof_quote[y]] = "Paid")'
      BY <1>2, <1>3, <1>5 DEF MeltInv, BurntForPayment
    <2> QED
      BY <2>1, <2>2, Zenon DEF BurntForPayment, Attempts
  <1>21. ChangeWithinInputs'
    <2>1. Total(r.inputs) >= total_spent'[op] + CalculateFee(r.inputs)
      BY <1>2, <1>10, MeltConstants, SumsOfChange DEF Enough
    <2>2. (\A o \in Op : pc[o] = "burnt" =>
              Total(Inputs(o)) >= total_spent[o] + CalculateFee(Inputs(o)))'
      BY <1>8, <1>10, <1>13, <2>1, ZenonT(30) DEF MeltInv, ChangeWithinInputs
    <2>3. (\A q \in Quote : change[q] > 0 =>
              \E o \in Op : /\ QuoteOf(o) = q
                            /\ attempt[o] = "paid"
                            /\ change[q] + total_spent[o]
                                  + CalculateFee(Inputs(o)) =< Total(Inputs(o)))'
      BY <1>1, <1>2, <1>9, <1>10, <1>13 DEF MeltInv, ChangeWithinInputs
    <2> QED
      BY <2>2, <2>3, Zenon DEF ChangeWithinInputs
  <1>22. Keeps
    BY <1>2, <1>3, <1>4, <1>5, Zenon DEF Keeps
  <1> QED
    BY <1>12, <1>15, <1>16, <1>17, <1>18, <1>19, <1>20, <1>21, <1>22, Zenon DEF MeltInv

(***************************************************************************)
(* The second transaction: the rows of the quote are burnt and the quote   *)
(* becomes Paid, after its payment.  The handler is the only one that      *)
(* pays for the quote, so that it is the only one to have burnt for it.    *)
(***************************************************************************)
LEMMA ProcessMeltRequestStep ==
    ASSUME MeltInv, NEW op \in Op, ProcessMeltRequest(op)
    PROVE  MeltInv' /\ Keeps
  <1> DEFINE q == QuoteOf(op)
  <1>1. /\ proof_quote' = proof_quote /\ change' = change /\ minted' = minted
        /\ attempt' = attempt /\ request' = request /\ total_spent' = total_spent
        /\ spawned' = spawned
        /\ mint' = mint /\ checked' = checked /\ crashes' = crashes
        /\ pc[op] = "paying" /\ attempt[op] = "paid"
    BY ZenonT(30) DEF ProcessMeltRequest, control
  <1>2. /\ Asked(op) /\ q \in Quote /\ Inputs(op) \in SUBSET Y
        /\ quote_state[q] = "Pending" /\ melt_request[q] = op /\ change[q] = 0
        /\ mint = "running"
    <2>1. Asked(op) /\ mint = "running"
      BY <1>1, Zenon DEF MeltInv, Handlers, Busy, Paying
    <2>2. q \in Quote /\ Inputs(op) \in SUBSET Y
      BY <2>1, Zenon DEF Asked, Request, QuoteOf, Inputs
    <2>3. quote_state[q] = "Pending" /\ melt_request[q] = op
      BY <1>1, Zenon DEF MeltInv, OnePayer, Paying
    <2> QED
      BY <2>1, <2>2, <2>3 DEF MeltInv, Funds, TypeOK
  <1>3. /\ proofs' \in [Y -> {"None", "Pending", "Spent"}]
        /\ \A y \in Y : /\ proofs'[y] = "Spent" => proofs[y] = "Spent" \/ proof_quote[y] = q
                        /\ proofs[y] = "Spent" => proofs'[y] = "Spent"
    <2>1. proofs' = [y \in Y |-> IF y \in ProofYsByQuoteId(q) THEN "Spent" ELSE proofs[y]]
      BY Zenon DEF MeltInv, TypeOK, ProcessMeltRequest, UpdateProofsStates, SetAll
    <2> QED
      BY <2>1, Zenon DEF MeltInv, TypeOK, ProofYsByQuoteId
  <1>4. /\ messages' \in [B -> MessageState]
        /\ message_quote' \in [B -> Quote \cup {NoQuote}]
        /\ melt_request' \in [Quote -> Op \cup {NoOp}]
        /\ \A p \in Quote : p # q => melt_request'[p] = melt_request[p]
        /\ \A b \in B : messages[b] = "Signed" => messages'[b] = "Signed"
    <2>1. CASE UNCHANGED <<messages, message_quote, melt_request>>
      BY <2>1, Zenon DEF MeltInv, TypeOK
    <2>2. CASE DeleteMeltRequest({q}, {})
      <3>1. TypeOK /\ {q} \in SUBSET Quote /\ {} \in SUBSET B
        BY <1>2, Zenon DEF MeltInv
      <3>2. /\ messages' \in [B -> MessageState]
            /\ message_quote' \in [B -> Quote \cup {NoQuote}]
            /\ melt_request' \in [Quote -> Op \cup {NoOp}]
            /\ \A p \in Quote \ {q} : melt_request'[p] = melt_request[p]
            /\ \A b \in B : messages[b] = "Signed" => messages'[b] = "Signed"
        BY <2>2, <3>1, DeleteRows, Zenon
      <3> QED
        BY <3>2, Zenon
    <2> QED
      BY <2>1, <2>2, Zenon DEF ProcessMeltRequest
  <1>5. /\ quote_state' \in [Quote -> {"None", "Unpaid", "Pending", "Paid"}]
        /\ quote_state'[q] = "Paid"
        /\ \A p \in Quote : p # q => quote_state'[p] = quote_state[p]
    BY <1>2, Zenon DEF MeltInv, TypeOK, ProcessMeltRequest
  <1>6. /\ pc' \in [Op -> PC]
        /\ pc'[op] \in {"burnt", "responded"}
        /\ \A o \in Op : o # op => pc'[o] = pc[o]
    BY Zenon DEF MeltInv, TypeOK, ProcessMeltRequest, PC
  <1>7. TypeOK'
    BY <1>1, <1>3, <1>4, <1>5, <1>6, Zenon DEF MeltInv, TypeOK
  <1>8. Handlers'
    BY <1>1, <1>2, <1>6, Zenon DEF MeltInv, Handlers, Asked, Busy, Paying
  <1>9. \A o \in Op : Asked(o) => QuoteOf(o) \in Quote
    BY Zenon DEF Asked, QuoteOf, Request
  <1>10. \A o \in Op : o # op /\ pc[o] \in Busy =>
            Asked(o) /\ QuoteOf(o) \in Quote /\ QuoteOf(o) # q
    <2>1. \A o \in Op : pc[o] \in Busy => Asked(o)
      BY Zenon DEF MeltInv, Handlers
    <2>2. \A o \in Op : pc[o] = "burnt" => QuoteOf(o) # q
      BY <1>2, Zenon DEF MeltInv, Quotes
    <2>3. \A o \in Op : pc[o] \in Paying /\ QuoteOf(o) = q => o = op
      BY <1>2, Zenon DEF MeltInv, OnePayer
    <2> QED
      BY <1>9, <2>1, <2>2, <2>3, Zenon DEF Busy
  <1>11. Quotes'
    <2>1. (\A o \in Op : Asked(o) =>
              /\ QuoteOf(o) \in NoLookup => quote_state[QuoteOf(o)] \in {"Pending", "Paid"}
              /\ QuoteOf(o) \in Internal => quote_state[QuoteOf(o)] = "Paid")'
      BY <1>1, <1>5, <1>9, SMTT(30) DEF MeltInv, Quotes, Asked, QuoteOf
    <2>2. (\A op1, op2 \in Op :
              /\ Asked(op1) /\ Asked(op2)
              /\ QuoteOf(op1) = QuoteOf(op2)
              /\ QuoteOf(op1) \in NoLookup \/ (pc[op1] = "burnt" /\ pc[op2] = "burnt")
              => op1 = op2)'
      BY <1>1, <1>6, <1>10, SMTT(30) DEF MeltInv, Quotes, Asked, QuoteOf, Busy
    <2>3. (\A o \in Op : pc[o] = "burnt" =>
              /\ quote_state[QuoteOf(o)] = "Paid"
              /\ attempt[o] = "paid"
              /\ change[QuoteOf(o)] = 0)'
      BY <1>1, <1>2, <1>5, <1>6, <1>10 DEF MeltInv, Quotes, QuoteOf, Busy
    <2> QED
      BY <2>1, <2>2, <2>3, SMTT(30) DEF Quotes
  <1>12. Funds'
    <2>1. \A p \in Quote : change'[p] > 0 => quote_state'[p] = "Paid"
      BY <1>1, <1>5, Zenon DEF MeltInv, Funds
    <2> QED
      BY <1>1, <2>1, Zenon DEF MeltInv, Funds, Asked, QuoteOf, Enough
  <1>13. OnePayer'
    <2>1. \A o \in Op : pc'[o] \in Paying =>
              o # op /\ pc[o] \in Paying /\ QuoteOf(o) \in Quote /\ QuoteOf(o) # q
      BY <1>6, <1>10, Zenon DEF Busy, Paying
    <2>2. \A o \in Op : QuoteOf(o)' = QuoteOf(o)
      BY <1>1, Zenon DEF QuoteOf
    <2> QED
      BY <1>4, <1>5, <2>1, <2>2 DEF MeltInv, OnePayer
  <1>14. PaidOnce'
    BY <1>1, Zenon DEF MeltInv, PaidOnce, QuoteOf
  <1>15. BurntForPayment'
    <2>1. \A p \in Quote : quote_state'[p] = "Paid" =>
              \E o \in Op : attempt[o] = "paid" /\ Invoice[QuoteOf(o)] = Invoice[p]
      BY <1>1, <1>5, SMTT(30) DEF MeltInv, BurntForPayment, Attempts
    <2>2. (\A y \in Y : proofs[y] = "Spent" =>
              proof_quote[y] \in Quote /\ quote_state[proof_quote[y]] = "Paid")'
      BY <1>1, <1>2, <1>3, <1>5 DEF MeltInv, BurntForPayment
    <2>3. \A o \in Op : QuoteOf(o)' = QuoteOf(o) /\ attempt'[o] = attempt[o]
      BY <1>1, Zenon DEF QuoteOf
    <2> QED
      BY <2>1, <2>2, <2>3, SMTT(30) DEF BurntForPayment, Attempts
  <1>16. ChangeWithinInputs'
    <2>1. Total(Inputs(op)) >= total_spent[op] + CalculateFee(Inputs(op))
      <3>1. Total(Inputs(op)) >= QuoteAmount[q] + FeeReserve[q] + CalculateFee(Inputs(op))
        BY <1>2, Zenon DEF MeltInv, Funds, Enough, QuoteOf, Inputs
      <3>2. total_spent[op] =< QuoteAmount[q] + FeeReserve[q] /\ total_spent[op] \in Nat
        BY <1>1, Zenon DEF MeltInv, Funds, TypeOK
      <3>3. /\ Total(Inputs(op)) \in Nat /\ CalculateFee(Inputs(op)) \in Nat
            /\ QuoteAmount[q] \in Nat /\ FeeReserve[q] \in Nat
        BY <1>2, SumsOfChange, MeltConstants, Zenon
      <3> QED
        BY <3>1, <3>2, <3>3
    <2>2. \A o \in Op : /\ QuoteOf(o)' = QuoteOf(o) /\ Inputs(o)' = Inputs(o)
                        /\ total_spent'[o] = total_spent[o] /\ attempt'[o] = attempt[o]
      BY <1>1, Zenon DEF QuoteOf, Inputs
    <2>3. \A o \in Op : pc'[o] = "burnt" => o = op \/ pc[o] = "burnt"
      BY <1>6, Zenon
    <2>4. (\A o \in Op : pc[o] = "burnt" =>
              Total(Inputs(o)) >= total_spent[o] + CalculateFee(Inputs(o)))'
      BY <2>1, <2>2, <2>3, Zenon DEF MeltInv, ChangeWithinInputs
    <2> QED
      BY <1>1, <2>2, <2>4, Zenon DEF MeltInv, ChangeWithinInputs
  <1>17. Keeps
    BY <1>2, <1>3, <1>4, <1>5, Zenon DEF Keeps
  <1> QED
    BY <1>7, <1>8, <1>11, <1>12, <1>13, <1>14, <1>15, <1>16, <1>17, Zenon DEF MeltInv

(***************************************************************************)
(* The third transaction: the only handler that burnt proofs for the quote *)
(* stores signatures worth no more than its inputs are over the payment    *)
(* and the fee.                                                            *)
(***************************************************************************)
LEMMA SignChangeStep ==
    ASSUME MeltInv, NEW op \in Op, SignChange(op)
    PROVE  MeltInv' /\ Keeps
  <1> DEFINE q == QuoteOf(op)
             amounts == ChangeAmounts(Split(ChangeTarget(op, total_spent[op])),
                                      Cardinality(Unsigned({q})))
  <1>1. /\ proofs' = proofs /\ proof_quote' = proof_quote /\ quote_state' = quote_state
        /\ minted' = minted /\ attempt' = attempt /\ request' = request
        /\ total_spent' = total_spent /\ spawned' = spawned
        /\ mint' = mint /\ checked' = checked /\ crashes' = crashes
        /\ pc[op] = "burnt"
    BY Zenon DEF SignChange, rows, control
  <1>2. /\ Asked(op) /\ q \in Quote /\ Inputs(op) \in SUBSET Y /\ mint = "running"
        /\ quote_state[q] = "Paid" /\ attempt[op] = "paid" /\ change[q] = 0
    <2>1. Asked(op) /\ mint = "running"
      BY <1>1, Zenon DEF MeltInv, Handlers, Busy
    <2>2. q \in Quote /\ Inputs(op) \in SUBSET Y
      BY <2>1, Zenon DEF Asked, Request, QuoteOf, Inputs
    <2> QED
      BY <1>1, <2>1, <2>2, Zenon DEF MeltInv, Quotes
  <1>3. /\ messages' \in [B -> MessageState]
        /\ message_quote' \in [B -> Quote \cup {NoQuote}]
        /\ melt_request' \in [Quote -> Op \cup {NoOp}]
        /\ \A p \in Quote : p # q => melt_request'[p] = melt_request[p]
        /\ \A b \in B : messages[b] = "Signed" => messages'[b] = "Signed"
    <2>1. PICK bs \in SUBSET Unsigned({q}) : DeleteMeltRequest({q}, bs)
      BY Zenon DEF SignChange
    <2>2. TypeOK /\ {q} \in SUBSET Quote /\ bs \in SUBSET B
      BY <1>2, Zenon DEF MeltInv, Unsigned
    <2>3. /\ messages' \in [B -> MessageState]
          /\ message_quote' \in [B -> Quote \cup {NoQuote}]
          /\ melt_request' \in [Quote -> Op \cup {NoOp}]
          /\ \A p \in Quote \ {q} : melt_request'[p] = melt_request[p]
          /\ \A b \in B : messages[b] = "Signed" => messages'[b] = "Signed"
      BY <2>1, <2>2, DeleteRows, Zenon
    <2> QED
      BY <2>3, Zenon
  <1>4. /\ SumSet(amounts) \in Nat
        /\ SumSet(amounts) + total_spent[op] + CalculateFee(Inputs(op)) =< Total(Inputs(op))
    <2>1. /\ Total(Inputs(op)) \in Nat /\ CalculateFee(Inputs(op)) \in Nat
          /\ total_spent[op] \in Nat
          /\ Total(Inputs(op)) >= total_spent[op] + CalculateFee(Inputs(op))
      BY <1>1, <1>2, SumsOfChange, Zenon DEF MeltInv, TypeOK, ChangeWithinInputs
    <2>2. /\ ChangeTarget(op, total_spent[op]) \in 0 .. Total(Inputs(op))
          /\ ChangeTarget(op, total_spent[op]) + total_spent[op] + CalculateFee(Inputs(op))
                = Total(Inputs(op))
      BY <2>1 DEF ChangeTarget
    <2>3. Unsigned({q}) \in SUBSET B
      BY Zenon DEF Unsigned
    <2>4. SumSet(amounts) \in 0 .. ChangeTarget(op, total_spent[op])
      BY <1>2, <2>2, <2>3, SumsOfChange, Zenon
    <2> HIDE DEF amounts
    <2> QED
      BY <2>1, <2>2, <2>4
  <1>5. /\ change' \in [Quote -> Nat]
        /\ change'[q] = SumSet(amounts)
        /\ \A p \in Quote : p # q => change'[p] = change[p]
    <2>1. change' = [change EXCEPT ![q] = change[q] + SumSet(amounts)]
      BY Zenon DEF SignChange
    <2> HIDE DEF amounts, q
    <2> QED
      BY <1>2, <1>4, <2>1 DEF MeltInv, TypeOK
  <1> HIDE DEF amounts
  <1>6. /\ pc' \in [Op -> PC]
        /\ pc'[op] = "responded"
        /\ \A o \in Op : o # op => pc'[o] = pc[o]
    BY Zenon DEF MeltInv, TypeOK, SignChange, PC
  <1>7. TypeOK'
    BY <1>1, <1>3, <1>5, <1>6, Zenon DEF MeltInv, TypeOK
  <1>8. Handlers'
    BY <1>1, <1>2, <1>6, ZenonT(30) DEF MeltInv, Handlers, Asked, Busy, Paying
  <1>9. /\ \A o \in Op : /\ QuoteOf(o)' = QuoteOf(o) /\ Inputs(o)' = Inputs(o)
                         /\ Asked(o)' <=> Asked(o)
        /\ \A o \in Op : Asked(o) => QuoteOf(o) \in Quote
        /\ \A o \in Op : pc[o] \in Busy => Asked(o)
    BY <1>1 DEF MeltInv, Handlers, QuoteOf, Inputs, Asked, Request
  <1>10. Quotes'
    <2>1. \A o \in Op : pc'[o] = "burnt" =>
              /\ pc[o] = "burnt" /\ QuoteOf(o) # q /\ QuoteOf(o) \in Quote
      BY <1>1, <1>2, <1>6, <1>9, Zenon DEF MeltInv, Quotes, Busy
    <2>2. \A o \in Op : pc[o] = "burnt" =>
              quote_state[QuoteOf(o)] = "Paid" /\ attempt[o] = "paid" /\ change[QuoteOf(o)] = 0
      BY Zenon DEF MeltInv, Quotes
    <2>3. (\A o \in Op : pc[o] = "burnt" =>
              /\ quote_state[QuoteOf(o)] = "Paid"
              /\ attempt[o] = "paid"
              /\ change[QuoteOf(o)] = 0)'
      BY <1>1, <1>5, <1>9, <2>1, <2>2
    <2>4. (\A o \in Op : Asked(o) =>
              /\ QuoteOf(o) \in NoLookup => quote_state[QuoteOf(o)] \in {"Pending", "Paid"}
              /\ QuoteOf(o) \in Internal => quote_state[QuoteOf(o)] = "Paid")'
      BY <1>1, <1>9, Zenon DEF MeltInv, Quotes
    <2>5. (\A op1, op2 \in Op :
              /\ Asked(op1) /\ Asked(op2)
              /\ QuoteOf(op1) = QuoteOf(op2)
              /\ QuoteOf(op1) \in NoLookup \/ (pc[op1] = "burnt" /\ pc[op2] = "burnt")
              => op1 = op2)'
      BY <1>9, <2>1 DEF MeltInv, Quotes
    <2> QED
      BY <2>3, <2>4, <2>5, Zenon DEF Quotes
  <1>11. Funds'
    <2>1. \A p \in Quote : change[p] > 0 => quote_state[p] = "Paid"
      BY Zenon DEF MeltInv, Funds
    <2>2. \A p \in Quote : change'[p] > 0 => quote_state'[p] = "Paid"
      BY <1>1, <1>2, <1>5, <2>1, ZenonT(30)
    <2> QED
      BY <1>1, <2>2, Zenon DEF MeltInv, Funds, Asked, QuoteOf, Enough
  <1>12. OnePayer'
    <2>1. \A o \in Op : pc'[o] \in Paying =>
              pc[o] \in Paying /\ QuoteOf(o) \in Quote /\ QuoteOf(o) # q
      BY <1>2, <1>6, <1>9, Zenon DEF MeltInv, OnePayer, Busy, Paying
    <2> QED
      BY <1>1, <1>3, <1>9, <2>1 DEF MeltInv, OnePayer
  <1>13. PaidOnce' /\ BurntForPayment'
    BY <1>1, Zenon DEF MeltInv, PaidOnce, BurntForPayment, Attempts, QuoteOf
  <1>14. ChangeWithinInputs'
    <2>1. (\A o \in Op : pc[o] = "burnt" =>
              Total(Inputs(o)) >= total_spent[o] + CalculateFee(Inputs(o)))'
      BY <1>1, <1>6, <1>9, Zenon DEF MeltInv, ChangeWithinInputs
    <2>2. ASSUME NEW p \in Quote, change'[p] > 0
          PROVE  \E o \in Op : /\ QuoteOf(o) = p
                               /\ attempt[o] = "paid"
                               /\ change'[p] + total_spent[o]
                                     + CalculateFee(Inputs(o)) =< Total(Inputs(o))
      <3>1. CASE p = q
        BY <1>2, <1>4, <1>5, <3>1, Zenon
      <3>2. CASE p # q
        BY <1>5, <2>2, <3>2, Zenon DEF MeltInv, ChangeWithinInputs
      <3> QED
        BY <3>1, <3>2, Zenon
    <2> QED
      BY <1>1, <1>9, <2>1, <2>2, Zenon DEF ChangeWithinInputs
  <1> QED
    BY <1>1, <1>3, <1>7, <1>8, <1>10, <1>11, <1>12, <1>13, <1>14, Zenon DEF MeltInv, Keeps

-----------------------------------------------------------------------------
(***************************************************************************)
(* A rollback, in time or late, touches no spent proof: remove_proofs      *)
(* fails as a whole if one of the proofs is spent.                         *)
(***************************************************************************)
LEMMA RollbackRows ==
    ASSUME TypeOK, NEW ys, Rollback(ys) \/ UNCHANGED rows
    PROVE  RowsTyped /\ SpentRowsKept
  <1>1. CASE UNCHANGED rows
    BY <1>1, Zenon DEF rows, RowsTyped, SpentRowsKept, TypeOK
  <1>2. CASE RemoveProofsOk(proofs, ys) /\ Rollback(ys)
    <2>1. /\ proofs' = [y \in Y |-> IF y \in ys THEN "None" ELSE proofs[y]]
          /\ proof_quote' = [y \in Y |-> IF y \in ys THEN NoQuote ELSE proof_quote[y]]
      BY <1>2, Zenon DEF Rollback, RemoveProofs, RemoveProofsOk, SetAll, TypeOK
    <2>2. \A y \in Y : proofs[y] = "Spent" => y \notin ys
      BY <1>2, Zenon DEF RemoveProofsOk, Deletable
    <2>3. RowsTyped
      BY <2>1, Zenon DEF RowsTyped, TypeOK
    <2>4. SpentRowsKept
      BY <2>1, <2>2, Zenon DEF SpentRowsKept
    <2> QED
      BY <2>3, <2>4, Zenon
  <1> QED
    BY <1>1, <1>2, Zenon DEF Rollback

(***************************************************************************)
(* Dropping a ProofWriter, with the rollback at once or later.             *)
(***************************************************************************)
LEMMA DropRows ==
    ASSUME TypeOK, NEW op \in Op, NEW ys \in SUBSET Y,
           DropProofWriter(op, ys) \/ CommitProofWriter
    PROVE  RowsTyped /\ SpentRowsKept /\ spawned' \in [Op -> SUBSET Y]
  <1>1. Rollback(ys) \/ UNCHANGED rows
    BY Zenon DEF DropProofWriter, CommitProofWriter, rows
  <1>2. spawned' \in [Op -> SUBSET Y]
    BY Zenon DEF DropProofWriter, CommitProofWriter, TypeOK
  <1> QED
    BY <1>1, <1>2, RollbackRows, Zenon

(***************************************************************************)
(* Steps that add no request, payment or change, make no quote pending and *)
(* none paid, and take handlers at most towards their end, keep the        *)
(* invariant, whatever becomes of the rows of proofs that are not spent.   *)
(***************************************************************************)
LEMMA QuietStep ==
    ASSUME MeltInv, TypeOK', SpentRowsKept, messages' = messages,
           request' = request /\ attempt' = attempt /\ total_spent' = total_spent
              /\ change' = change /\ melt_request' = melt_request,
           \A q \in Quote : /\ quote_state'[q] = "Pending" <=> quote_state[q] = "Pending"
                            /\ quote_state'[q] = "Paid" <=> quote_state[q] = "Paid",
           \A o \in Op : /\ pc'[o] = "idle" => pc[o] = "idle"
                         /\ pc'[o] = "burnt" => pc[o] = "burnt"
                         /\ pc'[o] \in Paying => pc[o] \in Paying,
           mint' # "running" => \A o \in Op : pc'[o] \notin Busy
    PROVE  MeltInv' /\ Keeps
  <1>1. \A o \in Op : Asked(o) => QuoteOf(o) \in Quote
    BY Zenon DEF Asked, QuoteOf, Request
  <1>2. \A o \in Op : pc[o] \in Busy => Asked(o)
    BY Zenon DEF MeltInv, Handlers
  <1>3. Handlers'
    BY ZenonT(30) DEF MeltInv, Handlers, Asked, Busy
  <1>4. Quotes'
    BY <1>1, <1>2 DEF MeltInv, Quotes, Asked, QuoteOf, Busy
  <1>5. Funds'
    <2>1. \A q \in Quote : change'[q] > 0 => quote_state'[q] = "Paid"
      BY Zenon DEF MeltInv, Funds
    <2> QED
      BY <2>1, Zenon DEF MeltInv, Funds, Asked, QuoteOf, Enough
  <1>6. OnePayer'
    BY <1>1, <1>2, Zenon DEF MeltInv, OnePayer, QuoteOf, Busy
  <1>7. PaidOnce' /\ BurntForPayment'
    BY DEF MeltInv, PaidOnce, BurntForPayment, Attempts, QuoteOf, SpentRowsKept
  <1>8. ChangeWithinInputs'
    BY Zenon DEF MeltInv, ChangeWithinInputs, QuoteOf, Inputs
  <1> QED
    BY <1>3, <1>4, <1>5, <1>6, <1>7, <1>8, Zenon DEF MeltInv, Keeps, SpentRowsKept

(***************************************************************************)
(* Handlers that end, or go on to check a payment.                         *)
(***************************************************************************)
LEMMA EndStep ==
    ASSUME MeltInv, NEW op \in Op, NEW end \in {"failed", "lost", "unsure", "erred"},
           end \in Paying => pc[op] \in Paying,
           End(op, end), RowsTyped, SpentRowsKept, spawned' \in [Op -> SUBSET Y]
    PROVE  MeltInv' /\ Keeps
  <1>1. /\ pc' \in [Op -> PC]
        /\ \A o \in Op : /\ pc'[o] = "idle" => pc[o] = "idle"
                         /\ pc'[o] = "burnt" => pc[o] = "burnt"
                         /\ pc'[o] \in Paying => pc[o] \in Paying
    BY Zenon DEF End, MeltInv, TypeOK, PC, Paying
  <1>2. TypeOK'
    BY <1>1, Zenon DEF End, control, MeltInv, TypeOK, RowsTyped
  <1>3. mint' # "running" => \A o \in Op : pc'[o] \notin Busy
    BY <1>1, Zenon DEF End, control, MeltInv, Handlers, Busy
  <1> QED
    BY <1>1, <1>2, <1>3, QuietStep, Zenon DEF End, control

(***************************************************************************)
(* The inputs of a request are keys of proofs.                             *)
(***************************************************************************)
LEMMA InputsAreKeys ==
    ASSUME TypeOK, NEW op \in Op
    PROVE  Inputs(op) \in SUBSET Y
  BY DEF TypeOK, Inputs, Request, NoRequest

(***************************************************************************)
(* A request that is refused.                                              *)
(***************************************************************************)
LEMMA RefuseSteps ==
    ASSUME MeltInv, NEW op \in Op, NEW r \in Request,
           RefuseProofs(op, r) \/ RefuseMelt(op, r)
    PROVE  MeltInv' /\ Keeps
  <1>1. End(op, "failed") /\ "failed" \notin Paying
    BY Zenon DEF RefuseProofs, RefuseMelt, Paying
  <1>2. r.inputs \in SUBSET Y
    BY Zenon DEF Request
  <1>3. TypeOK /\ (DropProofWriter(op, r.inputs) \/ CommitProofWriter)
    BY Zenon DEF MeltInv, RefuseProofs, RefuseMelt
  <1>4. RowsTyped /\ SpentRowsKept /\ spawned' \in [Op -> SUBSET Y]
    BY <1>2, <1>3, DropRows, Zenon
  <1> QED
    BY <1>1, <1>4, EndStep, Zenon

(***************************************************************************)
(* The answers of make_payment and of the check that do not burn proofs,   *)
(* the failures after the payment, and clients that hang up.               *)
(***************************************************************************)
LEMMA HandlerEnds ==
    ASSUME MeltInv, NEW op \in Op,
           \/ PaymentPending(op) \/ PaymentUnsure(op) \/ InvoiceAlreadyPaid(op)
           \/ PaymentError(op) \/ CheckPaymentState(op) \/ CheckPaymentStateFails(op)
           \/ ProcessMeltRequestFails(op) \/ SignChangeFails(op) \/ HangUp(op)
    PROVE  MeltInv' /\ Keeps
  <1> DEFINE Ends(end) ==
        /\ End(op, end)
        /\ end \in {"unsure", "erred"} => pc[op] = "paying"
        /\ \/ DropProofWriter(op, Inputs(op)) \/ CommitProofWriter
           \/ Rollback(Inputs(op)) /\ UNCHANGED spawned
  <1>1. TypeOK /\ Inputs(op) \in SUBSET Y
    BY InputsAreKeys, Zenon DEF MeltInv
  <1>2. ASSUME NEW end \in {"failed", "lost", "unsure", "erred"}, Ends(end)
        PROVE  MeltInv' /\ Keeps
    <2>1. end \in Paying => pc[op] \in Paying
      BY <1>2, Zenon DEF Paying
    <2>2. RowsTyped /\ SpentRowsKept /\ spawned' \in [Op -> SUBSET Y]
      <3>1. CASE DropProofWriter(op, Inputs(op)) \/ CommitProofWriter
        BY <1>1, <3>1, DropRows, Zenon
      <3>2. CASE Rollback(Inputs(op)) /\ UNCHANGED spawned
        <4>1. RowsTyped /\ SpentRowsKept
          BY <1>1, <3>2, RollbackRows, Zenon
        <4>2. spawned' \in [Op -> SUBSET Y]
          BY <1>1, <3>2, Zenon DEF TypeOK
        <4> QED
          BY <4>1, <4>2, Zenon
      <3> QED
        BY <1>2, <3>1, <3>2, Zenon
    <2> QED
      BY <1>2, <2>1, <2>2, EndStep, Zenon
  <1>3. \E end \in {"failed", "lost", "unsure", "erred"} : Ends(end)
    BY Zenon DEF PaymentPending, PaymentUnsure, InvoiceAlreadyPaid, PaymentError, CheckPaymentState,
           CheckPaymentStateFails, ProcessMeltRequestFails, SignChangeFails, HangUp
  <1> QED
    BY <1>2, <1>3, Zenon

(***************************************************************************)
(* Steps that change neither a request nor a handler: a late rollback, a   *)
(* new quote, a mint quote that is paid, and the start of the mint.        *)
(***************************************************************************)
LEMMA SideSteps ==
    ASSUME MeltInv,
           \/ \E op \in Op : SpawnedRollback(op)
           \/ \E q \in Quote : GetMeltQuote(q) \/ MintQuotePaid(q)
           \/ Restart \/ Serve
           \/ UNCHANGED vars
    PROVE  MeltInv' /\ Keeps
  <1>1. /\ messages' = messages /\ message_quote' = message_quote /\ change' = change
        /\ melt_request' = melt_request /\ attempt' = attempt /\ request' = request
        /\ pc' = pc /\ total_spent' = total_spent /\ crashes' = crashes
    BY Zenon DEF SpawnedRollback, GetMeltQuote, MintQuotePaid, Restart, Serve, vars, tables,
                 control
  <1>2. RowsTyped /\ SpentRowsKept
    <2>1. TypeOK /\ \E ys : Rollback(ys) \/ UNCHANGED rows
      BY DEF MeltInv, SpawnedRollback, GetMeltQuote, MintQuotePaid, Restart, Serve, vars, tables
    <2> QED
      BY <2>1, RollbackRows, ZenonT(30)
  <1>3. /\ minted' \subseteq {Invoice[q] : q \in Internal}
        /\ spawned' \in [Op -> SUBSET Y]
        /\ mint' \in {"running", "down", "recovering"} /\ checked' \in BOOLEAN
        /\ mint' # "running" => mint # "running"
    <2>1. minted' \subseteq {Invoice[q] : q \in Internal}
      BY SMTT(30) DEF MeltInv, TypeOK, SpawnedRollback, GetMeltQuote, MintQuotePaid, Restart, Serve, vars
    <2>2. spawned' \in [Op -> SUBSET Y]
      BY DEF MeltInv, TypeOK, SpawnedRollback, GetMeltQuote, MintQuotePaid, Restart, Serve, vars
    <2>3. /\ mint' \in {"running", "down", "recovering"} /\ checked' \in BOOLEAN
          /\ mint' # "running" => mint # "running"
      <3>1. mint \in {"running", "down", "recovering"} /\ checked \in BOOLEAN
        BY ZenonT(30) DEF MeltInv, TypeOK
      <3> QED
        BY <3>1, Zenon DEF SpawnedRollback, GetMeltQuote, MintQuotePaid, Restart, Serve,
                           vars, control
    <2> QED
      BY <2>1, <2>2, <2>3, ZenonT(30)
  <1>4. /\ quote_state' \in [Quote -> {"None", "Unpaid", "Pending", "Paid"}]
        /\ \A q \in Quote : /\ quote_state'[q] = "Pending" <=> quote_state[q] = "Pending"
                            /\ quote_state'[q] = "Paid" <=> quote_state[q] = "Paid"
    BY DEF MeltInv, TypeOK, SpawnedRollback, GetMeltQuote, MintQuotePaid, Restart, Serve,
           vars, tables
  <1>5. TypeOK'
    BY <1>1, <1>2, <1>3, <1>4, Zenon DEF MeltInv, TypeOK, RowsTyped
  <1>6. mint' # "running" => \A o \in Op : pc'[o] \notin Busy
    BY <1>1, <1>3, Zenon DEF MeltInv, Handlers
  <1> QED
    BY <1>1, <1>2, <1>4, <1>5, <1>6, QuietStep, Zenon

(***************************************************************************)
(* A crash ends the handlers and forgets the rollbacks that were spawned.  *)
(***************************************************************************)
LEMMA CrashStep ==
    ASSUME MeltInv, Crash
    PROVE  MeltInv' /\ Keeps
  <1>1. UNCHANGED <<tables, minted, attempt, request, total_spent, checked>> /\ mint' = "down"
    BY Zenon DEF Crash
  <1>2. /\ pc' \in [Op -> PC]
        /\ \A op \in Op : pc'[op] \notin Busy /\ (pc'[op] = "idle" => pc[op] = "idle")
    BY Zenon DEF MeltInv, TypeOK, Crash, PC, Paying, Busy
  <1>3. spawned' \in [Op -> SUBSET Y] /\ crashes' \in 0 .. MaxCrashes
    BY MeltConstants DEF MeltInv, TypeOK, Crash
  <1>4. TypeOK'
    BY <1>1, <1>2, <1>3, Zenon DEF MeltInv, TypeOK, tables, rows
  <1>5. SpentRowsKept
    BY <1>1, Zenon DEF SpentRowsKept, tables, rows
  <1> QED
    BY <1>1, <1>2, <1>4, <1>5, QuietStep, Zenon DEF Busy, tables

(***************************************************************************)
(* The node does nothing twice: a payment is begun with a lookup id only   *)
(* if no other attempt at the invoice is under way or made, and without    *)
(* one there is no other request for the quote.                            *)
(***************************************************************************)
LEMMA NoOtherPayment ==
    ASSUME MeltInv, NEW op \in Op, Send(op), NEW o \in Op, o # op,
           attempt[o] \in {"inflight", "paid"}, QuoteOf(o) = QuoteOf(op)
    PROVE  FALSE
  <1>1. Asked(o) /\ Asked(op)
    BY Zenon DEF MeltInv, Handlers, Busy, Paying, Send
  <1>2. QuoteOf(op) \notin NoLookup
    BY <1>1, Zenon DEF MeltInv, Quotes
  <1>3. o \in Attempts(Invoice[QuoteOf(op)])
    BY Zenon DEF Attempts
  <1> QED
    BY <1>2, <1>3, Zenon DEF Send, PaymentsLike

(***************************************************************************)
(* A payment is begun; it is made, at a fee within the reserve, or fails.  *)
(***************************************************************************)
LEMMA PaymentSteps ==
    ASSUME MeltInv, NEW op \in Op, Send(op) \/ Settle(op)
    PROVE  MeltInv' /\ Keeps
  <1>1. /\ proofs' = proofs /\ proof_quote' = proof_quote
        /\ messages' = messages /\ message_quote' = message_quote /\ change' = change
        /\ quote_state' = quote_state /\ melt_request' = melt_request
        /\ minted' = minted /\ request' = request /\ pc' = pc /\ spawned' = spawned
        /\ mint' = mint /\ checked' = checked /\ crashes' = crashes
    BY Zenon DEF Send, Settle, tables, rows, control
  <1>2. /\ Asked(op) /\ QuoteOf(op) \in Quote
        /\ QuoteAmount[QuoteOf(op)] \in Nat /\ FeeReserve[QuoteOf(op)] \in Nat
    BY MeltConstants, Zenon
       DEF MeltInv, Handlers, Busy, Paying, Send, Settle, Asked, QuoteOf, Request
  <1>3. /\ attempt' \in [Op -> {"none", "inflight", "paid", "failed"}]
        /\ attempt[op] # "paid"
        /\ Settle(op) => attempt[op] = "inflight"
        /\ \A o \in Op : o # op => attempt'[o] = attempt[o]
    BY Zenon DEF MeltInv, TypeOK, Send, Settle
  <1>4. /\ total_spent' \in [Op -> Nat]
        /\ \A o \in Op : o # op => total_spent'[o] = total_spent[o]
        /\ attempt'[op] = "paid" =>
              total_spent'[op] =< QuoteAmount[QuoteOf(op)] + FeeReserve[QuoteOf(op)]
    <2>1. CASE attempt'[op] # "paid" /\ UNCHANGED total_spent
      BY <2>1, ZenonT(30) DEF MeltInv, TypeOK
    <2>2. ASSUME NEW fee \in 0 .. FeeReserve[QuoteOf(op)],
                 total_spent' = [total_spent EXCEPT ![op] = QuoteAmount[QuoteOf(op)] + fee]
          PROVE  <1>4!1 /\ <1>4!2 /\ <1>4!3
      BY <1>2, <2>2 DEF MeltInv, TypeOK
    <2> QED
      BY <2>1, <2>2, Zenon DEF MeltInv, TypeOK, Send, Settle
  <1>5. TypeOK'
    BY <1>1, <1>3, <1>4, Zenon DEF MeltInv, TypeOK
  <1>6. Handlers'
    BY <1>1, <1>2, <1>3, Zenon DEF MeltInv, Handlers, Asked
  <1>7. \A o \in Op : attempt[o] = "paid" =>
            o # op /\ attempt'[o] = "paid" /\ total_spent'[o] = total_spent[o]
    BY <1>3, <1>4, Zenon
  <1>8. Quotes'
    BY <1>1, <1>7, Zenon DEF MeltInv, Quotes, Asked, QuoteOf
  <1>9. Funds'
    <2>1. \A o \in Op : attempt'[o] = "paid" =>
              total_spent'[o] =< QuoteAmount[QuoteOf(o)] + FeeReserve[QuoteOf(o)]
      BY <1>3, <1>4, Zenon DEF MeltInv, Funds
    <2> QED
      BY <1>1, <2>1, Zenon DEF MeltInv, Funds, Asked, QuoteOf, Enough
  <1>10. OnePayer'
    BY <1>1, Zenon DEF MeltInv, OnePayer, QuoteOf
  <1>11. PaidOnce'
    BY <1>1, <1>3, NoOtherPayment, SMTT(30) DEF MeltInv, PaidOnce, QuoteOf
  <1>12. BurntForPayment'
    BY <1>1, <1>7 DEF MeltInv, BurntForPayment, Attempts, QuoteOf
  <1>13. ChangeWithinInputs'
    BY <1>1, <1>7, Zenon DEF MeltInv, Quotes, ChangeWithinInputs, QuoteOf, Inputs
  <1> QED
    BY <1>1, <1>5, <1>6, <1>8, <1>9, <1>10, <1>11, <1>12, <1>13, Zenon DEF MeltInv, Keeps

(***************************************************************************)
(* check_outgoing_payment answers Paid only if one of the payments tried   *)
(* was made.                                                               *)
(***************************************************************************)
LEMMA PaidIsReported ==
    ASSUME TypeOK, NEW ops \in SUBSET Op, "Paid" \in CheckOutgoingPayment(ops)
    PROVE  \E op \in ops : attempt[op] = "paid"
  <1>1. ops # {}
    BY DEF CheckOutgoingPayment
  <1>2. PICK op \in ops : Status[attempt[op]] = "Paid"
    BY <1>1, Zenon DEF CheckOutgoingPayment
  <1>3. attempt[op] \in {"none", "inflight", "paid", "failed"}
    BY Zenon DEF TypeOK
  <1> QED
    BY <1>2, <1>3 DEF Status

(***************************************************************************)
(* The check at start-up: a quote becomes Paid only if a payment of its    *)
(* invoice was made, and payable again only if it has a lookup id.         *)
(***************************************************************************)
LEMMA CheckPendingStep ==
    ASSUME MeltInv, CheckPendingMeltQuotes
    PROVE  MeltInv' /\ Keeps
  <1>0. PICK report \in PendingReports :
            /\ quote_state' = SetAll(SetAll(quote_state, Resolved(report, {"Paid"}), "Paid"),
                                     Resolved(report, {"Failed", "Unknown"}), "Unpaid")
            /\ DeleteMeltRequest(Resolved(report, {"Failed", "Unknown"}), {})
    BY Zenon DEF CheckPendingMeltQuotes
  <1>1. /\ proofs' = proofs /\ proof_quote' = proof_quote /\ change' = change
        /\ minted' = minted /\ attempt' = attempt /\ request' = request /\ pc' = pc
        /\ total_spent' = total_spent /\ spawned' = spawned
        /\ mint' = mint /\ checked' = TRUE /\ crashes' = crashes
    BY Zenon DEF CheckPendingMeltQuotes, rows
  <1>2. \A op \in Op : pc[op] \notin Busy
    BY Zenon DEF MeltInv, Handlers, CheckPendingMeltQuotes
  <1>3. /\ quote_state' \in [Quote -> {"None", "Unpaid", "Pending", "Paid"}]
        /\ \A q \in Quote :
              /\ quote_state[q] # "Pending" \/ q \in NoLookup => quote_state'[q] = quote_state[q]
              /\ quote_state'[q] = "Paid" /\ quote_state[q] # "Paid" =>
                    \E op \in Attempts(Invoice[q]) : attempt[op] = "paid"
    <2>1. \A q \in Quote : quote_state'[q] =
              IF q \in Resolved(report, {"Failed", "Unknown"}) THEN "Unpaid"
              ELSE IF q \in Resolved(report, {"Paid"}) THEN "Paid" ELSE quote_state[q]
      BY <1>0, Zenon DEF MeltInv, TypeOK, SetAll
    <2>2. quote_state' \in [Quote -> {"None", "Unpaid", "Pending", "Paid"}]
      BY <1>0, Zenon DEF MeltInv, TypeOK, SetAll
    <2>3. \A statuses : \A q \in Resolved(report, statuses) :
              q \notin NoLookup /\ quote_state[q] = "Pending"
      BY Zenon DEF Resolved, PendingMeltQuotes
    <2>4. ASSUME NEW q \in Resolved(report, {"Paid"})
          PROVE  \E op \in Attempts(Invoice[q]) : attempt[op] = "paid"
      <3>1. "Paid" \in CheckOutgoingPayment(Attempts(Invoice[q]))
        BY Zenon DEF Resolved, PendingReports
      <3>2. TypeOK /\ Attempts(Invoice[q]) \in SUBSET Op
        BY Zenon DEF MeltInv, Attempts
      <3> QED
        BY <3>1, <3>2, PaidIsReported, Zenon
    <2> QED
      BY <2>1, <2>2, <2>3, <2>4, Zenon
  <1>4. /\ messages' \in [B -> MessageState]
        /\ message_quote' \in [B -> Quote \cup {NoQuote}]
        /\ melt_request' \in [Quote -> Op \cup {NoOp}]
        /\ \A b \in B : messages[b] = "Signed" => messages'[b] = "Signed"
    <2>1. TypeOK /\ Resolved(report, {"Failed", "Unknown"}) \in SUBSET Quote
      BY Zenon DEF MeltInv, Resolved, PendingMeltQuotes
    <2>2. DeleteMeltRequest(Resolved(report, {"Failed", "Unknown"}), {})
      BY <1>0, Zenon
    <2>3. {} \in SUBSET B
      BY Zenon
    <2> QED
      BY <2>1, <2>2, <2>3, DeleteRows, Zenon
  <1>5. TypeOK'
    BY <1>1, <1>3, <1>4, Zenon DEF MeltInv, TypeOK
  <1>6. \A op \in Op : Asked(op) => QuoteOf(op) \in Quote
    BY Zenon DEF Asked, QuoteOf, Request
  <1>7. Handlers'
    BY <1>1, Zenon DEF MeltInv, Handlers, Asked
  <1>8. Quotes'
    BY <1>1, <1>2, <1>3, <1>6, Zenon DEF MeltInv, Quotes, Asked, QuoteOf, Busy
  <1>9. Funds'
    <2>1. \A q \in Quote : change'[q] > 0 => quote_state'[q] = "Paid"
      BY <1>1, <1>3, Zenon DEF MeltInv, Funds
    <2> QED
      BY <1>1, <2>1, Zenon DEF MeltInv, Funds, Asked, QuoteOf, Enough
  <1>10. OnePayer' /\ PaidOnce'
    BY <1>1, <1>2, Zenon DEF MeltInv, OnePayer, PaidOnce, QuoteOf, Busy
  <1>11. BurntForPayment'
    BY <1>1, <1>3 DEF MeltInv, BurntForPayment, Attempts, QuoteOf
  <1>12. ChangeWithinInputs'
    BY <1>1, Zenon DEF MeltInv, ChangeWithinInputs, QuoteOf, Inputs
  <1>13. Keeps
    BY <1>1, <1>3, <1>4, Zenon DEF Keeps
  <1> QED
    BY <1>5, <1>7, <1>8, <1>9, <1>10, <1>11, <1>12, <1>13, Zenon DEF MeltInv

(***************************************************************************)
(* Every step of the melt keeps the inductive invariant.                   *)
(***************************************************************************)
LEMMA MeltNext == MeltInv /\ [Next]_vars => MeltInv' /\ Keeps
  <1> SUFFICES ASSUME MeltInv, [Next]_vars PROVE MeltInv' /\ Keeps
    BY Zenon
  <1>1. CASE UNCHANGED vars
    BY <1>1, SideSteps, Zenon
  <1>2. ASSUME NEW q \in Quote, GetMeltQuote(q) \/ MintQuotePaid(q) PROVE MeltInv' /\ Keeps
    BY <1>2, SideSteps, Zenon
  <1>3. ASSUME NEW op \in Op, Receive(op) PROVE MeltInv' /\ Keeps
    BY <1>3, ReserveStep, SettleInternallyStep, RefuseSteps, Zenon DEF Receive
  <1>4. ASSUME NEW op \in Op, Handle(op) \/ HangUp(op) PROVE MeltInv' /\ Keeps
    BY <1>4, HandlerEnds, ProcessMeltRequestStep, SignChangeStep, Zenon DEF Handle
  <1>5. ASSUME NEW op \in Op, Send(op) \/ Settle(op) \/ SpawnedRollback(op) PROVE MeltInv' /\ Keeps
    BY <1>5, PaymentSteps, SideSteps, Zenon
  <1>6. CASE Crash \/ Restart \/ CheckPendingMeltQuotes \/ Serve
    BY <1>6, CrashStep, CheckPendingStep, SideSteps, Zenon
  <1> QED
    BY <1>1, <1>2, <1>3, <1>4, <1>5, <1>6, Zenon DEF Next

(***************************************************************************)
(* The inductive invariant holds in every reachable state of the melt,     *)
(* whatever fails and however often the mint is restarted.                 *)
(***************************************************************************)
THEOREM MeltInvariant == Spec => []MeltInv
  BY MeltInit, MeltNext, PTL DEF Spec

(***************************************************************************)
(* The tables, the handlers and the payments of the melt keep their types. *)
(***************************************************************************)
THEOREM MeltTypeCorrect == Spec => []TypeOK
  BY MeltInvariant, PTL DEF MeltInv

(***************************************************************************)
(* One handler at a time pays for a quote, and the stored melt request is  *)
(* the one it was given.                                                   *)
(***************************************************************************)
THEOREM OneHandlerPays == Spec => []OnePayer
  BY MeltInvariant, PTL DEF MeltInv

(***************************************************************************)
(* No quote is paid twice, not even after the check at start-up has made   *)
(* it payable again.                                                       *)
(***************************************************************************)
THEOREM NoDoublePayment == Spec => []PaidOnce
  BY MeltInvariant, PTL DEF MeltInv

(***************************************************************************)
(* A quote is Paid only if its request was paid, and proofs are burnt for  *)
(* Paid quotes only.                                                       *)
(***************************************************************************)
THEOREM BurntOnlyForPayment == Spec => []BurntForPayment
  BY MeltInvariant, PTL DEF MeltInv

(***************************************************************************)
(* The target of the change never underflows, and change, payment and fee  *)
(* are within the inputs.                                                  *)
(***************************************************************************)
THEOREM ChangeIsCovered == Spec => []ChangeWithinInputs
  BY MeltInvariant, PTL DEF MeltInv

(***************************************************************************)
(* A spent proof, a signature on change and the state Paid are for ever,   *)
(* although rollbacks run late and delete_melt_request deletes by quote.   *)
(***************************************************************************)
THEOREM MeltIsPermanent == Spec => Permanent
  <1>1. MeltInv /\ [Next]_vars => [Keeps]_vars
    BY MeltNext, Zenon
  <1> QED
    BY <1>1, MeltInvariant, PTL DEF Spec, Permanent, Keeps

=============================================================================
