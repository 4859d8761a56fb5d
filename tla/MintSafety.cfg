CONSTANTS
    q11 = q11
    q12 = q12
    b1 = b1
    b2 = b2
    p1 = p1
    p2 = p2
    p3 = p3
    o1 = o1
    o2 = o2
    Quote = {q11, q12}
    Bolt12 = {q12}
    QuoteAmount <- MCQuoteAmount
    B = {b1, b2}
    OutputAmount <- MCOutputAmount
    Payment = {p1, p2, p3}
    Internal = {p2}
    PaymentQuote <- MCPaymentQuote
    PaymentMsat <- MCPaymentMsat
    Op = {o1, o2}
    Faults = {"backend", "sign", "commit", "hang_up"}
SPECIFICATION Spec
CHECK_DEADLOCK FALSE
INVARIANTS
    SignedIsPaid
    CreditedOnce
    IssuedOnce
    PaidOnce
    CheckFindsPayment
