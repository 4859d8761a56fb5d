CONSTANTS
    qa = qa
    qb = qb
    qo = qo
    qi = qi
    y1 = y1
    y2 = y2
    b1 = b1
    b2 = b2
    o1 = o1
    o2 = o2
    o3 = o3
    Quote = {qa, qb, qo, qi}
    NoQuote = NoQuote
    Invoice <- MCInvoice
    Internal = {qi}
    NoLookup = {qo}
    QuoteAmount <- MCQuoteAmount
    FeeReserve <- MCFeeReserve
    Wanted <- MCWanted
    Y = {y1, y2}
    ProofAmount <- MCProofAmount
    ProofFeePpk <- MCProofFeePpk
    B = {b1}
    Op = {o1, o2}
    NoOp = NoOp
    Faults = {"late_rollback", "commit", "check", "rollback", "finalize", "sign", "hang_up"}
    MaxCrashes = 1
SPECIFICATION Spec
CHECK_DEADLOCK FALSE
SYMMETRY Symmetry
INVARIANTS
    OnePayer
    PaidOnce
    BurntForPayment
    ChangeWithinInputs
PROPERTY Permanent
