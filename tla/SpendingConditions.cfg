CONSTANTS
    ka = ka
    kb = kb
    kr = kr
    p1 = p1
    b1 = b1
    b2 = b2
    q1 = q1
    Key = {ka, kb, kr}
    Preimage = {p1}
    Requests <- MCRequests
    Outputs <- MCOutputs
    NoQuote = NoQuote
    NoKeys = NoKeys
    NoData = NoData
    MaxTime = 2
    MaxSigs = 3

SPECIFICATION Spec

INVARIANTS
    AcceptedIsAuthorised
    SigAllBinds
    AuthorisedIsAccepted
