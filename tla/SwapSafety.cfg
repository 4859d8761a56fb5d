CONSTANTS
    y1 = y1
    y2 = y2
    b1 = b1
    b2 = b2
    b3 = b3
    o1 = o1
    o2 = o2
    o3 = o3
    Y = {y1, y2}
    B = {b1, b2, b3}
    Op = {o1, o2, o3}
    NoOp = NoOp
    ProofAmount <- MCProofAmount
    ProofFeePpk <- MCProofFeePpk
    OutputAmount <- MCOutputAmount
    Faults = {"setup_commit", "sign", "finalize", "finalize_tx", "compensate", "delete_saga", "recovery_tx", "hang_up", "stale_saga"}
    MaxCrashes = 2
SPECIFICATION Spec
SYMMETRY Symmetry
CHECK_DEADLOCK FALSE
INVARIANTS
    FinalizedDurable
    Conservation
PROPERTY ImplementsLedger
