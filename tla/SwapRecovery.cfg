CONSTANTS
    y1 = y1
    y2 = y2
    b1 = b1
    b2 = b2
    b3 = b3
    o1 = o1
    o2 = o2
    o3 = o3
    Y = {y1, y2}
    B = {b1, b2, b3}
    Op = {o1, o2, o3}
    NoOp = NoOp
    ProofAmount <- MCProofAmount
    ProofFeePpk <- MCProofFeePpk
    OutputAmount <- MCOutputAmount
    Faults = {"setup_commit", "sign", "finalize"}
    MaxCrashes = 2
SPECIFICATION FairSpec
CHECK_DEADLOCK FALSE
INVARIANTS
    FailedRestored
    PendingCovered
    SpentAnnouncedTruly
PROPERTIES
    RecoveryComplete
    PendingResolved
