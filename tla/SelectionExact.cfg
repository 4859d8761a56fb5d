CONSTANTS
    k1 = k1
    k2 = k2
    Keyset = {k1, k2}
    ActiveKeyset = k2
    Denomination = {1, 2, 4, 8, 16}
    MaxHeld = 4
    Wallets <- MCWallets
    Fees <- MCFees
    Amount = {1, 2, 3, 5, 6, 7}
    Kind = {"OnlineExact", "OnlineTolerance", "OfflineExact", "OfflineTolerance"}
    Tolerance = 1
    MaxProofs = {{}, {1}}
    TargetProofCount = 3
SPECIFICATION Spec
CHECK_DEADLOCK FALSE
INVARIANTS
    SelectionCovers
    
    FeelessSucceeds
