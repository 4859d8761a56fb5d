CONSTANTS
    sat = sat
    usd = usd
    auth = auth
    a1 = a1
    a2 = a2
    Unit = {sat, usd, auth}
    Auth = auth
    Order = {1, 2}
    Fee = {0, 1}
    Config <- MCConfig
    Admin = {a1, a2}
    MaxIndex = 3
    MaxChanges = 4
SPECIFICATION Spec
SYMMETRY Symmetry
CHECK_DEADLOCK FALSE
INVARIANTS
    OneActive
    SignedIsRedeemable
    ListIsCurrent
    ListedIsTrue
PROPERTY FeeIsFinal
