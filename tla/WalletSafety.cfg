CONSTANTS
    t1 = t1
    t2 = t2
    f1 = f1
    Task = {t1, t2}
    Foreign = {f1}
    Initial = 1
    MaxIndex = 4
    MaxOps = 3
    Batch = 1

SPECIFICATION Spec
SYMMETRY Symmetry

INVARIANTS
    FreshSecrets
    GivenOnce
    RestoreComplete

CHECK_DEADLOCK FALSE

PROPERTIES
    DeletedIsSpent
