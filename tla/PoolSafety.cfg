CONSTANTS
    t1 = t1
    t2 = t2
    t3 = t3
    t4 = t4
    Thread = {t1, t2, t3, t4}
    MaxSize = 2
    MaxLeaks = 1

SPECIFICATION FairSpec

INVARIANTS
    CountIsExact
    NobodySleepsForNothing

PROPERTIES
    NobodyWaitsForEver

CHECK_DEADLOCK FALSE
