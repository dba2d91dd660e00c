SPECIFICATION Spec
CONSTANTS
    Pool = pool
    AmountBuckets = {1, 3}
    DepositBuckets = {1, 3}
    MaxLive = 2
    Supply = 3
    OpCount = 8
    MaxU64 = 3
    P = 1
    Scale = 6
    Violating <- MCViolating
INVARIANT ReplayReproduces
CHECK_DEADLOCK FALSE
