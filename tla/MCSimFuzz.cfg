SPECIFICATION Spec
CONSTANTS
    Pool = pool
    AmountBuckets = {1, 3}
    DepositBuckets = {1, 3}
    MaxLive = 2
    Supply = 3
    OpCount = 10
    MaxU64 = 3
    P = 1
    Scale = 6
    Violating <- MCViolating
INVARIANTS BookkeepingExact MinimizedReproduces
CHECK_DEADLOCK FALSE
