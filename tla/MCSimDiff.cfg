SPECIFICATION Spec
CONSTANTS
    a = a
    b = b
    s = s
    t = t
    r = r
    r2 = r2
    PoolIds = {a, b}
    RoutedIds = {r, r2}
    Parent = parent
    WrongParent = wrong
    MaxU64 = 5
    P = 3
    Scale = 60
    SITE_BUDGET = 24
    ASSERT_SITE_BUDGET = 2
    LocalSlots = 39
    ArenaLimit = 2
    Batches <- MCBatches
    Leftovers <- MCLeftovers
    Deviations <- MCDeviations
INVARIANTS AgreeMeansSame PassingAgrees VerdictIsOwn
CHECK_DEADLOCK FALSE
