SPECIFICATION Spec
CONSTANTS
    PoolIds = {a, b}
    StakeIds = {s}
    RoutedIds = {r}
    ReleaseIds = {record}
    Parents = {work, other}
    CurrencyOf <- MCCurrencyOf
    Amounts = {0, 1, 2}
    Splits <- MCSplits
    BPS = 3
    MaxU64 = 3
    P = 3
    Scale = 6
    MaxDeposits = 4
    MaxExits = 1
SYMMETRY Symmetry
INVARIANTS ConservationExact WorldConserves AccumulatorIdentity PayoutIdentity
    CarryAndResidueBounded
