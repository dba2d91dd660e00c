SPECIFICATION HSpec
CONSTANTS
    Stakes = {s1, s2}
    ShareSupply = 3
    PRECISION = 3
    MaxRead = 2
    MaxIndex = 5
    MaxValue = 2
    MaxFunds = 1
    MaxTime = 2
SYMMETRY Symmetry
INVARIANTS LifetimeExact Conservation SupplyFloor NoWindfall
PROPERTIES ExitCompletesLifetime ResidueBound
