SPECIFICATION Spec
CONSTANTS
    Pools = {p1, p2}
    Stakes = {s1, s2}
    ShareSupply = 2
    PRECISION = 1
    MaxRead = 1
    MaxIndex = 1
    MaxValue = 1
    MaxFunds = 1
    MaxTime = 2
SYMMETRY Symmetry
INVARIANT RegistrationsMatchPools
PROPERTIES EachPoolImplements
