SPECIFICATION Spec
CONSTANTS
    Stakes = {s1, s2}
    ShareSupply = 2
    PRECISION = 2
    MaxRead = 4
    MaxIndex = 4
    MaxValue = 1
    MaxFunds = 2
    MaxTime = 2
SYMMETRY Symmetry
PROPERTIES WaitingGoToEarlierStakes
