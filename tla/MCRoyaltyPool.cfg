SPECIFICATION ESpec
CONSTANTS
    Stakes = {s1, s2}
    ShareSupply = 3
    PRECISION = 2
    MaxRead = 2
    MaxIndex = 4
    MaxValue = 2
    MaxFunds = 2
    MaxTime = 2
SYMMETRY Symmetry
INVARIANTS TypeOK StakedSharesExact Solvent EveryExitPayable NoCallFailedByWithdraw CarryBelowSupply
    ReplicaExact
PROPERTIES CreditNeverTaken ImplementsLedger ImplementsGuard
