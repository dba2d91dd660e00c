SPECIFICATION FairSpec
CONSTANTS
    MaxFunds = 4
    MaxRead = 2
INVARIANT NoSecondWithdraw
PROPERTIES WaitingFundsReachStakers QuietAddressDrains
