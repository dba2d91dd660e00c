SPECIFICATION Spec
CONSTANTS
    recording = recording
    composition = composition
    stray = stray
    h1 = h1
    r1 = r1
    Pools = {recording, composition, stray}
    Holders = {h1}
    Routed = {r1}
    ParentOf <- MCParentOf
    ShareOf <- MCShareOf
    RouteShare <- MCRouteShare
    CurrencyOf <- MCCurrencyOf
    ShareSupply = 2
    PRECISION = 3
    MaxIndex = 3
    CurrencySupply = 2
INVARIANTS DivisorsExact PoolsSolvent SweepNeverBlocked
PROPERTIES RewardsStayRouted EachPoolIsALedger
