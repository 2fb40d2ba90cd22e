SPECIFICATION FairSpec
CONSTANTS
    Bots = {b1}
    Symbols = {s1, s2}
    MaxConcurrent = 1
    MaxPerSymbol = 1
    Hours = 1
    MaxOrders = 3
    MaxFaults = 1
    MaxCrashes = 1
    MaxKills = 1
    MaxRestarts = 1
INVARIANTS
    PositionLimits
    OneOrderAfterKill
PROPERTIES
    KillIsCarriedOut
