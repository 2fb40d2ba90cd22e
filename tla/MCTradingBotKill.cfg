SPECIFICATION Spec
CONSTANTS
    Bots = {b1, b2}
    Symbols = {s1}
    MaxConcurrent = 1
    MaxPerSymbol = 1
    Hours = 0
    MaxOrders = 2
    MaxFaults = 0
    MaxCrashes = 0
    MaxKills = 1
    MaxRestarts = 0
SYMMETRY Symmetric
PROPERTIES
    SignalOutlivesPositions
