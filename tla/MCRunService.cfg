SPECIFICATION LiveSpec
CONSTANTS
    j1 = j1
    j2 = j2
    Jobs = {j1, j2}
    MaxConcurrent = 1
    MaxFaults = 1
    MaxRestarts = 1
INVARIANTS
    SlotsRespected
    NoStrayProcess
    CompletedSucceeded
PROPERTIES
    CancelledIsFinal
    SlotsComeBack
