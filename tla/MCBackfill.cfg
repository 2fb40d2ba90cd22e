SPECIFICATION LiveSpec
CONSTANTS
    r1 = r1
    s1 = s1
    g1 = g1
    p1 = p1
    p2 = p2
    LegacyRuns = {r1}
    Studies = {s1}
    Gated = {g1}
    Cards = {1, 2}
    Appliers = {p1, p2}
    Mappings <- MCMappings
    Day <- MCDay
    ConfigOf <- MCConfigOf
    Today = 4
    Edited = Edited
    NoConfig = NoConfig
    NoOne = NoOne
    MaxFaults = 1
    MaxEdits = 1
INVARIANTS
    BackfillBeforeHoldout
    BackfillComplete
PROPERTIES
    BackfillImplementsTrialRegister
    BackfillCompletes
