SPECIFICATION Spec
CONSTANTS
    Cards <- MCCards
    Hashes <- MCHashes
    Days <- MCDays
    Requests <- MCRequests
    FirstCard <- MCFirstCard
    MaxTrials = 3
    MaxAmendments = 1
    MaxEdits = 1
INVARIANTS
    HoldoutUnseenByIterations
    NeverRerunByAccident
    CriteriaChangesAreAmended
CHECK_DEADLOCK FALSE
