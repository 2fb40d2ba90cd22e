SPECIFICATION Spec
CONSTANTS
    Configs <- MCConfigs
    InnerFolds = 3
    OosSize = 4
    OofSplits = 3
CHECK_DEADLOCK FALSE
INVARIANTS
    NoLookahead
