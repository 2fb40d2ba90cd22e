SPECIFICATION BacktestSpec
CONSTANTS
    Prices <- MCPrices
    TpDistance = 3
    SlDistance = 4
    Cost = 1
    MaxBars = 4
    Setups <- MCSetups
    Configs <- MCConfigs
    InnerFolds = 3
    OosSize = 4
    OofSplits = 3
    Followed <- MCFollowed
CHECK_DEADLOCK FALSE
INVARIANTS
    LabelIsTheTrade
    LabelIsConservative
    LabelWithinHorizon
    TestedOnce
    LabelsEndBeforeBlock
PROPERTIES
    StopOnlyTightens
