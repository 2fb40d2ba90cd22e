SPECIFICATION Spec
CONSTANTS
    DayLength = 3
    ZoneOffset = 1
    Deposit = 10
    MaxDailyLoss = 30
    StreakLimit = 2
    PauseDuration = 2
    MaxAge = 1
    Results <- LossOrWin
    MaxTrades = 3
    MaxTime = 3
    MaxRestarts = 1
CHECK_DEADLOCK FALSE
INVARIANTS
    TradesCountOnce
    NoEntryInAStreak
    NoEntryPastLossLimit
PROPERTIES
    RefusedForTodaysLosses
