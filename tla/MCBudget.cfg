SPECIFICATION BudgetSpec
CONSTANTS
    Interval = 3
    Tunings <- Tuned
    MaxTokens = 4
    MaxTime = 12
INVARIANTS RateBounded RetrySuffices RelaysKeepReserve
