SPECIFICATION FairSpec
CONSTANTS
    Values <- MCValues
    NaN = NaN
    Infinity = 3
    Threshold = 1
    Budgets <- MCBudgets
    BatchSize = 2
    Orders = 2
    Upstream = 2
    Shown = 3
INVARIANTS
    TypeOK
    BestIsBest
PROPERTIES
    WinnerShown
    Terminates
\* A run that has ended stays ended.
CHECK_DEADLOCK FALSE
