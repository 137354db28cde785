SPECIFICATION FairSpec
CONSTANTS
    a = a
    b = b
    h = h
    c = c
    f = f
    Items = {a, b, c, h}
    Human = {h}
    Files <- MCFiles
    NumGroups = 2
    GroupOf <- MCGroupOf
    Mode <- MCMode
    NumPhases = 2
    MaxWorkers = 2
    MaxRuns = 2
    TornWrites = FALSE
CHECK_DEADLOCK FALSE
INVARIANTS
    TypeOK
    InOrder
    LedgerTells
PROPERTIES
    WorkKept
    Finishes
