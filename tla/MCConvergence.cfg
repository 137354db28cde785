SPECIFICATION FairSpec
CONSTANTS
    g1 = g1
    g2 = g2
    vague = vague
    precise = precise
    Gates = {g1, g2}
    Descs = {vague, precise}
    Budgets = {0, 1, 4}
    NumLenses = 2
    Verdicts <- MCVerdicts
    LensVerdicts <- MCLensVerdicts
CHECK_DEADLOCK FALSE
INVARIANTS
    TypeOK
    AcceptedUnopposed
    CorrectionAnswers
    
PROPERTIES
    Terminates
    ImplementsRounds
