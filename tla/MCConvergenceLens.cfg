SPECIFICATION Spec
CONSTANTS
    g1 = g1
    g2 = g2
    vague = vague
    precise = precise
    Gates = {g1, g2}
    Descs = {vague, precise}
    Budgets = {2}
    NumLenses = 1
    Verdicts <- MCVerdicts
    LensVerdicts <- MCLensVerdictsAny
CHECK_DEADLOCK FALSE
INVARIANTS
    AcceptedUnopposed
