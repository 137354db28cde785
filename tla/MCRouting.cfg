SPECIFICATION FairSpec
CONSTANTS
    Callers = {"t1", "t2"}
    Adapters = {"a", "b", "b2"}
    Provider <- MCProvider
    Cost <- MCCost
    Chains <- MCChains
    Tiers = {0, 2, 3}
    Percents = {50, 67}
    Lengths <- MCLengths
    Bindings <- MCBindings
    MostNames = 2
    Events = {"pre", "post"}
    Types = {"PRD", "TDD", "ADR"}
    Uses <- MCUses
    MaxFailures = 2
    ResetAfter = 2
    Closed = Closed
INVARIANTS
    BreakerExact
    NobodyLeftOut
    AcceptedAgrees
PROPERTIES
    TriedAgain
