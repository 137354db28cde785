SPECIFICATION Spec
CONSTANTS
    sad = sad
    prd = prd
    ok1 = ok1
    bad1 = bad1
    ok2 = ok2
    bad2 = bad2
    gate = gate
    Validators = {sad, prd}
    Prompts = {x1, x2}
    Models = {m1}
    Cases = {ok1, bad1, ok2, bad2}
    Gates = {gate}
    ValidatorOf <- MCValidatorOf
    Expected <- MCExpected
    Exempt = {bad1, ok2}
    RunsPerCase = 2
    Floor <- MCFloor
    AgreementMin <- MCAgreementMin
    NoFile = NoFile
    Empty = Empty
    Garbage = Garbage
    NoEntry = NoEntry
    Processes = {p1, p2}
    MaxCommands = 3
SYMMETRY Symmetry
INVARIANTS
    TypeOK
    FreshMeansMeasured
    EntriesKept
