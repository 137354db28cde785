SPECIFICATION Spec
CONSTANTS
    prd = prd
    sad = sad
    b1 = b1
    b2 = b2
    d1 = d1
    d2 = d2
    alice = alice
    Types = {prd}
    Upstream <- MCUpstreamNone
    Bodies = {b1, b2}
    Humans = {alice}
    NoOne = NoOne
    Blank = Blank
    Drivers = {d1, d2}
    Malformed = Malformed
    InitialCounts = {0}
    Submissions <- MCSubmissions
    Assembled = {prd}
    Exclusive = TRUE
    Crashes = TRUE
    AndonAnywhere = FALSE
    MaxDecisions = 2
    MaxFreezes = 2
SYMMETRY Symmetry
CHECK_DEADLOCK FALSE
INVARIANTS
    FrozenHasProvenance
