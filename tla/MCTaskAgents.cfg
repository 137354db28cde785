SPECIFICATION FairSpec
CONSTANTS
    p = p
    q = q
    v1 = v1
    w1 = w1
    a = a
    b = b
    s = s
    tag = tag
    t = t
    ref = ref
    Processes = {p, q}
    Versions = {v1, w1}
    Actions = {a, b}
    Tags = {tag}
    Signers = {s}
    ContractVersions = {1, 2}
    Entries <- MCEntries
    Trusted <- MCTrusted
    Contracts <- MCContracts
    Absent = Absent
    Blank = Blank
    Torn = Torn
    Unusable = Unusable
    Times = {0, 1}
    MaxCalls = 2
    Tasks = {t}
    ProcessOf <- MCProcessOf
    ActionOf <- MCActionOf
    ContextOf <- MCContextOf
    Judged = {t}
    AdapterOf <- MCAdapterOf
    Instances = {v1}
    EvidenceLists <- MCEvidence
    MaxRetries = 1
CHECK_DEADLOCK FALSE
INVARIANTS
    TypeOK
    OnlyVetted
    IndexFollowsStore
    ToldAsItWent
PROPERTY
    TasksEnd
