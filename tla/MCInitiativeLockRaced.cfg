SPECIFICATION Spec
CONSTANTS
    s1 = s1
    s2 = s2
    s3 = s3
    here = here
    there = there
    Sessions = {s1, s2}
    Hosts = {here, there}
    HostOf <- MCHostOf
    Skew <- MCNoSkew
    MaxSkew = 0
    NoLock = NoLock
    Torn = Torn
    NoOne = NoOne
    LeaseTTL = 1
    Heartbeat = 9
    Serial = FALSE
    TornWrites = FALSE
    PidReuse = FALSE
    Mortal = {}
    MaxProcesses = 1
INVARIANTS
    OneDriverProceeds
