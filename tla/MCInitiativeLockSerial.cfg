SPECIFICATION Spec
CONSTANTS
    s1 = s1
    s2 = s2
    s3 = s3
    here = here
    there = there
    Sessions = {s1, s2, s3}
    Hosts = {here, there}
    HostOf <- MCHostOf
    Skew <- MCSkew
    MaxSkew = 1
    NoLock = NoLock
    Torn = Torn
    NoOne = NoOne
    LeaseTTL = 2
    Heartbeat = 9
    Serial = TRUE
    TornWrites = TRUE
    PidReuse = TRUE
    Mortal = {s1, s2, s3}
    MaxProcesses = 2
INVARIANTS
    TypeOK
    OneDriverProceeds
    DisplacedIsHalted
