SPECIFICATION FairSpec
CONSTANTS
    s1 = s1
    s2 = s2
    s3 = s3
    here = here
    there = there
    Sessions = {s1, s2, s3}
    Hosts = {here, there}
    HostOf <- MCHostOf
    Skew <- MCSkew
    MaxSkew = 1
    NoLock = NoLock
    Torn = Torn
    NoOne = NoOne
    LeaseTTL = 3
    Heartbeat = 2
    Serial = TRUE
    TornWrites = FALSE
    PidReuse = TRUE
    Mortal = {s1, s2, s3}
    MaxProcesses = 1
INVARIANTS
    HolderOwns
PROPERTIES
    ImplementsLease
    NotWedged
