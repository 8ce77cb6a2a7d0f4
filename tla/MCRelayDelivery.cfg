CONSTANTS
    Endpoints = {e1, e2}
    Refs = {r1}
    Containers = {c1, c2}
    Aliases = {}
    ClientIds = {i1}
    MaxDepth = 1
    Lease = 1
    Lifetimes = {2}
    MaxMessages = 2
    MaxClock = 2
    MaxDelay = 1
    MaxGeneration = 0
    Nobody = Nobody
SPECIFICATION FairSpec
INVARIANTS TypeOK ClaimBookkeeping ReplyAcknowledges
PROPERTIES LeaseExclusive ImplementsMailbox LifetimesEnd
