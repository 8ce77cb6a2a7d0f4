CONSTANTS
    Endpoints = {e1, e2, e3}
    Refs = {r1, r2}
    Containers = {c1, c2}
    Aliases = {a1, a2}
    ClientIds = {i1}
    MaxDepth = 0
    Lease = 1
    Lifetimes = {0}
    MaxMessages = 1
    MaxClock = 0
    MaxDelay = 0
    MaxGeneration = 2
    Nobody = Nobody
SYMMETRY Symmetric
SPECIFICATION Spec
INVARIANTS NamesAgree ScopesUnique
