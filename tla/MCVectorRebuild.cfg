CONSTANTS
    Ids = {1, 2}
    BatchSize = 1
    SaveInterval = 2
    ReconcileBatch = 1
    MaxChanges = 1
    MaxFaults = 2
    MaxRequests = 1
    Absent = Absent
SPECIFICATION FairSpec
INVARIANTS TypeOK SwapGuarded Backed
PROPERTIES Converges
CHECK_DEADLOCK FALSE
