CONSTANTS
    Ids = {1, 2}
    BatchSize = 1
    SaveInterval = 2
    ReconcileBatch = 1
    MaxChanges = 0
    MaxFaults = 2
    MaxRequests = 0
    Absent = Absent
SPECIFICATION FairSpec
PROPERTIES BackupKept
CHECK_DEADLOCK FALSE
