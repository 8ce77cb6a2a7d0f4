CONSTANTS
    o1 = o1
    o2 = o2
    o3 = o3
    here = here
    there = there
    Owners = {o1, o2, o3}
    Locations = {here, there}
    InitialHome = here
    LocationOf <- TwoPlaces
    Deliveries = {1}
    RetryLimit = 1
    None = None
    MaxGenerations = 8
    MaxEvents = 3
SPECIFICATION FairSpec
INVARIANTS TypeOK RecordTrue OneAttempt
PROPERTIES NotResubmitted WakeEnds
CHECK_DEADLOCK FALSE
