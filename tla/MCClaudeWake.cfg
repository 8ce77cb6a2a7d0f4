CONSTANTS
    s1 = s1
    s2 = s2
    e1 = e1
    d1 = d1
    Scopes = {s1, s2}
    Endpoints = {e1}
    EndpointOf <- OneSession
    Deliveries = {d1}
    To <- OneRecipient
    MaxRegistrations = 2
    MaxIntents = 2
    MaxCrashes = 1
    MaxFaults = 1
    Nobody = Nobody
SPECIFICATION FairSpec
INVARIANTS TypeOK NativeFence WritesLoadable BusyNotWoken NoStrandedReservation
CHECK_DEADLOCK FALSE
PROPERTIES WakeAttempted
