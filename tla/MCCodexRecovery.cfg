SPECIFICATION FairSpec
CONSTANTS
  Endpoints = {e1}
  RefOf <- SharedRef
  r1 = r1
  Containers = {c1}
  Deliveries = {d1}
  Workers = {w1}
  Retained = TRUE
  Cooldown = 1
  Lease = 1
  MaxFences = 1
  MaxGeneration = 2
  MaxClock = 3
  Rollbacks = TRUE
  MaxRestarts = 1
  Nobody = Nobody
PROPERTIES PreparedResolves RollbackRecovers
