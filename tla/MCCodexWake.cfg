SPECIFICATION Spec
CONSTANTS
  Endpoints = {e1}
  RefOf <- SharedRef
  r1 = r1
  Containers = {c1, c2}
  Deliveries = {d1}
  Workers = {w1, w2}
  Retained = TRUE
  Cooldown = 1
  Lease = 1
  MaxFences = 1
  MaxGeneration = 2
  MaxClock = 2
  Rollbacks = FALSE
  MaxRestarts = 1
  Nobody = Nobody
SYMMETRY AllSymmetric
INVARIANTS TypeOK OneSubmissionPerGeneration PreparedNeverWritten
PROPERTIES WrittenFenceHeld RetrySpaced
