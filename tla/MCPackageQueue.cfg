SPECIFICATION Spec
CONSTANTS
  Items = {1}
  Packages = {1, 2}
  Legacy = {}
  UseCase <- FirstPackage
  Workers = {w1, w2}
  Retries = {c1, c2}
  MaxAttempts = 2
  MaxReopened = 1
  Nobody = Nobody
SYMMETRY Symmetric
INVARIANTS ResultsMatch SourceAgrees
PROPERTIES SettledStays
