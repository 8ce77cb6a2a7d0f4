SPECIFICATION LiveSpec
CONSTANTS
  Items = {1, 2, 3}
  Packages = {1}
  Legacy = {3}
  UseCase <- FirstPackage
  Workers = {w1}
  Retries = {c1}
  MaxAttempts = 2
  MaxReopened = 1
  Nobody = Nobody
INVARIANTS TypeOK PathsSeparate ResultsMatch
PROPERTIES ItemsEnd
