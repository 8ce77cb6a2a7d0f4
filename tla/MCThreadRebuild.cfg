SPECIFICATION Spec
CONSTANTS
  Scopes = {s1}
  Messages = {m1, m2, m3}
  Target <- AllScopes
  Workers = {w1, w2}
  Lease = 1
  MaxIterations = 2
  MaxClock = 4
  Nobody = Nobody
SYMMETRY Symmetric
INVARIANTS TypeOK RequestsSurvive
PROPERTIES RebuildsAdvance
