SPECIFICATION Spec
CONSTANTS
  Analyses = {a1, a2, a3}
  None = None
  u1 = u1
  Users = {u1}
  Owner <- MCOwner
  Workers = {w1}
  Sweepers = {s1}
  InitialGrant = 1
  Prices = {1}
  Prompts = {v1, v2}
  BatchSize = 1
  MaxRedeliveries = 0
  AmbiguousEnqueue = FALSE
SYMMETRY MCSymmetry
INVARIANT
  OneFreeRunPerSource
CHECK_DEADLOCK FALSE
