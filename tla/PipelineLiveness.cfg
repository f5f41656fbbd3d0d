SPECIFICATION FairSpec
CONSTANTS
  Analyses = {a1, a2}
  None = None
  u1 = u1
  Users = {u1}
  Owner <- MCOwner
  Workers = {w1}
  Sweepers = {s1}
  InitialGrant = 2
  Prices = {1}
  Prompts = {v1}
  BatchSize = 1
  MaxRedeliveries = 1
  AmbiguousEnqueue = FALSE
PROPERTIES
  EveryAnalysisEnds
  PaidWorkSpec
CHECK_DEADLOCK FALSE
