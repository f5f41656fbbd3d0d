SPECIFICATION Spec
CONSTANTS
  Analyses = {a1, a2}
  None = None
  u1 = u1
  Users = {u1}
  Owner <- MCOwner
  Workers = {w1, w2}
  Sweepers = {s1, s2}
  InitialGrant = 2
  Prices = {1, 2}
  Prompts = {v1}
  BatchSize = 2
  MaxRedeliveries = 1
  AmbiguousEnqueue = FALSE
SYMMETRY MCSymmetry
INVARIANTS
  TypeOK
  LedgerMatchesBalance
  NoVerdictOnRefund
  EndedIsSettled
  RefundOnlyOfEndedCharge
  OneWorkerPerAnalysis
  TimeoutReasonIsTrue
PROPERTY
  EndedStaysEnded
CHECK_DEADLOCK FALSE
