SPECIFICATION Spec
CONSTANTS
  u1 = u1
  u2 = u2
  Users = {u1}
  Subs = {r1, r2}
  None = None
  Requests = {q1}
  Handlers = {h1}
  MaxCycles = 1
  Creditless <- MCCreditless
  Unfunded = {}
INVARIANT
  PaidPeriodIsGranted
CHECK_DEADLOCK FALSE
