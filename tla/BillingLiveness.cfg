SPECIFICATION FairSpec
CONSTANTS
  u1 = u1
  u2 = u2
  Users = {u1, u2, u3}
  Subs = {r1}
  None = None
  Requests = {q1}
  Handlers = {h1}
  MaxCycles = 2
  Creditless <- MCCreditless
  Unfunded = {u2}
PROPERTY
  EveryEventIsApplied
CHECK_DEADLOCK FALSE
