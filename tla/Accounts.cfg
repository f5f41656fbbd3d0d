SPECIFICATION Spec
CONSTANTS
  upper = upper
  lower = lower
  Spellings <- MCSpellings
  Lower <- MCLower
  Subjects = {g1, g2}
  EmailOf <- MCEmailOf
  Users = {u1, u2}
  Tokens = {t1, t2, t3}
  Browsers = {b1}
  Requests = {r1, r2}
  Keys = {web}
  MaxAttempts = 2
  None = None
SYMMETRY MCSymmetry
INVARIANTS
  TypeOK
  EveryAccountIsGranted
  OneAccountPerMailbox
  TokensNameAccounts
  QuietSessionHasOneToken
  WindowIsBounded
  CountersExpire
CHECK_DEADLOCK FALSE
