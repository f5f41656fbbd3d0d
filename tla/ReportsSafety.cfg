SPECIFICATION Spec
CONSTANTS
  r1 = r1
  r2 = r2
  r3 = r3
  Reports = {r1, r2, r3}
  Companies = {c1}
  None = None
  Similar <- MCSimilar
  Moderators = {m1, m2}
  Saturation = 2
SYMMETRY MCSymmetry
INVARIANTS
  TypeOK
  DuplicateOfOriginal
  SignalIsBacked
PROPERTY
  DecidedIsFinal
CHECK_DEADLOCK FALSE
