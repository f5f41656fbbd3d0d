SPECIFICATION FairSpec
CONSTANTS
  Companies = {c1}
  Domains = {d1}
  Names = {n1}
  Letters <- MCLetters
  None = None
  Analyzers = {a1, a2}
  Readers = {r1}
  Refreshers = {w1}
  RateLimit = 1
  MaxQueued = 1
  MaxFaults = 1
INVARIANTS
  TypeOK
  OnlyUpgradesLeaveGhosts
PROPERTIES
  CheckIsNeverUndone
  CompanyIsChecked
