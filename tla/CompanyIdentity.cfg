SPECIFICATION Spec
CONSTANTS
  d1 = d1
  d2 = d2
  long = long
  mail = mail
  form = form
  n1 = n1
  n2 = n2
  Analyses = {a1, a2, a3, a4}
  Ids = {c1, c2, c3}
  Domains = {d1, d2, long, mail, form}
  Freemail = {mail}
  Platforms = {form}
  Names = {n1, n2}
  TooLong = {long}
  Letters <- MCLetters
  None = None
SYMMETRY MCSymmetry
INVARIANTS
  TypeOK
  MatchIsOfADomain
  AttachedToItsCompany
  CyclesHaveAnUpgrade
PROPERTY
  DomainIsKept
CHECK_DEADLOCK FALSE
