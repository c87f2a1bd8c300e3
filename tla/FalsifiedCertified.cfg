SPECIFICATION Spec
CONSTANTS
  Request <- MCRequest
  Criteria <- MCCriteria
  c = c
  Claim = {c}
  LoadBearing = {c}
  Testable = {c}
  Cited = {c}
  Admissible = {c}
  Family = {fj, fa, fb}
  JudgeFamily = fj
  Members = 2
  Alternates = 1
  Repairs = 0
  Cap = 12
  OperationCap = 1
  x = x
  y = y
  Choice = {x, y}
  fa = fa
  fb = fb
  None = None
SYMMETRY Alike
CHECK_DEADLOCK FALSE
INVARIANT FalsifiedNeverCertified
