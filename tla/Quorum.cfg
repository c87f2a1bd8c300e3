SPECIFICATION FairSpec
CONSTANTS
  a = a
  b = b
  c = c
  d = d
  Call = {a, b, c, d}
  FamilyOf <- MCFamilyOf
CHECK_DEADLOCK FALSE
INVARIANTS TypeOK Accounted CancelledAfterQuorum
PROPERTY GraceEnds
