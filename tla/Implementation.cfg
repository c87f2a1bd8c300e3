SPECIFICATION FairSpec
CONSTANTS
  Request <- MCRequest
  a = a
  b = b
  fa = fa
  fb = fb
  Cand = {a, b}
  Family = {fa, fb, fj, fv}
  FamilyOf <- MCFamilyOf
  JudgeFamily = fj
  None = None
INVARIANTS TypeOK CompletedIsSound BranchAccounted QuietEnd
PROPERTY RunEnds
