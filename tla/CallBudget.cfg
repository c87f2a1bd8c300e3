SPECIFICATION Spec
CONSTANTS
  Caller = {c1, c2, c3}
  Cap = 2
  MaxAttempts = 2
  MaxAsks = 2
INVARIANTS TypeOK OvershootBounded PostsBounded
PROPERTY AsksEnd
CHECK_DEADLOCK FALSE
