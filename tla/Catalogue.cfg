SPECIFICATION Spec
CONSTANTS
  Sync = {s1, s2}
  Model = {m1, m2}
  Offered = {m1}
  Alias = {a1}
  Down = Down
  Nobody = Nobody
  MaxChanges = 1
  MaxEdits = 1
INVARIANTS TypeOK OkMeansPruned SelectsOnlyListed
PROPERTIES PrunesOnlyMissing SyncsEnd
CHECK_DEADLOCK FALSE
