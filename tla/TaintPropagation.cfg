SPECIFICATION Spec
CONSTANTS
  Id = {a, b, c}
  Node = {a, b}
  MaxEdges = 3
INVARIANTS TypeOK ResultIsClosure TransitionsExplain
PROPERTY Terminates
CHECK_DEADLOCK FALSE
