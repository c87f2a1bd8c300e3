SPECIFICATION Spec
CONSTANTS
  claim = claim
  source = source
  final = final
  label = label
  Modes = {"implement"}
  Replays = {FALSE, TRUE}
  Outcome = {o1}
  Reader = {p1}
  Node <- MCNode
  Edge <- MCEdge
  Final = final
  Findings <- MCFindings
  Invalidation <- InvalidClaim
  None = None
  Engine = engine
  MaxCrashes = 1
CHECK_DEADLOCK FALSE
INVARIANTS ApplySound RegradeHonest
PROPERTIES NeverUpgraded
