SPECIFICATION Spec
CONSTANTS
  claim = claim
  source = source
  final = final
  label = label
  Modes = {"council"}
  Replays = {FALSE, TRUE}
  Outcome = {o1, o2}
  Reader = {}
  Node <- MCNode
  Edge <- MCEdge
  Final = final
  Findings <- MCFindings
  Invalidation <- InvalidLabel
  None = None
  Engine = engine
  MaxCrashes = 1
CHECK_DEADLOCK FALSE
SYMMETRY OutcomeSymmetry
INVARIANTS TypeOK SealedMeansCoherent QuietIntegrity LearnedOnce
PROPERTY OutcomeFinal
