SPECIFICATION Spec
CONSTANTS
  Backends = {"b1", "b2"}
  ServiceAttempts = 2
  MaxLost = 1
CHECK_DEADLOCK FALSE
INVARIANTS
  ReachVerdictIsWitnessed
  BlockVerdictIsWitnessed
  UnreachableIsExplained
  HitsAreWitnessed
