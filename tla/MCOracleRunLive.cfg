SPECIFICATION FairSpec
CONSTANTS
  Policies <- MCPolicies
  Honoured = {1, 2}
  Services = {"svc"}
  Nodes = {"n1", "n2"}
  Paths = {1, 2, 3, 4}
  NodeOf <- MCNodeOf
  Denied <- MCDenied
  Live = {1, 2, 4}
  PodPaths = {1, 2}
  AgentPaths = {4}
  KeepScenario = FALSE
  KeepOracle = FALSE
  MaxRuns = 1
  MaxFaults = 2
  MaxCrashes = 1
CHECK_DEADLOCK FALSE
PROPERTIES
  RunEnds
  PoliciesComeBack
