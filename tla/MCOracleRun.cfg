SPECIFICATION Spec
CONSTANTS
  Policies <- MCPolicies
  Honoured = {1, 2}
  Services = {"svc", "np"}
  Nodes = {"n1", "n2"}
  Paths = {1, 2, 3, 4}
  NodeOf <- MCNodeOf
  Denied <- MCDenied
  Live = {1, 2, 4}
  PodPaths = {1, 2}
  AgentPaths = {4}
  KeepScenario = TRUE
  KeepOracle = FALSE
  MaxRuns = 2
  MaxFaults = 1
  MaxCrashes = 1
CHECK_DEADLOCK FALSE
INVARIANTS
  PoliciesBackOnExit
  FailedSourceNotPublished
  SettledRunIsExact
  CanaryIsJudged
  LeftoverShadowRefused
  ShadowsGoneOnExit
PROPERTY
  ResultsAfterRestore
