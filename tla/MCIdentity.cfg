SPECIFICATION Spec
CONSTANTS
  SystemNamespaces <- MCSystemNamespaces
  Outsider <- MCOutsider
  ExternalIP = "ext-ip"
  Snapshots <- MCSnapshots
  ScenarioNamespaces <- MCScenarioNamespaces
  Tunnels <- MCTunnels
  Truncated <- MCTruncated
  SpareIPs <- MCSpareIPs
  Paths <- MCPaths
  Fresh <- MCFresh
INVARIANTS
  DoorsAreProbed
  AnsweredByTheTarget
  MeasuredOnTheSnapshot
  BasisIsJustified
  RefusedForCause
  UnchangedIsAsIntended
CHECK_DEADLOCK FALSE
