SPECIFICATION Spec
CONSTANTS
  Families <- MCFamilies
  CIDRs <- MCCIDRs
  SystemNamespaces <- MCSystemNamespaces
  Snapshots <- MCSnapshots
INVARIANTS
  HolesAreReal
  HolesAreFound
  HostHolesAreFound
  OrderDoesNotDecide
  LessKnowledgeIsSafe
  ExitZeroIsClean
CHECK_DEADLOCK FALSE
