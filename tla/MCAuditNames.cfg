SPECIFICATION Spec
CONSTANTS
  Families <- MCFamilies
  CIDRs <- MCCIDRs
  SystemNamespaces <- MCSystemNamespaces
  Snapshots <- MCSnapshots
INVARIANT HolesAreFoundByName
CHECK_DEADLOCK FALSE
