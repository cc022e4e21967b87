SPECIFICATION Spec
CONSTANTS
  Worlds <- MCWorlds
  Values <- MCValues
  MaxChanges = 2
INVARIANTS
  OneMoverIsAMoment
  
  OrderDoesNotMatter
CHECK_DEADLOCK FALSE
