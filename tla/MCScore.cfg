SPECIFICATION Spec
CONSTANTS
  Corpora <- MCCorpora
  SystemNamespaces <- MCSystemNamespaces
  Holdout <- MCHoldout
INVARIANTS
  InheritedInAnyOrder
  MissIsReal
  MayNeverCounts
  NothingIsSwallowed
  TalliesAgree
  ExperimentAgreesWithScore
CHECK_DEADLOCK FALSE
