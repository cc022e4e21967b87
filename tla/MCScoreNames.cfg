SPECIFICATION Spec
CONSTANTS
  Corpora <- MCNamesakes
  SystemNamespaces <- MCSystemNamespaces
  Holdout <- MCHoldout
INVARIANT
  ChangedAreNotInherited
CHECK_DEADLOCK FALSE
