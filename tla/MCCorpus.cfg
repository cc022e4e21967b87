SPECIFICATION Spec
CONSTANTS
  Dirs = {d1, d2}
  Measurements <- MCMeasurements
  OldVerdicts = {"bypass", "match"}
  MaxRuns = 3
  MaxTools = 2
SYMMETRY Symmetry
INVARIANTS
  LoadedPairIsOneRun
  ReclassifyIsExact
CHECK_DEADLOCK FALSE
