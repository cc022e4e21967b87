SPECIFICATION FairSpec
CONSTANTS
  Sources <- MCSources
  JobCount <- MCJobCount
  Identity <- MCIdentity
  Dialed <- MCDialed
  Sem = 2
  Parallelism = 2
  Answers = {"open", "timeout"}
INVARIANTS
  PodPressure
  ReturnedIsComplete
PROPERTIES
  RunReturns
  ImplementsProbeRun
