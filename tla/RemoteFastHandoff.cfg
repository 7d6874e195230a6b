\* The remote pushes its frames while the handoff is being recorded.
CONSTANTS
  Deltas = 2
  Attempts = 2
  Faults = {}
  FastRemote = TRUE
SPECIFICATION Spec
INVARIANT FinishedMeansStored
CHECK_DEADLOCK FALSE
