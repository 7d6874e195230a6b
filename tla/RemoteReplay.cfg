\* A remote that starts pushing after the handoff; lost requests and answers.
CONSTANTS
  Deltas = 3
  Attempts = 2
  Faults = {"lost", "answer"}
  FastRemote = FALSE
SPECIFICATION FairSpec
INVARIANT TypeOK
INVARIANT ReplyWhole
INVARIANT FinishedMeansStored
PROPERTY ReplayRefines
PROPERTY PollerEnds
CHECK_DEADLOCK FALSE
