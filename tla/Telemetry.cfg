\* One agent run with up to three runs below it, and the writer's thread.
CONSTANTS
  N = 4
  Documents = {0, 1, 2, 3, 4, 5}
  MaxQueue = 2
  BatchSize = 1
  NoEntry = NoEntry
  NoSpan = NoSpan
SPECIFICATION FairSpec
INVARIANT TypeOK
INVARIANT SpansLinked
INVARIANT CallsAddUp
INVARIANT FinalFlush
PROPERTY QueueDrained
CONSTRAINT Apart
CHECK_DEADLOCK FALSE
