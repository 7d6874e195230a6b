\* A turn of up to three model calls whose streams are cut, broken off and interrupted.
CONSTANTS
  Calls = 3
  LocalStreams <- MCLocalStreams
  RemoteStreams <- MCRemoteStreams
  Handoffs = {"stream", "background"}
  LoneNewlines = FALSE
  MaxRetries = 2
SPECIFICATION Spec
INVARIANT TypeOK
INVARIANT CompletedReplyWhole
INVARIANT SequencesIncrease
CHECK_DEADLOCK FALSE
