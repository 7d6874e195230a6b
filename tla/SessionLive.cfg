\* Progress of the turns and of what their clients wait for.
CONSTANTS
  t1 = t1
  t2 = t2
  t3 = t3
  i1 = i1
  i2 = i2
  NoTurn = NoTurn
  Turns = {t1, t2}
  Interrupts = {i1}
  Modes = {"sync", "auto", "background"}
  Overlap = FALSE
  PollEnabled = TRUE
  MaxRounds = 1
SPECIFICATION FairSpec
PROPERTY StopEndsBlockingTurn
PROPERTY PollerSeesEnd
CHECK_DEADLOCK FALSE
