\* Turns of several clients interleave, in every mode.
CONSTANTS
  t1 = t1
  t2 = t2
  t3 = t3
  i1 = i1
  i2 = i2
  NoTurn = NoTurn
  Turns = {t1, t2}
  Interrupts = {i1}
  Modes = {"sync", "stream", "auto", "background"}
  Overlap = TRUE
  PollEnabled = TRUE
  MaxRounds = 1
SPECIFICATION Spec
INVARIANT TypeOK
INVARIANT RevokedNeverCommits
INVARIANT InterruptHonoured
INVARIANT InterruptAimed
INVARIANT RunningNamesLiveTurn
INVARIANT EnvelopeWellFormed
SYMMETRY Alike
CHECK_DEADLOCK FALSE
