\* One client, one turn at a time, in every mode, interrupts at any moment.
CONSTANTS
  t1 = t1
  t2 = t2
  t3 = t3
  i1 = i1
  i2 = i2
  NoTurn = NoTurn
  Turns = {t1, t2, t3}
  Interrupts = {i1}
  Modes = {"sync", "stream", "background"}
  Overlap = FALSE
  PollEnabled = TRUE
  MaxRounds = 1
SPECIFICATION Spec
INVARIANT AcknowledgedKept
INVARIANT TerminalAfterPersist
INVARIANT SubsequentSeesInput
PROPERTY InputsNeverRemoved
SYMMETRY Alike
CHECK_DEADLOCK FALSE
