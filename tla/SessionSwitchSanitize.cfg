\* One turn at a time, of which one switched to the background inside a tool call.
CONSTANTS
  t1 = t1
  t2 = t2
  t3 = t3
  i1 = i1
  i2 = i2
  NoTurn = NoTurn
  Turns = {t1, t2, t3}
  Interrupts = {}
  Modes = {"auto", "stream"}
  Overlap = FALSE
  PollEnabled = TRUE
  MaxRounds = 1
SPECIFICATION Spec
INVARIANT SubsequentSeesInput
SYMMETRY Alike
CHECK_DEADLOCK FALSE
