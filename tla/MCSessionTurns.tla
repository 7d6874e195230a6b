--------------------------- MODULE MCSessionTurns ---------------------------
(* SessionTurns on small instances.                                        *)
EXTENDS SessionTurns, TLC

CONSTANTS t1, t2, t3, i1, i2

\* Turns are alike, and so are interrupt calls.
Alike == Permutations(Turns) \cup Permutations(Interrupts)
=============================================================================
