---------------------------- MODULE OrderedReplay ----------------------------
(***************************************************************************)
(* What /message promises to whoever polls it after mode.background: the   *)
(* content frames arrive in order and without gaps, and the poller is told *)
(* that the run has ended only when it has them all.                       *)
(***************************************************************************)
EXTENDS Naturals

CONSTANT Deltas     \* how many content.delta frames the run produces

VARIABLES delivered, ended

Init == delivered = {} /\ ended = FALSE

\* One poll brings any number of further frames, and maybe the end.
Poll ==
  /\ ~ended
  /\ \E k \in 0..Deltas :
       /\ delivered \subseteq 1..k
       /\ delivered' = 1..k
       /\ ended' \in {FALSE, k = Deltas}

Spec == Init /\ [][Poll]_<<delivered, ended>>
=============================================================================
