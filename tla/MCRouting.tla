------------------------------ MODULE MCRouting ------------------------------
(* Routing for an agent with two levels of agents in it.                   *)
EXTENDS Routing

CONSTANTS outer, inner, side, r0, a, e, r1, x, r2, y, z, r3, w

MCHome == [n \in Nodes |->
  IF n \in {r0, a, e, outer, side} THEN Top
  ELSE IF n \in {r1, x, inner} THEN outer
  ELSE IF n \in {r3, w} THEN side ELSE inner]

MCRouter == [n \in Agents |->
  IF n = Top THEN r0 ELSE IF n = outer THEN r1 ELSE IF n = side THEN r3 ELSE r2]

MCChain == [n \in Nodes \cup {Top} |->
  IF n = Top THEN <<>>
  ELSE IF MCHome[n] = Top THEN <<n>>
  ELSE IF MCHome[n] = inner THEN <<outer, inner, n>> ELSE <<MCHome[n], n>>]

\* Task a is followed by task e.
MCEdges == {<<a, e>>}

\* Or by nothing, where a may be retired.
MCNoEdges == {}

\* The agent is one that the theorems are about.
ASSUME MCRoutingAssumption == EdgesJoinTasks /\ TransfersStayInside
=============================================================================
