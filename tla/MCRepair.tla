------------------------------ MODULE MCRepair ------------------------------
(* RepairPipeline for two tests in two files and a service.                *)
EXTENDS RepairPipeline

CONSTANTS t1, t2, F, G, S, bF, bG, bS, m1, m2, l1, l2, n

MCTestFile == [t \in Tests |-> IF t = t1 THEN F ELSE G]

MCMethod == [t \in Tests |-> IF t = t1 THEN m1 ELSE m2]

MCSpan == [t \in Tests |-> IF t = t1 THEN <<3, 3>> ELSE <<1, 1>>]

MCBase == [f \in Files |-> IF f = F THEN <<l1, Blank, l2>> ELSE <<l1>>]

MCBranch == [f \in Files |-> IF f = F THEN bF ELSE IF f = G THEN bG ELSE bS]

MCReplacements == {<<>>, <<n>>, <<n, n>>}
=============================================================================
