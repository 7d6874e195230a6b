------------------------------- MODULE ListOps -------------------------------
(* Python's operations on lists that more than one model needs.            *)
EXTENDS Naturals, Integers, Sequences, SequencesExt, FiniteSets

\* [x for x in s if x in S]
Picked(s, S) ==
  LET picked[k \in 0..Len(s)] ==
        IF k = 0 THEN <<>> ELSE IF s[k] \in S THEN Append(picked[k - 1], s[k]) ELSE picked[k - 1]
  IN picked[Len(s)]

\* Keys are pairs of numbers, compared as Python compares tuples.
Below(k, l) == k[1] < l[1] \/ (k[1] = l[1] /\ k[2] <= l[2])

First(D, key) == CHOOSE d \in D : \A e \in D : Below(key[d], key[e])

\* sorted(D, key=key), for keys that differ.
Sorted(D, key) ==
  LET sorted[k \in 0..Cardinality(D)] ==
        IF k = 0 THEN <<>> ELSE Append(sorted[k - 1], First(D \ Range(sorted[k - 1]), key))
  IN sorted[Cardinality(D)]
=============================================================================
