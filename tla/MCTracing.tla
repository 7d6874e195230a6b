----------------------------- MODULE MCTracing ------------------------------
(* Tracing on a small instance.                                            *)
EXTENDS Tracing

\* The callbacks never read the queue: long traces are explored while the
\* writer and the I/O document wait, and the writer with short traces.
Apart ==
  \/ tree[3].state = "new"
  \/ /\ writer = "loop" /\ submitted = <<>> /\ ~shutdown /\ ~io
     \* At most one span of a long trace has the code of an error.
     /\ Cardinality({r \in Runs : span[r] # NoSpan /\ span[r].code = 500}) <= 1
=============================================================================
