----------------------------- MODULE FilePatches -----------------------------
(* FileTool: how several patches are made in a file and taken back.  A file *)
(* is its sequence of lines; a patch replaces the lines start..end.         *)
EXTENDS ListOps

CONSTANT Blank   \* the empty line

\* A text is its lines joined; splitlines() drops an empty line at its end...
Text(lines) ==
  IF lines # <<>> /\ lines[Len(lines)] = Blank THEN SubSeq(lines, 1, Len(lines) - 1) ELSE lines

\* ... and a file that is written has one line at least.
Written(lines) == IF lines = <<>> THEN <<Blank>> ELSE lines

UpTo(lines, n) == SubSeq(lines, 1, IF n < Len(lines) THEN n ELSE Len(lines))

\* lines[:start] + new + lines[end:], in Python's indices.
Spliced(lines, start, end, new) == UpTo(lines, start) \o new \o SubSeq(lines, end + 1, Len(lines))

Apart(P) == \A p, q \in P : p = q \/ p.end < q.start \/ q.end < p.start

\* Faulty variant: where the patch ends is not shifted.
ReplaceHalfShifted(acc, p) ==
  LET start == p.start - 1 + acc.offset
      size  == Len(p.replacement)
  IN [lines   |-> Spliced(acc.lines, start, p.end, p.replacement),
      offset  |-> acc.offset + size - (p.end - p.start + 1),
      updated |-> Append(acc.updated, [p EXCEPT !.start = start + 1, !.end = start + size])]

\* One turn of the loop: the offset is what the patches above have added.
Replace(acc, p) ==
  LET start == p.start - 1 + acc.offset
      size  == Len(p.replacement)
  IN [lines   |-> Spliced(acc.lines, start, p.end + acc.offset, p.replacement),
      offset  |-> acc.offset + size - (p.end - p.start + 1),
      updated |-> Append(acc.updated, [p EXCEPT !.start = start + 1, !.end = start + size])]

\* replace_lines: in the order of the first line, then of the last.
Replaced(lines, P) ==
  LET order == Sorted(P, [p \in P |-> <<p.start, p.end>>])
      acc[k \in 0..Len(order)] ==
        IF k = 0 THEN [lines |-> lines, offset |-> 0, updated |-> <<>>] ELSE Replace(acc[k - 1], order[k])
  IN acc[Len(order)]

PutBack(lines, p) == Spliced(lines, p.start - 1, p.end, p.original)

\* Faulty variant: from top to bottom.
RemovedTopDown(lines, updated) == FoldLeft(PutBack, lines, updated)

\* remove_lines: from bottom to top.  Patches start in the same line only if
\* one of them is empty, and those stay in the order they are in.
Removed(lines, updated) ==
  LET order == Sorted(DOMAIN updated, [i \in DOMAIN updated |-> <<0 - updated[i].start, i>>])
      rest[k \in 0..Len(order)] == IF k = 0 THEN lines ELSE PutBack(rest[k - 1], updated[order[k]])
  IN rest[Len(order)]

\* The file in which each patch has replaced its own lines.
Meant(lines, P) ==
  FlattenSeq([i \in DOMAIN lines |->
    IF \E p \in P : p.start = i THEN (CHOOSE p \in P : p.start = i).replacement
    ELSE IF \E p \in P : p.start < i /\ i <= p.end THEN <<>> ELSE <<lines[i]>>])
=============================================================================
