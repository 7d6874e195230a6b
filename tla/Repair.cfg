\* Two failed tests, a service that one of them may blame, and a second run.
CONSTANTS
  t1 = t1
  t2 = t2
  F = F
  G = G
  S = S
  bF = bF
  bG = bG
  bS = bS
  m1 = m1
  m2 = m2
  l1 = l1
  l2 = l2
  n = n
  Blank = Blank
  Tests = {t1, t2}
  Files = {F, G, S}
  TestFile <- MCTestFile
  Method <- MCMethod
  Span <- MCSpan
  Services = {S}
  Base <- MCBase
  Branches = {bF, bG, bS}
  Branch <- MCBranch
  Replacements <- MCReplacements
  MaxBatch = 2
  MaxRuns = 2
  MaxLines = 5
  NoFile = NoFile
  NoPatch = NoPatch
  NoBranch = NoBranch
  Absent = Absent
SPECIFICATION Spec
INVARIANT TypeOK
INVARIANT PatchesLandInPlace
INVARIANT UndoRestores
PROPERTY CommitIsOwnFile
CHECK_DEADLOCK FALSE
