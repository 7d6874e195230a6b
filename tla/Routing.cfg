\* A router, two tasks in sequence and two agents, one with an agent of its
\* own: its tasks, one of them remote, are all connected.
CONSTANTS
  Top = top
  outer = outer
  inner = inner
  side = side
  r0 = r0
  a = a
  e = e
  r1 = r1
  x = x
  r2 = r2
  y = y
  z = z
  r3 = r3
  w = w
  Tasks = {r0, a, e, r1, x, r2, y, z, r3, w}
  Agents = {top, outer, inner, side}
  Home <- MCHome
  Chain <- MCChain
  Router <- MCRouter
  Deep = {r0, z}
  Remote = {y}
  Connected = {inner}
  RouterBack = {side}
  Edges <- MCEdges
  Disabled = {}
  Retired = {}
  Invented = {}
  NoTask = NoTask
SPECIFICATION FairSpec
INVARIANT TypeOK
INVARIANT PathLeadsToTask
INVARIANT TransferArrives
INVARIANT ResumesTask
PROPERTY RoutingEnds
CHECK_DEADLOCK FALSE
