CONSTANTS
  Reqs = {r1, r2}
  Agents = {agent}
  Types = {plain, templated}
  Templated = {templated}
  Template = agent
  AgentType = plain
  Sessions = {s1, s2}
  MaxFaults = 1
  NoDoc = NoDoc
  NoKey = NoKey
SPECIFICATION Spec
INVARIANT TypeOK
INVARIANT CacheAgrees
INVARIANT SessionCopiesAgree
INVARIANT CachedWasWritten
INVARIANT UpdatesSurvive
CHECK_DEADLOCK FALSE
