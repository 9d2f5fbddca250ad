SPECIFICATION FairSpec
CONSTANTS
  r1 = r1
  r2 = r2
  p1 = p1
  p2 = p2
  Source = src
  None = none
  Ids = {r1, r2}
  Prompts = {p1}
  Limit <- OnceEach
  Kinds = 3
INVARIANT AgentsExclude NothingStranded RunsInOneSession
PROPERTY ClearIsHandOff ClearSettles
CHECK_DEADLOCK FALSE
