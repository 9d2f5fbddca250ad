SPECIFICATION ViewSpec
CONSTANTS
  p1 = p1 p2 = p2 o1 = o1 o2 = o2
  Prompts = {p1}
  Outputs = {o1, o2}
  Events = {}
  Elsewhere = Elsewhere
  Silence = Silence
  Capacity = 2
  MaxEvents = 3
  MaxBoots = 1
  PageSize = 1
  TailLimit = 3
  HistoryLimit = 2
  OlderLimit = 3
  MaxDrops = 1
  MaxTurns = 2
INVARIANTS NoHole NoGhost
PROPERTIES ConsumedStays
CHECK_DEADLOCK FALSE
SYMMETRY OutputSymmetry
VIEW View
