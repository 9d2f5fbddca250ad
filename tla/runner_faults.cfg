SPECIFICATION FairSpec
CONSTANTS
  r1 = r1 p1 = p1 p2 = p2 c1 = c1 c2 = c2
  Rows = {r1}
  Pids = {p1, p2}
  Calls = {c1, c2}
  None = None
  Stranger = Stranger
  MaxGen = 3
  MaxCrashes = 1
INVARIANTS OneRecordedChild StopIsTruthful
PROPERTIES RunnerSettles
