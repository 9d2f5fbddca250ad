SPECIFICATION ResumeSpec
CONSTANTS
  r1 = r1 p1 = p1 p2 = p2 c1 = c1 c2 = c2 h1 = h1 h2 = h2
  Rows = {r1}
  Row = r1
  Pids = {p1, p2}
  Calls = {c1, c2}
  Requests = {h1, h2}
  None = None
  Stranger = Stranger
  MaxGen = 2
  MaxCrashes = 1
  MaxResumes = 2
  MaxTroubles = 1
SYMMETRY Symmetric
INVARIANTS OneResume UnreadyIsNoted
PROPERTIES ClearedIsGone
CHECK_DEADLOCK FALSE
