SPECIFICATION Spec
CONSTANTS
  c1 = c1
  c2 = c2
  u1 = u1
  u2 = u2
  u3 = u3
  f1 = f1
  h1 = h1
  Clients = {c1, c2}
  Updates = {u1, u2, u3}
  Flushes = {}
  HubUpdates = {h1}
  Owner <- TwoWriters
  Locked = FALSE
  NewerOnly = FALSE
  Unreadable <- WithHubWrite
  Limit <- SafetyLimit
CHECK_DEADLOCK FALSE
INVARIANTS NoLostUpdate CurrentCopyIsCurrent
