SPECIFICATION FairSpec
CONSTANTS
  c1 = c1
  c2 = c2
  u1 = u1
  u2 = u2
  u3 = u3
  f1 = f1
  h1 = h1
  Clients = {c1}
  Updates = {u1, u2, u3}
  Flushes = {f1}
  HubUpdates = {h1}
  Owner <- OneWriter
  Locked = TRUE
  NewerOnly = TRUE
  Unreadable <- WithOwnUpdate
  Limit <- SafetyLimit
CHECK_DEADLOCK FALSE
INVARIANT AppliedInOrder
PROPERTIES ColumnIsLog EveryCallReturns
