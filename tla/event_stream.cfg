SPECIFICATION Spec
CONSTANTS
  e1 = e1 e2 = e2
  Events = {e1}
  Elsewhere = Elsewhere
  Silence = Silence
  Capacity = 2
  MaxEvents = 5
  MaxBoots = 2
INVARIANTS TypeOK
PROPERTIES IsAFeed CatchesUp
CHECK_DEADLOCK FALSE
