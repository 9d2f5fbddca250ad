SPECIFICATION FairSpec
CONSTANTS
  p1 = p1
  p2 = p2
  Prompts = {p1}
  MaxChanges = 2
  MaxWire = 2
  Limit <- OnceEach
  Kinds = 2
INVARIANT NoTurnWhileIdle
PROPERTIES ModeNeverGoesBack ShownAsItIs
CHECK_DEADLOCK FALSE
