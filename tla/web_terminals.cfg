SPECIFICATION FairSpec
CONSTANTS
  t1 = t1
  t2 = t2
  Pages = {t1}
  MaxTerminals = 1
  MaxWeb = 2
  MaxCli = 2
  MaxShells = 2
  MaxChunks = 1
  MaxWire = 2
INVARIANT ScreenIsComplete
PROPERTIES PageIsTold EntriesAreShells
CHECK_DEADLOCK FALSE
