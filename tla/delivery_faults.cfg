SPECIFICATION Spec
CONSTANTS
  p1 = p1
  p2 = p2
  Msgs = {p1, p2}
  Scheduled = {p2}
  ModeOf <- TwoModes
  FilterCap = 2
  PageLimit = 1
  Limit <- SafetyLimit
  Kinds = 3
INVARIANT TypeOK NothingEarly NoRepeat AckedWasRun
PROPERTY ConfirmedCancelStands LedgerSpec
CHECK_DEADLOCK FALSE
