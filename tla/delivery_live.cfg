SPECIFICATION FairSpec
CONSTANTS
  p1 = p1
  p2 = p2
  Msgs = {p1, p2}
  Scheduled = {p2}
  ModeOf <- OneMode
  FilterCap = 2
  PageLimit = 1
  Limit <- LiveLimit
  Kinds = 2
PROPERTY PromptsReachAgent
CHECK_DEADLOCK FALSE
