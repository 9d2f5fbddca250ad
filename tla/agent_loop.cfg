SPECIFICATION FairSpec
CONSTANTS
  p1 = p1 r1 = r1
  Prompts = {p1}
  Requests = {r1}
  Captures = TRUE
  StartsRemote = TRUE
  Troubles = {"abort", "switch", "exit", "quit", "fail", "cancel", "crash"}
  MaxTroubles = 3
INVARIANTS RequestsAgree NoticeComing LeavesWhenAsked
PROPERTIES PromptReachesAgent StopsAreObeyed
CHECK_DEADLOCK FALSE
