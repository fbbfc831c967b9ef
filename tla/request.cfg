CONSTANTS
  NumMsgs = 2
  PromotionThreshold = 1
  Times <- OneClock
  MaxBlocks = 3
  Users <- NoMessages
  ProtectedTools <- NoMessages
  PreserveRecent = 0
  LongSummaries <- LongOnly
  FencedHost = FALSE
  ClockMayStepBack = FALSE
  MaxCalls = 3
  PaddedCalls = {2}
SPECIFICATION RequestSpec
INVARIANTS SummariesMatchBlocks RetryIsPossible
CHECK_DEADLOCK FALSE
