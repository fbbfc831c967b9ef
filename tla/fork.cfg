CONSTANTS
  NumMsgs = 5
  PromotionThreshold = 1
  Times <- OneClock
  MaxBlocks = 3
  Users <- FirstIsUser
  ProtectedTools <- Calls
  CallAt <- Calls
  Content <- SecondIsFourth
  PreserveRecent = 0
  LongSummaries <- LongOnly
  FencedHost = FALSE
  ClockMayStepBack = FALSE
SPECIFICATION ForkSpec
INVARIANTS RestoredAsParent ReplayedIsSound ReplayHidesAsMuch
CHECK_DEADLOCK FALSE
