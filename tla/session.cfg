CONSTANTS
  NumMsgs = 4
  PromotionThreshold = 1
  Times <- OneClock
  MaxBlocks = 3
  Users <- FirstAndFourth
  ProtectedTools <- SecondIsProtected
  PreserveRecent = 1
  LongSummaries <- LongOnly
  FencedHost = TRUE
  ClockMayStepBack = FALSE
SPECIFICATION Spec
INVARIANTS NestedIsRefused IInv
PROPERTIES SoftRestoresOneTier FullRevivesNothing
CHECK_DEADLOCK FALSE
