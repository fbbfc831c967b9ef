CONSTANTS
  NumMsgs = 2
  PromotionThreshold = 1
  Times <- TwoClocks
  MaxBlocks = 3
  Users <- NoMessages
  ProtectedTools <- NoMessages
  PreserveRecent = 0
  LongSummaries <- ShortOnly
  FencedHost = FALSE
  ClockMayStepBack = TRUE
SPECIFICATION Spec
INVARIANTS NoSummaryLost ReplayIsLive
PROPERTIES OnlyDecompressReveals RevealsOnlyTarget
CHECK_DEADLOCK FALSE
