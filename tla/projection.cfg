CONSTANTS
  Histories <- PairsAndTriples
  Disturbed <- Mixed
  Nudging = TRUE
SPECIFICATION ContextSpec
INVARIANTS OpaqueKept ViewRealized PairsWhole OrderKept EditsAccepted RestoredRemovesNothingProtected
