CONSTANTS
  MaxMessages = 5
  Windows <- KnownOrNot
  Fallback = 10
  CompletionReserve = 14
  OutputReserve = 1
  SystemTokens = 2
  OutputSizes <- ShortAndLong
  LongOutput = 2
  ShortTokens = 4
  MinOutput = 3
  MinClear = 1
  Recent = 1
SPECIFICATION BudgetSpec
INVARIANTS EstimateCoversRequest GuardDelivers
CHECK_DEADLOCK FALSE
