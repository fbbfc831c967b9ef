CONSTANTS
  Kinds <- MCKinds
  MaxMessages = 5
  MinChars = 8
  RecentMessages = 1
  RecentTokens = 2
  ManyMessages = 2
SPECIFICATION Spec
INVARIANTS ShownIsAccepted CandidatesAreExact
PROPERTY BypassIsEarned
