CONSTANTS
  c1 = c1
  r2 = r2
  r1 = r1
  s1 = s1
  s2 = s2
  Compressions = {c1}
  Requests = {r1, r2}
  SessionOf <- TwoSessions
  Monitor = monitor
  MaxUpdates = 1
SPECIFICATION Spec
INVARIANTS DomainsConverge TimedUnlessUpset
PROPERTY ImplementsInstance
CHECK_DEADLOCK FALSE
