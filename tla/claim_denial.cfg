CONSTANTS
  c1 = c1
  r2 = r2
  r1 = r1
  s1 = s1
  s2 = s2
  Compressions = {c1}
  Requests = {}
  SessionOf <- OneSession
  Monitor = monitor
  MaxUpdates = 0
SPECIFICATION Spec
INVARIANT DenialIsTrue
CHECK_DEADLOCK FALSE
