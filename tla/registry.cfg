CONSTANTS
  Sessions = {s1, s2}
  MaxCalls = 4
  SoftCap = 1
SPECIFICATION Spec
INVARIANTS InOrder BarrierIsHeld GuardedIsRegistered CommittedIsShown CapHolds
PROPERTIES EveryCallEnds
CHECK_DEADLOCK FALSE
