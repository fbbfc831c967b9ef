CONSTANTS
  Window = 6
  Emergency = 6
  MaxLimit = 5
  MinLimit = 4
  NudgeFloor = 1
  Growth = 2
  Floor = 2
  Interval = 2
  Iteration = 2
  Tiers = {2}
  Shrinks = {1, 4}
SPECIFICATION Spec
PROPERTIES NudgesSpaced NeverSilent
