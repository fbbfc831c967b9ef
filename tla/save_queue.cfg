CONSTANTS
  MaxSaves = 5
SPECIFICATION Spec
INVARIANTS SavedIsInFile FailedStaysOut
PROPERTIES NeverGoesBack EverySaveSettles Implements
