SPECIFICATION Spec
CONSTANTS
  Cycle = 6
  MaxUpdates = 2
  MaxReads = 2
INVARIANTS NoTornRead HeldMeansUntouched
CHECK_DEADLOCK FALSE
