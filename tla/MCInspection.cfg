SPECIFICATION InspectionSpec
CONSTANTS
  Roles = {"SERVER", "OBSERVER"}
  MaxDrifts = 2
  MaxCalls = 3
  MaxBad = 1
INVARIANT CloseIsHonest
PROPERTIES PassMeansHeld BorrowersFirst
