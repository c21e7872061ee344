SPECIFICATION Spec
CONSTANTS
  c1 = c1
  c2 = c2
  c3 = c3
  NoCase = NoCase
  CASES <- MCCases
  Ancestry = {"root", "directory", "file"}
INVARIANT
  NoClaimWhenUnproven
CHECK_DEADLOCK FALSE
