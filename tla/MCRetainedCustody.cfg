SPECIFICATION Spec
CONSTANTS
  Files <- Authority
  Kit <- KitNames
  Base = "etc"
  KitDir = "kit"
  Chunks = 2
  MaxChanges = 2
INVARIANTS SealIsSnapshot CloseIsTotal
CHECK_DEADLOCK FALSE
