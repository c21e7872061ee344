SPECIFICATION TranscriptSpec
CONSTANTS
  a1 = a1
  a2 = a2
  m1 = m1
  m2 = m2
  e1 = e1
  e2 = e2
  d1 = d1
  d2 = d2
  None = None
  ActionIds <- MCActionIds
  Owned = {m1}
  Foreign = {m2}
  Executions <- MCExecutions
  Data <- MCData
  Receipts <- MCReceipts
  MaxReceipt = 2
  MaxFrames = 8
INVARIANTS
  WellFormed
  CompletedIsHonest
SYMMETRY Symmetry
CHECK_DEADLOCK FALSE
