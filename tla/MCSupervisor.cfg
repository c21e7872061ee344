SPECIFICATION FairSpec
CONSTANTS
  t1 = t1
  t2 = t2
  c1 = c1
  c2 = c2
  NoThread = NoThread
  Threads <- MCThreads
  CASES <- MCCases
  NotBefore = 0
  NotAfter = 2
  MaxDuration = 1
  MaxTime = 2
  MaxStarts = 2
INVARIANTS
  JournalSerial
  WorkNeedsJournal
  TerminalMeansQuiet
  CompletedMeansAllPassed
  EachCaseOnce
PROPERTIES
  CancelTakesEffect
  MutexIsReleased
CHECK_DEADLOCK FALSE
