SPECIFICATION Spec
CONSTANTS
  s1 = s1
  s2 = s2
  n1 = n1
  n2 = n2
  o1 = o1
  o2 = o2
  r1 = r1
  r2 = r2
  NoServer = NoServer
  NoOp = NoOp
  NoRes = NoRes
  Servers <- MCServers
  Runs <- MCRuns
  Ops <- MCOps
  Res <- MCRes
  CaseOf <- MCCaseOf
  MaxStarts = 3
SYMMETRY MCSymmetry
INVARIANTS
  NoOrphan
  AtMostOnce
  PassIsClean
  ResultIsDurable
  LockOutlastsUse
PROPERTIES
  FragmentStopsWork
  ImplementsLease
CHECK_DEADLOCK FALSE
