SPECIFICATION Spec
CONSTANTS
  p1 = p1
  p2 = p2
  b1 = b1
  b2 = b2
  b3 = b3
  n1 = n1
  n2 = n2
  NoProc = NoProc
  Procs <- MCProcs
  Bindings <- MCBindings
  KeyOf <- MCKeyOf
  NotBefore <- MCNotBefore
  NotAfter <- MCNotAfter
  MaxTime = 2
  MaxRecords = 3
INVARIANTS
  GrantedOnce
  WritersNeverCorrupt
  AckedIsDurable
  TerminalIsTimely
PROPERTIES
  ImplementsRegistry
SYMMETRY ProcSymmetry
