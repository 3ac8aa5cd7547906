SPECIFICATION FairSpec
CONSTANTS
  NumKeys = 2
  Values = {v1}
  Nil = Nil
  Clients = {c1, c2}
  None = None
  MaxCalls = 3
  MaxCrashes = 1
INVARIANTS
  TypeOK
  IteratorValid
  ScanSnapshot
  HolderCanStep
PROPERTIES
  Linearizable
  HolderComesNearer
  CallsComplete
CHECK_DEADLOCK FALSE
