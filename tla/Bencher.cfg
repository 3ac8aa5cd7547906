SPECIFICATION FairSpec
CONSTANTS
  NumKeys = 2
  Values = {v}
  Nil = Nil
  None = None
  NumClis = 2
  Workload = {"INSERT", "SCAN"}
  MaxLines = 2
  MaxCount = 2
  Usize = 8
  MaxSamples = 1000
INVARIANTS
  TypeOK
  ScanCovers
  Handover
  ReportComplete
  P99Right
PROPERTY
  BenchEnds
CHECK_DEADLOCK FALSE
