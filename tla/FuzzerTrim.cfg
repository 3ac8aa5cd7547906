SPECIFICATION Spec
CONSTANTS
  NumKeys = 1
  Values <- TheTimes
  Nil = 0
  Ann = Ann
  Bob = Bob
  Clients <- TheClients
  None = None
  Pool <- Conflicting
  Ops = {"Swap", "Get", "Delete"}
  TotalOps = 5
  RemainThresh = 2
  Service = "atomic"
SYMMETRY Symmetry
INVARIANTS
  TypeOK
  NoFalseAlarm
  DrawsEnd
  HistoryInOrder
  TrimHarmless
  CheckFinal
  NothingDueWaits
  VerdictAccounts
CHECK_DEADLOCK FALSE
