SPECIFICATION Spec
CONSTANTS
  NumKeys = 2
  Values <- TheTimes
  Nil = 0
  Ann = Ann
  Bob = Bob
  Clients <- TheClients
  None = None
  Pool <- Conflicting
  Ops = {"Put", "Delete", "Scan"}
  TotalOps = 4
  RemainThresh = 2
  Service = "atomic"
SYMMETRY Symmetry
INVARIANTS
  NoFalseAlarm
CHECK_DEADLOCK FALSE
