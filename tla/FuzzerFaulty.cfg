SPECIFICATION Spec
CONSTANTS
  NumKeys = 1
  Values <- TheTimes
  Nil = 0
  Ann = Ann
  Bob = Bob
  Clients <- TheClients
  None = None
  Pool <- Conflicting
  Ops = {"Put", "Get"}
  TotalOps = 3
  RemainThresh = 2
  Service = "arbitrary"
SYMMETRY Symmetry
INVARIANTS
  CheckFinal
  VerdictAccounts
CHECK_DEADLOCK FALSE
