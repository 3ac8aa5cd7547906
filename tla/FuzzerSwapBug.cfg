SPECIFICATION Spec
CONSTANTS
  NumKeys = 1
  Values <- TheTimes
  Nil = 0
  Ann = Ann
  Bob = Bob
  Clients <- TheClients
  None = None
  Pool <- Conflicting
  Ops = {"Swap", "Get", "Put"}
  TotalOps = 4
  RemainThresh = 2
  Service = "swapbug"
SYMMETRY Symmetry
INVARIANTS
  AcceptedNullExplained
CHECK_DEADLOCK FALSE
