SPECIFICATION Spec
CONSTANTS
  NumKeys = 2
  Values = {v}
  Nil = Nil
  None = None
  Inputs <- ClosedScans
  MaxLines = 3
PROPERTY
  DemonstratesInterface
CHECK_DEADLOCK FALSE
