SPECIFICATION Spec
CONSTANT
  MaxCalls = 4
INVARIANT
  StopKills
CHECK_DEADLOCK FALSE
