SPECIFICATION FairSpec
CONSTANT
  MaxCalls = 4
INVARIANTS
  RespMatchesCall
  Lockstep
  NoMutualWait
PROPERTIES
  GivenUpWindsDown
  ClientExits
  HandleContract
CHECK_DEADLOCK FALSE
