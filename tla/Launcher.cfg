SPECIFICATION FairSpec
INVARIANT
  ResultTells
PROPERTY
  EndsWithProcess
CHECK_DEADLOCK FALSE
