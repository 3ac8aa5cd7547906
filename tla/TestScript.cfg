SPECIFICATION Spec
CONSTANTS
  NumKeys = 6
  Values = {"one", "two", "three", "bee", "dee", "created", "upper", "lower", "double",
            "lower2", "lower3", "four", "v1", "v2", "first", "second", "third"}
  Nil = Nil
  None = None
INVARIANTS
  NoFalseFailure
  OneAtATime
CHECK_DEADLOCK FALSE
