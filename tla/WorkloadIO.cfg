SPECIFICATION Spec
CONSTANTS
  NumKeys = 2
  Values = {"END", "null", "found"}
  Nil = Nil
  None = None
  Word <- TheWords
INVARIANT
  ReadAsAnswered
