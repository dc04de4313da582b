\* A string literal holds a comment delimiter.
SPECIFICATION Spec
CONSTANTS
  Alphabet = {"(", "*", ")", "quote", "x"}
  MaxLen = 7
  MaxSolid = 7
CHECK_DEADLOCK FALSE
INVARIANTS NeverEatsCode
