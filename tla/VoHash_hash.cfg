\* Every short source without string literals, and every edit of it.
SPECIFICATION Spec
CONSTANTS
  Alphabet = {"(", "*", ")", "space", "newline"}
  MaxLen = 6
  MaxSolid = 8
CHECK_DEADLOCK FALSE
INVARIANTS NeverEatsCode EditIsSeen
