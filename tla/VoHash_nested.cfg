\* An edit opens a nested comment that nothing closes.
SPECIFICATION Spec
CONSTANTS
  Alphabet = {"(", "*", ")", "x"}
  MaxLen = 6
  MaxSolid = 6
CHECK_DEADLOCK FALSE
INVARIANTS NeverASkippedRebuild
