SPECIFICATION Spec
CONSTANT
  MaxLines = 3
INVARIANT BufEndsWithNewline
CHECK_DEADLOCK FALSE
