CONSTANTS
  MaxConn = 2
  MaxMessage = 0
  Plans <- TwoWrites
SPECIFICATION Spec
INVARIANTS
  RepliesExpected
CHECK_DEADLOCK FALSE
