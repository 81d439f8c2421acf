CONSTANTS
  MaxConn = 3
  MaxMessage = 0
  Plans <- OneWrite
SPECIFICATION Spec
INVARIANTS
  OnOwnConnection
CHECK_DEADLOCK FALSE
