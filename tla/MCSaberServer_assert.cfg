CONSTANTS
  MaxConn = 2
  MaxTerm = 0
  MaxInstance = 0
  Faults = {}
SPECIFICATION Spec
INVARIANTS
  AssertSession
CHECK_DEADLOCK FALSE
