CONSTANTS
  MaxConn = 2
  MaxTerm = 2
  MaxInstance = 2
  Faults = {"propose_fails"}
SPECIFICATION FairSpec
INVARIANTS
  TypeOK
  WeakPointersLive
  Spared
PROPERTIES
  OrphansClosed
CHECK_DEADLOCK FALSE
