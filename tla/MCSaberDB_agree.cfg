CONSTANTS
  a = a
  b = b
  d0 = d0
  d1 = d1
  s1 = s1
  s2 = s2
  Base = {a, b}
  Data = {d0, d1}
  EmptyData = d0
  SessionId = {1}
  Server = {s1, s2}
  CreateArgs <- TreeCreateArgs
  DeleteArgs <- TreeDeleteArgs
  SetDataArgs <- TreeSetDataArgs
  MaxInstance = 5
  MaxProposed = 2
  CheckpointAt = {3}
SPECIFICATION Spec
SYMMETRY Symmetry
INVARIANTS
  ReplicasAgree
CHECK_DEADLOCK FALSE
