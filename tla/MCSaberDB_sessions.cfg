CONSTANTS
  a = a
  b = b
  d0 = d0
  d1 = d1
  s1 = s1
  s2 = s2
  Base = {a, b}
  Data = {d0, d1}
  EmptyData = d0
  SessionId = {1, 2}
  Server = {s1}
  CreateArgs <- OwnerCreateArgs
  DeleteArgs <- OwnerDeleteArgs
  SetDataArgs <- OwnerSetDataArgs
  MaxInstance = 4
  MaxProposed = 2
  CheckpointAt = {3}
SPECIFICATION Spec
INVARIANTS
  SessionsFenced
  KillNeverRefused
  KilledOnlyWhenDead
  CloseLeavesNothing
CHECK_DEADLOCK FALSE
