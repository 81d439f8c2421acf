CONSTANTS
  a = a
  b = b
  d0 = d0
  d1 = d1
  w1 = w1
  w2 = w2
  Base = {a, b}
  Data = {d0, d1}
  EmptyData = d0
  SessionId = {1}
  Watcher = {w1, w2}
  Eager = {w1}
  ReadPath <- Reads
  CreateArgs <- Creates
  DeleteArgs <- Deletes
  SetDataArgs <- Sets
  MaxInstance = 3
SPECIFICATION Spec
INVARIANTS
  TypeOK
  WatchMapsInverse
  WatchNeverMisses
  NoDanglingWatcher
CHECK_DEADLOCK FALSE
