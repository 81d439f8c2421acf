CONSTANTS
  Delays = {2}
  Intervals = {1}
  MaxFunc = 2
  MaxTimer = 2
  MaxNow = 3
  MaxBack = 1
  c1 = c1
  Conn = {c1}
  SessionTimeout = 12000
  TickTime = 3000
  MaxDelay = 500
  Grain = 500
SPECIFICATION TimeSpec
INVARIANTS
  TypeOK
  IndexAgrees
  NeverEarly
  BucketsTypeOK
  SilentEntriesDie
  ActiveEntriesLive
PROPERTIES
  FirstInFirstRun
  ExitEnds
  TimersFire
CHECK_DEADLOCK FALSE
