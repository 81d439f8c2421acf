CONSTANTS
  c1 = c1
  Conn = {c1}
  SessionTimeout = 12000
  TickTime = 3000
  MaxDelay = 500
  Grain = 500
SPECIFICATION BucketsSpec
INVARIANTS
  PingersLive
