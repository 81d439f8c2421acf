CONSTANTS
  Servers = {1, 2, 3}
  Up = {2, 3}
  MaxMove = 1
  MaxFault = 2
  MaxRead = 1
SPECIFICATION FairSpec
INVARIANTS
  TypeOK
  ExpiredTold
  WatchKept
PROPERTIES
  SettlesOnMaster
CHECK_DEADLOCK FALSE
