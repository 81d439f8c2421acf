CONSTANTS
  MaxConn = 2
  MaxMessage = 2
  Plans <- SteadyAndBreaking
SPECIFICATION FairSpec
INVARIANTS
  TypeOK
  OneAtATime
  CallsInOrder
  OKMeansExecuted
  MasterTold
  SteadyReplies
  StrictOrder
PROPERTIES
  AllAnswered
  CloseTakesEffect
CHECK_DEADLOCK FALSE
