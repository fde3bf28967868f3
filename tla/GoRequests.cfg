SPECIFICATION FairSpec
CONSTANTS
  Requests = {r1}
  HandlerSets <- MCHandlerSets
  MaxVersion = 2
INVARIANTS TypeOK RepliesEarned 
PROPERTY StartedRequestsAnswered
CHECK_DEADLOCK FALSE
