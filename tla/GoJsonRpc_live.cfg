SPECIFICATION FairSpec
CONSTANTS
  Calls = {c1}
  ServerCalls = {s1}
  Unhandled = {}
  Reader = Reader
  None = None
  HasProcess = TRUE
  MaxResponses = 2
  MaxNoise = 0
  MaxWire = 1
INVARIANTS TypeOK ReplyOnce
PROPERTIES QuietAfterStop  CallsReleased LossNoticed 
CHECK_DEADLOCK FALSE
