SPECIFICATION FairSpec
CONSTANTS
  Callers = {c1}
  Apps = {a1}
  RpcApps = {a1}
  Disconnectors = {}
  Worker = Worker
  None = None
  QueueCap = 1
  MaxEvents = 3
PROPERTY ReadLoopNotBlocked
CHECK_DEADLOCK FALSE
