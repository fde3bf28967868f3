SPECIFICATION FairSpec
CONSTANTS
  Callers = {c1}
  Apps = {a1}
  RpcApps = {a1}
  Disconnectors = {d1, d2}
  Worker = Worker
  None = None
  QueueCap = 1
  MaxEvents = 1
INVARIANT SubscribersKept
PROPERTIES  ConsumerEnds
CHECK_DEADLOCK FALSE
