SPECIFICATION Spec
CONSTANTS
  Callers = {c1, c2}
  Apps = {}
  RpcApps = {}
  Disconnectors = {}
  Worker = Worker
  None = None
  QueueCap = 1
  MaxEvents = 4
SYMMETRY CallerSymmetry
INVARIANTS TypeOK DeliveredInOrder SequentialCallsGetOwnAnswer
CHECK_DEADLOCK FALSE
