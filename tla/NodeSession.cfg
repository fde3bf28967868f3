SPECIFICATION Spec
CONSTANTS
  t1 = t1
  t2 = t2
  typed = typed
  every = every
  lifecycle = lifecycle
  Tasks = {t1, t2}
  Handlers = {typed, every, lifecycle}
  Subject <- MCSubject
  Requests = {r1}
  None = None
  MaxTurns = 2
  Limits <- MCLimits
INVARIANTS TypeOK CapabilitiesFollowServer AnswersEarned
PROPERTIES EveryoneCalled  WaitsEnd RequestsSettle
CHECK_DEADLOCK FALSE
