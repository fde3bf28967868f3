SPECIFICATION Spec
CONSTANTS
  PyStack = 8
  Inputs <- Documents
INVARIANTS
  EveryMethodCallable
CHECK_DEADLOCK FALSE
