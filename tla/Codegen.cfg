SPECIFICATION Spec
CONSTANTS
  PyStack = 8
  Inputs <- Documents
INVARIANTS
  
  
  MethodsFit
CHECK_DEADLOCK FALSE
