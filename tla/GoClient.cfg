SPECIFICATION FairSpec
CONSTANTS
  t1 = t1
  t2 = t2
  Threads = {t1, t2}
  Modes = {"stdio", "tcp", "external"}
  None = None
  MaxOps <- MCMaxOps
  MaxGens = 2
INVARIANTS TypeOK StateSettled 
 
CHECK_DEADLOCK FALSE
