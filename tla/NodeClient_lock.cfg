SPECIFICATION Spec
CONSTANTS
  t1 = t1
  t2 = t2
  Tasks = {t1, t2}
  Lists = {l1, l2}
  None = None
  Custom = FALSE
  SessionIds = {s1, s2}
  Options <- MCOptions
  Ops <- MCOps
  MaxOps <- MCMaxOps
  MaxProcs = 2
  MaxConns = 2
INVARIANT OneFetchAtATime
CHECK_DEADLOCK FALSE
SYMMETRY MCSymmetry
