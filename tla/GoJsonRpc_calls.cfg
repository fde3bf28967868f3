SPECIFICATION Spec
CONSTANTS
  Calls = {c1, c2}
  ServerCalls = {s1}
  Unhandled = {s1}
  Reader = Reader
  None = None
  HasProcess = FALSE
  MaxResponses = 1
  MaxNoise = 1
  MaxWire = 1
SYMMETRY CallSymmetry
INVARIANTS OwnAnswer FramesWhole
PROPERTIES ConnectionPromise
CHECK_DEADLOCK FALSE
