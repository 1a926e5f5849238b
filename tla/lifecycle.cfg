SPECIFICATION Spec
CONSTANTS
  Instance = {d1, d2}
  Caller = {c1}
  None = None
CHECK_DEADLOCK FALSE
INVARIANTS
  Reachable
  ClosedAlone
  PairRestores
PROPERTIES
  StopEnds
