SPECIFICATION Spec
CONSTANTS
  Instance = {d1}
  Caller = {c1}
  None = None
CHECK_DEADLOCK FALSE
PROPERTY ShutdownEnds
