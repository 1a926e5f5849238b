SPECIFICATION Spec
CONSTANTS
  Caller = {c1, c2}
  Command = {m1, m2}
  DialAttempts = 2
  MaxCalls = 3
  None = None
CHECK_DEADLOCK FALSE
INVARIANTS
  OwnUnlessAbandoned
  BothOrNone
PROPERTIES
  CallsEnd
