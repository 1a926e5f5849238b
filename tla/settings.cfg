SPECIFICATION Spec
CONSTANTS
  cli = cli
  web = web
  r1 = r1
  r2 = r2
  old = old
  n1 = n1
  n2 = n2
  Operator = {cli}
  Browser = {web}
  Reloader = {r1, r2}
  Request <- Requests
  Disk <- Disks
  Value <- Values
  Network = {old, n1, n2}
  LongNames = {old}
  Unset = Unset
  Bad = Bad
  Keep = Keep
  Torn = Torn
  Fixed = Fixed
  Starting = Starting
SYMMETRY Symmetry
INVARIANTS
  AlwaysLoadable
  OneGameNetwork
PROPERTY OnlyAskedChanges
