SPECIFICATION NetSpec
CONSTANTS
  Client = {h1, h2}
  Address <- Addresses
  Subnet <- Leasable
  Gateway = 2
  Broadcast = 5
  FirstLease = 3
  Lease = 2
  None = None
  Restarts = TRUE
  Run = {r1, r2}
INVARIANTS
  PoolIsSound
  NothingOrphaned
PROPERTIES
  NotStolen
  StartEnds
