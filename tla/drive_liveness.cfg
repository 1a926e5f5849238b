SPECIFICATION FairSpec
CONSTANTS
  u1 = u1
  u2 = u2
  ahead = ahead
  still = still
  Client = {u1}
  Axes = {ahead, still}
  Neutral = still
  Nobody = Nobody
PROPERTIES
  TearDownEnds
  CallsReturn
