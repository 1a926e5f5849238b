SPECIFICATION Spec
CONSTANTS
  u1 = u1
  u2 = u2
  ahead = ahead
  still = still
  Client = {u1, u2}
  Axes = {ahead, still}
  Neutral = still
  Nobody = Nobody
INVARIANTS
  CommandsAgree
  AppliedWasSent
  KartFollowsMode
  NothingLeaks
PROPERTIES
  ArmedByEnabling
