SPECIFICATION Spec
CONSTANTS
  v1 = v1
  v2 = v2
  Viewer = {v1, v2}
  WebRtc = {}
  Buffer = 2
  MaxBacklog = 2
  MaxFrames = 5
  Gap = Gap
SYMMETRY Symmetry
INVARIANTS
  HubIsConsistent
  FreshStartsLive
PROPERTY FeedSpec
