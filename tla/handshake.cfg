SPECIFICATION FairSpec
CONSTANTS
  c1 = c1
  c2 = c2
  Conn = {c1, c2}
  MaxConns = 1
  Says <- TwoPeers
  MaxAsked = 2
INVARIANTS
  AnswersMatch
  EstablishedProperly
  SlotsAreHeld
PROPERTIES
  EstablishedStays
  LifeSpec
  SilentPeersGo
  LoopEnds
