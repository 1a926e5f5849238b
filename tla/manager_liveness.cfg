SPECIFICATION FairSpec
CONSTANTS
  c1 = c1
  c2 = c2
  k1 = k1
  w1 = w1
  Conn = {c1}
  Kart = {k1}
  KartOf <- Single
  NoConn = NoConn
  Waiter = {w1}
  WaitsFor <- WaitForOne
  HasGroupInfo = TRUE
  CanFail = TRUE
  MaxPairings = 2
PROPERTIES
  PairingEnds
  CloseEnds
  WaitersReleased
