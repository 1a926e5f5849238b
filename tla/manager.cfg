SPECIFICATION Spec
CONSTANTS
  c1 = c1
  c2 = c2
  k1 = k1
  w1 = w1
  Conn = {c1, c2}
  Kart = {k1}
  KartOf <- Reconnect
  NoConn = NoConn
  Waiter = {w1}
  WaitsFor <- WaitForOne
  HasGroupInfo = TRUE
  CanFail = TRUE
  MaxPairings = 2
SYMMETRY Symmetry
INVARIANTS
  ModeAgrees
  SessionsAgree
  NoMissedWakeup
PROPERTIES
  LifeSpec
