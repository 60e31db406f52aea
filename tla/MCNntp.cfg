CONSTANTS
  Caller = {c1, c2}
  MaxConns = 1
  StaleThreshold = 0
  IdleTimeout = 1
  MaxClock = 2
  hA = hA
  hB = hB
  w1 = w1
  w2 = w2
  w3 = w3
  Home = {hA, hB}
  Worker = {w1, w2, w3}
  Metered = {hB}
  Latency = {1, 7}
  Floor = 1
  SlowFactor = 4
  LeaveFactor = 6
  Call = {1}
  NChunks = 1
  N = 3
  MaxWindows = 3
  MaxFaults = 1
SPECIFICATION MCSpec
INVARIANTS SlotAccounting  AcceptedIsTrue
PROPERTIES CallReturns
CHECK_DEADLOCK FALSE
