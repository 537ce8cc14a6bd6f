SPECIFICATION Spec
CONSTANTS
  Sessions = {s1, s2}
  s1 = s1
  s2 = s2
  a = a
  b = b
  Stations = {a, b}
  StationOf <- Doors
  MaxRings = 2
  MaxFrames = 2
  MaxConns = 2
  MaxRefresh = 1
PROPERTIES EveryRingIsHeard
CHECK_DEADLOCK FALSE
