SPECIFICATION Spec
CONSTANTS
  Presses = {p, q}
  Stations = {a, b}
  First = a
  Strategies = {"hybrid"}
  MaxRings = 2
INVARIANTS
  TypeOK
  SuccessMeansOpened
  OpensOnce
  CallIsEnded
CHECK_DEADLOCK FALSE
