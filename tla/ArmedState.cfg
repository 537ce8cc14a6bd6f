SPECIFICATION Spec
CONSTANTS
  Stations = {s1, s2}
  AnyStation = any
  Unset = unset
  MaxArms = 3
  MaxLoads = 2
INVARIANTS
  TypeOK
  GateHasItsTimer
  RingArmNeedsPickup
  CamerasSeeGate
PROPERTIES
  OnlyOwnTimerDisarms
CHECK_DEADLOCK FALSE
