SPECIFICATION FairSpec
CONSTANTS
  Stations = {s, t}
  Locked = {s}
  Nets = {n, m}
  DefaultNet = n
  Ports = {1, 2}
  DefaultPort = 1
  PickAttempts = 1
  Refreshers = {r1, r2}
  AwaitsPeers = TRUE
  MaxChanges = 4
INVARIANTS
  TypeOK
  DoorsInStep
  OptionsInStep
PROPERTIES
  Settles
CHECK_DEADLOCK FALSE
