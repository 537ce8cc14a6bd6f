SPECIFICATION FairSpec
CONSTANTS
  Sessions = {s1, s2}
  Indexed = {s1}
  Unloader = unloader
  MaxCalls = 2
  MaxFrames = 2
  MaxLosses = 1
INVARIANTS
  TypeOK
  ExclusiveUnlessDropped
  EndReachesWaiter
PROPERTIES
  LineKept
  EveryRequestReturns
CHECK_DEADLOCK FALSE
