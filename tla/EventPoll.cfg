SPECIFICATION FairSpec
CONSTANTS
  a = a
  b = b
  Stations <- MCStations
  NoStation = none
  Reports <- MCReports
  Window = 2
  Page = 2
  Cap = 2
  MaxEvents = 3
  MaxLoads = 1
INVARIANTS
  PollTypeOK
  CacheIsRecentHistory
  EachEventFiredOnce
  ShownTogether
PROPERTIES
  EventsReachEntity
CHECK_DEADLOCK FALSE
