SPECIFICATION FairSpec
CONSTANTS
  Clients = {c1, c2}
  Closers = {k1, k2}
  Teardowns = {t1}
  Remover = remover
  Watcher = watcher
  NoTask = none
  Switching = TRUE
  Removable = FALSE
  AwaitsPeers = TRUE
  MaxCalls = 2
  MaxSignals = 1
  MaxStarts = 2
INVARIANTS
  TypeOK
  NoLostCall
  NoDialDuringClose
  AttachedAreServed
PROPERTIES
  LastClientFreesCall
  GateClosedFreesCallAfterPeers
CHECK_DEADLOCK FALSE
